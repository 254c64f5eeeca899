---------------------- MODULE LocksAndConsole_proofs ----------------------
(***************************************************************************)
(* The kernel's mutexes, and what kprintf prints under one of them.        *)
(*                                                                         *)
(* mutex_lock is not atomic, and yet a thread and its handlers keep        *)
(* mutual exclusion: what interrupts a frame between its test and its      *)
(* store is finished before the store, and what interrupts a holder finds  *)
(* the mutex locked.  The proof makes that order of frames its invariant.  *)
(*                                                                         *)
(* kprintf puts what its caller means, whatever the items: the digits of   *)
(* utoa, xtoa and scale are positional notation, get_flags reads back the  *)
(* padding that was written, and the loop over the format comes to each    *)
(* directive with its own argument.  And text_putc shows what is put: the  *)
(* screen is always the end of the page typed so far.                      *)
(***************************************************************************)
EXTENDS KernelLocks, Console, SequenceTheorems, NaturalsInduction, WellFoundedInduction, TLAPS

-----------------------------------------------------------------------------
(* The mutexes                                                             *)

\* The frame has found m free and is about to set it.
Claims(f, m) == f.fn \in Locking /\ f.pc = "set" /\ MutexOf(f.fn) = m

\* A stack s and the mutexes l: holders have their mutex locked, and no frame
\* above a holder has got past the test.
Guarded(s, l) ==
    \A m \in Mutexes : \A i \in 1 .. Len(s) :
        Holds(s[i], m) => /\ l[m]
                          /\ \A j \in 1 .. Len(s) :
                                i < j => ~Holds(s[j], m) /\ ~Claims(s[j], m)

Grounded(s) == Len(s) > 0 /\ s[1].fn = "thread"

IInv ==
    /\ TypeOK
    /\ Grounded(stack)
    /\ Guarded(stack, locked)

\* A new frame that has not passed any test may be pushed.
LEMMA PushGuarded ==
    ASSUME NEW s \in Seq(Frame), NEW l, Guarded(s, l), Grounded(s),
           NEW f \in Frame, f.pc \notin {"set", "inside", "leave"}
    PROVE  /\ Append(s, f) \in Seq(Frame)
           /\ Guarded(Append(s, f), l) /\ Grounded(Append(s, f))
<1>1. /\ Append(s, f) \in Seq(Frame) /\ Len(Append(s, f)) = Len(s) + 1
      /\ Append(s, f)[Len(s) + 1] = f
      /\ \A i \in 1 .. Len(s) : Append(s, f)[i] = s[i]
      /\ Len(s) \in Nat
  OBVIOUS
<1>2. \A m \in Mutexes : ~Holds(f, m) /\ ~Claims(f, m)
  BY DEF Holds, Claims
<1> QED BY <1>1, <1>2 DEF Guarded, Grounded

\* The top frame may move as long as it gains no hold on a mutex.
LEMMA GotoGuarded ==
    ASSUME NEW s \in Seq(Frame), NEW l, Guarded(s, l), Grounded(s),
           NEW k \in Seq(Frame), Len(k) = Len(s), k[Len(s)].fn = s[Len(s)].fn,
           \A i \in 1 .. Len(s) - 1 : k[i] = s[i],
           \A m \in Mutexes : Holds(k[Len(s)], m) => Holds(s[Len(s)], m),
           \A m \in Mutexes : Claims(k[Len(s)], m) => ~l[m]
    PROVE  Guarded(k, l) /\ Grounded(k)
<1>1. Len(s) \in Nat /\ Len(s) > 0
  BY DEF Grounded
<1>2. ASSUME NEW m \in Mutexes, NEW i \in 1 .. Len(k), Holds(k[i], m)
      PROVE  l[m] /\ \A j \in 1 .. Len(k) : i < j => ~Holds(k[j], m) /\ ~Claims(k[j], m)
  <2>1. Holds(s[i], m) /\ l[m]
    BY <1>1, <1>2 DEF Guarded
  <2>2. ASSUME NEW j \in 1 .. Len(k), i < j PROVE ~Holds(k[j], m) /\ ~Claims(k[j], m)
    <3>1. ~Holds(s[j], m) /\ ~Claims(s[j], m)
      BY <2>1, <2>2, <1>1 DEF Guarded
    <3>2. CASE j = Len(s)
      BY <3>1, <3>2, <2>1
    <3>3. CASE j # Len(s)
      BY <3>1, <3>3, <1>1
    <3> QED BY <3>2, <3>3
  <2> QED BY <2>1, <2>2
<1>3. Guarded(k, l)
  BY <1>2 DEF Guarded
<1>4. Grounded(k)
  BY <1>1 DEF Grounded
<1> QED BY <1>3, <1>4

\* The top frame may return, and release its mutex if it holds one.
LEMMA PopGuarded ==
    ASSUME NEW s \in Seq(Frame), NEW l, Guarded(s, l), Grounded(s),
           s[Len(s)].fn # "thread",
           NEW g, \A m \in Mutexes : Holds(s[Len(s)], m) \/ g[m] = l[m]
    PROVE  /\ SubSeq(s, 1, Len(s) - 1) \in Seq(Frame)
           /\ Len(SubSeq(s, 1, Len(s) - 1)) > 0
           /\ Guarded(SubSeq(s, 1, Len(s) - 1), g)
           /\ Grounded(SubSeq(s, 1, Len(s) - 1))
<1> DEFINE n == Len(s)
           k == SubSeq(s, 1, n - 1)
<1>1. n \in Nat /\ n > 1
  BY DEF Grounded
<1>2. /\ k \in Seq(Frame) /\ Len(k) = n - 1
      /\ \A i \in 1 .. n - 1 : k[i] = s[i]
  BY <1>1
<1> HIDE DEF k
<1>3. ASSUME NEW m \in Mutexes, NEW i \in 1 .. Len(k), Holds(k[i], m)
      PROVE  g[m] /\ \A j \in 1 .. Len(k) : i < j => ~Holds(k[j], m) /\ ~Claims(k[j], m)
  <2>1. Holds(s[i], m) /\ i < n /\ i \in 1 .. n
    BY <1>1, <1>2, <1>3
  <2>2. l[m] /\ \A j \in 1 .. n : i < j => ~Holds(s[j], m) /\ ~Claims(s[j], m)
    BY <2>1 DEF Guarded
  <2>3. g[m]
    BY <2>1, <2>2, <1>1
  <2> QED BY <2>2, <2>3, <1>1, <1>2
<1> QED BY <1>1, <1>2, <1>3 DEF Guarded, Grounded, k

-----------------------------------------------------------------------------
(* The steps                                                               *)

LEMMA InitIInv == Init => IInv
<1> SUFFICES ASSUME Init PROVE IInv
  OBVIOUS
<1>1. [fn |-> "thread", pc |-> "run", lines |-> 0] \in Frame
  BY LocksAssumption DEF Frame, Functions, Pcs
<1>2. Idle \in Seq(Frame) /\ Len(Idle) = 1 /\ Idle[1].fn = "thread" /\ Idle[1].pc = "run"
  BY <1>1 DEF Idle
<1>3. stack \in Seq(Frame) /\ Len(stack) = 1 /\ stack[1].fn = "thread" /\ stack[1].pc = "run"
  BY <1>2 DEF Init
<1>4. Grounded(stack)
  BY <1>3 DEF Grounded
<1>5. Guarded(stack, locked)
  BY <1>3 DEF Guarded, Holds, Locking
<1>6. /\ locked \in [Mutexes -> BOOLEAN] /\ irqs \in 0 .. MaxIrqs
      /\ interrupts \in BOOLEAN /\ halted \in BOOLEAN /\ misuse \subseteq Misuses
  <2>1. /\ locked \in [Mutexes -> BOOLEAN] /\ irqs = 0 /\ interrupts = TRUE
        /\ halted = FALSE /\ misuse \subseteq Misuses
    BY DEF Init
  <2>2. irqs \in 0 .. MaxIrqs
    BY <2>1, LocksAssumption
  <2>3. interrupts \in BOOLEAN /\ halted \in BOOLEAN
    BY <2>1, Zenon
  <2> QED BY <2>1, <2>2, <2>3
<1>7. Depth > 0
  BY <1>3 DEF Depth
<1>8. TypeOK
  BY <1>3, <1>6, <1>7 DEF TypeOK
<1> QED BY <1>4, <1>5, <1>8 DEF IInv

\* An action that makes k the stack keeps the invariant if k is guarded.
LEMMA NewStack ==
    ASSUME IInv, NEW k \in Seq(Frame), Grounded(k), Guarded(k, locked'),
           stack' = k,
           locked' \in [Mutexes -> BOOLEAN], interrupts' \in BOOLEAN,
           halted' \in BOOLEAN, irqs' \in 0 .. MaxIrqs,
           UNCHANGED misuse
    PROVE  IInv'
<1>1. Len(stack') > 0
  BY DEF Grounded
<1> QED BY <1>1 DEF IInv, TypeOK, Depth

\* What is known of the stack.
LEMMA StackFacts ==
    ASSUME IInv
    PROVE  /\ stack \in Seq(Frame) /\ Depth \in Nat /\ Depth > 0
           /\ Depth = Len(stack) /\ Top = stack[Len(stack)]
           /\ Top \in Frame
           /\ Grounded(stack) /\ Guarded(stack, locked)
<1>1. stack \in Seq(Frame) /\ Depth = Len(stack) /\ Grounded(stack)
  BY LocksAssumption DEF IInv, TypeOK, Depth
<1>2. Depth \in Nat /\ Depth > 0
  BY <1>1 DEF Grounded
<1> QED BY <1>1, <1>2 DEF Top, IInv

\* The frame on top after Goto(pc).
LEMMA Moved ==
    ASSUME IInv, NEW pc \in Pcs, NEW k, k = Advanced(pc)
    PROVE  /\ k \in Seq(Frame) /\ Len(k) = Len(stack)
           /\ k[Len(stack)].fn = Top.fn /\ k[Len(stack)].pc = pc
           /\ \A i \in 1 .. Len(stack) - 1 : k[i] = stack[i]
<1>1. /\ stack \in Seq(Frame) /\ Depth = Len(stack) /\ Depth \in Nat /\ Depth > 0
      /\ Top = stack[Depth] /\ Top \in Frame
  BY StackFacts
<1> DEFINE new == [Top EXCEPT !.pc = pc]
<1>2. k = [stack EXCEPT ![Depth] = new]
  BY <1>1 DEF Advanced
<1>3. new \in Frame /\ new.fn = Top.fn /\ new.pc = pc
  BY <1>1 DEF Frame
<1> HIDE DEF new
<1>4. k \in Seq(Frame) /\ Len(k) = Len(stack)
  BY <1>1, <1>2, <1>3
<1>5. k[Len(stack)] = new /\ \A i \in 1 .. Len(stack) - 1 : k[i] = stack[i]
  BY <1>1, <1>2
<1> QED BY <1>3, <1>4, <1>5

\* Goto(pc) to a place without a mutex, from any place, keeps the guard.
LEMMA MovedGuarded ==
    ASSUME IInv, NEW pc \in Pcs, NEW k, k = Advanced(pc),
           \/ Top.fn \in Locking /\ Top.pc = "inside" /\ pc = "leave"
           \/ Top.fn \notin Locking
           \/ Top.fn \in Locking /\ pc = "set" /\ ~locked[MutexOf(Top.fn)]
    PROVE  k \in Seq(Frame) /\ Grounded(k) /\ Guarded(k, locked)
<1>1. /\ k \in Seq(Frame) /\ Len(k) = Len(stack)
      /\ k[Len(stack)].fn = Top.fn /\ k[Len(stack)].pc = pc
      /\ \A i \in 1 .. Len(stack) - 1 : k[i] = stack[i]
  BY Moved
<1>2. /\ stack \in Seq(Frame) /\ Top = stack[Len(stack)]
      /\ Grounded(stack) /\ Guarded(stack, locked)
  BY StackFacts
<1> DEFINE new == k[Len(stack)]
<1>3. \A m \in Mutexes : Holds(new, m) => Holds(Top, m)
  BY <1>1 DEF Holds
<1>4. \A m \in Mutexes : Claims(new, m) => ~locked[m]
  BY <1>1 DEF Claims
<1> HIDE DEF new
<1>5. new = k[Len(stack)]
  BY DEF new
<1> QED BY <1>1, <1>2, <1>3, <1>4, <1>5, GotoGuarded

\* The top frame goes on at pc.
LEMMA GotoStep ==
    ASSUME IInv, NEW pc \in Pcs, Goto(pc),
           UNCHANGED locked,
           interrupts' \in BOOLEAN, halted' \in BOOLEAN, irqs' \in 0 .. MaxIrqs,
           UNCHANGED misuse,
           \/ Top.fn \in Locking /\ Top.pc = "inside" /\ pc = "leave"
           \/ Top.fn \notin Locking
           \/ Top.fn \in Locking /\ pc = "set" /\ ~locked[MutexOf(Top.fn)]
    PROVE  IInv'
<1> DEFINE k == Advanced(pc)
<1>1. k \in Seq(Frame) /\ Grounded(k) /\ Guarded(k, locked)
  BY MovedGuarded
<1>2. stack' = k
  BY DEF Goto
<1>3. locked' \in [Mutexes -> BOOLEAN] /\ Guarded(k, locked')
  BY <1>1 DEF IInv, TypeOK
<1> HIDE DEF k
<1> QED BY <1>1, <1>2, <1>3, NewStack

\* The top frame goes on at pc and a new one starts above it.
LEMMA GotoAndPushStep ==
    ASSUME IInv, NEW pc \in Pcs, NEW f \in Frame, GotoAndPush(pc, f),
           f.pc \notin {"set", "inside", "leave"},
           UNCHANGED locked,
           interrupts' \in BOOLEAN, halted' \in BOOLEAN, irqs' \in 0 .. MaxIrqs,
           UNCHANGED misuse,
           \/ Top.fn \in Locking /\ Top.pc = "inside" /\ pc = "leave"
           \/ Top.fn \notin Locking
    PROVE  IInv'
<1> DEFINE k == Advanced(pc)
           n == Append(k, f)
<1>1. k \in Seq(Frame) /\ Grounded(k) /\ Guarded(k, locked)
  BY MovedGuarded
<1>2. stack' = n
  BY DEF GotoAndPush
<1> HIDE DEF k
<1>3. n \in Seq(Frame) /\ Grounded(n) /\ Guarded(n, locked)
  BY <1>1, PushGuarded
<1> HIDE DEF n
<1>4. locked' \in [Mutexes -> BOOLEAN] /\ Guarded(n, locked')
  BY <1>3 DEF IInv, TypeOK
<1> QED BY <1>2, <1>3, <1>4, NewStack

\* A new frame starts above the running one.
LEMMA PushStep ==
    ASSUME IInv, NEW f \in Frame, Push(f), f.pc \notin {"set", "inside", "leave"},
           UNCHANGED locked,
           interrupts' \in BOOLEAN, halted' \in BOOLEAN, irqs' \in 0 .. MaxIrqs,
           UNCHANGED misuse
    PROVE  IInv'
<1> DEFINE n == Append(stack, f)
<1>1. n \in Seq(Frame) /\ Grounded(n) /\ Guarded(n, locked)
  BY StackFacts, PushGuarded
<1>2. stack' = n
  BY DEF Push
<1> HIDE DEF n
<1>3. locked' \in [Mutexes -> BOOLEAN] /\ Guarded(n, locked')
  BY <1>1 DEF IInv, TypeOK
<1> QED BY <1>1, <1>2, <1>3, NewStack

\* The running frame returns; only its own mutex may change.
LEMMA ReturnStep ==
    ASSUME IInv, Top.fn # "thread", Return,
           locked' \in [Mutexes -> BOOLEAN],
           \A m \in Mutexes : Holds(Top, m) \/ locked'[m] = locked[m],
           interrupts' \in BOOLEAN, halted' \in BOOLEAN, irqs' \in 0 .. MaxIrqs,
           UNCHANGED misuse
    PROVE  IInv'
<1> DEFINE k == SubSeq(stack, 1, Len(stack) - 1)
<1>1. k \in Seq(Frame) /\ Grounded(k) /\ Guarded(k, locked')
  BY StackFacts, PopGuarded
<1>2. stack' = k
  BY StackFacts DEF Return
<1> HIDE DEF k
<1> QED BY <1>1, <1>2, NewStack

\* The store of mutex_lock: no frame beneath holds the mutex, because the
\* running one has passed the test.
LEMMA SetStep == ASSUME IInv, mutex_lock_set PROVE IInv'
<1> DEFINE k == Advanced("inside")
           n == Len(stack)
           mtx == MutexOf(Top.fn)
<1>1. /\ k \in Seq(Frame) /\ Len(k) = n
      /\ k[n].fn = Top.fn /\ k[n].pc = "inside"
      /\ \A i \in 1 .. n - 1 : k[i] = stack[i]
  <2>1. "inside" \in Pcs
    BY DEF Pcs
  <2> QED BY <2>1, Moved
<1>2. /\ stack \in Seq(Frame) /\ n \in Nat /\ n > 0 /\ Top = stack[n]
      /\ Grounded(stack) /\ Guarded(stack, locked)
  BY StackFacts
<1>3. /\ Top.fn \in Locking /\ Top.pc = "set"
      /\ locked' = [locked EXCEPT ![mtx] = TRUE]
      /\ stack' = k
      /\ UNCHANGED <<interrupts, halted, irqs, misuse>>
  BY DEF mutex_lock_set, At, Goto
<1>4. mtx \in Mutexes /\ locked \in [Mutexes -> BOOLEAN]
  BY DEF MutexOf, Mutexes, IInv, TypeOK
<1>5. /\ locked' \in [Mutexes -> BOOLEAN] /\ locked'[mtx]
      /\ \A m \in Mutexes : m # mtx => locked'[m] = locked[m]
  BY <1>3, <1>4
<1>6. Claims(Top, mtx) /\ \A m \in Mutexes : Holds(k[n], m) => m = mtx
  BY <1>1, <1>3 DEF Claims, Holds
<1>7. \A m \in Mutexes : ~Claims(k[n], m)
  BY <1>1 DEF Claims
<1> HIDE DEF k, n, mtx
<1>8. Grounded(k)
  BY <1>1, <1>2 DEF Grounded, n
<1>9. Guarded(k, locked')
  <2> SUFFICES ASSUME NEW m \in Mutexes, NEW i \in 1 .. Len(k), Holds(k[i], m)
               PROVE  /\ locked'[m]
                      /\ \A j \in 1 .. Len(k) :
                            i < j => ~Holds(k[j], m) /\ ~Claims(k[j], m)
    BY DEF Guarded
  <2>1. CASE i = n
    BY <2>1, <1>1, <1>2, <1>5, <1>6
  <2>2. CASE i # n
    <3>1. i \in 1 .. n - 1 /\ Holds(stack[i], m) /\ i < n
      BY <2>2, <1>1, <1>2
    <3>2. locked[m] /\ \A j \in 1 .. n : i < j => ~Holds(stack[j], m) /\ ~Claims(stack[j], m)
      BY <3>1, <1>2 DEF Guarded, n
    <3>3. m # mtx
      BY <3>1, <3>2, <1>2, <1>6
    <3>4. ASSUME NEW j \in 1 .. Len(k), i < j PROVE ~Holds(k[j], m) /\ ~Claims(k[j], m)
      <4>1. CASE j = n
        BY <4>1, <3>3, <1>6, <1>7
      <4>2. CASE j # n
        BY <4>2, <3>2, <3>4, <1>1, <1>2
      <4> QED BY <4>1, <4>2
    <3> QED BY <3>2, <3>3, <3>4, <1>5
  <2> QED BY <2>1, <2>2
<1>10. /\ interrupts' \in BOOLEAN /\ halted' \in BOOLEAN /\ irqs' \in 0 .. MaxIrqs
       /\ UNCHANGED misuse
  BY <1>3 DEF IInv, TypeOK
<1> QED BY <1>1, <1>3, <1>5, <1>8, <1>9, <1>10, NewStack

\* heap_dump counts its lines in its own frame and prints one above it.
LEMMA DumpStep == ASSUME IInv, exc_dumps_line PROVE IInv'
<1> DEFINE n == Len(stack)
           new == [Top EXCEPT !.lines = Top.lines + 1]
           k == NextLine
           f == Call("kprintf")
           s == Append(k, f)
<1>1. /\ stack \in Seq(Frame) /\ n \in Nat /\ n > 0 /\ Depth = n
      /\ Top = stack[n] /\ Top \in Frame
      /\ Grounded(stack) /\ Guarded(stack, locked)
  BY StackFacts
<1>2. /\ Top.fn = "exc" /\ Top.pc = "dump" /\ Top.lines < HeapLines
      /\ stack' = s
      /\ UNCHANGED <<locked, interrupts, halted, irqs, misuse>>
  BY DEF exc_dumps_line, At
<1>3. k = [stack EXCEPT ![n] = new]
  BY <1>1 DEF NextLine
<1>4. new \in Frame /\ new.fn = "exc" /\ new.pc = "dump"
  <2>1. Top = [fn |-> Top.fn, pc |-> Top.pc, lines |-> Top.lines] /\ Top.lines \in 0 .. HeapLines
    BY <1>1 DEF Frame
  <2>2. Top.lines + 1 \in 0 .. HeapLines
    BY <1>2, <2>1, LocksAssumption
  <2>3. new = [fn |-> "exc", pc |-> "dump", lines |-> Top.lines + 1]
    BY <1>2, <2>1
  <2>4. "exc" \in Functions /\ "dump" \in Pcs
    BY DEF Functions, Pcs
  <2> HIDE DEF new
  <2> QED BY <2>2, <2>3, <2>4 DEF Frame
<1>5. f \in Frame /\ f.pc = "test"
  BY LocksAssumption DEF Frame, Call, Functions, Locking, Pcs
<1> HIDE DEF k, f, new
<1>6. /\ k \in Seq(Frame) /\ Len(k) = n /\ k[n] = new
      /\ \A i \in 1 .. n - 1 : k[i] = stack[i]
  BY <1>1, <1>3, <1>4
<1>7. \A m \in Mutexes : ~Holds(k[n], m) /\ ~Claims(k[n], m)
  BY <1>4, <1>6 DEF Holds, Claims
<1>8. k[n].fn = stack[n].fn
  BY <1>1, <1>2, <1>4, <1>6
<1>9. Guarded(k, locked) /\ Grounded(k)
  BY <1>1, <1>6, <1>7, <1>8, GotoGuarded
<1>10. s \in Seq(Frame) /\ Grounded(s) /\ Guarded(s, locked)
  BY <1>5, <1>6, <1>9, PushGuarded
<1> HIDE DEF s
<1>11. /\ locked' \in [Mutexes -> BOOLEAN] /\ Guarded(s, locked')
       /\ interrupts' \in BOOLEAN /\ halted' \in BOOLEAN /\ irqs' \in 0 .. MaxIrqs
       /\ UNCHANGED misuse
  BY <1>2, <1>10 DEF IInv, TypeOK
<1> QED BY <1>2, <1>10, <1>11, NewStack

\* One step of a single thread and its handlers.
LEMMA NextIInv == ASSUME IInv, [Next]_vars PROVE IInv'
<1> USE LocksAssumption
<1>1. /\ locked \in [Mutexes -> BOOLEAN] /\ interrupts \in BOOLEAN
      /\ halted \in BOOLEAN /\ irqs \in 0 .. MaxIrqs /\ Top \in Frame
  BY StackFacts DEF IInv, TypeOK
<1>2. Pcs = {"test", "set", "inside", "leave", "run", "dump", "die", "message"}
  BY DEF Pcs
<1>3. \A fn \in Locking : Call(fn) \in Frame /\ Call(fn).pc = "test"
  BY DEF Call, Frame, Functions, Pcs
<1>4. \A fn \in {"irq", "exc", "panic"} :
         /\ [fn |-> fn, pc |-> "run", lines |-> 0] \in Frame
         /\ [fn |-> fn, pc |-> "run", lines |-> 0].pc = "run"
  BY DEF Frame, Functions, Pcs
<1>5. "kprintf" \in Locking /\ Locking = {"kmalloc", "kfree", "kprintf"}
  BY DEF Locking
<1>6. CASE mutex_lock_test
  BY <1>1, <1>2, <1>6, GotoStep DEF mutex_lock_test, At
<1>7. CASE mutex_lock_set
  BY <1>7, SetStep
<1>8. CASE mutex_unlock
  <2>1. /\ Top.fn \in Locking /\ Top.pc = "leave" /\ Return
        /\ locked' = [locked EXCEPT ![MutexOf(Top.fn)] = FALSE]
        /\ UNCHANGED <<interrupts, halted, irqs, misuse>>
    BY <1>8 DEF mutex_unlock, At
  <2>2. locked' \in [Mutexes -> BOOLEAN]
    BY <1>1, <2>1
  <2>3. \A m \in Mutexes : Holds(Top, m) \/ locked'[m] = locked[m]
    BY <1>1, <2>1 DEF Holds
  <2> QED BY <1>1, <1>5, <2>1, <2>2, <2>3, ReturnStep
<1>9. CASE finish
  BY <1>1, <1>2, <1>9, GotoStep DEF finish, At
<1>10. CASE kmalloc_out_of_memory
  BY <1>1, <1>2, <1>3, <1>5, <1>10, GotoAndPushStep DEF kmalloc_out_of_memory, At
<1>11. CASE kfree_assertion_fails
  BY <1>1, <1>2, <1>4, <1>5, <1>11, GotoAndPushStep DEF kfree_assertion_fails, At
<1>12. CASE kfree_null
  BY <1>1, <1>12, ReturnStep DEF kfree_null, At
<1>13. CASE irq_handler_calls
  <2>1. PICK fn \in Locking : GotoAndPush("leave", Call(fn))
    BY <1>13 DEF irq_handler_calls
  <2>2. Top.fn \notin Locking /\ UNCHANGED <<locked, interrupts, halted, irqs, misuse>>
    BY <1>13, <1>5 DEF irq_handler_calls, At
  <2> QED BY <1>1, <1>2, <1>3, <2>1, <2>2, GotoAndPushStep
<1>14. CASE irq_returns
  BY <1>1, <1>14, ReturnStep DEF irq_returns, At
<1>15. CASE exc_reports
  <2>1. Top.fn \notin Locking /\ UNCHANGED <<locked, interrupts, halted, irqs, misuse>>
    BY <1>15, <1>5 DEF exc_reports, At
  <2>2. CASE Goto("dump")
    BY <1>1, <1>2, <2>1, <2>2, GotoStep
  <2>3. CASE GotoAndPush("dump", Call("kprintf"))
    BY <1>1, <1>2, <1>3, <1>5, <2>1, <2>3, GotoAndPushStep
  <2> QED BY <1>15, <2>2, <2>3 DEF exc_reports
<1>16. CASE exc_dumps_line
  BY <1>16, DumpStep
<1>17. CASE exc_panics
  BY <1>1, <1>2, <1>4, <1>5, <1>17, GotoAndPushStep DEF exc_panics, At
<1>18. CASE panic_headline
  BY <1>1, <1>2, <1>3, <1>5, <1>18, GotoAndPushStep DEF panic_headline, At
<1>19. CASE panic_halts \/ UNCHANGED vars
  <2>1. UNCHANGED <<stack, locked, interrupts, irqs, misuse>> /\ halted' \in BOOLEAN
    BY <1>1, <1>19 DEF panic_halts, vars
  <2> QED BY <2>1 DEF IInv, TypeOK, Depth
<1>20. CASE thread_calls
  <2>1. PICK fn \in Locking : Push(Call(fn))
    BY <1>20 DEF thread_calls
  <2> QED BY <1>1, <1>3, <1>20, <2>1, PushStep DEF thread_calls
<1>21. CASE irq_arrives
  <2>1. irqs' \in 0 .. MaxIrqs
    BY <1>1, <1>21 DEF irq_arrives
  <2> QED BY <1>1, <1>4, <1>21, <2>1, PushStep DEF irq_arrives
<1>22. CASE exception_strikes
  BY <1>1, <1>4, <1>22, PushStep DEF exception_strikes
<1> QED BY <1>6, <1>7, <1>8, <1>9, <1>10, <1>11, <1>12, <1>13, <1>14, <1>15, <1>16,
           <1>17, <1>18, <1>19, <1>20, <1>21, <1>22 DEF Next, Step

-----------------------------------------------------------------------------
(* The theorems: any number of nested handlers and faults.                  *)

\* The order of frames that the mutexes rely on is kept by every step.
THEOREM Invariance == Spec => []IInv
<1> USE DEF Spec
<1>1. Init => IInv
  BY InitIInv
<1>2. IInv /\ [Next]_vars => IInv'
  BY NextIInv
<1> QED BY <1>1, <1>2, PTL

\* Types of the variables, whatever interrupts what.
THEOREM TypeCorrect == Spec => []TypeOK
<1>1. IInv => TypeOK
  BY DEF IInv
<1> QED BY <1>1, Invariance, PTL

\* mutex_lock and mutex_unlock of sync.c exclude on one processor as long as
\* there is no second thread, although the test and the store are apart.
THEOREM Exclusion == Spec => []MutualExclusion
<1>1. ASSUME IInv PROVE MutualExclusion
  <2> SUFFICES ASSUME NEW m \in Mutexes, NEW i \in 1 .. Depth, NEW j \in 1 .. Depth,
                      Holds(stack[i], m), Holds(stack[j], m)
               PROVE  i = j
    BY DEF MutualExclusion
  <2>1. ~(i < j) /\ ~(j < i)
    BY <1>1 DEF IInv, Guarded, Depth
  <2>2. Depth \in Nat
    BY <1>1, StackFacts
  <2> QED BY <2>1, <2>2
<1> QED BY <1>1, Invariance, PTL

\* mutex_unlock never frees a mutex under a frame that still holds it.
THEOREM HoldersKeepTheLock == Spec => []HeldIsLocked
<1>1. ASSUME IInv PROVE HeldIsLocked
  BY <1>1 DEF IInv, Guarded, Depth, HeldIsLocked
<1> QED BY <1>1, Invariance, PTL

-----------------------------------------------------------------------------
(* A panic is final: above a panic that has turned interrupts off there is *)
(* no interrupt handler, whose iret would turn them on again.              *)

Message(f) == f.fn = "panic" /\ f.pc = "message"

Quiet ==
    \A i \in 1 .. Len(stack) :
        Message(stack[i]) =>
            /\ ~interrupts
            /\ \A j \in 1 .. Len(stack) : i < j => stack[j].fn # "irq"

\* From the stack s to the stack k only the top frame moves, calls or returns.
TopOnly(s, k) ==
    /\ Len(k) \in Len(s) - 1 .. Len(s) + 1
    /\ \A j \in 1 .. Len(s) - 1 : k[j] = s[j]
    /\ Len(k) >= Len(s) => k[Len(s)].fn = s[Len(s)].fn

\* A step that turns interrupts on is an iret; one that takes an interrupt
\* finds them on; only panic_headline brings a panic to its message.
Stepped ==
    /\ TopOnly(stack, stack')
    /\ Message(Top) => Len(stack') >= Depth /\ stack'[Depth] = Top
    /\ Len(stack') >= Depth /\ Message(stack'[Depth]) =>
          Message(Top) \/ (~interrupts' /\ stack'[Len(stack')].fn # "irq")
    /\ Len(stack') > Depth => ~Message(stack'[Len(stack')])
    /\ Len(stack') > Depth /\ stack'[Len(stack')].fn = "irq" => interrupts
    /\ irqs' # irqs => interrupts
    /\ interrupts' => interrupts \/ Top.fn = "irq"

\* The top frame goes on at pc without leaving or reaching a message.
LEMMA MovedStep ==
    ASSUME IInv, NEW pc \in Pcs, Goto(pc), pc # "message", ~Message(Top),
           irqs' = irqs, interrupts' = interrupts
    PROVE  Stepped
<1> DEFINE k == Advanced(pc)
<1>1. /\ k \in Seq(Frame) /\ Len(k) = Len(stack)
      /\ k[Len(stack)].fn = Top.fn /\ k[Len(stack)].pc = pc
      /\ \A i \in 1 .. Len(stack) - 1 : k[i] = stack[i]
  BY Moved
<1>2. stack' = k
  BY DEF Goto
<1> HIDE DEF k
<1> QED BY <1>1, <1>2, StackFacts DEF Stepped, TopOnly, Message

\* The top frame goes on at pc and calls f.
LEMMA CalledStep ==
    ASSUME IInv, NEW pc \in Pcs, NEW f \in Frame, GotoAndPush(pc, f), ~Message(Top),
           f.fn # "irq", ~Message(f),
           irqs' = irqs, interrupts' => interrupts,
           pc = "message" => ~interrupts'
    PROVE  Stepped
<1> DEFINE k == Advanced(pc)
           n == Append(k, f)
<1>1. /\ k \in Seq(Frame) /\ Len(k) = Len(stack)
      /\ k[Len(stack)].fn = Top.fn /\ k[Len(stack)].pc = pc
      /\ \A i \in 1 .. Len(stack) - 1 : k[i] = stack[i]
  BY Moved
<1>2. stack' = n
  BY DEF GotoAndPush
<1> HIDE DEF k
<1>3. /\ Len(n) = Len(stack) + 1 /\ n[Len(stack) + 1] = f
      /\ \A i \in 1 .. Len(stack) : n[i] = k[i]
  BY <1>1, StackFacts
<1> HIDE DEF n
<1>4. /\ Len(stack) \in Nat /\ Depth = Len(stack) /\ Depth > 0 /\ Top = stack[Depth]
      /\ stack'[Depth].fn = Top.fn /\ stack'[Depth].pc = pc
      /\ Len(stack') = Depth + 1 /\ stack'[Depth + 1] = f
  BY <1>1, <1>2, <1>3, StackFacts
<1>5. TopOnly(stack, stack')
  BY <1>1, <1>2, <1>3, <1>4 DEF TopOnly
<1>6. Message(stack'[Depth]) => ~interrupts'
  BY <1>4 DEF Message
<1>7. stack'[Len(stack')] = f /\ Len(stack') > Depth /\ Len(stack') >= Depth
  BY <1>4
<1>8. /\ Len(stack') > Depth => ~Message(stack'[Len(stack')])
      /\ Len(stack') > Depth /\ stack'[Len(stack')].fn = "irq" => interrupts
      /\ Len(stack') >= Depth /\ Message(stack'[Depth]) =>
            Message(Top) \/ (~interrupts' /\ stack'[Len(stack')].fn # "irq")
      /\ Message(Top) => Len(stack') >= Depth /\ stack'[Depth] = Top
  BY <1>6, <1>7, Zenon
<1>9. (irqs' # irqs => interrupts) /\ (interrupts' => interrupts \/ Top.fn = "irq")
  BY Zenon
<1> QED BY <1>5, <1>8, <1>9 DEF Stepped

\* A new frame f starts above the running one.
LEMMA PushedStep ==
    ASSUME IInv, NEW f \in Frame, Push(f), ~Message(f),
           f.fn = "irq" => interrupts, irqs' # irqs => interrupts,
           interrupts' => interrupts
    PROVE  Stepped
<1> DEFINE n == Append(stack, f)
<1>1. /\ Len(n) = Len(stack) + 1 /\ n[Len(stack) + 1] = f
      /\ \A i \in 1 .. Len(stack) : n[i] = stack[i]
  BY StackFacts
<1>2. stack' = n
  BY DEF Push
<1> HIDE DEF n
<1>3. /\ Len(stack) \in Nat /\ Depth = Len(stack) /\ Depth > 0 /\ Top = stack[Depth]
      /\ stack'[Depth] = Top
      /\ Len(stack') = Depth + 1 /\ stack'[Len(stack')] = f
      /\ Len(stack') > Depth /\ Len(stack') >= Depth
  BY <1>1, <1>2, StackFacts
<1>4. TopOnly(stack, stack')
  BY <1>1, <1>2, <1>3 DEF TopOnly
<1>5. /\ ~Message(stack'[Len(stack')])
      /\ stack'[Len(stack')].fn = "irq" => interrupts
      /\ Message(stack'[Depth]) => Message(Top)
  BY <1>3, Zenon
<1>6. (irqs' # irqs => interrupts) /\ (interrupts' => interrupts \/ Top.fn = "irq")
  BY Zenon
<1>7. Message(Top) => Len(stack') >= Depth /\ stack'[Depth] = Top
  BY <1>3
<1>8. Len(stack') > Depth => ~Message(stack'[Len(stack')])
  BY <1>5
<1>9. Len(stack') > Depth /\ stack'[Len(stack')].fn = "irq" => interrupts
  BY <1>5
<1>10. Len(stack') >= Depth /\ Message(stack'[Depth]) =>
          Message(Top) \/ (~interrupts' /\ stack'[Len(stack')].fn # "irq")
  BY <1>5
<1> QED BY <1>4, <1>6, <1>7, <1>8, <1>9, <1>10 DEF Stepped

\* The running frame returns.
LEMMA ReturnedStep ==
    ASSUME IInv, Return, ~Message(Top), Top.fn # "thread", irqs' = irqs,
           interrupts' => interrupts \/ Top.fn = "irq"
    PROVE  Stepped
<1> DEFINE k == SubSeq(stack, 1, Len(stack) - 1)
<1>1. /\ Len(k) = Len(stack) - 1
      /\ \A i \in 1 .. Len(stack) - 1 : k[i] = stack[i]
  BY StackFacts
<1>2. stack' = k
  BY StackFacts DEF Return
<1> HIDE DEF k
<1> QED BY <1>1, <1>2, StackFacts DEF Stepped, TopOnly
\* heap_dump counts a line and prints it.
LEMMA DumpedStep == ASSUME IInv, exc_dumps_line PROVE Stepped
<1> DEFINE n == Len(stack)
           k == NextLine
           f == Call("kprintf")
           s == Append(k, f)
<1>1. /\ stack \in Seq(Frame) /\ n \in Nat /\ n > 0 /\ Depth = n
      /\ Top = stack[n] /\ Top \in Frame
  BY StackFacts
<1>2. /\ Top.fn = "exc" /\ Top.pc = "dump" /\ stack' = s
      /\ UNCHANGED <<locked, interrupts, halted, irqs, misuse>>
  BY DEF exc_dumps_line, At
<1>3. f.fn = "kprintf"
  BY DEF Call
<1>4. /\ Len(k) = n /\ k[n].fn = Top.fn /\ k[n].pc = Top.pc
      /\ \A i \in 1 .. n - 1 : k[i] = stack[i]
  BY <1>1 DEF NextLine, Frame
<1> HIDE DEF k, f
<1>5. /\ Len(s) = n + 1 /\ s[n + 1] = f
      /\ \A i \in 1 .. n : s[i] = k[i]
  <2>1. DOMAIN k = 1 .. n
    BY <1>1 DEF NextLine, k
  <2> QED BY <1>1, <1>4, <2>1
<1> HIDE DEF s, n
<1> QED BY <1>1, <1>2, <1>3, <1>4, <1>5 DEF Stepped, TopOnly, Message, n

LEMMA NextStepped == ASSUME IInv, Next PROVE Stepped
<1>1. Top \in Frame
  BY StackFacts
<1>2. Pcs = {"test", "set", "inside", "leave", "run", "dump", "die", "message"}
  BY DEF Pcs
<1>3. \A fn \in Locking : /\ Call(fn) \in Frame /\ Call(fn).fn # "irq"
                          /\ Call(fn).pc = "test"
  BY LocksAssumption DEF Call, Frame, Functions, Pcs, Locking
<1>4. \A fn \in {"irq", "exc", "panic"} :
         /\ [fn |-> fn, pc |-> "run", lines |-> 0] \in Frame
         /\ [fn |-> fn, pc |-> "run", lines |-> 0].pc = "run"
         /\ [fn |-> fn, pc |-> "run", lines |-> 0].fn = fn
  BY LocksAssumption DEF Frame, Functions, Pcs
<1>5. "kprintf" \in Locking /\ Locking = {"kmalloc", "kfree", "kprintf"}
  BY DEF Locking
<1>6. CASE mutex_lock_test
  BY <1>2, <1>6, MovedStep DEF mutex_lock_test, At, Message
<1>7. CASE mutex_lock_set
  BY <1>2, <1>7, MovedStep DEF mutex_lock_set, At, Message
<1>8. CASE mutex_unlock
  BY <1>5, <1>8, ReturnedStep DEF mutex_unlock, At, Message
<1>9. CASE finish
  BY <1>2, <1>9, MovedStep DEF finish, At, Message
<1>10. CASE kmalloc_out_of_memory
  BY <1>2, <1>3, <1>5, <1>10, CalledStep DEF kmalloc_out_of_memory, At, Message
<1>11. CASE kfree_assertion_fails
  BY <1>2, <1>4, <1>11, CalledStep DEF kfree_assertion_fails, At, Message
<1>12. CASE kfree_null
  BY <1>5, <1>12, ReturnedStep DEF kfree_null, At, Message
<1>13. CASE irq_handler_calls
  <2>1. PICK fn \in Locking : GotoAndPush("leave", Call(fn))
    BY <1>13, LocksAssumption DEF irq_handler_calls
  <2>2. Top.fn = "irq" /\ UNCHANGED <<locked, interrupts, halted, irqs, misuse>>
    BY <1>13 DEF irq_handler_calls, At
  <2> QED BY <1>2, <1>3, <2>1, <2>2, CalledStep DEF Message
<1>14. CASE irq_returns
  BY <1>14, ReturnedStep DEF irq_returns, At, Message
<1>15. CASE exc_reports
  <2>1. Top.fn = "exc" /\ UNCHANGED <<locked, interrupts, halted, irqs, misuse>>
    BY <1>15 DEF exc_reports, At
  <2>2. CASE Goto("dump")
    BY <1>2, <2>1, <2>2, MovedStep DEF Message
  <2>3. CASE GotoAndPush("dump", Call("kprintf"))
    BY <1>2, <1>3, <1>5, <2>1, <2>3, CalledStep DEF Message
  <2> QED BY <1>15, <2>2, <2>3 DEF exc_reports
<1>16. CASE exc_dumps_line
  BY <1>16, DumpedStep
<1>17. CASE exc_panics
  BY <1>2, <1>4, <1>17, CalledStep DEF exc_panics, At, Message
<1>18. CASE panic_headline
  BY <1>2, <1>3, <1>5, <1>18, CalledStep DEF panic_headline, At, Message
<1>19. CASE panic_halts
  <2>1. stack' = stack /\ irqs' = irqs /\ interrupts' = interrupts
    BY <1>19 DEF panic_halts
  <2>2. /\ Depth \in Nat /\ Depth = Len(stack) /\ Top = stack[Depth]
        /\ Top.fn = "panic"
    BY <1>19, StackFacts DEF panic_halts, At
  <2>3. TopOnly(stack, stack')
    BY <2>1, <2>2 DEF TopOnly
  <2> QED BY <2>1, <2>2, <2>3 DEF Stepped
<1>20. CASE thread_calls
  <2>1. PICK fn \in Locking : Push(Call(fn))
    BY <1>20 DEF thread_calls
  <2> QED BY <1>3, <1>20, <2>1, PushedStep DEF thread_calls, Message
<1>21. CASE irq_arrives
  BY <1>4, <1>21, PushedStep DEF irq_arrives, Message
<1>22. CASE exception_strikes
  BY <1>4, <1>22, PushedStep DEF exception_strikes, Message
<1> QED BY <1>6, <1>7, <1>8, <1>9, <1>10, <1>11, <1>12, <1>13, <1>14, <1>15, <1>16,
           <1>17, <1>18, <1>19, <1>20, <1>21, <1>22 DEF Next, Step

LEMMA QuietStep == ASSUME IInv, Quiet, [Next]_vars PROVE Quiet'
<1>1. CASE UNCHANGED vars
  BY <1>1 DEF vars, Quiet
<1>2. CASE Next
  <2>1. Stepped
    BY <1>2, NextStepped
  <2>2. /\ Depth = Len(stack) /\ Depth \in Nat /\ Depth > 0 /\ Top = stack[Depth]
    BY StackFacts
  <2> SUFFICES ASSUME NEW i \in 1 .. Len(stack'), Message(stack'[i])
               PROVE  /\ ~interrupts'
                      /\ \A j \in 1 .. Len(stack') : i < j => stack'[j].fn # "irq"
    BY DEF Quiet
  <2>3. /\ Len(stack') \in Depth - 1 .. Depth + 1
        /\ \A j \in 1 .. Depth - 1 : stack'[j] = stack[j]
        /\ Len(stack') >= Depth => stack'[Depth].fn = stack[Depth].fn
    BY <2>1, <2>2 DEF Stepped, TopOnly
  <2>4. i <= Depth
    BY <2>1, <2>2, <2>3 DEF Stepped
  <2>5. CASE i < Depth
    <3>1. Message(stack[i]) /\ i \in 1 .. Len(stack)
      BY <2>2, <2>3, <2>5
    <3>2. ~interrupts /\ \A j \in 1 .. Depth : i < j => stack[j].fn # "irq"
      BY <3>1, <2>2 DEF Quiet
    <3>3. ~interrupts'
      BY <3>2, <2>1, <2>2, <2>5 DEF Stepped
    <3>4. \A j \in 1 .. Len(stack') : i < j => stack'[j].fn # "irq"
      BY <3>2, <2>1, <2>2, <2>3 DEF Stepped
    <3> QED BY <3>3, <3>4
  <2>6. CASE i = Depth
    <3>1. Top.fn = "panic"
      BY <2>2, <2>3, <2>6 DEF Message
    <3>2. ~interrupts'
      <4>1. CASE Message(Top)
        BY <4>1, <3>1, <2>1, <2>2 DEF Quiet, Stepped
      <4>2. CASE ~Message(Top)
        BY <4>2, <2>1, <2>6 DEF Stepped
      <4> QED BY <4>1, <4>2
    <3>3. \A j \in 1 .. Len(stack') : i < j => stack'[j].fn # "irq"
      <4> SUFFICES ASSUME NEW j \in 1 .. Len(stack'), i < j, stack'[j].fn = "irq" PROVE FALSE
        OBVIOUS
      <4>1. j = Len(stack') /\ Len(stack') > Depth
        BY <2>2, <2>3, <2>6
      <4>2. interrupts
        BY <4>1, <2>1 DEF Stepped
      <4>3. ~Message(Top)
        BY <4>2, <2>2 DEF Quiet
      <4> QED BY <4>1, <4>3, <2>1, <2>2, <2>6 DEF Stepped
    <3> QED BY <3>2, <3>3
  <2> QED BY <2>2, <2>4, <2>5, <2>6
<1> QED BY <1>1, <1>2
\* panic turns interrupts off, prints and halts; nothing beneath it goes on.
THEOREM PanicsAreFinal == Spec => PanicIsFinal
<1>1. Init => Quiet
  BY DEF Init, Idle, Quiet, Message
<1>2. IInv /\ Quiet /\ [Next]_vars => Quiet'
  BY QuietStep
<1>3. IInv /\ Quiet /\ [Next]_vars => [PanicKeeps]_vars
  <2> SUFFICES ASSUME IInv, Quiet, Next,
                      NEW i \in 1 .. Depth, Message(stack[i])
               PROVE  /\ irqs' = irqs
                      /\ Len(stack') >= i
                      /\ SubSeq(stack', 1, i) = SubSeq(stack, 1, i)
    BY DEF Message, PanicKeeps
  <2>1. Stepped
    BY NextStepped
  <2>2. /\ Depth = Len(stack) /\ Depth \in Nat /\ Depth > 0 /\ Top = stack[Depth]
        /\ stack \in Seq(Frame)
    BY StackFacts
  <2>3. irqs' = irqs
    BY <2>1, <2>2 DEF Stepped, Quiet
  <2>4. IInv'
    BY NextIInv
  <2>5. stack' \in Seq(Frame)
    BY <2>4 DEF IInv, TypeOK
  <2>6. Len(stack') >= i /\ \A j \in 1 .. i : stack'[j] = stack[j]
    <3>1. Len(stack') >= Depth - 1 /\ \A j \in 1 .. Depth - 1 : stack'[j] = stack[j]
      BY <2>1, <2>2, <2>5 DEF Stepped, TopOnly
    <3>2. i = Depth => Len(stack') >= Depth /\ stack'[Depth] = Top
      BY <2>1, <2>2 DEF Stepped
    <3> QED BY <3>1, <3>2, <2>2, <2>5
  <2> QED BY <2>2, <2>3, <2>5, <2>6
<1>4. Spec => []IInv
  BY Invariance
<1> QED BY <1>1, <1>2, <1>3, <1>4, PTL DEF Spec, PanicIsFinal

-----------------------------------------------------------------------------
(* Numbers                                                                 *)

\* A set of naturals has a least one.
LEMMA Least ==
    ASSUME NEW S \in SUBSET Nat, S # {} PROVE \E m \in S : \A k \in S : m <= k
<1> DEFINE R == OpToRel(<, Nat)
<1>1. \A x, y \in Nat : y < x => <<y, x>> \in R
  BY DEF OpToRel
<1>2. IsWellFoundedOn(R, Nat)
  BY NatLessThanWellFounded
<1> HIDE DEF R
<1>3. PICK x \in S : \A y \in S : ~(<<y, x>> \in R)
  BY <1>2, WFMin
<1>4. \A y \in S : ~(y < x)
  BY <1>1, <1>3
<1> QED BY <1>3, <1>4

\* Strong induction: a set of naturals that holds every n below which it holds all.
LEMMA Strong ==
    ASSUME NEW S, \A n \in Nat : (\A m \in Nat : m < n => m \in S) => n \in S
    PROVE  Nat \subseteq S
<1> SUFFICES ASSUME ~(Nat \subseteq S) PROVE FALSE
  OBVIOUS
<1>1. PICK n \in Nat \ S : \A m \in Nat \ S : n <= m
  BY Least
<1>2. \A m \in Nat : m < n => m \in S
  BY <1>1
<1> QED BY <1>1, <1>2

\* Induction: a set that holds 0 and with every natural the next.
LEMMA Inductive ==
    ASSUME NEW S, 0 \in S, \A n \in Nat : n \in S => n + 1 \in S
    PROVE  Nat \subseteq S
<1>1. ASSUME NEW n \in Nat, \A m \in Nat : m < n => m \in S PROVE n \in S
  <2>1. CASE n = 0
    BY <2>1
  <2>2. CASE n # 0
    <3>1. n - 1 \in Nat /\ n - 1 < n /\ (n - 1) + 1 = n
      BY <2>2
    <3> QED BY <1>1, <3>1
  <2> QED BY <2>1, <2>2
<1> QED BY <1>1, Strong

\* Quotient and remainder.
LEMMA Division ==
    ASSUME NEW n \in Nat, NEW b \in Nat \ {0}
    PROVE  n \div b \in Nat /\ n % b \in 0 .. b - 1 /\ n = (b * (n \div b)) + (n % b)
OBVIOUS

\* A number loses when it is divided.
LEMMA Divided ==
    ASSUME NEW n \in Nat \ {0}, NEW b \in Nat, b > 1
    PROVE  n \div b \in Nat /\ n \div b < n
<1> DEFINE q == n \div b
<1>1. q \in Nat /\ n % b \in 0 .. b - 1 /\ n = (b * q) + (n % b)
  <2>1. b \in Nat \ {0}
    OBVIOUS
  <2> QED BY <2>1, Division
<1> HIDE DEF q
<1>2. PICK d \in Nat : b = 2 + d
  <2>1. b - 2 \in Nat /\ b = 2 + (b - 2)
    OBVIOUS
  <2> QED BY <2>1
<1>3. b * q = (2 * q) + (d * q) /\ d * q \in Nat
  BY <1>1, <1>2
<1>4. q < n
  BY <1>1, <1>3
<1> QED BY <1>1, <1>4 DEF q

-----------------------------------------------------------------------------
(* The recursive functions exist                                           *)

Powers(f, n) == f = [i \in 0 .. n |-> IF i = 0 THEN 1 ELSE 16 * f[i - 1]]

\* The recursive definition of Power has a solution on every 0 .. n.
LEMMA PowersExist == \A n \in Nat : \E f : Powers(f, n)
<1> DEFINE S == {n \in Nat : \E f : Powers(f, n)}
<1>1. 0 \in S
  <2> DEFINE f == [i \in 0 .. 0 |-> 1]
  <2>1. Powers(f, 0)
    BY DEF Powers
  <2> QED BY <2>1
<1>2. ASSUME NEW n \in Nat, n \in S PROVE n + 1 \in S
  <2>1. PICK f : Powers(f, n)
    BY <1>2
  <2> DEFINE g == [i \in 0 .. n + 1 |-> IF i = n + 1 THEN 16 * f[n] ELSE f[i]]
  <2>2. \A i \in 0 .. n + 1 : g[i] = IF i = 0 THEN 1 ELSE 16 * g[i - 1]
    <3> SUFFICES ASSUME NEW i \in 0 .. n + 1 PROVE g[i] = IF i = 0 THEN 1 ELSE 16 * g[i - 1]
      OBVIOUS
    <3>1. CASE i = n + 1
      BY <3>1
    <3>2. CASE i # n + 1
      <4>1. i \in 0 .. n /\ g[i] = f[i] /\ (i # 0 => i - 1 \in 0 .. n /\ g[i - 1] = f[i - 1])
        BY <3>2
      <4> QED BY <2>1, <4>1 DEF Powers
    <3> QED BY <3>1, <3>2
  <2>3. Powers(g, n + 1)
    BY <2>2 DEF Powers
  <2> QED BY <2>3
<1> HIDE DEF S
<1>3. Nat \subseteq S
  BY <1>1, <1>2, Inductive
<1> QED BY <1>3 DEF S

\* Rows of C cells lie one after the other.
LEMMA Rows ==
    ASSUME NEW C \in Nat, NEW a \in Nat, NEW b \in Nat, a < b
    PROVE  (a * C) + C <= b * C
<1>1. PICK d \in Nat : b = a + 1 + d
  <2>1. b - a - 1 \in Nat /\ b = a + 1 + (b - a - 1)
    OBVIOUS
  <2> QED BY <2>1
<1>2. b * C = (a * C) + C + (d * C)
  BY <1>1
<1>3. d * C \in Nat /\ a * C \in Nat
  OBVIOUS
<1> QED BY <1>2, <1>3

\* Division by a larger number.
LEMMA Small ==
    ASSUME NEW n \in Nat, NEW b \in Nat, n < b
    PROVE  n % b = n /\ n \div b = 0
<1> DEFINE q == n \div b
           r == n % b
<1>1. b \in Nat \ {0}
  OBVIOUS
<1>2. q \in Nat /\ r \in 0 .. b - 1 /\ n = (b * q) + r
  BY <1>1, Division
<1> HIDE DEF q, r
<1>3. q = 0
  <2> SUFFICES ASSUME q # 0 PROVE FALSE
    OBVIOUS
  <2>1. (0 * b) + b <= q * b /\ q * b = b * q /\ b * q \in Nat
    BY <1>1, <1>2, Rows
  <2> QED BY <1>1, <1>2, <2>1
<1>4. r = n
  BY <1>1, <1>2, <1>3
<1> QED BY <1>3, <1>4 DEF q, r

\* The powers of 16, by their recursion.
LEMMA PowerDef ==
    /\ Power[0] = 1
    /\ \A n \in 1 .. Nibbles : Power[n] = 16 * Power[n - 1]
<1>1. Nibbles \in Nat
  BY ConsoleAssumption
<1>2. \E f : f = [i \in 0 .. Nibbles |-> IF i = 0 THEN 1 ELSE 16 * f[i - 1]]
  BY <1>1, PowersExist DEF Powers
<1>3. Power = [i \in 0 .. Nibbles |-> IF i = 0 THEN 1 ELSE 16 * Power[i - 1]]
  BY <1>2 DEF Power
<1>4. 0 \in 0 .. Nibbles /\ \A n \in 1 .. Nibbles : n \in 0 .. Nibbles /\ n # 0
  BY <1>1
<1> QED BY <1>3, <1>4

LEMMA PowerType == \A n \in 0 .. Nibbles : Power[n] \in Nat \ {0}
<1> DEFINE S == {n \in Nat : n \in 0 .. Nibbles => Power[n] \in Nat \ {0}}
<1>1. Nibbles \in Nat
  BY ConsoleAssumption
<1>2. 0 \in S
  BY PowerDef
<1>3. ASSUME NEW n \in Nat, n \in S PROVE n + 1 \in S
  <2> SUFFICES ASSUME n + 1 \in 0 .. Nibbles PROVE Power[n + 1] \in Nat \ {0}
    OBVIOUS
  <2>1. n + 1 \in 1 .. Nibbles /\ n \in 0 .. Nibbles /\ (n + 1) - 1 = n
    BY <1>1
  <2>2. Power[n + 1] = 16 * Power[n] /\ Power[n] \in Nat \ {0}
    BY <1>3, <2>1, PowerDef
  <2> QED BY <2>2
<1> HIDE DEF S
<1>4. Nat \subseteq S
  BY <1>2, <1>3, Inductive
<1> QED BY <1>1, <1>4 DEF S

\* The integers of the machine.
LEMMA UintType == UINT \in Nat \ {0} /\ UINT - 1 \in Nat
<1>1. Nibbles \in 0 .. Nibbles
  BY ConsoleAssumption
<1>2. UINT \in Nat \ {0}
  BY <1>1, PowerType DEF UINT
<1> QED BY <1>2

\* A sequence with one more at its front or at its end.
Grown(front, s, d) == IF front THEN <<d>> \o s ELSE Append(s, d)
Growing(f, front, b, t, n) ==
    f = [m \in 0 .. n |-> IF m = 0 THEN <<>> ELSE Grown(front, f[m \div b], t[m])]

\* A function defined from its value at the quotient exists: what LowDigits and
\* the digits of Numeral are.
LEMMA GrowingExists ==
    ASSUME NEW front, NEW b \in Nat, b > 1, NEW t
    PROVE  \A n \in Nat : \E f : Growing(f, front, b, t, n)
<1> DEFINE S == {n \in Nat : \E f : Growing(f, front, b, t, n)}
<1>1. 0 \in S
  <2> DEFINE f == [m \in 0 .. 0 |-> <<>>]
  <2>1. Growing(f, front, b, t, 0)
    BY DEF Growing
  <2> QED BY <2>1
<1>2. ASSUME NEW n \in Nat, n \in S PROVE n + 1 \in S
  <2>1. PICK f : Growing(f, front, b, t, n)
    BY <1>2
  <2> DEFINE last == Grown(front, f[(n + 1) \div b], t[n + 1])
             g == [m \in 0 .. n + 1 |-> IF m = n + 1 THEN last ELSE f[m]]
  <2>2. \A m \in 1 .. n + 1 : m \div b \in 0 .. n /\ m \div b < m
    <3> SUFFICES ASSUME NEW m \in 1 .. n + 1 PROVE m \div b \in 0 .. n /\ m \div b < m
      OBVIOUS
    <3>1. m \div b \in Nat /\ m \div b < m
      BY Divided
    <3> DEFINE q == m \div b
    <3> HIDE DEF q
    <3>2. q \in Nat /\ q < m => q \in 0 .. n
      OBVIOUS
    <3> QED BY <3>1, <3>2 DEF q
  <2> HIDE DEF last
  <2>3. \A m \in 0 .. n + 1 : g[m] = IF m = 0 THEN <<>> ELSE Grown(front, g[m \div b], t[m])
    <3> SUFFICES ASSUME NEW m \in 0 .. n + 1
                 PROVE  g[m] = IF m = 0 THEN <<>> ELSE Grown(front, g[m \div b], t[m])
      OBVIOUS
    <3>0. \A k \in 0 .. n : k \in 0 .. n + 1 /\ k # n + 1
      OBVIOUS
    <3>1. \A k \in 0 .. n : g[k] = f[k]
      BY <3>0
    <3>2. m # 0 => m \in 1 .. n + 1 /\ g[m \div b] = f[m \div b]
      BY <2>2, <3>1
    <3>3. CASE m = n + 1
      BY <3>2, <3>3 DEF last
    <3>4. CASE m # n + 1
      <4>1. m \in 0 .. n /\ g[m] = f[m]
        BY <3>1, <3>4
      <4>2. f[m] = IF m = 0 THEN <<>> ELSE Grown(front, f[m \div b], t[m])
        BY <2>1, <4>1 DEF Growing
      <4> QED BY <3>2, <4>1, <4>2
    <3> QED BY <3>3, <3>4
  <2>4. Growing(g, front, b, t, n + 1)
    BY <2>3 DEF Growing
  <2> QED BY <2>4
<1> HIDE DEF S
<1>3. Nat \subseteq S
  BY <1>1, <1>2, Inductive
<1> QED BY <1>3 DEF S

\* The digits of utoa, by their recursion.
LEMMA LowDigitsDef ==
    /\ LowDigits[0] = <<>>
    /\ \A x \in 1 .. UINT - 1 : LowDigits[x] = <<nchar(x % 10)>> \o LowDigits[x \div 10]
<1> DEFINE N == UINT - 1
           t == [x \in 0 .. N |-> nchar(x % 10)]
<1>1. N \in Nat
  BY UintType
<1> HIDE DEF t, N
<1>2. PICK f : Growing(f, TRUE, 10, t, N)
  <2>1. 10 \in Nat /\ 10 > 1
    OBVIOUS
  <2> QED BY <1>1, <2>1, GrowingExists
<1>3. f = [x \in 0 .. N |-> IF x = 0 THEN <<>> ELSE <<nchar(x % 10)>> \o f[x \div 10]]
  BY <1>2 DEF Growing, Grown, t
<1>4. LowDigits = [x \in 0 .. N |-> IF x = 0 THEN <<>> ELSE <<nchar(x % 10)>> \o LowDigits[x \div 10]]
  BY <1>3 DEF LowDigits, N
<1>5. 0 \in 0 .. N /\ \A x \in 1 .. N : x \in 0 .. N /\ x # 0
  BY <1>1
<1> QED BY <1>4, <1>5 DEF N

\* The digits of a number: what Numeral writes behind the zeros.
Digits(base) == CHOOSE f : f = [m \in 0 .. UINT - 1 |->
    IF m = 0 THEN <<>> ELSE Append(f[m \div base], Digit[(m % base) + 1])]

\* The digits of positional notation, by their recursion.
LEMMA DigitsDef ==
    ASSUME NEW base \in Nat, base > 1
    PROVE  /\ Digits(base)[0] = <<>>
           /\ \A m \in 1 .. UINT - 1 :
                 Digits(base)[m] = Append(Digits(base)[m \div base], Digit[(m % base) + 1])
           /\ \A n, width : Numeral(n, base, width) =
                 Zeros(AtLeastOne(width) - Len(Digits(base)[n])) \o Digits(base)[n]
<1> DEFINE N == UINT - 1
           t == [m \in 0 .. N |-> Digit[(m % base) + 1]]
           D == Digits(base)
<1>1. N \in Nat
  BY UintType
<1>2. PICK f : Growing(f, FALSE, base, t, N)
  BY <1>1, GrowingExists
<1>3. f = [m \in 0 .. N |-> IF m = 0 THEN <<>> ELSE Append(f[m \div base], Digit[(m % base) + 1])]
  BY <1>2 DEF Growing, Grown
<1>4. D = [m \in 0 .. N |-> IF m = 0 THEN <<>> ELSE Append(D[m \div base], Digit[(m % base) + 1])]
  BY <1>3 DEF Digits
<1>5. 0 \in 0 .. N /\ \A m \in 1 .. N : m \in 0 .. N /\ m # 0
  BY <1>1
<1>6. \A n, width : Numeral(n, base, width) = Zeros(AtLeastOne(width) - Len(D[n])) \o D[n]
  BY DEF Numeral, Digits
<1> HIDE DEF D
<1>7. D[0] = <<>> /\ \A m \in 1 .. N : D[m] = Append(D[m \div base], Digit[(m % base) + 1])
  BY <1>4, <1>5
<1> QED BY <1>6, <1>7 DEF D

-----------------------------------------------------------------------------
(* The conversions write numerals                                          *)

\* Characters that leave the cursor on the screen: all but the backspace.
Ink == Chars \ {BS}

\* nchar gives the digits that are written.
LEMMA DigitChars ==
    /\ \A d \in 0 .. 15 : nchar(d) = Digit[d + 1] /\ nchar(d) \in Ink
    /\ nchar(0) = ZERO /\ ZERO \in Ink
<1>1. ASSUME NEW d \in 0 .. 15 PROVE nchar(d) = Digit[d + 1] /\ nchar(d) \in Ink
  <2>1. CASE d \in {0, 1, 2, 3, 4}
    BY <2>1 DEF nchar, Digit, Ink, Chars, BS, ZERO
  <2>2. CASE d \in {5, 6, 7, 8, 9}
    BY <2>2 DEF nchar, Digit, Ink, Chars, BS, ZERO
  <2>3. CASE d \in {10, 11, 12, 13, 14, 15}
    BY <2>3 DEF nchar, Digit, Ink, Chars, BS, ZERO
  <2> QED BY <2>1, <2>2, <2>3
<1> QED BY <1>1 DEF nchar, Ink, Chars, BS, ZERO

\* The zeros of the padding.
LEMMA ZerosType ==
    ASSUME NEW n \in Int
    PROVE  /\ Zeros(n) \in Seq(Ink)
           /\ Len(Zeros(n)) = IF n > 0 THEN n ELSE 0
           /\ \A i \in 1 .. Len(Zeros(n)) : Zeros(n)[i] = ZERO
<1>1. CASE n \in Nat
  BY <1>1, DigitChars DEF Zeros
<1>2. CASE n \notin Nat
  <2>1. 1 .. n = {}
    BY <1>2
  <2>2. Zeros(n) = [i \in {} |-> ZERO]
    BY <2>1 DEF Zeros
  <2>3. [i \in {} |-> ZERO] = <<>>
    OBVIOUS
  <2> QED BY <1>2, <2>2, <2>3
<1> QED BY <1>1, <1>2

\* reverse() puts the first character behind the others.
LEMMA ReverseCons ==
    ASSUME NEW S, NEW s \in Seq(S), NEW d \in S
    PROVE  Reverse(<<d>> \o s) = Append(Reverse(s), d) /\ Reverse(s) \in Seq(S) /\ Len(Reverse(s)) = Len(s)
<1> DEFINE l == <<d>> \o s
           a == Reverse(l)
           r == Reverse(s)
           b == Append(r, d)
           k == Len(s)
<1>1. l \in Seq(S) /\ Len(l) = k + 1 /\ l[1] = d /\ \A i \in 1 .. k : l[i + 1] = s[i]
  OBVIOUS
<1>2. r = [i \in 1 .. k |-> s[(k - i) + 1]] /\ a = [i \in 1 .. k + 1 |-> l[((k + 1) - i) + 1]]
  BY <1>1 DEF Reverse
<1>3. k \in Nat /\ \A i \in 1 .. k : (k - i) + 1 \in 1 .. k
  OBVIOUS
<1>4. r \in Seq(S) /\ Len(r) = k
  BY <1>2, <1>3
<1> HIDE DEF l, a, r, k
<1>5. b = [i \in 1 .. k + 1 |-> IF i = k + 1 THEN d ELSE r[i]]
  <2> DEFINE e == [i \in 1 .. k + 1 |-> IF i = k + 1 THEN d ELSE r[i]]
  <2>1. b \in Seq(S) /\ Len(b) = k + 1 /\ b[k + 1] = d /\ \A i \in 1 .. k : b[i] = r[i]
    BY <1>3, <1>4
  <2>2. e \in Seq(S) /\ Len(e) = k + 1
    BY <1>3, <1>4
  <2>3. \A i \in 1 .. k + 1 : i = k + 1 \/ i \in 1 .. k
    BY <1>3
  <2>4. \A i \in 1 .. k + 1 : b[i] = e[i]
    BY <2>1, <2>3
  <2> HIDE DEF b, e
  <2>5. b = e
    BY <1>3, <2>1, <2>2, <2>4
  <2> QED BY <2>5 DEF e
<1>6. ASSUME NEW i \in 1 .. k + 1 PROVE a[i] = b[i]
  <2>1. CASE i = k + 1
    BY <1>1, <1>2, <1>3, <1>5, <2>1
  <2>2. CASE i # k + 1
    <3>1. i \in 1 .. k /\ ((k + 1) - i) + 1 = ((k - i) + 1) + 1
      BY <1>3, <2>2
    <3>2. a[i] = s[(k - i) + 1] /\ b[i] = s[(k - i) + 1]
      BY <1>1, <1>2, <1>3, <1>5, <2>2, <3>1
    <3> QED BY <3>2
  <2> QED BY <2>1, <2>2
<1>7. a = b
  BY <1>2, <1>5, <1>6
<1> QED BY <1>4, <1>7 DEF l, a, r, k

\* reverse() keeps the characters and their number.
LEMMA ReverseType ==
    ASSUME NEW S, NEW s \in Seq(S)
    PROVE  Reverse(s) \in Seq(S) /\ Len(Reverse(s)) = Len(s)
<1> DEFINE k == Len(s)
           r == Reverse(s)
<1>1. k \in Nat /\ \A i \in 1 .. k : (k - i) + 1 \in 1 .. k
  OBVIOUS
<1>2. r = [i \in 1 .. k |-> s[(k - i) + 1]]
  BY DEF Reverse
<1> HIDE DEF k, r
<1>3. \A i \in 1 .. k : s[(k - i) + 1] \in S
  BY <1>1 DEF k
<1> QED BY <1>1, <1>2, <1>3 DEF k, r

\* The zeros that utoa appends come to stand in front.
LEMMA ReverseZeros ==
    ASSUME NEW s \in Seq(Ink), NEW n \in Int
    PROVE  Reverse(s \o Zeros(n)) = Zeros(n) \o Reverse(s)
<1> DEFINE z == Zeros(n)
           m == Len(z)
           k == Len(s)
           l == s \o z
           r == Reverse(s)
           a == Reverse(l)
           b == z \o r
<1>1. z \in Seq(Ink) /\ m \in Nat /\ k \in Nat /\ \A i \in 1 .. m : z[i] = ZERO
  BY ZerosType
<1> HIDE DEF z
<1>2. /\ l \in Seq(Ink) /\ Len(l) = k + m
      /\ \A i \in 1 .. k : l[i] = s[i]
      /\ \A i \in k + 1 .. k + m : l[i] = z[i - k]
  BY <1>1
<1>3. r = [i \in 1 .. k |-> s[(k - i) + 1]] /\ a = [i \in 1 .. k + m |-> l[((k + m) - i) + 1]]
  BY <1>2 DEF Reverse
<1>4. \A i \in 1 .. k : (k - i) + 1 \in 1 .. k
  BY <1>1
<1>5. r \in Seq(Ink) /\ Len(r) = k
  BY <1>1, <1>3, <1>4
<1> HIDE DEF l, a, r, k, m
<1>6. /\ b \in Seq(Ink) /\ Len(b) = m + k
      /\ \A i \in 1 .. m : b[i] = z[i]
      /\ \A i \in m + 1 .. m + k : b[i] = r[i - m]
  <2>1. z \in Seq(Ink) /\ Len(z) = m /\ r \in Seq(Ink) /\ Len(r) = k /\ m \in Nat /\ k \in Nat
    BY <1>1, <1>5 DEF m
  <2>2. b \in Seq(Ink) /\ Len(b) = m + k
    BY <2>1
  <2>3. \A i \in 1 .. m : b[i] = z[i]
    BY <2>1
  <2>4. \A i \in m + 1 .. m + k : b[i] = r[i - m]
    BY <2>1
  <2> QED BY <2>2, <2>3, <2>4
<1> HIDE DEF b
<1>7. ASSUME NEW i \in 1 .. k + m PROVE a[i] = b[i]
  <2>1. CASE i <= m
    <3>1. ((k + m) - i) + 1 \in k + 1 .. k + m /\ (((k + m) - i) + 1) - k \in 1 .. m /\ i \in 1 .. m
      BY <1>1, <2>1
    <3> QED BY <1>1, <1>2, <1>3, <1>6, <3>1
  <2>2. CASE ~(i <= m)
    <3>1. /\ ((k + m) - i) + 1 \in 1 .. k /\ i \in m + 1 .. m + k /\ i - m \in 1 .. k
          /\ (k - (i - m)) + 1 = ((k + m) - i) + 1
      BY <1>1, <2>2
    <3>2. b[i] = r[i - m] /\ r[i - m] = s[(k - (i - m)) + 1]
      BY <1>3, <1>6, <3>1
    <3>3. a[i] = l[((k + m) - i) + 1] /\ l[((k + m) - i) + 1] = s[((k + m) - i) + 1]
      BY <1>2, <1>3, <3>1
    <3> QED BY <3>1, <3>2, <3>3
  <2> QED BY <2>1, <2>2
<1>8. a \in Seq(Ink) /\ Len(a) = k + m
  BY <1>2, ReverseType DEF a
<1>9. a = b
  BY <1>1, <1>6, <1>7, <1>8
<1> QED BY <1>9 DEF a, b, l, r, z

\* The set that holds what strong induction on the numerals of base b shows.
LEMMA DecimalDigits ==
    \A x \in 0 .. UINT - 1 : /\ LowDigits[x] \in Seq(Ink)
                             /\ Digits(10)[x] = Reverse(LowDigits[x])
<1> DEFINE N == UINT - 1
           Right(x) == LowDigits[x] \in Seq(Ink) /\ Digits(10)[x] = Reverse(LowDigits[x])
           S == {x \in Nat : x \in 0 .. N => Right(x)}
<1>1. N \in Nat
  BY UintType
<1>2. ASSUME NEW x \in Nat, \A y \in Nat : y < x => y \in S PROVE x \in S
  <2> SUFFICES ASSUME x \in 0 .. N PROVE Right(x)
    OBVIOUS
  <2>0. /\ Digits(10)[0] = <<>>
        /\ \A m \in 1 .. N : Digits(10)[m] = Append(Digits(10)[m \div 10], Digit[(m % 10) + 1])
    <3>1. 10 \in Nat /\ 10 > 1
      OBVIOUS
    <3> QED BY <3>1, DigitsDef
  <2>1. CASE x = 0
    <3>1. LowDigits[x] = <<>> /\ Digits(10)[x] = <<>>
      BY <2>0, <2>1, LowDigitsDef
    <3>2. Reverse(<<>>) = <<>>
      BY DEF Reverse
    <3> QED BY <3>1, <3>2
  <2>2. CASE x # 0
    <3> DEFINE y == x \div 10
               d == x % 10
    <3>1. x \in 1 .. N /\ x \in Nat \ {0} /\ 10 \in Nat \ {0} /\ 10 > 1
      BY <1>1, <2>2
    <3>2. y \in Nat /\ y < x
      BY <3>1, Divided
    <3>3. d \in 0 .. 9
      BY <3>1, Division
    <3> HIDE DEF S
    <3>4. y \in S
      BY <1>2, <3>2
    <3> HIDE DEF y
    <3>5. y \in 0 .. N
      <4> HIDE DEF N
      <4> QED BY <1>1, <3>1, <3>2
    <3>6. Right(y)
      BY <3>4, <3>5 DEF S
    <3> HIDE DEF d
    <3>7. nchar(d) = Digit[d + 1] /\ nchar(d) \in Ink
      BY <3>3, DigitChars
    <3>8. LowDigits[x] = <<nchar(d)>> \o LowDigits[y] /\ Digits(10)[x] = Append(Digits(10)[y], Digit[d + 1])
      BY <2>0, <3>1, LowDigitsDef DEF d, y
    <3>9. Reverse(LowDigits[x]) = Append(Reverse(LowDigits[y]), nchar(d))
      BY <3>6, <3>7, <3>8, ReverseCons
    <3>10. LowDigits[x] \in Seq(Ink)
      BY <3>6, <3>7, <3>8
    <3> QED BY <3>6, <3>7, <3>8, <3>9, <3>10
  <2> QED BY <2>1, <2>2
<1> HIDE DEF S
<1>3. Nat \subseteq S
  BY <1>2, Strong
<1> HIDE DEF Right
<1>4. \A x \in 0 .. N : Right(x)
  BY <1>1, <1>3 DEF S
<1> QED BY <1>4 DEF Right

\* utoa writes a number in positional notation, with zeros up to its padding.
LEMMA DecimalRight ==
    ASSUME NEW x \in 0 .. UINT - 1, NEW pad \in 0 .. 9, NEW width \in 0 .. 9,
           AtLeastOne(pad) = AtLeastOne(width)
    PROVE  utoa(x, pad) = Numeral(x, 10, width) /\ Numeral(x, 10, width) \in Seq(Ink)
<1> DEFINE l == LowDigits[x]
           d == Digits(10)[x]
           n == AtLeastOne(pad) - Len(l)
<1>1. l \in Seq(Ink) /\ d = Reverse(l)
  BY DecimalDigits
<1>2. Numeral(x, 10, width) = Zeros(AtLeastOne(width) - Len(d)) \o d
  <2>1. 10 \in Nat /\ 10 > 1
    OBVIOUS
  <2> QED BY <2>1, DigitsDef
<1> HIDE DEF l, d
<1>3. Len(d) = Len(l) /\ d \in Seq(Ink)
  BY <1>1, ReverseType
<1>4. n \in Int
  BY <1>1 DEF AtLeastOne
<1>5. Numeral(x, 10, width) = Zeros(n) \o Reverse(l)
  BY <1>1, <1>2, <1>3
<1>6. utoa(x, pad) = Reverse(l \o Zeros(n))
  BY DEF utoa, l
<1> HIDE DEF n
<1>7. utoa(x, pad) = Zeros(n) \o Reverse(l)
  BY <1>1, <1>4, <1>6, ReverseZeros
<1>8. Zeros(n) \o Reverse(l) \in Seq(Ink)
  BY <1>1, <1>3, <1>4, ZerosType
<1> QED BY <1>5, <1>7, <1>8

\* The lowest nibble and the rest of a number.
LEMMA Nibbled ==
    ASSUME NEW x \in 0 .. UINT - 1
    PROVE  x \div 16 \in 0 .. UINT - 1 /\ (x # 0 => x \div 16 < x)
<1> DEFINE N == UINT - 1
           q == x \div 16
<1>1. N \in Nat
  BY UintType
<1> HIDE DEF N
<1>2. CASE x = 0
  BY <1>1, <1>2
<1>3. CASE x # 0
  <2>1. x \in Nat \ {0} /\ 16 \in Nat /\ 16 > 1
    BY <1>1, <1>3 DEF N
  <2>2. q \in Nat /\ q < x
    BY <2>1, Divided
  <2> HIDE DEF q
  <2>3. q \in 0 .. N
    BY <1>1, <2>2 DEF N
  <2> QED BY <2>2, <2>3 DEF q, N
<1> QED BY <1>2, <1>3 DEF N

Shifting(f, x, n) == f = [i \in 0 .. n |-> IF i = 0 THEN x ELSE f[i - 1] \div 16]

\* The recursive definition of Shifted has a solution on every 0 .. n.
LEMMA ShiftingExists == \A x : \A n \in Nat : \E f : Shifting(f, x, n)
<1> SUFFICES ASSUME NEW x PROVE \A n \in Nat : \E f : Shifting(f, x, n)
  OBVIOUS
<1> DEFINE S == {n \in Nat : \E f : Shifting(f, x, n)}
<1>1. 0 \in S
  <2> DEFINE f == [i \in 0 .. 0 |-> x]
  <2>1. Shifting(f, x, 0)
    BY DEF Shifting
  <2> QED BY <2>1
<1>2. ASSUME NEW n \in Nat, n \in S PROVE n + 1 \in S
  <2>1. PICK f : Shifting(f, x, n)
    BY <1>2
  <2> DEFINE g == [i \in 0 .. n + 1 |-> IF i = n + 1 THEN f[n] \div 16 ELSE f[i]]
  <2>2. \A i \in 0 .. n + 1 : g[i] = IF i = 0 THEN x ELSE g[i - 1] \div 16
    <3> SUFFICES ASSUME NEW i \in 0 .. n + 1 PROVE g[i] = IF i = 0 THEN x ELSE g[i - 1] \div 16
      OBVIOUS
    <3>1. CASE i = n + 1
      BY <3>1
    <3>2. CASE i # n + 1
      <4>1. i \in 0 .. n /\ g[i] = f[i] /\ (i # 0 => i - 1 \in 0 .. n /\ g[i - 1] = f[i - 1])
        BY <3>2
      <4> QED BY <2>1, <4>1 DEF Shifting
    <3> QED BY <3>1, <3>2
  <2>3. Shifting(g, x, n + 1)
    BY <2>2 DEF Shifting
  <2> QED BY <2>3
<1> HIDE DEF S
<1>3. Nat \subseteq S
  BY <1>1, <1>2, Inductive
<1> QED BY <1>3 DEF S

\* Shifting, by its recursion.
LEMMA ShiftedDef ==
    /\ Nibbles \in Nat \ {0}
    /\ \A x : Shifted(x, 0) = x
    /\ \A x : \A i \in 1 .. Nibbles : Shifted(x, i) = Shifted(x, i - 1) \div 16
<1>1. Nibbles \in Nat \ {0}
  BY ConsoleAssumption
<1>2. 0 \in 0 .. Nibbles /\ \A i \in 1 .. Nibbles : i \in 0 .. Nibbles /\ i # 0
  BY <1>1
<1>3. ASSUME NEW x
      PROVE  /\ Shifted(x, 0) = x
             /\ \A i \in 1 .. Nibbles : Shifted(x, i) = Shifted(x, i - 1) \div 16
  <2> DEFINE f == CHOOSE f : Shifting(f, x, Nibbles)
  <2>1. Shifting(f, x, Nibbles)
    BY <1>1, ShiftingExists
  <2>2. \A i : Shifted(x, i) = f[i]
    BY DEF Shifted, Shifting
  <2> HIDE DEF f
  <2>3. f[0] = x /\ \A i \in 1 .. Nibbles : f[i] = f[i - 1] \div 16
    BY <1>2, <2>1 DEF Shifting
  <2> QED BY <2>2, <2>3
<1> QED BY <1>1, <1>3

\* The nibbles of x \div 16 are those of x above the lowest.
LEMMA ShiftedDown ==
    ASSUME NEW x
    PROVE  \A i \in Nat : i < Nibbles => Shifted(x, i + 1) = Shifted(x \div 16, i)
<1> DEFINE f == [i \in 0 .. Nibbles |-> Shifted(x, i)]
           g == [i \in 0 .. Nibbles |-> Shifted(x \div 16, i)]
           S == {i \in Nat : i < Nibbles => f[i + 1] = g[i]}
<1>1. Nibbles \in Nat \ {0}
  BY ShiftedDef
<1>2. f[0] = x /\ g[0] = x \div 16 /\ \A i \in 1 .. Nibbles : f[i] = f[i - 1] \div 16 /\ g[i] = g[i - 1] \div 16
  <2>1. 0 \in 0 .. Nibbles /\ \A i \in 1 .. Nibbles : i \in 0 .. Nibbles /\ i - 1 \in 0 .. Nibbles
    BY <1>1
  <2> QED BY <2>1, ShiftedDef
<1> HIDE DEF f, g
<1>3. 0 \in S
  <2>1. 1 \in 1 .. Nibbles /\ 1 - 1 = 0 /\ 0 + 1 = 1
    BY <1>1
  <2>2. f[1] = g[0]
    BY <1>2, <2>1
  <2> QED BY <2>1, <2>2
<1>4. ASSUME NEW i \in Nat, i \in S PROVE i + 1 \in S
  <2> SUFFICES ASSUME i + 1 < Nibbles PROVE f[(i + 1) + 1] = g[i + 1]
    OBVIOUS
  <2>1. /\ i < Nibbles /\ i + 1 \in 1 .. Nibbles /\ (i + 1) + 1 \in 1 .. Nibbles
        /\ (i + 1) - 1 = i /\ ((i + 1) + 1) - 1 = i + 1
    BY <1>1
  <2>2. f[(i + 1) + 1] = f[i + 1] \div 16 /\ g[i + 1] = g[i] \div 16
    BY <1>2, <2>1
  <2>3. f[i + 1] = g[i]
    BY <1>4, <2>1
  <2> QED BY <2>2, <2>3
<1> HIDE DEF S
<1>5. Nat \subseteq S
  BY <1>3, <1>4, Inductive
<1>6. \A i \in Nat : i < Nibbles => i \in 0 .. Nibbles /\ i + 1 \in 0 .. Nibbles /\ f[i + 1] = g[i]
  BY <1>1, <1>5 DEF S
<1> QED BY <1>6 DEF f, g

\* Above its size a number has no nibbles.
LEMMA ShiftedOut ==
    \A n \in Nat : \A x \in 0 .. UINT - 1 : n <= Nibbles /\ x < Power[n] => Shifted(x, n) = 0
<1> DEFINE X == 0 .. UINT - 1
           Out(n) == \A x \in X : n <= Nibbles /\ x < Power[n] => Shifted(x, n) = 0
           S == {n \in Nat : Out(n)}
<1>1. Nibbles \in Nat /\ UINT - 1 \in Nat /\ 0 \in X
  BY ConsoleAssumption, UintType
<1>2. 0 \in S
  <2>1. \A x \in X : x < Power[0] => x = 0
    BY <1>1, PowerDef
  <2> QED BY <2>1, ShiftedDef
<1>3. ASSUME NEW n \in Nat, n \in S PROVE n + 1 \in S
  <2> SUFFICES ASSUME NEW x \in X, n + 1 <= Nibbles, x < Power[n + 1]
               PROVE  Shifted(x, n + 1) = 0
    OBVIOUS
  <2> DEFINE q == x \div 16
             r == x % 16
  <2>1. q \in X
    BY Nibbled
  <2>2. n < Nibbles /\ n <= Nibbles
    BY <1>1
  <2>3. Shifted(x, n + 1) = Shifted(q, n)
    BY <2>2, ShiftedDown
  <2>4. q < Power[n]
    <3>1. n + 1 \in 1 .. Nibbles /\ n \in 0 .. Nibbles /\ (n + 1) - 1 = n
      BY <1>1
    <3>2. Power[n + 1] = 16 * Power[n] /\ Power[n] \in Nat
      BY <3>1, PowerDef, PowerType
    <3>3. x \in Nat /\ 16 \in Nat \ {0}
      BY <1>1
    <3>4. r \in 0 .. 15 /\ x = (16 * q) + r /\ q \in Nat
      <4>1. x \div 16 \in Nat /\ x % 16 \in 0 .. 16 - 1 /\ x = (16 * (x \div 16)) + (x % 16)
        BY <3>3, Division
      <4> QED BY <4>1
    <3> HIDE DEF q, r
    <3> QED BY <3>2, <3>4
  <2> HIDE DEF q
  <2> QED BY <1>3, <2>1, <2>2, <2>3, <2>4
<1> HIDE DEF S
<1>4. Nat \subseteq S
  BY <1>2, <1>3, Inductive
<1> QED BY <1>4 DEF S

\* What the nibbles of x have to do with the numeral of x.
HexRight(x) ==
    LET d == Digits(16)[x]
        l == Len(d)
    IN  /\ d \in Seq(Ink)
        /\ l <= Nibbles
        /\ \A i \in 1 .. l : d[i] = nchar(Nibble(x, l - i))
        /\ l # 0 => Nibble(x, l - 1) # 0
        /\ \A i \in 0 .. Nibbles : i >= l => Shifted(x, i) = 0

\* The nibbles of x from its highest that is not zero are its digits to base 16.
LEMMA NibbleDigits == \A x \in 0 .. UINT - 1 : HexRight(x)
<1> DEFINE N == UINT - 1
           D == Digits(16)
           S == {x \in Nat : x \in 0 .. N => HexRight(x)}
<1>1. /\ N \in Nat /\ Nibbles \in Nat \ {0} /\ 0 \in 0 .. N
  BY UintType, ShiftedDef
<1>2. D[0] = <<>> /\ \A m \in 1 .. N : D[m] = Append(D[m \div 16], Digit[(m % 16) + 1])
  <2>1. 16 \in Nat /\ 16 > 1
    OBVIOUS
  <2> QED BY <2>1, DigitsDef
<1>3. \A x \in 0 .. N : Shifted(x, Nibbles) = 0
  <2>1. \A x \in 0 .. N : x < Power[Nibbles]
    BY UintType DEF UINT
  <2> QED BY <1>1, <2>1, ShiftedOut
<1> HIDE DEF D
<1>4. HexRight(0)
  <2>1. \A i \in 0 .. Nibbles : Shifted(0, i) = 0
    <3> SUFFICES ASSUME NEW i \in 0 .. Nibbles PROVE Shifted(0, i) = 0
      OBVIOUS
    <3>1. 0 < Power[i]
      BY PowerType
    <3> QED BY <1>1, <3>1, ShiftedOut
  <2> DEFINE d == D[0]
             l == Len(d)
  <2>2. l = 0 /\ d \in Seq(Ink)
    BY <1>2
  <2> HIDE DEF d, l
  <2>3. /\ d \in Seq(Ink)
        /\ l <= Nibbles
        /\ \A i \in 1 .. l : d[i] = nchar(Nibble(0, l - i))
        /\ l # 0 => Nibble(0, l - 1) # 0
        /\ \A i \in 0 .. Nibbles : i >= l => Shifted(0, i) = 0
    BY <1>1, <2>1, <2>2
  <2> QED BY <2>3 DEF HexRight, d, l, D
<1>5. ASSUME NEW x \in 1 .. N, HexRight(x \div 16) PROVE HexRight(x)
  <2> DEFINE y == x \div 16
             r == x % 16
             e == D[y]
             d == D[x]
             k == Len(e)
  <2>1. y \in 0 .. N /\ x \in 0 .. N
    BY <1>1, Nibbled
  <2>2. r \in 0 .. 15 /\ x = (16 * y) + r /\ x # 0
    <3>1. x \in Nat /\ 16 \in Nat \ {0}
      BY <1>1
    <3>2. y \in Nat /\ r \in 0 .. 16 - 1 /\ x = (16 * y) + r
      BY <3>1, Division
    <3> QED BY <1>1, <3>2
  <2>3. /\ e \in Seq(Ink) /\ k \in Nat /\ k <= Nibbles
        /\ \A i \in 1 .. k : e[i] = nchar(Nibble(y, k - i))
        /\ k # 0 => Nibble(y, k - 1) # 0
        /\ \A i \in 0 .. Nibbles : i >= k => Shifted(y, i) = 0
    BY <1>5 DEF HexRight, D
  <2>4. nchar(r) = Digit[r + 1] /\ nchar(r) \in Ink
    BY <2>2, DigitChars
  <2>5. d = Append(e, nchar(r))
    BY <1>2, <2>4
  <2>6. \A i \in Nat : i < Nibbles => Shifted(x, i + 1) = Shifted(y, i)
    BY ShiftedDown
  <2>7. Shifted(x, 0) = x /\ Shifted(y, 0) = y /\ Shifted(x, Nibbles) = 0
    BY <1>3, <2>1, ShiftedDef
  <2> HIDE DEF y, e, d, k
  <2>8. d \in Seq(Ink) /\ Len(d) = k + 1 /\ d[k + 1] = nchar(r) /\ \A i \in 1 .. k : d[i] = e[i]
    BY <2>3, <2>4, <2>5 DEF k
  <2>9. \A i \in 0 .. Nibbles : i >= k + 1 => Shifted(x, i) = 0
    <3> SUFFICES ASSUME NEW i \in 0 .. Nibbles, i >= k + 1 PROVE Shifted(x, i) = 0
      OBVIOUS
    <3>1. i - 1 \in Nat /\ i - 1 < Nibbles /\ i - 1 \in 0 .. Nibbles /\ i - 1 >= k /\ (i - 1) + 1 = i
      BY <1>1, <2>3
    <3> QED BY <2>3, <2>6, <3>1
  <2>10. Nibble(x, k) # 0
    <3>1. CASE k = 0
      <4>1. y = 0
        BY <1>1, <2>3, <2>7, <3>1
      <4>2. r = x
        BY <2>2, <4>1
      <4> QED BY <2>2, <2>7, <3>1, <4>2 DEF Nibble
    <3>2. CASE k # 0
      <4>1. k - 1 \in Nat /\ k - 1 < Nibbles /\ (k - 1) + 1 = k
        BY <1>1, <2>3, <3>2
      <4>2. Shifted(x, k) = Shifted(y, k - 1)
        BY <2>6, <4>1
      <4> QED BY <2>3, <3>2, <4>2 DEF Nibble
    <3> QED BY <3>1, <3>2
  <2>11. k + 1 <= Nibbles
    <3> SUFFICES ASSUME k = Nibbles PROVE FALSE
      BY <1>1, <2>3
    <3>1. Nibble(x, k) = 0
      BY <2>7 DEF Nibble
    <3> QED BY <2>10, <3>1
  <2>12. \A i \in 1 .. k + 1 : d[i] = nchar(Nibble(x, (k + 1) - i))
    <3> SUFFICES ASSUME NEW i \in 1 .. k + 1 PROVE d[i] = nchar(Nibble(x, (k + 1) - i))
      OBVIOUS
    <3>1. CASE i = k + 1
      <4>1. (k + 1) - i = 0 /\ Nibble(x, 0) = r
        BY <2>3, <2>7, <3>1 DEF Nibble
      <4> QED BY <2>8, <3>1, <4>1
    <3>2. CASE i # k + 1
      <4>1. i \in 1 .. k /\ k - i \in Nat /\ k - i < Nibbles /\ (k - i) + 1 = (k + 1) - i
        BY <1>1, <2>3, <3>2
      <4>2. Shifted(x, (k + 1) - i) = Shifted(y, k - i)
        BY <2>6, <4>1
      <4> QED BY <2>3, <2>8, <4>1, <4>2 DEF Nibble
    <3> QED BY <3>1, <3>2
  <2>13. (k + 1) - 1 = k
    BY <2>3
  <2> QED BY <2>3, <2>8, <2>9, <2>10, <2>11, <2>12, <2>13 DEF HexRight, d, D
<1>6. ASSUME NEW x \in Nat, \A y \in Nat : y < x => y \in S PROVE x \in S
  <2> SUFFICES ASSUME x \in 0 .. N PROVE HexRight(x)
    OBVIOUS
  <2>1. CASE x = 0
    BY <1>4, <2>1
  <2>2. CASE x # 0
    <3> DEFINE y == x \div 16
    <3>1. y \in 0 .. N /\ y < x
      BY <2>2, Nibbled
    <3> HIDE DEF y, S, N
    <3>2. y \in Nat /\ x \in 1 .. N
      BY <1>1, <2>2, <3>1
    <3>3. y \in S
      BY <1>6, <3>1, <3>2
    <3>4. HexRight(y)
      BY <3>1, <3>3 DEF S
    <3> QED BY <1>5, <3>2, <3>4 DEF y
  <2> QED BY <2>1, <2>2
<1> HIDE DEF S
<1>7. Nat \subseteq S
  BY <1>6, Strong
<1> QED BY <1>1, <1>7 DEF S

\* xtoa writes a number in positional notation, if its padding is at most the
\* nibbles of an integer.
LEMMA HexDigits ==
    ASSUME NEW x \in 0 .. UINT - 1, NEW pad \in Nat, NEW width \in Nat,
           AtLeastOne(pad) = AtLeastOne(width), AtLeastOne(pad) <= Nibbles
    PROVE  xtoa(x, pad) = Numeral(x, 16, width) /\ Numeral(x, 16, width) \in Seq(Ink)
<1> DEFINE d == Digits(16)[x]
           l == Len(d)
           w == AtLeastOne(pad)
           z == Zeros(w - l)
           m == IF l > w THEN l ELSE w
           Stop(i) == /\ Nibble(x, i) # 0 \/ i < w
                      /\ \A j \in i + 1 .. Nibbles - 1 : Nibble(x, j) = 0 /\ j >= w
           first == Leading(x, pad)
<1>1. /\ d \in Seq(Ink) /\ l \in Nat /\ l <= Nibbles
      /\ \A i \in 1 .. l : d[i] = nchar(Nibble(x, l - i))
      /\ l # 0 => Nibble(x, l - 1) # 0
      /\ \A i \in 0 .. Nibbles : i >= l => Nibble(x, i) = 0
  BY NibbleDigits DEF HexRight, Nibble
<1>2. Nibbles \in Nat \ {0} /\ w \in Nat \ {0} /\ w <= Nibbles
  BY ShiftedDef DEF AtLeastOne
<1>3. Numeral(x, 16, width) = z \o d
  <2>1. 16 \in Nat /\ 16 > 1
    OBVIOUS
  <2>2. Numeral(x, 16, width) = Zeros(AtLeastOne(width) - Len(Digits(16)[x])) \o Digits(16)[x]
    BY <2>1, DigitsDef
  <2> QED BY <2>2
<1>4. xtoa(x, pad) = [i \in 1 .. first + 1 |-> nchar(Nibble(x, (first + 1) - i))]
  BY DEF xtoa
<1> HIDE DEF d, w
<1>5. m \in Nat \ {0} /\ m <= Nibbles /\ m - 1 \in 0 .. Nibbles - 1 /\ l <= m /\ w <= m /\ (m = l \/ m = w)
  BY <1>1, <1>2
<1> HIDE DEF l, m
<1>6. Stop(m - 1)
  <2>1. Nibble(x, m - 1) # 0 \/ m - 1 < w
    BY <1>1, <1>2, <1>5
  <2>2. ASSUME NEW j \in (m - 1) + 1 .. Nibbles - 1 PROVE Nibble(x, j) = 0 /\ j >= w
    <3>1. j \in 0 .. Nibbles /\ j >= l /\ j >= w
      BY <1>1, <1>2, <1>5
    <3> QED BY <1>1, <3>1
  <2> QED BY <2>1, <2>2
<1>7. ASSUME NEW i \in 0 .. Nibbles - 1, Stop(i) PROVE i = m - 1
  <2>1. ~(i < m - 1)
    <3> SUFFICES ASSUME i < m - 1 PROVE FALSE
      OBVIOUS
    <3>1. m - 1 \in i + 1 .. Nibbles - 1
      BY <1>2, <1>5
    <3>2. Nibble(x, m - 1) = 0 /\ m - 1 >= w
      BY <1>7, <3>1
    <3> QED BY <1>2, <1>5, <1>6, <3>2
  <2>2. ~(i > m - 1)
    <3> SUFFICES ASSUME i > m - 1 PROVE FALSE
      OBVIOUS
    <3>1. i \in (m - 1) + 1 .. Nibbles - 1
      BY <1>2, <1>5
    <3>2. Nibble(x, i) = 0 /\ i >= w
      BY <1>6, <3>1
    <3> QED BY <1>2, <1>5, <1>7, <3>2
  <2> QED BY <1>2, <1>5, <2>1, <2>2
<1>8. first = m - 1
  BY <1>5, <1>6, <1>7 DEF Leading, w
<1> HIDE DEF Stop, first
<1>9. xtoa(x, pad) = [i \in 1 .. m |-> nchar(Nibble(x, m - i))]
  <2>1. first + 1 = m
    BY <1>5, <1>8
  <2> QED BY <1>4, <2>1
<1>10. /\ z \in Seq(Ink) /\ Len(z) = m - l
       /\ \A i \in 1 .. m - l : z[i] = ZERO
  <2>1. w - l \in Int /\ m - l \in Nat /\ (IF w - l > 0 THEN w - l ELSE 0) = m - l
    BY <1>1, <1>2 DEF m
  <2>2. /\ z \in Seq(Ink)
        /\ Len(z) = IF w - l > 0 THEN w - l ELSE 0
        /\ \A i \in 1 .. Len(z) : z[i] = ZERO
    BY <2>1, ZerosType
  <2> HIDE DEF z
  <2> QED BY <2>1, <2>2
<1> DEFINE b == z \o d
<1> HIDE DEF z
<1>11. /\ b \in Seq(Ink) /\ Len(b) = m
       /\ \A i \in 1 .. m - l : b[i] = z[i]
       /\ \A i \in (m - l) + 1 .. m : b[i] = d[i - (m - l)]
  <2>1. z \in Seq(Ink) /\ d \in Seq(Ink) /\ Len(d) = l /\ m \in Nat /\ l <= m /\ l \in Nat
    BY <1>1, <1>5, <1>10 DEF l
  <2>2. b \in Seq(Ink) /\ Len(b) = m
    BY <1>10, <2>1
  <2>3. \A i \in 1 .. m - l : b[i] = z[i]
    BY <1>10, <2>1
  <2>4. \A i \in (m - l) + 1 .. m : b[i] = d[i - (m - l)]
    BY <1>10, <2>1
  <2> QED BY <2>2, <2>3, <2>4
<1> HIDE DEF b
<1>12. ASSUME NEW i \in 1 .. m PROVE b[i] = nchar(Nibble(x, m - i))
  <2>1. CASE i <= m - l
    <3>1. i \in 1 .. m - l /\ m - i \in 0 .. Nibbles /\ m - i >= l
      BY <1>1, <1>2, <1>5, <2>1
    <3> QED BY <1>1, <1>10, <1>11, <3>1, DigitChars
  <2>2. CASE ~(i <= m - l)
    <3>1. i \in (m - l) + 1 .. m /\ i - (m - l) \in 1 .. l /\ l - (i - (m - l)) = m - i
      BY <1>1, <1>5, <2>2
    <3> QED BY <1>1, <1>11, <3>1
  <2> QED BY <2>1, <2>2
<1>13. b = [i \in 1 .. m |-> nchar(Nibble(x, m - i))]
  <2> DEFINE a == [i \in 1 .. m |-> nchar(Nibble(x, m - i))]
  <2>1. DOMAIN b = 1 .. m /\ b = [i \in DOMAIN b |-> b[i]]
    BY <1>5, <1>11
  <2> QED BY <1>12, <2>1
<1> QED BY <1>3, <1>9, <1>11, <1>13 DEF b

\* scale() takes the largest unit of which there are ten.
LEMMA ScaleRight ==
    ASSUME NEW n \in 0 .. UINT - 1, n < UINT - 1
    PROVE  /\ scale(n).sz = n \div Unit(n) /\ scale(n).unit = Units[Unit(n)]
           /\ n \div Unit(n) \in 0 .. UINT - 1 /\ Units[Unit(n)] \in Ink
<1> DEFINE K == Kilo
           K2 == Kilo * Kilo
           U == {1, K, K2}
           Fits(u) == (u = 1 \/ n >= 10 * u) /\ \A w \in U : w > u => n < 10 * w
<1>1. K \in Nat /\ K > 1
  BY ConsoleAssumption
<1>2. K2 \in Nat /\ K2 > K
  <2>1. PICK d \in Nat : Kilo = 2 + d
    <3>1. Kilo - 2 \in Nat /\ Kilo = 2 + (Kilo - 2)
      BY <1>1
    <3> QED BY <3>1
  <2>2. Kilo * Kilo = (2 * Kilo) + (d * Kilo) /\ d * Kilo \in Nat
    BY <1>1, <2>1
  <2> QED BY <1>1, <2>2
<1>3. n \in Nat /\ UINT \in Nat /\ n <= UINT - 1
  BY UintType
<1>4. DOMAIN Units = U /\ Units[1] = 66 /\ Units[K] = 75 /\ Units[K2] = 77
  BY <1>1, <1>2 DEF Units
<1>5. Unit(n) = CHOOSE u \in U : Fits(u)
  BY <1>4 DEF Unit
<1>6. scale(n) = IF n < 10 * K THEN [sz |-> n, unit |-> 66]
                 ELSE IF n < 10 * K2 THEN [sz |-> n \div K, unit |-> 75]
                 ELSE [sz |-> n \div K2, unit |-> 77]
  BY DEF scale
<1> HIDE DEF K, K2
<1>7. 66 \in Ink /\ 75 \in Ink /\ 77 \in Ink
  BY DEF Ink, Chars, BS
<1>8. \A u \in Nat : u > 0 => n \div u \in Nat /\ n \div u <= n
  <2> SUFFICES ASSUME NEW u \in Nat, u > 0 PROVE n \div u \in Nat /\ n \div u <= n
    OBVIOUS
  <2>1. u \in Nat \ {0}
    OBVIOUS
  <2>2. n \div u \in Nat
    BY <1>3, <2>1, Division
  <2>3. CASE u = 1
    BY <1>3, <2>3
  <2>4. CASE n = 0
    BY <1>3, <2>1, <2>4, Small
  <2>5. CASE u # 1 /\ n # 0
    <3>1. n \in Nat \ {0} /\ u > 1
      BY <1>3, <2>1, <2>5
    <3>2. n \div u < n
      BY <3>1, Divided
    <3> QED BY <1>3, <2>2, <3>2
  <2> QED BY <2>2, <2>3, <2>4, <2>5
<1>9. CASE n < 10 * K
  <2>1. Fits(1) /\ ~Fits(K) /\ ~Fits(K2)
    BY <1>1, <1>2, <1>3, <1>9
  <2> HIDE DEF Fits
  <2>2. Unit(n) = 1
    BY <1>5, <2>1
  <2>3. n \div 1 = n
    BY <1>3
  <2> QED BY <1>3, <1>4, <1>6, <1>7, <1>9, <2>2, <2>3
<1>10. CASE ~(n < 10 * K) /\ n < 10 * K2
  <2>1. Fits(K) /\ ~Fits(1) /\ ~Fits(K2)
    BY <1>1, <1>2, <1>3, <1>10
  <2> HIDE DEF Fits
  <2>2. Unit(n) = K
    BY <1>5, <2>1
  <2>3. n \div K \in Nat /\ n \div K <= n
    BY <1>1, <1>8
  <2>4. n \div K \in 0 .. UINT - 1
    BY <1>3, <2>3
  <2> QED BY <1>4, <1>6, <1>7, <1>10, <2>2, <2>4
<1>11. CASE ~(n < 10 * K) /\ ~(n < 10 * K2)
  <2>1. Fits(K2) /\ ~Fits(1) /\ ~Fits(K)
    BY <1>1, <1>2, <1>3, <1>11
  <2> HIDE DEF Fits
  <2>2. Unit(n) = K2
    BY <1>5, <2>1
  <2>3. n \div K2 \in Nat /\ n \div K2 <= n
    BY <1>1, <1>2, <1>8
  <2>4. n \div K2 \in 0 .. UINT - 1
    BY <1>3, <2>3
  <2> QED BY <1>4, <1>6, <1>7, <1>11, <2>2, <2>4
<1> QED BY <1>9, <1>10, <1>11

-----------------------------------------------------------------------------
(* What the directives put                                                 *)

Directives == {PERCENT, 99, 100, 112, 115, 117, 120, 83}

\* A text without backspace.
LEMMA InkText ==
    ASSUME NEW t \in Seq(1 .. 255) PROVE  (\A i \in DOMAIN t : t[i] # BS) => t \in Seq(Ink)
<1>1. \A c \in 1 .. 255 : c # BS => c \in Ink
  BY DEF Ink, Chars, BS
<1>2. DOMAIN t = 1 .. Len(t) /\ Len(t) \in Nat /\ \A i \in 1 .. Len(t) : t[i] \in 1 .. 255
  <2> DEFINE Bytes == 1 .. 255
  <2>1. t \in Seq(Bytes)
    OBVIOUS
  <2> HIDE DEF Bytes
  <2>2. DOMAIN t = 1 .. Len(t) /\ Len(t) \in Nat /\ \A i \in 1 .. Len(t) : t[i] \in Bytes
    BY <2>1
  <2> QED BY <2>2 DEF Bytes
<1>3. ASSUME \A i \in DOMAIN t : t[i] # BS PROVE \A i \in 1 .. Len(t) : t[i] \in Ink
  BY <1>1, <1>2, <1>3
<1> QED BY <1>2, <1>3

\* Text means itself.
LEMMA TextMeans ==
    ASSUME NEW item \in Items, Printable(item)
    PROVE  item.text \in Seq(Ink) /\ (item.conv = 0 => Meaning(item) = item.text)
<1>1. item.text \in Seq(1 .. 255) /\ \A i \in DOMAIN item.text : item.text[i] # BS
  BY DEF Items, Printable
<1>2. item.text \in Seq(Ink)
  BY <1>1, InkText
<1>3. ASSUME item.conv = 0 PROVE Meaning(item) = item.text
  BY <1>3 DEF Meaning, PERCENT
<1> QED BY <1>2, <1>3

\* What a directive puts for its own argument is what the item means.
LEMMA DirectiveMeans ==
    ASSUME NEW item \in Items, Printable(item), item.conv # 0,
           NEW a, TakesArgument(item.conv) => a = item,
           NEW pad \in 0 .. 9, AtLeastOne(pad) = AtLeastOne(item.pad)
    PROVE  Converted(item.conv, a, pad) = Meaning(item) /\ Meaning(item) \in Seq(Ink)
<1> DEFINE n == item.value
           w == item.pad
           c == item.conv
<1>1. /\ c \in Directives /\ w \in 0 .. 9 /\ n \in 0 .. UINT - 1 /\ n \in Nat
      /\ item.text \in Seq(Ink)
  BY TextMeans, UintType DEF Items, Directives
<1>2. /\ c = 99 => n < 256 /\ n # BS
      /\ c = 100 => n < UINT \div 2
      /\ c = 120 => w <= Nibbles
      /\ c = 83 => n < UINT - 1
  BY DEF Printable
<1>3. c # PERCENT => a = item
  BY <1>1 DEF Directives, TakesArgument, PERCENT
<1>4. CASE c = PERCENT
  BY <1>4 DEF Converted, Meaning, PERCENT, Ink, Chars, BS
<1>5. CASE c = 115
  BY <1>1, <1>3, <1>5 DEF Converted, Meaning, PERCENT
<1>6. CASE c = 99
  <2>1. n % 256 = n
    BY <1>1, <1>2, <1>6, Small
  <2>2. n \in Ink
    <3>1. \A m \in Nat : m < 256 /\ m # BS => m \in Ink
      BY DEF Ink, Chars
    <3> HIDE DEF n
    <3> QED BY <1>1, <1>2, <1>6, <3>1
  <2>3. Converted(c, a, pad) = <<n % 256>> /\ Meaning(item) = <<n>>
    BY <1>3, <1>6 DEF Converted, Meaning, PERCENT
  <2> QED BY <2>1, <2>2, <2>3
<1>7. CASE c = 100
  <2>1. ~(n >= UINT \div 2)
    <3> DEFINE h == UINT \div 2
    <3>1. h \in Nat
      BY UintType
    <3> HIDE DEF h
    <3>2. n < h => ~(n >= h)
      BY <1>1, <3>1
    <3> QED BY <1>2, <1>7, <3>2 DEF h
  <2>2. Converted(c, a, pad) = utoa(n, pad)
    BY <1>3, <1>7, <2>1 DEF Converted, itoa, PERCENT
  <2>3. Meaning(item) = <<>> \o Numeral(n, 10, w)
    BY <1>7, <2>1 DEF Meaning, PERCENT
  <2>4. utoa(n, pad) = Numeral(n, 10, w) /\ Numeral(n, 10, w) \in Seq(Ink)
    BY <1>1, DecimalRight
  <2> QED BY <2>2, <2>3, <2>4
<1>8. CASE c = 117
  <2>1. Converted(c, a, pad) = utoa(n, pad) /\ Meaning(item) = Numeral(n, 10, w)
    BY <1>3, <1>8 DEF Converted, Meaning, PERCENT
  <2>2. utoa(n, pad) = Numeral(n, 10, w) /\ Numeral(n, 10, w) \in Seq(Ink)
    BY <1>1, DecimalRight
  <2> QED BY <2>1, <2>2
<1>9. CASE c = 120
  <2>1. Converted(c, a, pad) = xtoa(n, pad) /\ Meaning(item) = Numeral(n, 16, w)
    BY <1>3, <1>9 DEF Converted, Meaning, PERCENT
  <2>2. AtLeastOne(pad) <= Nibbles /\ pad \in Nat /\ w \in Nat
    BY <1>1, <1>2, <1>9, ShiftedDef DEF AtLeastOne
  <2>3. xtoa(n, pad) = Numeral(n, 16, w) /\ Numeral(n, 16, w) \in Seq(Ink)
    BY <1>1, <2>2, HexDigits
  <2> QED BY <2>1, <2>3
<1>10. CASE c = 112
  <2>1. /\ Converted(c, a, pad) = <<ZERO, 120>> \o xtoa(n, Nibbles)
        /\ Meaning(item) = <<ZERO, 120>> \o Numeral(n, 16, Nibbles)
    BY <1>3, <1>10 DEF Converted, Meaning, PERCENT
  <2>2. AtLeastOne(Nibbles) <= Nibbles /\ Nibbles \in Nat
    BY ShiftedDef DEF AtLeastOne
  <2>3. xtoa(n, Nibbles) = Numeral(n, 16, Nibbles) /\ Numeral(n, 16, Nibbles) \in Seq(Ink)
    BY <1>1, <2>2, HexDigits
  <2>4. <<ZERO, 120>> \in Seq(Ink)
    BY DEF Ink, Chars, BS, ZERO
  <2> QED BY <2>1, <2>3, <2>4
<1>11. CASE c = 83
  <2>1. /\ Converted(c, a, pad) = Append(utoa(scale(n).sz, pad), scale(n).unit)
        /\ Meaning(item) = Append(Numeral(n \div Unit(n), 10, w), Units[Unit(n)])
    BY <1>3, <1>11 DEF Converted, Meaning, PERCENT
  <2>2. /\ scale(n).sz = n \div Unit(n) /\ scale(n).unit = Units[Unit(n)]
        /\ n \div Unit(n) \in 0 .. UINT - 1 /\ Units[Unit(n)] \in Ink
    BY <1>1, <1>2, <1>11, ScaleRight
  <2> DEFINE q == n \div Unit(n)
  <2> HIDE DEF q
  <2>3. q \in 0 .. UINT - 1
    BY <2>2 DEF q
  <2>4. utoa(q, pad) = Numeral(q, 10, w) /\ Numeral(q, 10, w) \in Seq(Ink)
    BY <1>1, <2>3, DecimalRight
  <2> QED BY <2>1, <2>2, <2>4 DEF q
<1> QED BY <1>1, <1>4, <1>5, <1>6, <1>7, <1>8, <1>9, <1>10, <1>11 DEF Directives

-----------------------------------------------------------------------------
(* The flags of a directive                                                *)

\* The number in the flags of a padded directive.
LEMMA PadRead ==
    ASSUME NEW pad \in 0 .. 9, NEW s \in Seq(Int), Len(s) = 2, s[1] = ZERO, s[2] = ZERO + pad
    PROVE  atoi(s) = pad
<1> DEFINE Is(f) == f = [n \in 0 .. Len(s) |-> IF n = 0 THEN 0 ELSE 10 * f[n - 1] + (s[n] - ZERO)]
           value == CHOOSE f : Is(f)
           v == [n \in 0 .. 2 |-> IF n = 2 THEN pad ELSE 0]
<1>1. atoi(s) = value[Len(s)]
  BY DEF atoi
<1>2. Is(v)
  <2>1. \A n \in 0 .. 2 : v[n] = IF n = 0 THEN 0 ELSE 10 * v[n - 1] + (s[n] - ZERO)
    <3> SUFFICES ASSUME NEW n \in 0 .. 2
                 PROVE  v[n] = IF n = 0 THEN 0 ELSE 10 * v[n - 1] + (s[n] - ZERO)
      OBVIOUS
    <3>1. CASE n = 0
      BY <3>1
    <3>2. CASE n = 1
      BY <3>2 DEF ZERO
    <3>3. CASE n = 2
      BY <3>3 DEF ZERO
    <3> QED BY <3>1, <3>2, <3>3
  <2> QED BY <2>1
<1>3. Is(value)
  <2>1. \E f : Is(f)
    <3> HIDE DEF Is
    <3> QED BY <1>2
  <2> HIDE DEF Is
  <2> QED BY <2>1
<1>4. \A n \in 0 .. 2 : value[n] = IF n = 0 THEN 0 ELSE 10 * value[n - 1] + (s[n] - ZERO)
  <2> HIDE DEF value
  <2> QED BY <1>3
<1> HIDE DEF value
<1>5. value[0] = 0 /\ value[1] = 0
  BY <1>4 DEF ZERO
<1>6. value[2] = pad
  BY <1>4, <1>5 DEF ZERO
<1> QED BY <1>1, <1>6

\* get_flags reads back the padding that a caller has written.
LEMMA FlagsRead ==
    ASSUME NEW fmt \in Seq(Int), NEW i \in 1 .. Len(fmt), NEW pad \in 0 .. 9, NEW c \in Directives,
           NEW end \in 1 .. Len(fmt), end = IF pad = 0 THEN i + 1 ELSE i + 3,
           fmt[end] = c,
           pad # 0 => fmt[i + 1] = ZERO /\ fmt[i + 2] = ZERO + pad
    PROVE  get_flags(i, fmt) = [end |-> end, padding |-> IF pad = 0 THEN 1 ELSE pad]
<1> DEFINE F(j) == \/ fmt[j] \in {ZERO, 108}
                   \/ IsDigit(fmt[j]) /\ j > i + 1 /\ IsDigit(fmt[j - 1])
<1>1. ~IsFlag(fmt, i, end)
  <2>1. c \notin {ZERO, 108} /\ ~IsDigit(c)
    BY DEF IsDigit, ZERO, PERCENT, Directives
  <2>2. IsFlag(fmt, i, end) <=> F(end)
    BY DEF IsFlag
  <2>3. fmt[end] = c
    OBVIOUS
  <2> QED BY <2>1, <2>2, <2>3, Zenon
<1>2. \A k \in i + 1 .. end - 1 : IsFlag(fmt, i, k)
  <2> SUFFICES ASSUME NEW k \in i + 1 .. end - 1 PROVE IsFlag(fmt, i, k)
    OBVIOUS
  <2>1. pad # 0 /\ (k = i + 1 \/ k = i + 2)
    OBVIOUS
  <2>2. CASE k = i + 1
    BY <2>1, <2>2 DEF IsFlag
  <2>3. CASE k = i + 2
    <3>1. IsDigit(ZERO) /\ IsDigit(ZERO + pad)
      BY DEF IsDigit, ZERO
    <3>2. fmt[k] = ZERO + pad /\ fmt[k - 1] = ZERO /\ k > i + 1
      BY <2>1, <2>3
    <3>3. IsFlag(fmt, i, k) <=> F(k)
      BY DEF IsFlag
    <3> QED BY <3>1, <3>2, <3>3, Zenon
  <2> QED BY <2>1, <2>2, <2>3
<1>3. FlagsEnd(fmt, i) = end
  <2> DEFINE Ends(j) == /\ j <= Len(fmt) => ~IsFlag(fmt, i, j)
                        /\ \A k \in i + 1 .. j - 1 : IsFlag(fmt, i, k)
             J == i + 1 .. Len(fmt) + 1
  <2>1. FlagsEnd(fmt, i) = CHOOSE j \in J : Ends(j)
    BY DEF FlagsEnd
  <2>2. end \in J /\ Ends(end)
    BY <1>1, <1>2
  <2>3. ASSUME NEW j \in J, Ends(j) PROVE j = end
    <3>1. j < end => FALSE
      BY <1>2, <2>3
    <3>2. j > end => FALSE
      BY <1>1, <2>2, <2>3
    <3> QED BY <2>2, <3>1, <3>2
  <2> HIDE DEF Ends, J
  <2> QED BY <2>1, <2>2, <2>3
<1> DEFINE digits == {j \in i + 1 .. end - 1 : IsDigit(fmt[j])}
<1>4. get_flags(i, fmt) =
        [end |-> end, padding |-> IF digits = {} THEN 1
                                  ELSE atoi(SubSeq(fmt, BeginOf(digits), LastOf(digits)))]
  BY <1>3 DEF get_flags
<1>5. CASE pad = 0
  <2>1. digits = {}
    BY <1>5
  <2> QED BY <1>4, <1>5, <2>1
<1>6. CASE pad # 0
  <2>1. digits = {i + 1, i + 2}
    <3>1. IsDigit(fmt[i + 1]) /\ IsDigit(fmt[i + 2])
      <4>1. IsDigit(ZERO) /\ IsDigit(ZERO + pad)
        BY DEF IsDigit, ZERO
      <4>2. fmt[i + 1] = ZERO /\ fmt[i + 2] = ZERO + pad
        BY <1>6
      <4> QED BY <4>1, <4>2
    <3>2. i + 1 .. end - 1 = {i + 1, i + 2}
      BY <1>6
    <3> QED BY <3>1, <3>2
  <2> HIDE DEF digits
  <2>2. LastOf(digits) = i + 2
    <3>1. \A j \in digits : (\A k \in digits : k <= j) <=> j = i + 2
      BY <2>1
    <3> QED BY <2>1, <3>1 DEF LastOf
  <2>3. BeginOf(digits) = i + 1
    <3>1. \A j \in digits : (j .. i + 2 \subseteq digits /\ j - 1 \notin digits) <=> j = i + 1
      BY <2>1
    <3> QED BY <2>1, <2>2, <3>1 DEF BeginOf
  <2> DEFINE s == SubSeq(fmt, i + 1, i + 2)
  <2>4. s \in Seq(Int) /\ Len(s) = 2 /\ s[1] = fmt[i + 1] /\ s[2] = fmt[i + 2]
    <3>1. i + 1 \in 1 .. Len(fmt) /\ i + 2 \in 1 .. Len(fmt)
      BY <1>6
    <3>2. s \in Seq(Int)
      BY <3>1
    <3>3. Len(s) = 2
      BY <3>1
    <3>4. s[1] = fmt[i + 1] /\ s[2] = fmt[i + 2]
      BY <3>1
    <3> QED BY <3>2, <3>3, <3>4
  <2> HIDE DEF s
  <2>5. atoi(s) = pad
    BY <1>6, <2>4, PadRead
  <2>6. digits # {}
    BY <2>1
  <2> QED BY <1>4, <1>6, <2>2, <2>3, <2>5, <2>6 DEF s
<1> QED BY <1>5, <1>6

-----------------------------------------------------------------------------
(* The format and its items                                                *)

Flattening(f, s, n) == f = [i \in 1 .. n |-> IF i = 1 THEN s[i] ELSE f[i - 1] \o s[i]]

\* The recursive definition of FlattenSeq has a solution on every 1 .. n.
LEMMA FlatteningExists == ASSUME NEW s PROVE \A n \in Nat : \E f : Flattening(f, s, n)
<1> DEFINE S == {n \in Nat : \E f : Flattening(f, s, n)}
<1>1. 0 \in S
  <2> DEFINE f == [i \in 1 .. 0 |-> <<>>]
  <2>1. Flattening(f, s, 0)
    BY DEF Flattening
  <2> QED BY <2>1
<1>2. ASSUME NEW n \in Nat, n \in S PROVE n + 1 \in S
  <2>1. PICK f : Flattening(f, s, n)
    BY <1>2
  <2> DEFINE g == [i \in 1 .. n + 1 |-> IF i # n + 1 THEN f[i] ELSE IF n = 0 THEN s[i] ELSE f[n] \o s[i]]
  <2>2. \A i \in 1 .. n + 1 : g[i] = IF i = 1 THEN s[i] ELSE g[i - 1] \o s[i]
    <3> SUFFICES ASSUME NEW i \in 1 .. n + 1 PROVE g[i] = IF i = 1 THEN s[i] ELSE g[i - 1] \o s[i]
      OBVIOUS
    <3>1. CASE i = n + 1
      BY <3>1
    <3>2. CASE i # n + 1
      <4>1. i \in 1 .. n /\ g[i] = f[i] /\ (i # 1 => i - 1 \in 1 .. n /\ g[i - 1] = f[i - 1])
        BY <3>2
      <4> QED BY <2>1, <4>1 DEF Flattening
    <3> QED BY <3>1, <3>2
  <2>3. Flattening(g, s, n + 1)
    BY <2>2 DEF Flattening
  <2> QED BY <2>3
<1> HIDE DEF S
<1>3. Nat \subseteq S
  BY <1>1, <1>2, Inductive
<1> QED BY <1>3 DEF S

\* FlattenSeq puts one sequence after the other: p[j] is what the first j make.
Joined(p, s, X) ==
    /\ p[0] = <<>>
    /\ \A j \in 1 .. Len(s) : p[j] = p[j - 1] \o s[j]
    /\ \A j \in 0 .. Len(s) : p[j] \in Seq(X)
    /\ p[Len(s)] = FlattenSeq(s)
    /\ \A j \in 1 .. Len(s) :
          /\ Len(p[j]) = Len(p[j - 1]) + Len(s[j])
          /\ Len(p[j]) <= Len(FlattenSeq(s))
          /\ \A x \in 1 .. Len(s[j]) : FlattenSeq(s)[Len(p[j - 1]) + x] = s[j][x]

\* FlattenSeq puts one sequence after the other.
LEMMA FlattenJoins ==
    ASSUME NEW X, NEW s \in Seq(Seq(X)) PROVE \E p : Joined(p, s, X)
<1> DEFINE N == Len(s)
           f == CHOOSE f : Flattening(f, s, N)
           p == [i \in 0 .. N |-> IF i = 0 THEN <<>> ELSE f[i]]
<1>1. N \in Nat /\ \A i \in 1 .. N : s[i] \in Seq(X)
  OBVIOUS
<1>2. Flattening(f, s, N)
  BY <1>1, FlatteningExists
<1>3. FlattenSeq(s) = IF N = 0 THEN s ELSE f[N]
  BY DEF FlattenSeq, Flattening
<1>4. N = 0 => s = <<>>
  OBVIOUS
<1> HIDE DEF f, N
<1>5. \A j \in 1 .. N : f[j] = IF j = 1 THEN s[j] ELSE f[j - 1] \o s[j]
  BY <1>1, <1>2 DEF Flattening
<1>6. p[0] = <<>> /\ \A j \in 1 .. N : p[j] = f[j]
  BY <1>1
<1>7. p[N] = FlattenSeq(s)
  BY <1>1, <1>3, <1>4
<1> HIDE DEF p
<1>8. \A j \in 1 .. N : p[j] = p[j - 1] \o s[j]
  <2> SUFFICES ASSUME NEW j \in 1 .. N PROVE p[j] = p[j - 1] \o s[j]
    OBVIOUS
  <2>1. CASE j = 1
    <3>1. p[1] = s[1] /\ p[0] = <<>> /\ s[1] \in Seq(X)
      BY <1>1, <1>5, <1>6, <2>1
    <3>2. <<>> \o s[1] = s[1]
      BY <3>1
    <3>3. p[j] = s[1] /\ s[j] = s[1] /\ j - 1 = 0
      BY <2>1, <3>1
    <3>4. p[j - 1] = <<>>
      BY <3>1, <3>3
    <3> QED BY <3>2, <3>3, <3>4
  <2>2. CASE j # 1
    <3>1. j - 1 \in 1 .. N /\ p[j] = f[j] /\ p[j - 1] = f[j - 1]
      BY <1>1, <1>6, <2>2
    <3>2. f[j] = f[j - 1] \o s[j]
      BY <1>5, <2>2
    <3> QED BY <3>1, <3>2
  <2> QED BY <2>1, <2>2
<1>9. \A j \in 0 .. N : p[j] \in Seq(X)
  <2> DEFINE S == {n \in Nat : n <= N => p[n] \in Seq(X)}
  <2>1. 0 \in S
    <3>1. <<>> \in Seq(X)
      OBVIOUS
    <3> QED BY <1>6, <3>1
  <2>2. ASSUME NEW n \in Nat, n \in S PROVE n + 1 \in S
    <3>1. CASE n + 1 <= N
      <4>1. n + 1 \in 1 .. N /\ (n + 1) - 1 = n /\ p[n] \in Seq(X)
        BY <1>1, <2>2, <3>1
      <4>2. p[n + 1] = p[n] \o s[n + 1] /\ s[n + 1] \in Seq(X)
        BY <1>1, <1>8, <4>1
      <4>3. p[n] \o s[n + 1] \in Seq(X)
        BY <4>1, <4>2
      <4>4. p[n + 1] \in Seq(X) /\ n + 1 \in Nat
        BY <4>2, <4>3
      <4> QED BY <4>4
    <3>2. CASE ~(n + 1 <= N)
      BY <3>2
    <3> QED BY <3>1, <3>2
  <2> HIDE DEF S
  <2>3. Nat \subseteq S
    BY <2>1, <2>2, Inductive
  <2>4. ASSUME NEW j \in 0 .. N PROVE p[j] \in Seq(X)
    BY <1>1, <2>3 DEF S
  <2> QED BY <2>4
<1>10. \A j \in 1 .. N : /\ Len(p[j]) = Len(p[j - 1]) + Len(s[j])
                         /\ Len(p[j - 1]) \in Nat /\ Len(s[j]) \in Nat /\ Len(p[j]) \in Nat
                         /\ \A x \in 1 .. Len(p[j - 1]) : p[j][x] = p[j - 1][x]
                         /\ \A x \in 1 .. Len(s[j]) : p[j][Len(p[j - 1]) + x] = s[j][x]
  <2> SUFFICES ASSUME NEW j \in 1 .. N
               PROVE  /\ Len(p[j]) = Len(p[j - 1]) + Len(s[j])
                      /\ Len(p[j - 1]) \in Nat /\ Len(s[j]) \in Nat /\ Len(p[j]) \in Nat
                      /\ \A x \in 1 .. Len(p[j - 1]) : p[j][x] = p[j - 1][x]
                      /\ \A x \in 1 .. Len(s[j]) : p[j][Len(p[j - 1]) + x] = s[j][x]
    OBVIOUS
  <2> DEFINE a == p[j - 1]
             b == s[j]
  <2>1. a \in Seq(X) /\ b \in Seq(X)
    BY <1>1, <1>9
  <2>2. p[j] = a \o b
    BY <1>8
  <2> HIDE DEF a, b
  <2>3. Len(a \o b) = Len(a) + Len(b) /\ Len(a) \in Nat /\ Len(b) \in Nat
    BY <2>1
  <2>4. \A x \in 1 .. Len(a) : (a \o b)[x] = a[x]
    BY <2>1
  <2>5. \A x \in 1 .. Len(b) : (a \o b)[Len(a) + x] = b[x]
    BY <2>1
  <2>6. Len(p[j]) = Len(a) + Len(b) /\ Len(p[j]) \in Nat
    BY <2>2, <2>3
  <2> QED BY <2>2, <2>3, <2>4, <2>5, <2>6 DEF a, b
<1>11. \A j \in 1 .. N : /\ Len(p[j]) <= Len(p[N])
                         /\ \A x \in 1 .. Len(p[j]) : p[N][x] = p[j][x]
  <2> DEFINE Under(j, n) == Len(p[j]) <= Len(p[n]) /\ \A x \in 1 .. Len(p[j]) : p[n][x] = p[j][x]
             S == {n \in Nat : n <= N => \A j \in 1 .. n : Under(j, n)}
  <2>1. 0 \in S
    OBVIOUS
  <2>2. ASSUME NEW n \in Nat, n \in S PROVE n + 1 \in S
    <3> SUFFICES ASSUME n + 1 <= N, NEW j \in 1 .. n + 1 PROVE Under(j, n + 1)
      OBVIOUS
    <3>1. n + 1 \in 1 .. N /\ (n + 1) - 1 = n /\ j \in 1 .. N
      BY <1>1
    <3>2. CASE j = n + 1
      BY <1>10, <3>1, <3>2
    <3>3. CASE j # n + 1
      <4>1. j \in 1 .. n /\ Under(j, n)
        <5>1. n <= N /\ j \in 1 .. n
          BY <1>1, <3>3
        <5>2. n <= N => \A k \in 1 .. n : Under(k, n)
          BY <2>2
        <5> HIDE DEF Under
        <5> QED BY <5>1, <5>2
      <4>2. /\ Len(p[n + 1]) = Len(p[n]) + Len(s[n + 1])
            /\ Len(p[n]) \in Nat /\ Len(s[n + 1]) \in Nat /\ Len(p[j]) \in Nat
            /\ \A x \in 1 .. Len(p[n]) : p[n + 1][x] = p[n][x]
        <5>1. /\ Len(p[n + 1]) = Len(p[(n + 1) - 1]) + Len(s[n + 1])
              /\ Len(p[(n + 1) - 1]) \in Nat /\ Len(s[n + 1]) \in Nat
              /\ \A x \in 1 .. Len(p[(n + 1) - 1]) : p[n + 1][x] = p[(n + 1) - 1][x]
          BY <1>10, <3>1
        <5>2. Len(p[j]) \in Nat
          BY <1>10, <3>1
        <5> QED BY <3>1, <5>1, <5>2
      <4>3. Len(p[j]) <= Len(p[n + 1])
        <5>1. \A a, b, c, d \in Nat : a <= b /\ c = b + d => a <= c
          OBVIOUS
        <5>2. Len(p[n + 1]) \in Nat
          BY <1>10, <3>1
        <5> QED BY <4>1, <4>2, <5>1, <5>2
      <4>4. \A x \in 1 .. Len(p[j]) : x \in 1 .. Len(p[n])
        BY <4>1, <4>2
      <4> QED BY <4>1, <4>2, <4>3, <4>4
    <3> QED BY <3>2, <3>3
  <2> HIDE DEF S
  <2>3. Nat \subseteq S
    BY <2>1, <2>2, Inductive
  <2>4. N \in S /\ N <= N
    BY <1>1, <2>3
  <2> QED BY <2>4 DEF S
<1>12. \A j \in 1 .. N : \A x \in 1 .. Len(s[j]) : p[N][Len(p[j - 1]) + x] = s[j][x]
  <2> SUFFICES ASSUME NEW j \in 1 .. N, NEW x \in 1 .. Len(s[j])
               PROVE  p[N][Len(p[j - 1]) + x] = s[j][x]
    OBVIOUS
  <2>1. Len(p[j - 1]) + x \in 1 .. Len(p[j])
    <3>1. /\ Len(p[j]) = Len(p[j - 1]) + Len(s[j])
          /\ Len(p[j - 1]) \in Nat /\ Len(s[j]) \in Nat
      BY <1>10
    <3>2. \A a, b \in Nat : \A y \in 1 .. b : a + y \in 1 .. a + b
      OBVIOUS
    <3> QED BY <3>1, <3>2
  <2> QED BY <1>10, <1>11, <2>1
<1>13. Joined(p, s, X)
  BY <1>6, <1>7, <1>8, <1>9, <1>10, <1>11, <1>12 DEF Joined, N
<1> QED BY <1>13

Beginning == [i |-> 1, k |-> 1, put |-> <<>>]
Reading(g, fmt, args, n) ==
    g = [m \in 0 .. n |-> IF m = 0 THEN Beginning ELSE do_kprintf_char(g[m - 1], fmt, args)]

\* The loop of do_kprintf has a solution for any number of iterations.
LEMMA ReadingExists ==
    ASSUME NEW fmt, NEW args PROVE \A n \in Nat : \E g : Reading(g, fmt, args, n)
<1> DEFINE S == {n \in Nat : \E g : Reading(g, fmt, args, n)}
<1>1. 0 \in S
  <2> DEFINE g == [i \in 0 .. 0 |-> Beginning]
  <2>1. Reading(g, fmt, args, 0)
    BY DEF Reading
  <2> QED BY <2>1
<1>2. ASSUME NEW n \in Nat, n \in S PROVE n + 1 \in S
  <2>1. PICK g : Reading(g, fmt, args, n)
    BY <1>2
  <2> DEFINE h == [i \in 0 .. n + 1 |-> IF i = n + 1 THEN do_kprintf_char(g[n], fmt, args) ELSE g[i]]
  <2>2. \A i \in 0 .. n + 1 : h[i] = IF i = 0 THEN Beginning ELSE do_kprintf_char(h[i - 1], fmt, args)
    <3> SUFFICES ASSUME NEW i \in 0 .. n + 1
                 PROVE  h[i] = IF i = 0 THEN Beginning ELSE do_kprintf_char(h[i - 1], fmt, args)
      OBVIOUS
    <3>1. CASE i = n + 1
      BY <3>1
    <3>2. CASE i # n + 1
      <4>1. i \in 0 .. n /\ h[i] = g[i] /\ (i # 0 => i - 1 \in 0 .. n /\ h[i - 1] = g[i - 1])
        BY <3>2
      <4> QED BY <2>1, <4>1 DEF Reading
    <3> QED BY <3>1, <3>2
  <2>3. Reading(h, fmt, args, n + 1)
    BY <2>2 DEF Reading
  <2> QED BY <2>3
<1> HIDE DEF S
<1>3. Nat \subseteq S
  BY <1>1, <1>2, Inductive
<1> QED BY <1>3 DEF S

\* The states of the loop, one after the other.
Loop(g, fmt, args) ==
    /\ g[0] = Beginning
    /\ \A n \in Nat : n + 1 \in 1 .. Len(fmt) => g[n + 1] = do_kprintf_char(g[n], fmt, args)
    /\ do_kprintf(fmt, args) = g[Len(fmt)].put

\* do_kprintf puts what its loop has put in the end.
LEMMA KprintfLoops ==
    ASSUME NEW fmt \in Seq(Int), NEW args PROVE \E g : Loop(g, fmt, args)
<1> DEFINE N == Len(fmt)
           g == CHOOSE g : Reading(g, fmt, args, N)
<1>1. N \in Nat
  OBVIOUS
<1>2. Reading(g, fmt, args, N)
  BY <1>1, ReadingExists
<1>3. do_kprintf(fmt, args) = g[N].put
  BY DEF do_kprintf, Reading, Beginning
<1> HIDE DEF g
<1>4. g[0] = Beginning /\ \A n \in 1 .. N : g[n] = do_kprintf_char(g[n - 1], fmt, args)
  <2>1. 0 \in 0 .. N /\ \A n \in 1 .. N : n # 0 /\ n \in 0 .. N
    BY <1>1
  <2> HIDE DEF N
  <2> QED BY <1>2, <2>1 DEF Reading
<1>5. ASSUME NEW n \in Nat, n + 1 \in 1 .. N PROVE g[n + 1] = do_kprintf_char(g[n], fmt, args)
  <2>1. (n + 1) - 1 = n
    OBVIOUS
  <2>2. g[n + 1] = do_kprintf_char(g[(n + 1) - 1], fmt, args)
    BY <1>4, <1>5
  <2> QED BY <2>1, <2>2
<1>6. Loop(g, fmt, args)
  BY <1>3, <1>4, <1>5 DEF Loop
<1> QED BY <1>6

-----------------------------------------------------------------------------
(* Text is put as it stands                                                *)

\* The characters of f stand in fmt behind e others.
Stands(f, fmt, e) == e + Len(f) <= Len(fmt) /\ \A x \in 1 .. Len(f) : fmt[e + x] = f[x]

Literal(t) == \A x \in 1 .. Len(t) : t[x] # PERCENT
State(i, k, put) == [i |-> i, k |-> k, put |-> put]

\* The loop puts text as it stands, one character in each iteration.
LEMMA TextRead ==
    ASSUME NEW fmt \in Seq(Int), NEW args, NEW g, Loop(g, fmt, args),
           NEW t \in Seq(Ink), NEW e \in Nat, NEW n \in Nat, n <= e, Stands(t, fmt, e),
           Literal(t),
           NEW k \in Nat, NEW M \in Seq(Ink), g[n] = State(e + 1, k, M)
    PROVE  \E m \in Nat : m <= e + Len(t) /\ g[m] = State(e + Len(t) + 1, k, M \o t)
<1> DEFINE W == M \o t
           L == Len(M)
           Pre(p, m) == p \in Seq(Ink) /\ Len(p) = L + m /\ \A x \in 1 .. L + m : p[x] = W[x]
           Has(m) == \E p : Pre(p, m) /\ g[n + m] = [i |-> e + m + 1, k |-> k, put |-> p]
           S == {m \in Nat : m <= Len(t) => Has(m)}
<1>1. /\ L \in Nat /\ Len(t) \in Nat /\ Len(fmt) \in Nat
      /\ W \in Seq(Ink) /\ Len(W) = L + Len(t)
  OBVIOUS
<1>2. \A x \in 1 .. L : W[x] = M[x]
  OBVIOUS
<1>3. \A x \in 1 .. Len(t) : W[L + x] = t[x] /\ t[x] \in Ink
  OBVIOUS
<1>4. e + Len(t) <= Len(fmt) /\ \A x \in 1 .. Len(t) : fmt[e + x] = t[x]
  BY DEF Stands
<1>5. \A x \in 1 .. Len(t) : t[x] # PERCENT
  BY DEF Literal
<1>6. 0 \in S
  <2>1. Pre(M, 0)
    BY <1>1, <1>2
  <2>2. n + 0 = n /\ e + 0 + 1 = e + 1
    OBVIOUS
  <2> HIDE DEF Pre
  <2> QED BY <2>1, <2>2 DEF State
<1>7. ASSUME NEW m \in Nat, m \in S PROVE m + 1 \in S
  <2>1. CASE m + 1 <= Len(t)
    <3>1. PICK p : Pre(p, m) /\ g[n + m] = [i |-> e + m + 1, k |-> k, put |-> p]
      <4>1. m <= Len(t)
        BY <1>1, <2>1
      <4> HIDE DEF Pre
      <4> QED BY <1>7, <4>1
    <3> HIDE DEF W, L
    <3>2. m + 1 \in 1 .. Len(t) /\ e + m + 1 = e + (m + 1) /\ e + (m + 1) <= Len(fmt)
          /\ (n + m) + 1 = n + (m + 1) /\ n + m \in Nat /\ (n + m) + 1 \in 1 .. Len(fmt)
      <4>1. Len(t) \in Nat /\ Len(fmt) \in Nat /\ e + Len(t) <= Len(fmt)
        BY <1>4, <1>1
      <4> QED BY <2>1, <4>1
    <3>3. fmt[e + m + 1] = t[m + 1] /\ t[m + 1] # PERCENT /\ t[m + 1] \in Ink
      BY <1>4, <1>5, <1>3, <3>2
    <3>4. g[(n + m) + 1] = do_kprintf_char(g[n + m], fmt, args)
      BY <3>2 DEF Loop
    <3>5. do_kprintf_char(g[n + m], fmt, args)
            = [i |-> (e + m + 1) + 1, k |-> k, put |-> Append(p, t[m + 1])]
      <4> DEFINE s == g[n + m]
      <4>1. s.i = e + m + 1 /\ s.k = k /\ s.put = p
        BY <3>1
      <4>2. ~(s.i > Len(fmt)) /\ fmt[s.i] # PERCENT
        <5>1. ~(e + m + 1 > Len(fmt))
          BY <1>1, <3>2
        <5> HIDE DEF s
        <5> QED BY <3>3, <4>1, <5>1
      <4> HIDE DEF s
      <4>3. do_kprintf_char(s, fmt, args) = [i |-> s.i + 1, k |-> s.k, put |-> Append(s.put, fmt[s.i])]
        BY <4>2 DEF do_kprintf_char
      <4> QED BY <3>3, <4>1, <4>3 DEF s
    <3>6. Pre(Append(p, t[m + 1]), m + 1)
      <4> DEFINE q == Append(p, t[m + 1])
      <4>1. p \in Seq(Ink) /\ Len(p) = L + m /\ \A x \in 1 .. L + m : p[x] = W[x]
        BY <3>1
      <4>2. q \in Seq(Ink) /\ Len(q) = Len(p) + 1
        BY <3>3, <4>1
      <4>3. \A x \in 1 .. Len(p) : q[x] = p[x]
        BY <4>1
      <4>4. q[Len(p) + 1] = t[m + 1]
        BY <4>1
      <4> HIDE DEF q
      <4>5. L + (m + 1) = (L + m) + 1
        BY <1>1
      <4>6. W[L + (m + 1)] = t[m + 1]
        BY <1>3, <3>2
      <4>7. ASSUME NEW x \in 1 .. L + (m + 1) PROVE q[x] = W[x]
        <5>1. x \in 1 .. L + m \/ x = L + (m + 1)
          <6>1. L \in Nat
            BY <1>1
          <6> QED BY <6>1
        <5>2. CASE x \in 1 .. L + m
          BY <4>1, <4>3, <5>2
        <5>3. CASE x = L + (m + 1)
          BY <4>1, <4>4, <4>5, <4>6, <5>3
        <5> QED BY <5>1, <5>2, <5>3
      <4> QED BY <4>1, <4>2, <4>5, <4>7 DEF q
    <3>7. (e + m + 1) + 1 = e + (m + 1) + 1
      OBVIOUS
    <3>8. Has(m + 1)
      <4> HIDE DEF Pre
      <4>1. g[n + (m + 1)] = [i |-> e + (m + 1) + 1, k |-> k, put |-> Append(p, t[m + 1])]
        BY <3>2, <3>4, <3>5, <3>7
      <4> QED BY <3>6, <4>1
    <3>9. m + 1 \in Nat
      OBVIOUS
    <3> HIDE DEF Has
    <3> QED BY <3>8, <3>9
  <2>2. CASE ~(m + 1 <= Len(t))
    <3> HIDE DEF Has
    <3>1. m + 1 \in Nat
      OBVIOUS
    <3> QED BY <2>2, <3>1
  <2> HIDE DEF S
  <2> QED BY <2>1, <2>2
<1> HIDE DEF S
<1>8. Nat \subseteq S
  BY <1>6, <1>7, Inductive
<1>9. PICK p : Pre(p, Len(t)) /\ g[n + Len(t)] = [i |-> e + Len(t) + 1, k |-> k, put |-> p]
  <2>1. Len(t) \in S /\ Len(t) <= Len(t)
    BY <1>1, <1>8
  <2> HIDE DEF Pre
  <2> QED BY <2>1 DEF S
<1>10. p = W
  <2> HIDE DEF W, L
  <2>1. p \in Seq(Ink) /\ Len(p) = Len(W) /\ \A x \in 1 .. Len(p) : p[x] = W[x]
    BY <1>1, <1>9
  <2> QED BY <1>1, <2>1, SeqEqual
<1>11. n + Len(t) \in Nat /\ n + Len(t) <= e + Len(t)
  BY <1>1
<1> QED BY <1>9, <1>10, <1>11 DEF State

\* One sequence behind another.
LEMMA Joint ==
    ASSUME NEW a \in Seq(Int), NEW b \in Seq(Int)
    PROVE  /\ a \o b \in Seq(Int) /\ Len(a \o b) = Len(a) + Len(b)
           /\ \A x \in 1 .. Len(a) : (a \o b)[x] = a[x]
           /\ \A x \in 1 .. Len(b) : (a \o b)[Len(a) + x] = b[x]
OBVIOUS

\* How a directive is written.
LEMMA DirectiveFormat ==
    ASSUME NEW item \in Items, item.conv # 0,
           NEW z, z = IF item.pad = 0 THEN 2 ELSE 4
    PROVE  /\ Format(item) \in Seq(Int) /\ Len(Format(item)) = z
           /\ Format(item)[1] = PERCENT /\ Format(item)[z] = item.conv
           /\ item.pad # 0 => Format(item)[2] = ZERO /\ Format(item)[3] = ZERO + item.pad
<1> DEFINE c == item.conv
           w == item.pad
<1>1. c \in Int /\ w \in Int
  BY DEF Items, PERCENT
<1>2. Format(item) = <<PERCENT>> \o (IF w = 0 THEN <<>> ELSE <<ZERO, ZERO + w>>) \o <<c>>
  BY DEF Format
<1> DEFINE p == <<PERCENT>>
           m == <<ZERO, ZERO + w>>
           l == <<c>>
<1>3. /\ p \in Seq(Int) /\ Len(p) = 1 /\ p[1] = PERCENT
      /\ m \in Seq(Int) /\ Len(m) = 2 /\ m[1] = ZERO /\ m[2] = ZERO + w
      /\ l \in Seq(Int) /\ Len(l) = 1 /\ l[1] = c
  <2> HIDE DEF c, w
  <2> QED BY <1>1 DEF PERCENT, ZERO
<1>4. <<>> \in Seq(Int) /\ Len(<<>>) = 0
  OBVIOUS
<1> HIDE DEF c, w, p, m, l
<1>5. CASE w = 0
  <2>1. p \o <<>> = p
    BY <1>3
  <2>2. Format(item) = p \o l
    BY <1>2, <1>5, <2>1 DEF p, l
  <2>3. /\ Format(item) \in Seq(Int) /\ Len(Format(item)) = 2
        /\ Format(item)[1] = PERCENT /\ Format(item)[2] = c
    <3>1. /\ p \o l \in Seq(Int) /\ Len(p \o l) = 2
          /\ \A x \in 1 .. 1 : (p \o l)[x] = p[x]
          /\ \A x \in 1 .. 1 : (p \o l)[1 + x] = l[x]
      <4>1. /\ p \o l \in Seq(Int) /\ Len(p \o l) = Len(p) + Len(l)
            /\ \A x \in 1 .. Len(p) : (p \o l)[x] = p[x]
            /\ \A x \in 1 .. Len(l) : (p \o l)[Len(p) + x] = l[x]
        BY <1>3, Joint
      <4> QED BY <1>3, <4>1
    <3>2. (p \o l)[1] = p[1] /\ (p \o l)[1 + 1] = l[1]
      BY <3>1
    <3> QED BY <1>3, <2>2, <3>1, <3>2
  <2> QED BY <1>5, <2>3 DEF c, w
<1>6. CASE w # 0
  <2> DEFINE q == p \o m
  <2>1. Format(item) = q \o l
    BY <1>2, <1>6 DEF p, m, l
  <2>2. q \in Seq(Int) /\ Len(q) = 3 /\ q[1] = PERCENT /\ q[2] = ZERO /\ q[3] = ZERO + w
    <3>1. /\ q \in Seq(Int) /\ Len(q) = 3
          /\ \A x \in 1 .. 1 : q[x] = p[x]
          /\ \A x \in 1 .. 2 : q[1 + x] = m[x]
      <4>1. /\ q \in Seq(Int) /\ Len(q) = Len(p) + Len(m)
            /\ \A x \in 1 .. Len(p) : q[x] = p[x]
            /\ \A x \in 1 .. Len(m) : q[Len(p) + x] = m[x]
        BY <1>3, Joint
      <4> QED BY <1>3, <4>1
    <3>2. q[1] = p[1] /\ q[1 + 1] = m[1] /\ q[1 + 2] = m[2]
      BY <3>1
    <3> QED BY <1>3, <3>1, <3>2
  <2> HIDE DEF q
  <2>3. /\ q \o l \in Seq(Int) /\ Len(q \o l) = 4
        /\ \A x \in 1 .. 3 : (q \o l)[x] = q[x]
        /\ \A x \in 1 .. 1 : (q \o l)[3 + x] = l[x]
    <3>1. /\ q \o l \in Seq(Int) /\ Len(q \o l) = Len(q) + Len(l)
          /\ \A x \in 1 .. Len(q) : (q \o l)[x] = q[x]
          /\ \A x \in 1 .. Len(l) : (q \o l)[Len(q) + x] = l[x]
      BY <1>3, <2>2, Joint
    <3> QED BY <1>3, <2>2, <3>1
  <2>4. (q \o l)[1] = q[1] /\ (q \o l)[2] = q[2] /\ (q \o l)[3] = q[3] /\ (q \o l)[3 + 1] = l[1]
    BY <2>3
  <2> QED BY <1>3, <1>6, <2>1, <2>2, <2>3, <2>4 DEF c, w
<1> QED BY <1>5, <1>6

\* What the loop has done with an item: from the state s to the state t.
Over(item, s, t) ==
    t = [i |-> s.i + Len(Format(item)), k |-> s.k + Len(Passed(item)), put |-> s.put \o Meaning(item)]

\* A directive takes one iteration and its own argument.
LEMMA DirectiveRead ==
    ASSUME NEW fmt \in Seq(Int), NEW args, NEW g, Loop(g, fmt, args),
           NEW item \in Items, Printable(item), item.conv # 0,
           NEW e \in Nat, NEW n \in Nat, n <= e, Stands(Format(item), fmt, e),
           NEW k \in Nat, TakesArgument(item.conv) => args[k] = item,
           NEW M \in Seq(Ink), g[n] = State(e + 1, k, M)
    PROVE  \E m \in Nat : m <= e + Len(Format(item)) /\ Over(item, g[n], g[m])
<1> DEFINE z == IF item.pad = 0 THEN 2 ELSE 4
           c == item.conv
           w == item.pad
           pad == IF w = 0 THEN 1 ELSE w
           f == Format(item)
           s == g[n]
<1>1. /\ f \in Seq(Int) /\ Len(f) = z /\ f[1] = PERCENT /\ f[z] = c
      /\ w # 0 => f[2] = ZERO /\ f[3] = ZERO + w
  BY DirectiveFormat
<1>2. /\ c \in Directives /\ w \in 0 .. 9 /\ pad \in 0 .. 9 /\ Len(fmt) \in Nat
      /\ AtLeastOne(pad) = AtLeastOne(w)
  BY DEF Items, Directives, AtLeastOne
<1>3. s.i = e + 1 /\ s.k = k /\ s.put = M
  BY DEF State
<1> HIDE DEF s, f, c, w
<1>4. z \in Nat /\ z >= 2 /\ (w # 0 => z = 4) /\ (w = 0 => z = 2)
  BY DEF w
<1>5. fmt[e + 1] = PERCENT /\ fmt[e + z] = c /\ (w # 0 => fmt[e + 2] = ZERO /\ fmt[e + 3] = ZERO + w)
  <2>1. 1 \in 1 .. Len(f) /\ z \in 1 .. Len(f) /\ (w # 0 => 2 \in 1 .. Len(f) /\ 3 \in 1 .. Len(f))
    BY <1>1, <1>4
  <2>2. \A x \in 1 .. Len(f) : fmt[e + x] = f[x]
    BY DEF Stands, f
  <2> QED BY <1>1, <2>1, <2>2
<1>6. e + z <= Len(fmt) /\ e + 1 \in 1 .. Len(fmt) /\ e + z \in 1 .. Len(fmt)
  <2>1. e + Len(f) <= Len(fmt)
    BY DEF Stands, f
  <2> HIDE DEF z
  <2> QED BY <1>1, <1>2, <1>4, <2>1
<1>7. get_flags(e + 1, fmt) = [end |-> e + z, padding |-> pad]
  <2>1. e + z = IF w = 0 THEN (e + 1) + 1 ELSE (e + 1) + 3
    BY <1>4
  <2>2. w # 0 => fmt[(e + 1) + 1] = ZERO /\ fmt[(e + 1) + 2] = ZERO + w
    <3>1. (e + 1) + 1 = e + 2 /\ (e + 1) + 2 = e + 3
      OBVIOUS
    <3> QED BY <1>5, <3>1
  <2> HIDE DEF z
  <2> QED BY <1>2, <1>5, <1>6, <2>1, <2>2, FlagsRead
<1> HIDE DEF z, pad
<1>8. Converted(c, args[k], pad) = Meaning(item)
  <2>1. TakesArgument(item.conv) => args[k] = item
    OBVIOUS
  <2>2. pad \in 0 .. 9 /\ AtLeastOne(pad) = AtLeastOne(item.pad)
    BY <1>2 DEF w
  <2> QED BY <2>1, <2>2, DirectiveMeans DEF c
<1>9. do_kprintf_char(s, fmt, args)
        = [i |-> (e + z) + 1, k |-> IF TakesArgument(c) THEN k + 1 ELSE k, put |-> M \o Meaning(item)]
  <2>1. ~(s.i > Len(fmt)) /\ fmt[s.i] = PERCENT
    BY <1>2, <1>3, <1>5, <1>6
  <2> DEFINE flags == get_flags(s.i, fmt)
             d == IF flags.end > Len(fmt) THEN NUL ELSE fmt[flags.end]
  <2>2. do_kprintf_char(s, fmt, args)
          = [i |-> flags.end + 1, k |-> IF TakesArgument(d) THEN s.k + 1 ELSE s.k,
             put |-> s.put \o Converted(d, args[s.k], flags.padding)]
    BY <2>1 DEF do_kprintf_char
  <2>3. flags.end = e + z /\ flags.padding = pad
    BY <1>3, <1>7
  <2>4. ~(flags.end > Len(fmt))
    BY <1>2, <1>4, <1>6, <2>3
  <2> HIDE DEF flags
  <2>5. d = c
    BY <1>5, <2>3, <2>4
  <2> HIDE DEF d
  <2> QED BY <1>3, <1>8, <2>2, <2>3, <2>5
<1>10. n + 1 \in Nat /\ n + 1 \in 1 .. Len(fmt) /\ n + 1 <= e + z
  BY <1>2, <1>4, <1>6
<1>11. g[n + 1] = do_kprintf_char(s, fmt, args)
  BY <1>10 DEF Loop, s
<1>12. Len(Passed(item)) = IF TakesArgument(c) THEN 1 ELSE 0
  BY DEF Passed, c
<1>13. Over(item, s, g[n + 1])
  <2>1. (e + z) + 1 = (e + 1) + Len(f) /\ (IF TakesArgument(c) THEN k + 1 ELSE k) = k + Len(Passed(item))
    BY <1>1, <1>4, <1>12
  <2> QED BY <1>3, <1>9, <1>11, <2>1 DEF Over, f
<1> QED BY <1>1, <1>10, <1>13 DEF s, f

\* Whatever the item, the loop comes to its end having put what it means.
LEMMA ItemRead ==
    ASSUME NEW fmt \in Seq(Int), NEW args, NEW g, Loop(g, fmt, args),
           NEW item \in Items, Printable(item),
           NEW e \in Nat, NEW n \in Nat, n <= e, Stands(Format(item), fmt, e),
           NEW k \in Nat, TakesArgument(item.conv) => args[k] = item,
           NEW M \in Seq(Ink), g[n] = State(e + 1, k, M)
    PROVE  \E m \in Nat : m <= e + Len(Format(item)) /\ Over(item, g[n], g[m])
<1>1. CASE item.conv # 0
  BY <1>1, DirectiveRead
<1>2. CASE item.conv = 0
  <2> DEFINE t == item.text
  <2>1. Format(item) = t /\ Meaning(item) = t /\ t \in Seq(Ink) /\ Len(t) \in Nat
    <3>1. Format(item) = t
      BY <1>2 DEF Format
    <3>2. Meaning(item) = t /\ t \in Seq(Ink)
      BY <1>2, TextMeans
    <3> HIDE DEF t
    <3> QED BY <3>1, <3>2
  <2>2. Literal(t)
    <3>1. \A x \in DOMAIN t : t[x] # PERCENT
      BY <1>2 DEF Printable
    <3> HIDE DEF t
    <3>2. DOMAIN t = 1 .. Len(t)
      BY <2>1
    <3> QED BY <3>1, <3>2 DEF Literal
  <2>3. Passed(item) = <<>>
    BY <1>2 DEF Passed, TakesArgument
  <2> HIDE DEF t
  <2>4. Stands(t, fmt, e)
    BY <2>1
  <2>6. PICK m \in Nat : m <= e + Len(t) /\ g[m] = State(e + Len(t) + 1, k, M \o t)
    BY <2>1, <2>2, <2>4, TextRead
  <2>7. Over(item, g[n], g[m])
    <3>1. e + Len(t) + 1 = (e + 1) + Len(t) /\ k = k + 0 /\ Len(<<>>) = 0
      BY <2>1
    <3> DEFINE s == g[n]
    <3>2. s.i = e + 1 /\ s.k = k /\ s.put = M
      BY DEF State
    <3> HIDE DEF s
    <3>3. Over(item, s, g[m])
      BY <2>1, <2>3, <2>6, <3>1, <3>2 DEF Over, State
    <3> QED BY <3>3 DEF s
  <2> QED BY <2>1, <2>6, <2>7
<1> QED BY <1>1, <1>2

\* Types of what is written and passed for an item and of what it means.
LEMMA ItemTypes ==
    ASSUME NEW item \in Items, Printable(item)
    PROVE  Format(item) \in Seq(Int) /\ Passed(item) \in Seq(Items) /\ Meaning(item) \in Seq(Ink)
<1>1. Passed(item) \in Seq(Items)
  BY DEF Passed
<1>2. CASE item.conv = 0
  <2>1. Format(item) = item.text /\ Meaning(item) = item.text /\ item.text \in Seq(Ink)
    BY <1>2, TextMeans DEF Format
  <2>2. Ink \subseteq Int
    BY DEF Ink, Chars
  <2> DEFINE t == item.text
  <2>3. t \in Seq(Int)
    <3>1. t \in Seq(Ink)
      BY <2>1
    <3> HIDE DEF t
    <3>2. DOMAIN t = 1 .. Len(t) /\ Len(t) \in Nat /\ \A i \in 1 .. Len(t) : t[i] \in Ink
      BY <3>1
    <3>3. \A i \in 1 .. Len(t) : t[i] \in Int
      BY <2>2, <3>2
    <3> QED BY <3>1, <3>3
  <2> QED BY <1>1, <2>1, <2>3
<1>3. CASE item.conv # 0
  <2> DEFINE z == IF item.pad = 0 THEN 2 ELSE 4
  <2>1. Format(item) \in Seq(Int)
    BY <1>3, DirectiveFormat
  <2>2. item.pad \in 0 .. 9 /\ AtLeastOne(item.pad) = AtLeastOne(item.pad)
    BY DEF Items
  <2>3. Meaning(item) \in Seq(Ink)
    BY <1>3, <2>2, DirectiveMeans
  <2> QED BY <1>1, <2>1, <2>3
<1> QED BY <1>2, <1>3

\* Item for item the loop puts what is meant; then it stops.
LEMMA ItemsMean ==
    ASSUME NEW items \in Seq(Items), \A j \in DOMAIN items : Printable(items[j]),
           NEW fs, fs = [j \in DOMAIN items |-> Format(items[j])],
           NEW as, as = [j \in DOMAIN items |-> Passed(items[j])],
           NEW ms, ms = [j \in DOMAIN items |-> Meaning(items[j])]
    PROVE  /\ do_kprintf(FlattenSeq(fs), FlattenSeq(as)) = FlattenSeq(ms)
           /\ FlattenSeq(ms) \in Seq(Ink)
<1> DEFINE N == Len(items)
           fmt == FlattenSeq(fs)
           args == FlattenSeq(as)
<1>1. N \in Nat /\ DOMAIN items = 1 .. N /\ \A j \in 1 .. N : items[j] \in Items
  OBVIOUS
<1>2. \A j \in 1 .. N : /\ items[j] \in Items /\ Printable(items[j])
                        /\ Format(items[j]) \in Seq(Int)
                        /\ Passed(items[j]) \in Seq(Items) /\ Meaning(items[j]) \in Seq(Ink)
  <2> SUFFICES ASSUME NEW j \in 1 .. N
               PROVE  /\ items[j] \in Items /\ Printable(items[j])
                      /\ Format(items[j]) \in Seq(Int)
                      /\ Passed(items[j]) \in Seq(Items) /\ Meaning(items[j]) \in Seq(Ink)
    OBVIOUS
  <2>1. items[j] \in Items /\ Printable(items[j])
    BY <1>1
  <2> QED BY <2>1, ItemTypes
<1> HIDE DEF N
<1>3. /\ fs \in Seq(Seq(Int)) /\ Len(fs) = N /\ \A j \in 1 .. N : fs[j] = Format(items[j])
      /\ as \in Seq(Seq(Items)) /\ Len(as) = N /\ \A j \in 1 .. N : as[j] = Passed(items[j])
      /\ ms \in Seq(Seq(Ink)) /\ Len(ms) = N /\ \A j \in 1 .. N : ms[j] = Meaning(items[j])
  BY <1>1, <1>2
<1>4. PICK F : Joined(F, fs, Int)
  BY <1>3, FlattenJoins
<1>5. PICK A : Joined(A, as, Items)
  BY <1>3, FlattenJoins
<1>6. PICK M : Joined(M, ms, Ink)
  BY <1>3, FlattenJoins
<1>7. /\ F[0] = <<>> /\ F[N] = fmt
      /\ \A j \in 0 .. N : F[j] \in Seq(Int)
      /\ \A j \in 1 .. N : /\ Len(F[j]) = Len(F[j - 1]) + Len(Format(items[j]))
                           /\ Len(F[j]) <= Len(fmt)
                           /\ \A x \in 1 .. Len(Format(items[j])) :
                                 fmt[Len(F[j - 1]) + x] = Format(items[j])[x]
  <2> HIDE DEF fmt
  <2>1. \A j \in 1 .. N : fs[j] = Format(items[j])
    BY <1>3
  <2>2. F[0] = <<>> /\ F[N] = fmt /\ \A j \in 0 .. N : F[j] \in Seq(Int)
    BY <1>3, <1>4 DEF Joined, fmt
  <2>3. \A j \in 1 .. N : /\ Len(F[j]) = Len(F[j - 1]) + Len(fs[j])
                         /\ Len(F[j]) <= Len(fmt)
                         /\ \A x \in 1 .. Len(fs[j]) : fmt[Len(F[j - 1]) + x] = fs[j][x]
    BY <1>3, <1>4 DEF Joined, fmt
  <2> QED BY <2>1, <2>2, <2>3
<1>8. /\ A[0] = <<>> /\ A[N] = args
      /\ \A j \in 0 .. N : A[j] \in Seq(Items)
      /\ \A j \in 1 .. N : /\ Len(A[j]) = Len(A[j - 1]) + Len(Passed(items[j]))
                           /\ \A x \in 1 .. Len(Passed(items[j])) :
                                 args[Len(A[j - 1]) + x] = Passed(items[j])[x]
  <2> HIDE DEF args
  <2>1. \A j \in 1 .. N : as[j] = Passed(items[j])
    BY <1>3
  <2>2. A[0] = <<>> /\ A[N] = args /\ \A j \in 0 .. N : A[j] \in Seq(Items)
    BY <1>3, <1>5 DEF Joined, args
  <2>3. \A j \in 1 .. N : /\ Len(A[j]) = Len(A[j - 1]) + Len(as[j])
                         /\ Len(A[j]) <= Len(args)
                         /\ \A x \in 1 .. Len(as[j]) : args[Len(A[j - 1]) + x] = as[j][x]
    BY <1>3, <1>5 DEF Joined, args
  <2> QED BY <2>1, <2>2, <2>3
<1>9. /\ M[0] = <<>> /\ M[N] = FlattenSeq(ms)
      /\ \A j \in 0 .. N : M[j] \in Seq(Ink)
      /\ \A j \in 1 .. N : M[j] = M[j - 1] \o Meaning(items[j])
  BY <1>3, <1>6 DEF Joined
<1>10. fmt \in Seq(Int) /\ Len(fmt) \in Nat
  <2>1. F[N] \in Seq(Int)
    BY <1>1, <1>7
  <2> HIDE DEF fmt
  <2> QED BY <1>7, <2>1
<1> HIDE DEF fmt, args
<1>11. PICK g : Loop(g, fmt, args)
  BY <1>10, KprintfLoops
<1> DEFINE After(j) == \E n \in Nat : n <= Len(F[j])
                          /\ g[n] = State(Len(F[j]) + 1, Len(A[j]) + 1, M[j])
           S == {j \in Nat : j <= N => After(j)}
<1>12. 0 \in S
  <2>1. g[0] = State(1, 1, <<>>)
    BY <1>11 DEF Loop, Beginning, State
  <2>2. Len(F[0]) = 0 /\ Len(A[0]) = 0 /\ M[0] = <<>>
    BY <1>7, <1>8, <1>9
  <2>3. g[0] = State(Len(F[0]) + 1, Len(A[0]) + 1, M[0]) /\ 0 <= Len(F[0])
    BY <2>1, <2>2
  <2>4. After(0)
    BY <2>3
  <2> HIDE DEF After
  <2> QED BY <2>4
<1>13. ASSUME NEW j \in Nat, j \in S PROVE j + 1 \in S
  <2> SUFFICES ASSUME j + 1 <= N PROVE After(j + 1)
    OBVIOUS
  <2> HIDE DEF S
  <2>1. j \in 0 .. N /\ j + 1 \in 1 .. N /\ (j + 1) - 1 = j /\ j <= N /\ j + 1 \in 0 .. N
    BY <1>1
  <2>2. PICK n \in Nat : n <= Len(F[j]) /\ g[n] = State(Len(F[j]) + 1, Len(A[j]) + 1, M[j])
    <3>1. After(j)
      BY <1>13, <2>1 DEF S
    <3> QED BY <3>1
  <2> DEFINE item == items[j + 1]
             e == Len(F[j])
             k == Len(A[j]) + 1
  <2>3. item \in Items /\ Printable(item)
    BY <1>2, <2>1
  <2>4. /\ Len(F[j + 1]) = e + Len(Format(item)) /\ Len(F[j + 1]) <= Len(fmt)
        /\ \A x \in 1 .. Len(Format(item)) : fmt[e + x] = Format(item)[x]
    <3>1. /\ Len(F[j + 1]) = Len(F[(j + 1) - 1]) + Len(Format(item)) /\ Len(F[j + 1]) <= Len(fmt)
          /\ \A x \in 1 .. Len(Format(item)) : fmt[Len(F[(j + 1) - 1]) + x] = Format(item)[x]
      BY <1>7, <2>1
    <3> QED BY <2>1, <3>1
  <2>5. /\ Len(A[j + 1]) = Len(A[j]) + Len(Passed(item))
        /\ \A x \in 1 .. Len(Passed(item)) : args[Len(A[j]) + x] = Passed(item)[x]
    <3>1. /\ Len(A[j + 1]) = Len(A[(j + 1) - 1]) + Len(Passed(item))
          /\ \A x \in 1 .. Len(Passed(item)) : args[Len(A[(j + 1) - 1]) + x] = Passed(item)[x]
      BY <1>8, <2>1
    <3> QED BY <2>1, <3>1
  <2>6. M[j + 1] = M[j] \o Meaning(item) /\ M[j] \in Seq(Ink)
    <3>1. M[j + 1] = M[(j + 1) - 1] \o Meaning(item)
      BY <1>9, <2>1
    <3> QED BY <1>9, <2>1, <3>1
  <2>7. F[j] \in Seq(Int) /\ A[j] \in Seq(Items)
    BY <1>7, <1>8, <2>1
  <2>8. e \in Nat /\ k \in Nat /\ Len(A[j]) \in Nat
    BY <2>7
  <2> HIDE DEF item
  <2>9. Stands(Format(item), fmt, e)
    BY <2>4 DEF Stands
  <2>10. TakesArgument(item.conv) => args[k] = item
    <3> SUFFICES ASSUME TakesArgument(item.conv) PROVE args[k] = item
      OBVIOUS
    <3>1. Passed(item) = <<item>>
      BY DEF Passed
    <3>2. Len(Passed(item)) = 1 /\ Passed(item)[1] = item
      BY <3>1
    <3>3. args[Len(A[j]) + 1] = Passed(item)[1]
      BY <2>5, <3>2
    <3> QED BY <3>2, <3>3
  <2>11. g[n] = State(e + 1, k, M[j]) /\ n <= e
    BY <2>2
  <2> HIDE DEF e, k
  <2>12. PICK m \in Nat : m <= e + Len(Format(item)) /\ Over(item, g[n], g[m])
    BY <1>10, <1>11, <2>3, <2>6, <2>8, <2>9, <2>10, <2>11, ItemRead
  <2>13. g[m] = State(Len(F[j + 1]) + 1, Len(A[j + 1]) + 1, M[j + 1])
    <3>1. Format(item) \in Seq(Int) /\ Passed(item) \in Seq(Items)
      BY <2>3, ItemTypes
    <3>2. Len(Format(item)) \in Nat /\ Len(Passed(item)) \in Nat
      BY <3>1
    <3>3. (e + 1) + Len(Format(item)) = Len(F[j + 1]) + 1 /\ k + Len(Passed(item)) = Len(A[j + 1]) + 1
      BY <2>4, <2>5, <2>8, <3>2 DEF k
    <3>4. g[m] = State((e + 1) + Len(Format(item)), k + Len(Passed(item)), M[j] \o Meaning(item))
      BY <2>11, <2>12 DEF Over, State
    <3> QED BY <2>6, <3>3, <3>4
  <2>14. m <= Len(F[j + 1])
    BY <2>4, <2>12
  <2> QED BY <2>13, <2>14
<1> HIDE DEF S
<1>14. Nat \subseteq S
  BY <1>12, <1>13, Inductive
<1>15. PICK n \in Nat : n <= Len(fmt) /\ g[n] = State(Len(fmt) + 1, Len(A[N]) + 1, M[N])
  <2>1. After(N)
    BY <1>1, <1>14 DEF S
  <2> QED BY <1>7, <2>1
<1> HIDE DEF After
<1>16. g[Len(fmt)] = g[n]
  <2> DEFINE R == {m \in Nat : n + m <= Len(fmt) => g[n + m] = g[n]}
  <2>1. 0 \in R
    BY <1>15
  <2>2. ASSUME NEW m \in Nat, m \in R PROVE m + 1 \in R
    <3> SUFFICES ASSUME n + (m + 1) <= Len(fmt) PROVE g[n + (m + 1)] = g[n]
      OBVIOUS
    <3>1. /\ n + m <= Len(fmt) /\ n + m \in Nat
          /\ (n + m) + 1 = n + (m + 1) /\ (n + m) + 1 \in 1 .. Len(fmt)
      BY <1>10, <1>15
    <3>2. g[(n + m) + 1] = do_kprintf_char(g[n + m], fmt, args)
      BY <1>11, <3>1 DEF Loop
    <3>3. g[n + m] = g[n]
      BY <2>2, <3>1
    <3>4. g[n].i > Len(fmt)
      <4>1. g[n].i = Len(fmt) + 1
        BY <1>15 DEF State
      <4> QED BY <1>10, <4>1
    <3>5. do_kprintf_char(g[n], fmt, args) = g[n]
      BY <3>4 DEF do_kprintf_char
    <3> QED BY <3>1, <3>2, <3>3, <3>5
  <2> HIDE DEF R
  <2>3. Nat \subseteq R
    BY <2>1, <2>2, Inductive
  <2>4. Len(fmt) - n \in Nat /\ n + (Len(fmt) - n) = Len(fmt)
    BY <1>10, <1>15
  <2>5. Len(fmt) - n \in R /\ n + (Len(fmt) - n) <= Len(fmt)
    BY <1>10, <2>3, <2>4
  <2>6. g[n + (Len(fmt) - n)] = g[n]
    BY <2>5 DEF R
  <2> QED BY <2>4, <2>6
<1>17. do_kprintf(fmt, args) = M[N]
  <2>1. do_kprintf(fmt, args) = g[Len(fmt)].put
    BY <1>11 DEF Loop
  <2> QED BY <1>15, <1>16, <2>1 DEF State
<1>18. M[N] \in Seq(Ink)
  BY <1>1, <1>9
<1> QED BY <1>9, <1>17, <1>18 DEF fmt, args

\* No character is a backspace.
Plain(s) == \A i \in DOMAIN s : s[i] # BS

\* What kprintf puts is what its caller means, whatever the call.
LEMMA CallMeans ==
    ASSUME NEW call \in DOMAIN Calls, NEW items, items = Calls[call],
           NEW meant, meant = FlattenSeq([i \in DOMAIN items |-> Meaning(items[i])])
    PROVE  /\ do_kprintf(FlattenSeq([i \in DOMAIN items |-> Format(items[i])]),
                         FlattenSeq([i \in DOMAIN items |-> Passed(items[i])])) = meant
           /\ meant \in Seq(Chars)
           /\ Plain(meant)
<1> DEFINE fs == [j \in DOMAIN items |-> Format(items[j])]
           as == [j \in DOMAIN items |-> Passed(items[j])]
           ms == [j \in DOMAIN items |-> Meaning(items[j])]
<1>1. items \in Seq(Items) /\ \A j \in DOMAIN items : Printable(items[j])
  <2>1. Calls \in Seq(Seq(Items)) /\ \A i \in DOMAIN Calls : \A j \in DOMAIN Calls[i] : Printable(Calls[i][j])
    BY ConsoleAssumption
  <2>2. items \in Seq(Items)
    BY <2>1
  <2> QED BY <2>1, <2>2
<1>2. do_kprintf(FlattenSeq(fs), FlattenSeq(as)) = FlattenSeq(ms) /\ FlattenSeq(ms) \in Seq(Ink)
  BY <1>1, ItemsMean
<1>3. meant \in Seq(Ink) /\ do_kprintf(FlattenSeq(fs), FlattenSeq(as)) = meant
  BY <1>2
<1> HIDE DEF fs, as, ms
<1>4. meant \in Seq(Chars) /\ Plain(meant)
  <2>1. Ink \subseteq Chars /\ \A c \in Ink : c # BS
    BY DEF Ink
  <2>2. \A i \in DOMAIN meant : meant[i] \in Ink
    <3> HIDE <1>2
    <3> QED BY <1>3
  <2>3. meant \in Seq(Chars)
    BY <1>3, <2>1
  <2> QED BY <2>1, <2>2, <2>3 DEF Plain
<1> QED BY <1>3, <1>4 DEF fs, as

-----------------------------------------------------------------------------
(* The screen                                                              *)

Screens == [cell : [Cells -> [ch : Chars, color : Chars]], x : 0 .. COLUMNS, y : 0 .. LINES - 1]
Pages == [lines : Seq([0 .. COLUMNS - 1 -> Chars]), col : 0 .. COLUMNS]

First(lines) == IF Len(lines) > LINES THEN Len(lines) - LINES + 1 ELSE 1
Shown(lines, x, y) == IF First(lines) + y <= Len(lines) THEN lines[First(lines) + y][x] ELSE NUL

\* The screen s shows the end of the page p.
Shows(s, p) ==
    /\ s \in Screens /\ p \in Pages
    /\ p.lines # <<>>
    /\ \A x \in 0 .. COLUMNS - 1, y \in 0 .. LINES - 1 :
          LET c == s.cell[y * COLUMNS + x]
          IN  /\ c.ch = Shown(p.lines, x, y)
              /\ c.ch # NUL => c.color = current_color
    /\ s.x = p.col
    /\ First(p.lines) + s.y = Len(p.lines)

\* The size of the screen.
LEMMA Sizes == COLUMNS \in Nat \ {0} /\ LINES \in Nat \ {0}
BY ConsoleAssumption

\* The cells of the screen in rows and columns.
LEMMA Places ==
    ASSUME NEW x \in 0 .. COLUMNS - 1, NEW y \in 0 .. LINES - 1
    PROVE  /\ (y * COLUMNS) + x \in Cells
           /\ y < LINES - 1 => /\ ((y * COLUMNS) + x) + COLUMNS = ((y + 1) * COLUMNS) + x
                               /\ ((y * COLUMNS) + x) + COLUMNS \in Cells
           /\ y = LINES - 1 => ((y * COLUMNS) + x) + COLUMNS \notin Cells
           /\ \A u \in 0 .. COLUMNS - 1, v \in 0 .. LINES - 1 :
                 (v * COLUMNS) + u = (y * COLUMNS) + x => u = x /\ v = y
<1> USE Sizes
<1>1. /\ x \in Nat /\ y \in Nat /\ COLUMNS \in Nat /\ LINES \in Nat /\ y < LINES /\ x < COLUMNS
      /\ y * COLUMNS \in Nat /\ LINES * COLUMNS \in Nat
  OBVIOUS
<1>2. (y * COLUMNS) + COLUMNS <= LINES * COLUMNS
  BY <1>1, Rows
<1>3. (y * COLUMNS) + x \in Cells
  BY <1>1, <1>2 DEF Cells
<1>4. ASSUME y < LINES - 1
      PROVE  /\ ((y * COLUMNS) + x) + COLUMNS = ((y + 1) * COLUMNS) + x
             /\ ((y * COLUMNS) + x) + COLUMNS \in Cells
  <2>1. (y + 1) * COLUMNS = (y * COLUMNS) + COLUMNS
    BY <1>1
  <2>2. y + 1 \in Nat /\ y + 1 < LINES
    BY <1>1, <1>4
  <2>3. ((y + 1) * COLUMNS) + COLUMNS <= LINES * COLUMNS
    BY <1>1, <2>2, Rows
  <2> QED BY <1>1, <2>1, <2>3 DEF Cells
<1>5. ASSUME y = LINES - 1
      PROVE  ((y * COLUMNS) + x) + COLUMNS \notin Cells
  <2>1. LINES = y + 1
    BY <1>1, <1>5
  <2>2. LINES * COLUMNS = (y * COLUMNS) + COLUMNS
    BY <1>1, <2>1
  <2> DEFINE T == LINES * COLUMNS
             Y == y * COLUMNS
  <2>3. Y \in Nat /\ T = Y + COLUMNS /\ Cells = 0 .. T - 1
    BY <1>1, <2>2 DEF Cells
  <2> HIDE DEF T, Y
  <2>4. Y + x + COLUMNS \notin Cells
    BY <1>1, <2>3
  <2> QED BY <2>4 DEF Y
<1>6. ASSUME NEW u \in 0 .. COLUMNS - 1, NEW v \in 0 .. LINES - 1,
             (v * COLUMNS) + u = (y * COLUMNS) + x
      PROVE  u = x /\ v = y
  <2>1. u \in Nat /\ v \in Nat /\ u < COLUMNS /\ v * COLUMNS \in Nat
    BY <1>1
  <2>2. ~(v < y)
    <3> SUFFICES ASSUME v < y PROVE FALSE
      OBVIOUS
    <3>1. (v * COLUMNS) + COLUMNS <= y * COLUMNS
      BY <1>1, <2>1, Rows
    <3> DEFINE V == v * COLUMNS
               Y == y * COLUMNS
    <3>2. V + COLUMNS <= Y /\ V + u = Y + x /\ V \in Nat /\ Y \in Nat
      BY <1>1, <1>6, <2>1, <3>1
    <3> HIDE DEF V, Y
    <3> QED BY <1>1, <2>1, <3>2
  <2>3. ~(y < v)
    <3> SUFFICES ASSUME y < v PROVE FALSE
      OBVIOUS
    <3>1. (y * COLUMNS) + COLUMNS <= v * COLUMNS
      BY <1>1, <2>1, Rows
    <3> DEFINE V == v * COLUMNS
               Y == y * COLUMNS
    <3>2. Y + COLUMNS <= V /\ V + u = Y + x /\ V \in Nat /\ Y \in Nat
      BY <1>1, <1>6, <2>1, <3>1
    <3> HIDE DEF V, Y
    <3> QED BY <1>1, <2>1, <3>2
  <2>4. v = y
    BY <1>1, <2>1, <2>2, <2>3
  <2> QED BY <1>1, <1>6, <2>1, <2>4
<1> QED BY <1>3, <1>4, <1>5, <1>6

\* Every cell has a row and a column.
LEMMA Decomposed ==
    ASSUME NEW n \in Cells
    PROVE  \E x \in 0 .. COLUMNS - 1, y \in 0 .. LINES - 1 : n = (y * COLUMNS) + x
<1> USE Sizes
<1>1. /\ n \in Nat /\ COLUMNS \in Nat \ {0} /\ LINES \in Nat
      /\ n < LINES * COLUMNS
  BY DEF Cells
<1> DEFINE x == n % COLUMNS
           y == n \div COLUMNS
<1>2. x \in 0 .. COLUMNS - 1 /\ y \in Nat /\ n = (COLUMNS * y) + x
  BY <1>1, Division
<1> HIDE DEF x, y
<1>3. y < LINES
  <2> SUFFICES ASSUME ~(y < LINES) PROVE FALSE
    OBVIOUS
  <2>1. CASE y = LINES
    BY <1>1, <1>2, <2>1
  <2>2. CASE y # LINES
    <3>1. LINES < y
      BY <1>1, <1>2, <2>2
    <3>2. (LINES * COLUMNS) + COLUMNS <= y * COLUMNS
      BY <1>1, <1>2, <3>1, Rows
    <3> QED BY <1>1, <1>2, <3>2
  <2> QED BY <2>1, <2>2
<1>4. y \in 0 .. LINES - 1 /\ COLUMNS * y = y * COLUMNS
  BY <1>1, <1>2, <1>3
<1> QED BY <1>2, <1>4

\* What a store of a character and its colour changes.
LEMMA Stores ==
    ASSUME NEW s \in Screens, NEW n \in Cells, NEW c \in Chars, current_color \in Chars
    PROVE  Colored(Drawn(s, n, c), n) =
              [cell |-> [s.cell EXCEPT ![n] = [ch |-> c, color |-> current_color]], x |-> s.x, y |-> s.y]
<1> DEFINE m == s.cell
           r == m[n]
           t == Drawn(s, n, c)
           k == t.cell
           q == k[n]
<1>1. m[n] \in [ch : Chars, color : Chars] /\ m \in [Cells -> [ch : Chars, color : Chars]]
  BY DEF Screens
<1>2. t = [cell |-> [m EXCEPT ![n] = [ch |-> c, color |-> r.color]], x |-> s.x, y |-> s.y]
  <2>1. [r EXCEPT !.ch = c] = [ch |-> c, color |-> r.color]
    BY <1>1
  <2>2. [m EXCEPT ![n].ch = c] = [m EXCEPT ![n] = [ch |-> c, color |-> r.color]]
    BY <1>1, <2>1
  <2>3. t = [s EXCEPT !.cell = [m EXCEPT ![n].ch = c]]
    BY DEF Screens, Drawn
  <2>4. \A w : [s EXCEPT !.cell = w] = [cell |-> w, x |-> s.x, y |-> s.y]
    BY DEF Screens
  <2> QED BY <2>2, <2>3, <2>4
<1>3. t.x = s.x /\ t.y = s.y /\ k = [m EXCEPT ![n] = [ch |-> c, color |-> r.color]]
  BY <1>2
<1>4. q = [ch |-> c, color |-> r.color] /\ k \in [Cells -> [ch : Chars, color : Chars]]
  BY <1>1, <1>3
<1>5. Colored(t, n) = [cell |-> [k EXCEPT ![n] = [ch |-> c, color |-> current_color]], x |-> t.x, y |-> t.y]
  <2>1. [q EXCEPT !.color = current_color] = [ch |-> c, color |-> current_color]
    BY <1>4
  <2>2. [k EXCEPT ![n].color = current_color] = [k EXCEPT ![n] = [ch |-> c, color |-> current_color]]
    BY <1>4, <2>1
  <2>3. Colored(t, n) = [t EXCEPT !.cell = [k EXCEPT ![n].color = current_color]]
    BY <1>2 DEF Colored
  <2>4. \A w : [t EXCEPT !.cell = w] = [cell |-> w, x |-> t.x, y |-> t.y]
    BY <1>2
  <2> QED BY <2>2, <2>3, <2>4
<1>6. [k EXCEPT ![n] = [ch |-> c, color |-> current_color]] = [m EXCEPT ![n] = [ch |-> c, color |-> current_color]]
  <2> HIDE DEF k
  <2> QED BY <1>1, <1>3
<1> QED BY <1>3, <1>5, <1>6

\* A character on the screen is stored at the cursor.
LEMMA FilledCell ==
    ASSUME NEW s \in Screens, s.x < COLUMNS, NEW c \in Chars, current_color \in Chars
    PROVE  /\ Address(s) = (s.y * COLUMNS) + s.x
           /\ Filled(s, c) = [cell |-> [s.cell EXCEPT ![(s.y * COLUMNS) + s.x] =
                                          [ch |-> c, color |-> current_color]],
                              x |-> s.x + 1, y |-> s.y]
<1> USE Sizes
<1> DEFINE n == (s.y * COLUMNS) + s.x
<1>1. s.x \in 0 .. COLUMNS - 1 /\ s.y \in 0 .. LINES - 1
  BY DEF Screens
<1>2. n \in Cells
  BY <1>1, Places
<1>3. Address(s) = n
  <2> DEFINE T == COLUMNS * LINES
             H == UINT \div 2
  <2>1. T \in Nat /\ LINES * COLUMNS = T /\ 2 * T < UINT /\ UINT \in Nat
    BY UintType, ConsoleAssumption
  <2>2. n \in Nat /\ n < T
    BY <1>2, <2>1 DEF Cells
  <2>3. H \in Nat /\ n < H
    BY <2>1, <2>2
  <2> HIDE DEF n, T, H
  <2>4. n % H = n
    BY <2>2, <2>3, Small
  <2> QED BY <2>4 DEF Address, H, n
<1> HIDE DEF n
<1> DEFINE s2 == Colored(Drawn(s, n, c), n)
<1>4. s2 = [cell |-> [s.cell EXCEPT ![n] = [ch |-> c, color |-> current_color]], x |-> s.x, y |-> s.y]
  BY <1>2, Stores
<1>5. Filled(s, c) = [s2 EXCEPT !.x = @ + 1]
  BY <1>3 DEF Filled
<1> HIDE DEF s2
<1> QED BY <1>3, <1>4, <1>5 DEF n

\* The first line on the screen when the page grows by one.
LEMMA FirstLine ==
    ASSUME NEW lines, Len(lines) \in Nat
    PROVE  First(lines) \in Nat \ {0}
<1> DEFINE k == Len(lines)
<1>1. CASE k > LINES
  <2>1. First(lines) = k - LINES + 1
    BY <1>1 DEF First
  <2> HIDE DEF k
  <2> QED BY <1>1, <2>1, Sizes DEF k
<1>2. CASE ~(k > LINES)
  BY <1>2 DEF First
<1> QED BY <1>1, <1>2

\* A character in a line keeps the screen on the page.
LEMMA TypeShows ==
    ASSUME NEW s, NEW p, Shows(s, p), s.x < COLUMNS, NEW c \in Chars, current_color \in Chars
    PROVE  Shows(Filled(s, c), Type(p, c))
<1> USE Sizes
<1> DEFINE n == (s.y * COLUMNS) + s.x
           f == Filled(s, c)
           t == Type(p, c)
           k == Len(p.lines)
<1>1. /\ s \in Screens /\ p \in Pages /\ k \in Nat \ {0} /\ s.x = p.col /\ First(p.lines) + s.y = k
      /\ s.x \in 0 .. COLUMNS - 1 /\ s.y \in 0 .. LINES - 1
      /\ p.lines \in Seq([0 .. COLUMNS - 1 -> Chars])
  BY DEF Shows, Screens, Pages
<1>2. f = [cell |-> [s.cell EXCEPT ![n] = [ch |-> c, color |-> current_color]], x |-> s.x + 1, y |-> s.y]
  BY <1>1, FilledCell
<1>3. t = [lines |-> [p.lines EXCEPT ![k][s.x] = c], col |-> s.x + 1]
  <2>1. p.col # COLUMNS /\ p.col = s.x
    BY <1>1
  <2> QED BY <2>1 DEF Type
<1>4. n \in Cells
  BY <1>1, Places
<1>5. f \in Screens
  BY <1>1, <1>2, <1>4 DEF Screens
<1>6. /\ t \in Pages /\ Len(t.lines) = k /\ t.lines # <<>>
      /\ \A i \in 1 .. k : t.lines[i] = IF i = k THEN [p.lines[k] EXCEPT ![s.x] = c] ELSE p.lines[i]
  <2> DEFINE line == [p.lines[k] EXCEPT ![s.x] = c]
  <2>1. p.lines[k] \in [0 .. COLUMNS - 1 -> Chars]
    BY <1>1
  <2>2. line \in [0 .. COLUMNS - 1 -> Chars]
    BY <2>1
  <2>3. t.lines = [p.lines EXCEPT ![k] = line]
    BY <1>3
  <2>4. t.col = s.x + 1 /\ t.col \in 0 .. COLUMNS /\ t = [lines |-> t.lines, col |-> t.col]
    BY <1>1, <1>3
  <2> HIDE DEF line, t
  <2>5. t.lines \in Seq([0 .. COLUMNS - 1 -> Chars]) /\ Len(t.lines) = k
    BY <1>1, <2>2, <2>3
  <2>6. \A i \in 1 .. k : t.lines[i] = IF i = k THEN line ELSE p.lines[i]
    BY <1>1, <2>3
  <2> QED BY <1>1, <2>4, <2>5, <2>6 DEF Pages, line
<1>7. First(t.lines) = First(p.lines) /\ First(p.lines) \in Nat \ {0}
  BY <1>1, <1>6 DEF First
<1> HIDE DEF f, t, k
<1>8. ASSUME NEW x \in 0 .. COLUMNS - 1, NEW y \in 0 .. LINES - 1
      PROVE  /\ f.cell[y * COLUMNS + x].ch = Shown(t.lines, x, y)
             /\ f.cell[y * COLUMNS + x].ch # NUL => f.cell[y * COLUMNS + x].color = current_color
  <2> DEFINE m == (y * COLUMNS) + x
  <2>1. m \in Cells /\ (m = n => x = s.x /\ y = s.y)
    <3>1. /\ m \in Cells
          /\ \A u \in 0 .. COLUMNS - 1, v \in 0 .. LINES - 1 : (v * COLUMNS) + u = m => u = x /\ v = y
      BY Places
    <3> QED BY <1>1, <3>1
  <2>2. s.cell[m].ch = Shown(p.lines, x, y) /\ (s.cell[m].ch # NUL => s.cell[m].color = current_color)
    BY DEF Shows
  <2>3. s.cell \in [Cells -> [ch : Chars, color : Chars]]
    BY <1>1 DEF Screens
  <2>4. CASE x = s.x /\ y = s.y
    <3>1. m = n
      BY <2>4
    <3>2. f.cell[m] = [ch |-> c, color |-> current_color]
      BY <1>2, <1>4, <2>3, <3>1
    <3>3. Shown(t.lines, x, y) = t.lines[k][x]
      BY <1>1, <1>6, <1>7, <2>4 DEF Shown
    <3>4. p.lines[k] \in [0 .. COLUMNS - 1 -> Chars]
      BY <1>1 DEF k
    <3>5. t.lines[k][x] = c
      BY <1>1, <1>6, <2>4, <3>4
    <3> QED BY <3>2, <3>3, <3>5
  <2>5. CASE ~(x = s.x /\ y = s.y)
    <3>1. m # n
      BY <2>1, <2>5
    <3>2. f.cell[m] = s.cell[m]
      <4> HIDE DEF m, n
      <4> QED BY <1>2, <2>1, <2>3, <3>1
    <3>3. Shown(t.lines, x, y) = Shown(p.lines, x, y)
      <4>1. CASE First(p.lines) + y = k
        <5>1. y = s.y /\ x # s.x
          BY <1>1, <1>7, <2>5, <4>1
        <5>2. p.lines[k] \in [0 .. COLUMNS - 1 -> Chars]
          BY <1>1 DEF k
        <5> QED BY <1>1, <1>6, <1>7, <4>1, <5>1, <5>2 DEF Shown, k
      <4>2. CASE First(p.lines) + y # k
        <5> DEFINE l == First(p.lines) + y
        <5>1. l \in Nat \ {0} /\ l # k
          BY <1>7, <4>2
        <5>2. Shown(t.lines, x, y) = IF l <= k THEN t.lines[l][x] ELSE NUL
          BY <1>6, <1>7 DEF Shown
        <5>3. Shown(p.lines, x, y) = IF l <= k THEN p.lines[l][x] ELSE NUL
          BY DEF Shown, k
        <5> HIDE DEF l
        <5>4. l <= k => t.lines[l] = p.lines[l]
          BY <1>1, <1>6, <5>1
        <5> QED BY <5>2, <5>3, <5>4
      <4> QED BY <4>1, <4>2
    <3> QED BY <2>2, <3>2, <3>3
  <2> QED BY <2>4, <2>5
<1>9. f.x = t.col /\ First(t.lines) + f.y = Len(t.lines)
  BY <1>1, <1>2, <1>3, <1>6, <1>7
<1> QED BY <1>5, <1>6, <1>8, <1>9 DEF Shows, f, t

\* A new line, with or without scrolling, keeps the screen on the page.
LEMMA NewLineShows ==
    ASSUME NEW s, NEW p, Shows(s, p), current_color \in Chars
    PROVE  Shows(NewLine(s), OnNewLine(p))
<1> USE Sizes
<1> DEFINE f == NewLine(s)
           t == OnNewLine(p)
           k == Len(p.lines)
<1>1. /\ s \in Screens /\ p \in Pages /\ k \in Nat \ {0} /\ First(p.lines) + s.y = k
      /\ s.y \in 0 .. LINES - 1
      /\ p.lines \in Seq([0 .. COLUMNS - 1 -> Chars])
      /\ s.cell \in [Cells -> [ch : Chars, color : Chars]]
      /\ s = [cell |-> s.cell, x |-> s.x, y |-> s.y]
  BY DEF Shows, Screens, Pages
<1>2. /\ BlankLine \in [0 .. COLUMNS - 1 -> Chars]
      /\ \A x \in 0 .. COLUMNS - 1 : BlankLine[x] = NUL
  BY DEF BlankLine, Chars, NUL
<1>3. /\ t = [lines |-> Append(p.lines, BlankLine), col |-> 0]
      /\ Len(t.lines) = k + 1 /\ t.lines # <<>> /\ t.lines[k + 1] = BlankLine
      /\ \A i \in 1 .. k : t.lines[i] = p.lines[i]
      /\ t \in Pages
  BY <1>1, <1>2 DEF Pages, OnNewLine
<1>4. First(p.lines) \in Nat \ {0}
  BY <1>1, FirstLine
<1> HIDE DEF f, t, k
<1>5. CASE s.y = LINES - 1
  <2>1. f = [cell |-> Scrolled(s), x |-> 0, y |-> s.y]
    BY <1>1, <1>5 DEF NewLine, f
  <2>2. f \in Screens
    BY <1>1, <2>1 DEF Screens, Scrolled, Chars, NUL
  <2>3. First(t.lines) = First(p.lines) + 1
    BY <1>1, <1>3, <1>5 DEF First, k
  <2>4. ASSUME NEW x \in 0 .. COLUMNS - 1, NEW y \in 0 .. LINES - 1
        PROVE  /\ f.cell[y * COLUMNS + x].ch = Shown(t.lines, x, y)
               /\ f.cell[y * COLUMNS + x].ch # NUL => f.cell[y * COLUMNS + x].color = current_color
    <3> DEFINE m == (y * COLUMNS) + x
    <3>1. m \in Cells
      BY Places
    <3>2. CASE y = LINES - 1
      <4>1. m + COLUMNS \notin Cells
        BY <3>2, Places
      <4>2. f.cell[m] = [ch |-> NUL, color |-> current_color]
        BY <2>1, <3>1, <4>1 DEF Scrolled
      <4>3. Shown(t.lines, x, y) = NUL
        BY <1>1, <1>2, <1>3, <1>4, <1>5, <2>3, <3>2 DEF Shown
      <4> QED BY <4>2, <4>3
    <3>3. CASE y # LINES - 1
      <4>1. y < LINES - 1 /\ y + 1 \in 0 .. LINES - 1
        BY <3>3
      <4>2. m + COLUMNS \in Cells /\ m + COLUMNS = ((y + 1) * COLUMNS) + x
        BY <4>1, Places
      <4>3. f.cell[m] = s.cell[((y + 1) * COLUMNS) + x]
        BY <2>1, <3>1, <4>2 DEF Scrolled
      <4>4. Shown(t.lines, x, y) = Shown(p.lines, x, y + 1)
        <5> DEFINE l == First(p.lines) + (y + 1)
        <5>1. l \in Nat \ {0} /\ First(t.lines) + y = l /\ l <= k
          <6> DEFINE e == First(p.lines)
          <6>1. e \in Nat \ {0} /\ e + (LINES - 1) = k /\ First(t.lines) = e + 1
            BY <1>1, <1>4, <1>5, <2>3
          <6> HIDE DEF e
          <6>2. y \in Nat /\ y + 1 <= LINES - 1 /\ LINES \in Nat
            BY <4>1
          <6>3. e + (y + 1) \in Nat \ {0} /\ First(t.lines) + y = e + (y + 1) /\ e + (y + 1) <= k
            BY <6>1, <6>2
          <6> QED BY <6>3 DEF e
        <5>2. Shown(t.lines, x, y) = IF l <= k + 1 THEN t.lines[l][x] ELSE NUL
          BY <1>3, <5>1 DEF Shown
        <5>3. Shown(p.lines, x, y + 1) = IF l <= k THEN p.lines[l][x] ELSE NUL
          BY DEF Shown, k
        <5> HIDE DEF l
        <5>4. t.lines[l] = p.lines[l] /\ l <= k + 1
          BY <1>1, <1>3, <5>1
        <5> QED BY <5>1, <5>2, <5>3, <5>4
      <4> QED BY <4>1, <4>3, <4>4 DEF Shows
    <3> QED BY <3>2, <3>3
  <2> QED BY <1>1, <1>3, <1>4, <2>1, <2>2, <2>3, <2>4 DEF Shows, f, t
<1>6. CASE s.y # LINES - 1
  <2>1. f = [cell |-> s.cell, x |-> 0, y |-> s.y + 1]
    BY <1>1, <1>6 DEF NewLine, f
  <2>2. f \in Screens
    BY <1>1, <1>6, <2>1 DEF Screens
  <2>3. First(t.lines) = First(p.lines)
    BY <1>1, <1>3, <1>6 DEF First, k
  <2>4. ASSUME NEW x \in 0 .. COLUMNS - 1, NEW y \in 0 .. LINES - 1
        PROVE  Shown(t.lines, x, y) = Shown(p.lines, x, y)
    <3> DEFINE l == First(p.lines) + y
    <3>1. l \in Nat \ {0}
      BY <1>4
    <3>2. Shown(t.lines, x, y) = IF l <= k + 1 THEN t.lines[l][x] ELSE NUL
      BY <1>3, <2>3 DEF Shown
    <3>3. Shown(p.lines, x, y) = IF l <= k THEN p.lines[l][x] ELSE NUL
      BY DEF Shown, k
    <3> HIDE DEF l
    <3>4. CASE l <= k
      <4>1. t.lines[l] = p.lines[l] /\ l <= k + 1
        BY <1>1, <1>3, <3>1, <3>4
      <4> QED BY <3>2, <3>3, <3>4, <4>1
    <3>5. CASE l = k + 1
      <4>1. ~(l <= k) /\ l <= k + 1 /\ t.lines[l] = BlankLine
        BY <1>1, <1>3, <3>5
      <4> QED BY <1>2, <3>2, <3>3, <4>1
    <3>6. CASE ~(l <= k) /\ l # k + 1
      <4>1. ~(l <= k + 1)
        BY <1>1, <3>1, <3>6
      <4> QED BY <3>2, <3>3, <3>6, <4>1
    <3> QED BY <3>4, <3>5, <3>6
  <2> QED BY <1>1, <1>3, <1>4, <2>1, <2>2, <2>3, <2>4 DEF Shows, f, t
<1> QED BY <1>5, <1>6

\* So does a character that ends the line first.
LEMMA PutShows ==
    ASSUME NEW s, NEW p, Shows(s, p), NEW c \in Chars, current_color \in Chars
    PROVE  Shows(Put(s, c), Type(p, c))
<1> USE Sizes
<1>1. s.x = p.col /\ s.x \in 0 .. COLUMNS /\ COLUMNS \in Nat \ {0}
  BY DEF Shows, Screens
<1>2. CASE s.x = COLUMNS
  <2> DEFINE f == NewLine(s)
             t == OnNewLine(p)
  <2>1. Shows(f, t)
    BY NewLineShows
  <2>2. t.col = 0 /\ f.x < COLUMNS
    BY <1>1, <2>1 DEF Shows, OnNewLine
  <2>3. Type(p, c) = Type(t, c) /\ Put(s, c) = Filled(f, c)
    BY <1>1, <1>2, <2>2 DEF Type, Put
  <2> HIDE DEF f, t
  <2>4. Shows(Filled(f, c), Type(t, c))
    BY <2>1, <2>2, TypeShows
  <2> QED BY <2>3, <2>4
<1>3. CASE s.x # COLUMNS
  <2>1. s.x < COLUMNS
    BY <1>1, <1>3
  <2> QED BY <1>3, <2>1, TypeShows DEF Put
<1> QED BY <1>2, <1>3

\* So does whatever text_putc is given but a backspace.
LEMMA Sight ==
    ASSUME NEW p \in Pages, NEW c \in Chars, Shows(Screen, p), current_color \in Chars, c # BS
    PROVE  Shows(PutAny(c), Typed(p, c))
<1> USE Sizes
<1>1. NUL \in Chars
  BY DEF NUL, Chars
<1>2. CASE c = NL
  <2>1. PutAny(c) = NewLine(Screen) /\ Typed(p, c) = OnNewLine(p)
    BY <1>2 DEF PutAny, Typed, NL, CR, TAB, BS
  <2> QED BY <2>1, NewLineShows
<1>3. CASE c = CR
  <2> DEFINE f == [Screen EXCEPT !.x = 0]
             t == [p EXCEPT !.col = 0]
  <2>1. PutAny(c) = f /\ Typed(p, c) = t
    BY <1>3 DEF PutAny, Typed, CR, NL, BS, TAB
  <2>2. f = [cell |-> cell, x |-> 0, y |-> text_y] /\ t = [lines |-> p.lines, col |-> 0]
    BY DEF Screen, Pages
  <2> HIDE DEF f, t
  <2>3. Shows(f, t)
    BY <2>2 DEF Shows, Screen, Screens, Pages
  <2> QED BY <2>1, <2>3
<1>4. CASE c = TAB
  <2> DEFINE s1 == Put(Screen, NUL)
             s2 == Put(s1, NUL)
             s3 == Put(s2, NUL)
             p1 == Type(p, NUL)
             p2 == Type(p1, NUL)
             p3 == Type(p2, NUL)
  <2>1. PutAny(c) = Put(s3, NUL) /\ Typed(p, c) = Type(p3, NUL)
    BY <1>4 DEF PutAny, Typed, CR, NL, BS, TAB
  <2>2. Shows(s1, p1)
    BY <1>1, PutShows
  <2> HIDE DEF s1, p1
  <2>3. Shows(s2, p2)
    BY <1>1, <2>2, PutShows
  <2> HIDE DEF s2, p2
  <2>4. Shows(s3, p3)
    BY <1>1, <2>3, PutShows
  <2> HIDE DEF s3, p3
  <2>5. Shows(Put(s3, NUL), Type(p3, NUL))
    BY <1>1, <2>4, PutShows
  <2> QED BY <2>1, <2>5
<1>5. CASE c \notin {NL, CR, TAB}
  <2>1. PutAny(c) = Put(Screen, c) /\ Typed(p, c) = Type(p, c)
    BY <1>5 DEF PutAny, Typed
  <2> QED BY <2>1, PutShows
<1> QED BY <1>2, <1>3, <1>4, <1>5

-----------------------------------------------------------------------------
(* The console's invariant                                                 *)

\* The screen shows the page typed so far; before it is set up the page is empty.
Sees ==
    /\ setup => Shows(Screen, page)
    /\ ~setup => page = [lines |-> <<BlankLine>>, col |-> 0]

ConsoleInv == ConsoleTypeOK /\ out = due /\ Plain(out) /\ Sees

\* An empty line.
LEMMA Blank == BlankLine \in [0 .. COLUMNS - 1 -> Chars] /\ \A x \in 0 .. COLUMNS - 1 : BlankLine[x] = NUL
BY DEF BlankLine, Chars, NUL

\* The invariant holds before kprintf is called.
LEMMA Start == ConsoleInit => ConsoleInv
<1> SUFFICES ASSUME ConsoleInit PROVE ConsoleInv
  OBVIOUS
<1> USE Sizes DEF ConsoleInit
<1>1. page \in [lines : Seq([0 .. COLUMNS - 1 -> Chars]), col : 0 .. COLUMNS]
  BY Blank
<1>2. cell \in [Cells -> [ch : Chars, color : Chars]]
  BY DEF Chars, NUL
<1>3. MaxCalls \in Nat
  BY ConsoleAssumption
<1>4. /\ text_x \in 0 .. COLUMNS /\ text_y \in 0 .. LINES - 1 /\ current_color \in Chars
      /\ setup \in BOOLEAN /\ out \in Seq(Chars) /\ due \in Seq(Chars) /\ asked \in 0 .. MaxCalls
  <2>1. text_x \in 0 .. COLUMNS /\ text_y \in 0 .. LINES - 1 /\ asked \in 0 .. MaxCalls
    BY <1>3
  <2>2. out \in Seq(Chars) /\ due \in Seq(Chars)
    OBVIOUS
  <2>3. current_color \in Chars
    BY DEF Chars
  <2>4. setup \in BOOLEAN
    BY Zenon
  <2> QED BY <2>1, <2>2, <2>3, <2>4
<1>5. ConsoleTypeOK
  BY <1>1, <1>2, <1>4 DEF ConsoleTypeOK
<1> QED BY <1>5 DEF ConsoleInv, Plain, Sees

\* A call puts what is due.
LEMMA KprintfKeeps == ConsoleInv /\ kprintf => ConsoleInv'
<1> SUFFICES ASSUME ConsoleInv, kprintf PROVE ConsoleInv'
  OBVIOUS
<1>1. PICK call \in DOMAIN Calls :
         LET items == Calls[call]
         IN  /\ out' = do_kprintf(FlattenSeq([i \in DOMAIN items |-> Format(items[i])]),
                                  FlattenSeq([i \in DOMAIN items |-> Passed(items[i])]))
             /\ due' = FlattenSeq([i \in DOMAIN items |-> Meaning(items[i])])
  BY DEF kprintf
<1>2. out' = due' /\ due' \in Seq(Chars) /\ Plain(due')
  BY <1>1, CallMeans
<1>3. /\ UNCHANGED <<cell, text_x, text_y, current_color, setup, page>>
      /\ asked' = asked + 1 /\ asked < MaxCalls
  BY DEF kprintf
<1>4. MaxCalls \in Nat
  BY ConsoleAssumption
<1>5. ConsoleTypeOK'
  BY <1>2, <1>3, <1>4 DEF ConsoleInv, ConsoleTypeOK
<1>6. Sees'
  BY <1>3 DEF ConsoleInv, Sees, Shows, Screen
<1> QED BY <1>2, <1>5, <1>6 DEF ConsoleInv

\* The cleared screen shows the empty page.
LEMMA SetUpKeeps == ConsoleInv /\ init_vga => ConsoleInv'
<1> SUFFICES ASSUME ConsoleInv, init_vga PROVE ConsoleInv'
  OBVIOUS
<1> USE Sizes
<1> DEFINE start == [lines |-> <<BlankLine>>, col |-> 0]
<1>1. /\ page' = start /\ setup' = TRUE /\ current_color' = 3
      /\ cell' = [n \in Cells |-> [ch |-> NUL, color |-> 15]] /\ text_x' = 0 /\ text_y' = 0
      /\ UNCHANGED <<asked, out, due, page>>
  BY DEF ConsoleInv, Sees, init_vga, get_color, Cleared, T_CYAN, T_WHITE
<1>2. ConsoleTypeOK'
  <2>1. cell' \in [Cells -> [ch : Chars, color : Chars]]
    BY <1>1 DEF Chars, NUL
  <2>2. text_x' \in 0 .. COLUMNS /\ text_y' \in 0 .. LINES - 1 /\ current_color' \in Chars /\ setup' \in BOOLEAN
    BY <1>1 DEF Chars
  <2> QED BY <1>1, <2>1, <2>2 DEF ConsoleInv, ConsoleTypeOK
<1>3. start \in Pages /\ Len(start.lines) = 1 /\ start.lines[1] = BlankLine /\ start.lines # <<>>
  BY Blank DEF Pages
<1>4. First(start.lines) = 1 /\ First(start.lines) + 0 = Len(start.lines)
  <2>1. First(start.lines) = 1
    BY <1>3 DEF First
  <2> QED BY <1>3, <2>1
<1>5. Screen' = [cell |-> cell', x |-> 0, y |-> 0] /\ Screen' \in Screens
  BY <1>1, <1>2 DEF Screen, Screens, ConsoleTypeOK
<1>6. \A x \in 0 .. COLUMNS - 1, y \in 0 .. LINES - 1 :
         /\ cell'[(y * COLUMNS) + x] = [ch |-> NUL, color |-> 15]
         /\ Shown(start.lines, x, y) = NUL
  <2> SUFFICES ASSUME NEW x \in 0 .. COLUMNS - 1, NEW y \in 0 .. LINES - 1
               PROVE  /\ cell'[(y * COLUMNS) + x] = [ch |-> NUL, color |-> 15]
                      /\ Shown(start.lines, x, y) = NUL
    OBVIOUS
  <2>1. (y * COLUMNS) + x \in Cells
    BY Places
  <2>2. Shown(start.lines, x, y) = NUL
    <3>1. CASE y = 0
      BY <1>3, <1>4, <3>1, Blank DEF Shown
    <3>2. CASE y # 0
      BY <1>3, <1>4, <3>2 DEF Shown
    <3> QED BY <3>1, <3>2
  <2> QED BY <1>1, <2>1, <2>2
<1> HIDE DEF start
<1>7. Shows(Screen, page)'
  <2>1. page'.lines = start.lines /\ page'.col = 0 /\ page' \in Pages
    BY <1>1, <1>3 DEF start
  <2>2. Screen'.x = 0 /\ Screen'.y = 0 /\ Screen'.cell = cell'
    BY <1>5
  <2>3. \A x \in 0 .. COLUMNS - 1, y \in 0 .. LINES - 1 :
           LET d == Screen'.cell[y * COLUMNS + x]
           IN  /\ d.ch = Shown(page'.lines, x, y)
               /\ d.ch # NUL => d.color = current_color'
    BY <1>6, <2>1, <2>2
  <2>4. First(page'.lines) + Screen'.y = Len(page'.lines)
    BY <1>3, <1>4, <2>1, <2>2
  <2> QED BY <1>3, <1>5, <2>1, <2>2, <2>3, <2>4 DEF Shows, Shown, First
<1>8. Sees'
  BY <1>1, <1>7 DEF Sees
<1> QED BY <1>1, <1>2, <1>8 DEF ConsoleInv, Plain

\* A character is put and typed at once.
LEMMA PutcKeeps == ConsoleInv /\ text_putc => ConsoleInv'
<1> SUFFICES ASSUME ConsoleInv, text_putc PROVE ConsoleInv'
  OBVIOUS
<1> USE Sizes
<1> DEFINE c == Head(out)
           s == PutAny(c)
<1>1. /\ setup /\ out # <<>> /\ out' = Tail(out) /\ due' = Tail(due) /\ page' = Typed(page, c)
      /\ cell' = s.cell /\ text_x' = s.x /\ text_y' = s.y
      /\ UNCHANGED <<current_color, setup, asked>>
      /\ out = due
  BY DEF ConsoleInv, text_putc
<1>2. /\ c \in Chars /\ c # BS /\ Tail(out) \in Seq(Chars) /\ Plain(Tail(out))
  <2>1. out \in Seq(Chars) /\ Plain(out)
    BY DEF ConsoleInv, ConsoleTypeOK
  <2>2. Len(out) \in Nat \ {0} /\ c = out[1] /\ 1 \in DOMAIN out
    BY <1>1, <2>1
  <2>3. /\ Tail(out) \in Seq(Chars) /\ DOMAIN Tail(out) = 1 .. Len(out) - 1
        /\ \A i \in 1 .. Len(out) - 1 : Tail(out)[i] = out[i + 1] /\ i + 1 \in DOMAIN out
    BY <1>1, <2>1, <2>2
  <2> QED BY <2>1, <2>2, <2>3 DEF Plain
<1>3. Shows(Screen, page) /\ page \in Pages /\ current_color \in Chars
  BY <1>1 DEF ConsoleInv, Sees, ConsoleTypeOK, Pages
<1> HIDE DEF c
<1>4. Shows(s, Typed(page, c))
  BY <1>2, <1>3, Sight
<1> HIDE DEF s
<1>5. s \in Screens /\ Typed(page, c) \in Pages
  BY <1>4 DEF Shows
<1>6. Screen' = s
  BY <1>1, <1>5 DEF Screen, Screens
<1>7. Sees'
  BY <1>1, <1>4, <1>6 DEF Sees, Shows
<1>8. ConsoleTypeOK'
  BY <1>1, <1>2, <1>5 DEF ConsoleInv, ConsoleTypeOK, Screens, Pages
<1> QED BY <1>1, <1>2, <1>7, <1>8 DEF ConsoleInv

\* The invariant is enough.
LEMMA ConsoleInvShows == ConsoleInv => ScreenShows
<1> SUFFICES ASSUME ConsoleInv PROVE ScreenShows
  OBVIOUS
<1>1. ConsoleTypeOK /\ out = due /\ (setup => Shows(Screen, page))
  BY DEF ConsoleInv, Sees
<1>2. CASE setup
  BY <1>1, <1>2 DEF ScreenShows, Shows, Shown, First, Screen
<1>3. CASE ~setup
  BY <1>1, <1>3 DEF ScreenShows
<1> QED BY <1>2, <1>3

\* Whatever the calls, the screen and the size of an integer: kprintf puts what
\* its callers mean and text_putc shows the end of the page on which it is typed.
THEOREM ScreenShowsWhatIsMeant == ConsoleSpec => []ScreenShows
<1>1. ConsoleInv /\ [ConsoleNext]_console_vars => ConsoleInv'
  <2> SUFFICES ASSUME ConsoleInv, [ConsoleNext]_console_vars PROVE ConsoleInv'
    OBVIOUS
  <2>1. CASE kprintf
    BY <2>1, KprintfKeeps
  <2>2. CASE init_vga
    BY <2>2, SetUpKeeps
  <2>3. CASE text_putc
    BY <2>3, PutcKeeps
  <2>4. CASE UNCHANGED console_vars
    BY <2>4 DEF console_vars, ConsoleInv, ConsoleTypeOK, Plain, Sees, Shows, Screen
  <2> QED BY <2>1, <2>2, <2>3, <2>4 DEF ConsoleNext
<1> QED BY <1>1, Start, ConsoleInvShows, PTL DEF ConsoleSpec
=============================================================================
