---------------------------- MODULE KernelLocks ----------------------------
(***************************************************************************)
(* Who holds the kernel's mutexes: kernel/sched/sync.c, its two callers    *)
(* kmalloc/kfree (_heap_mtx) and kprintf (kprintf_mtx), and the handlers   *)
(* that can interrupt them anywhere: irq_handler, exc_handler and panic.   *)
(*                                                                         *)
(* There is one thread, a stack of frames of which only the top one runs.  *)
(* An interrupt pushes a frame that has to finish before the one beneath   *)
(* it goes on.  All gates of the IDT are interrupt gates, so handlers run  *)
(* with interrupts off, but an exception can hit any frame.                *)
(*                                                                         *)
(* mutex_lock tests and sets in two steps (its cli and sti are commented   *)
(* out).  What the heap and the console do under their mutex is left out.  *)
(***************************************************************************)
EXTENDS Naturals, Sequences

CONSTANTS IrqCalls,     \* functions that registered IRQ handlers call
          FaultSites,   \* functions in which an exception may strike
          HeapLines,    \* lines that heap_dump prints
          MaxIrqs,      \* bound on the interrupts of one behaviour
          MaxDepth      \* bound on the frames of one stack

Locking == {"kmalloc", "kfree", "kprintf"}
Functions == Locking \cup {"thread", "irq", "exc", "panic"}

ASSUME LocksAssumption ==
    /\ IrqCalls \subseteq Locking
    /\ FaultSites \subseteq Functions
    /\ HeapLines \in Nat
    /\ MaxIrqs \in Nat
    /\ MaxDepth \in Nat

VARIABLES stack,     \* the frames, the running one last
          locked,    \* mutex -> mtx->locked
          interrupts,\* the processor's interrupt flag
          halted,    \* hlt was executed with interrupts off
          irqs,      \* interrupts delivered so far (bounded by MaxIrqs)
          misuse     \* what the rest of this kernel does to the two mutexes

vars == <<stack, locked, interrupts, halted, irqs, misuse>>

\* Uses that the mutexes do not stand: an IRQ handler that locks or faults,
\* kfree(NULL), and an argument of kprintf that faults.  The tree has none.
Misuses == {"handler", "kfree(NULL)", "kprintf faults"}

Mutexes == {"_heap_mtx", "kprintf_mtx"}
MutexOf(fn) == IF fn = "kprintf" THEN "kprintf_mtx" ELSE "_heap_mtx"

\* pc of a function that locks: testing, setting, inside, leaving.
Pcs == {"test", "set", "inside", "leave", "run", "dump", "die", "message"}
Frame == [fn : Functions, pc : Pcs, lines : 0 .. HeapLines]

Call(fn) == [fn |-> fn, pc |-> "test", lines |-> 0]
Idle == <<[fn |-> "thread", pc |-> "run", lines |-> 0]>>

Init ==
    /\ stack = Idle
    /\ locked = [m \in Mutexes |-> FALSE]
    /\ interrupts = TRUE
    /\ halted = FALSE
    /\ irqs = 0
    /\ misuse \in SUBSET Misuses

-----------------------------------------------------------------------------
(* Frames                                                                  *)

Depth == Len(stack)
Top == stack[Depth]

At(fns, pc) == ~halted /\ Top.fn \in fns /\ Top.pc = pc

\* The top frame goes on at pc, calls another function, or returns.
Advanced(pc) == [stack EXCEPT ![Depth].pc = pc]
Goto(pc) == stack' = Advanced(pc)
GotoAndPush(pc, f) == stack' = Append(Advanced(pc), f)
Push(f) == stack' = Append(stack, f)
\* Mutant: one frame too many is popped.
Return_twice ==
    stack' = SubSeq(stack, 1, IF Depth > 2 THEN Depth - 2 ELSE 0)
Return == stack' = SubSeq(stack, 1, Depth - 1)

-----------------------------------------------------------------------------
(* sync.c: mutex_lock, the test and the store; mutex_unlock.               *)

\* Mutant: the mutex is taken whoever has it.
mutex_lock_test_ignored ==
    /\ At(Locking, "test")
    /\ Goto("set")
    /\ UNCHANGED <<locked, interrupts, halted, irqs, misuse>>

\* A locked mutex sends the test around again.
mutex_lock_test ==
    /\ At(Locking, "test")
    /\ ~locked[MutexOf(Top.fn)]
    /\ Goto("set")
    /\ UNCHANGED <<locked, interrupts, halted, irqs, misuse>>

mutex_lock_set ==
    /\ At(Locking, "set")
    /\ locked' = [locked EXCEPT ![MutexOf(Top.fn)] = TRUE]
    /\ Goto("inside")
    /\ UNCHANGED <<interrupts, halted, irqs, misuse>>

\* Mutant: the mutex stays locked.
mutex_unlock_forgotten ==
    /\ At(Locking, "leave")
    /\ Return
    /\ UNCHANGED <<locked, interrupts, halted, irqs, misuse>>

\* Every caller of mutex_unlock returns right after it.
mutex_unlock ==
    /\ At(Locking, "leave")
    /\ locked' = [locked EXCEPT ![MutexOf(Top.fn)] = FALSE]
    /\ Return
    /\ UNCHANGED <<interrupts, halted, irqs, misuse>>

-----------------------------------------------------------------------------
(* What happens under the mutexes.                                         *)

finish ==
    /\ At(Locking, "inside")
    /\ Goto("leave")
    /\ UNCHANGED <<locked, interrupts, halted, irqs, misuse>>

\* kmalloc: "no more memory" is printed with the heap mutex held.
kmalloc_out_of_memory ==
    /\ At({"kmalloc"}, "inside")
    /\ GotoAndPush("leave", Call("kprintf"))
    /\ UNCHANGED <<locked, interrupts, halted, irqs, misuse>>

\* kfree: an assertion of merge_entries fails in a debug build.
kfree_assertion_fails ==
    /\ At({"kfree"}, "inside")
    /\ GotoAndPush("leave", [fn |-> "panic", pc |-> "run", lines |-> 0])
    /\ UNCHANGED <<locked, interrupts, halted, irqs, misuse>>

\* kfree: the early return for NULL, with the mutex locked.
kfree_null ==
    /\ At({"kfree"}, "inside")
    /\ "kfree(NULL)" \in misuse
    /\ Return
    /\ UNCHANGED <<locked, interrupts, halted, irqs, misuse>>

\* The thread calls the heap or prints.
thread_calls ==
    /\ At({"thread"}, "run")
    /\ \E fn \in Locking : Push(Call(fn))
    /\ UNCHANGED <<locked, interrupts, halted, irqs, misuse>>

-----------------------------------------------------------------------------
(* Interrupts: irq.s, irq_handler_i686 and kernel/interrupt.c.             *)

irq_arrives ==
    /\ ~halted /\ interrupts
    /\ irqs < MaxIrqs /\ Depth < MaxDepth
    /\ irqs' = irqs + 1
    /\ interrupts' = FALSE
    /\ Push([fn |-> "irq", pc |-> "run", lines |-> 0])
    /\ UNCHANGED <<locked, halted, misuse>>

\* A registered handler runs one of the locking functions.
irq_handler_calls ==
    /\ At({"irq"}, "run")
    /\ "handler" \in misuse
    /\ \E fn \in IrqCalls : GotoAndPush("leave", Call(fn))
    /\ UNCHANGED <<locked, interrupts, halted, irqs, misuse>>

\* No handler is registered, or it has returned: iret enables interrupts.
irq_returns ==
    /\ At({"irq"}, "run") \/ At({"irq"}, "leave")
    /\ interrupts' = TRUE
    /\ Return
    /\ UNCHANGED <<locked, halted, irqs, misuse>>

-----------------------------------------------------------------------------
(* Exceptions: exc_handler (arch/i686/exception.c) and panic (kprintf.c).  *)

\* A faulting function is hit under its mutex (a bad pointer in the list or
\* among the arguments of %s), any other one at any point.
exception_strikes ==
    /\ ~halted
    /\ Depth < MaxDepth
    /\ Top.fn \in FaultSites
    /\ Top.fn = "kprintf" => "kprintf faults" \in misuse
    /\ Top.fn = "irq" => "handler" \in misuse
    /\ Top.fn \in Locking => Top.pc = "inside"
    /\ interrupts' = FALSE
    /\ Push([fn |-> "exc", pc |-> "run", lines |-> 0])
    /\ UNCHANGED <<locked, halted, irqs, misuse>>

\* generic_exception: page and protection faults are described, others not;
\* the result is fatal for all of them, and heap_dump begins with a headline.
exc_reports ==
    /\ At({"exc"}, "run")
    /\ GotoAndPush("dump", Call("kprintf")) \/ Goto("dump")
    /\ UNCHANGED <<locked, interrupts, halted, irqs, misuse>>

\* heap_dump goes on to the next line.
NextLine == [stack EXCEPT ![Depth].lines = @ + 1]

\* Mutant: heap_dump takes the heap mutex.
exc_dumps_line_locked ==
    /\ At({"exc"}, "dump")
    /\ Top.lines < HeapLines
    /\ stack' = Append(NextLine, Call("kmalloc"))
    /\ UNCHANGED <<locked, interrupts, halted, irqs, misuse>>

exc_dumps_line ==
    /\ At({"exc"}, "dump")
    /\ Top.lines < HeapLines
    /\ stack' = Append(NextLine, Call("kprintf"))
    /\ UNCHANGED <<locked, interrupts, halted, irqs, misuse>>

exc_panics ==
    /\ At({"exc"}, "dump")
    /\ Top.lines = HeapLines
    /\ GotoAndPush("die", [fn |-> "panic", pc |-> "run", lines |-> 0])
    /\ UNCHANGED <<locked, interrupts, halted, irqs, misuse>>

\* Mutant: panic without cli.
panic_headline_interruptible ==
    /\ At({"panic"}, "run")
    /\ GotoAndPush("message", Call("kprintf"))
    /\ UNCHANGED <<locked, interrupts, halted, irqs, misuse>>

panic_headline ==
    /\ At({"panic"}, "run")
    /\ interrupts' = FALSE
    /\ GotoAndPush("message", Call("kprintf"))
    /\ UNCHANGED <<locked, halted, irqs, misuse>>

\* The message itself is printed by do_kprintf, without the mutex; then hlt.
panic_halts ==
    /\ At({"panic"}, "message")
    /\ halted' = TRUE
    /\ UNCHANGED <<stack, locked, interrupts, irqs, misuse>>

\* The processor executes the running frame.
Step ==
    \/ mutex_lock_test \/ mutex_lock_set \/ mutex_unlock
    \/ finish \/ kmalloc_out_of_memory \/ kfree_assertion_fails \/ kfree_null
    \/ irq_handler_calls \/ irq_returns
    \/ exc_reports \/ exc_dumps_line \/ exc_panics
    \/ panic_headline \/ panic_halts

Next == Step \/ thread_calls \/ irq_arrives \/ exception_strikes

Spec == Init /\ [][Next]_vars

\* The processor does not stop in the middle of a function: what is enabled
\* for the running frame is executed.  Calls, interrupts and faults may stop.
FairSpec == Spec /\ WF_vars(Step)

-----------------------------------------------------------------------------
(* Properties                                                              *)

\* Types of the variables.
TypeOK ==
    /\ stack \in Seq(Frame) /\ Depth > 0
    /\ locked \in [Mutexes -> BOOLEAN]
    /\ interrupts \in BOOLEAN /\ halted \in BOOLEAN
    /\ irqs \in 0 .. MaxIrqs
    /\ misuse \subseteq Misuses

Holds(f, m) == f.fn \in Locking /\ f.pc \in {"inside", "leave"} /\ MutexOf(f.fn) = m

\* What a mutex is for: the heap's list and the console are touched by one
\* function at a time, whatever interrupts it.
MutualExclusion ==
    \A m \in Mutexes, i, j \in 1 .. Depth :
        Holds(stack[i], m) /\ Holds(stack[j], m) => i = j

\* A mutex that is free is held by nobody: unlocking never takes it away from
\* a function beneath, so a handler cannot open the door for a third one.
HeldIsLocked ==
    \A m \in Mutexes, i \in 1 .. Depth : Holds(stack[i], m) => locked[m]

InFunction(fns) == \E i \in 1 .. Depth : stack[i].fn \in fns

\* A heap or print call returns, or the kernel halts, unless the mutexes are
\* misused: any of the three misuses makes a call spin for ever.
CallsReturn ==
    misuse = {} /\ InFunction(Locking) ~> ~InFunction(Locking) \/ halted

\* The message of an unhandled exception ends in "execution halted.": what an
\* exception interrupts may hold the heap mutex, and even its NULL leftover
\* does no harm; only a lock on the console does.
ExceptionHalts ==
    misuse \subseteq {"kfree(NULL)"} /\ InFunction({"exc"}) ~> halted

\* Once a panic has turned interrupts off nothing runs but its own output: no
\* interrupt comes in, and nothing beneath it goes on.
PanicKeeps ==
    \A i \in 1 .. Depth :
        stack[i].fn = "panic" /\ stack[i].pc = "message" =>
            /\ irqs' = irqs
            /\ Len(stack') >= i /\ SubSeq(stack', 1, i) = SubSeq(stack, 1, i)
PanicIsFinal == [][PanicKeeps]_vars
=============================================================================
