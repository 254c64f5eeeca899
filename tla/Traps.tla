------------------------------- MODULE Traps -------------------------------
(***************************************************************************)
(* How the processor gets into the kernel and back: the descriptor tables  *)
(* (arch/i686/gdt.c, idt.c), the two interrupt controllers, the entry code *)
(* irq.s, exc.s and syscall.s, registration of IRQ handlers                *)
(* (kernel/interrupt.c), the system call table, and at the other end the   *)
(* wrapper __syscall of the C library.                                     *)
(*                                                                         *)
(* Entry code saves registers on the stack, word by word, and restores     *)
(* them from there.  All gates are interrupt gates: handlers run with      *)
(* interrupts off.  The calling thread runs on the kernel's own stack, as  *)
(* nothing in the tree enters user mode.                                   *)
(***************************************************************************)
EXTENDS Integers, Sequences, SequencesExt

CONSTANTS Ids,         \* system calls that programs use
          Lines,       \* interrupt lines with a device
          Drivers,     \* functions that may be registered for a line
          Faults,      \* exceptions that may strike
          NULL,
          MaxCalls,    \* bound on the system calls of one behaviour
          MaxRaises,   \* bound on the interrupts of each device
          MaxDepth     \* bound on nested handlers

ASSUME TrapsAssumption ==
    /\ Ids \subseteq 0 .. 183
    /\ Lines \subseteq 0 .. 15 \ {2} \* 2 is the second controller
    /\ Faults \subseteq 0 .. 31
    /\ NULL \notin Drivers
    /\ MaxCalls \in Nat /\ MaxRaises \in Nat /\ MaxDepth \in Nat

VARIABLES pic,          \* the interrupt controllers
          irq_handlers, \* by vector; no other vector is ever looked up
          interrupts,   \* the processor's interrupt flag
          regs, stack,  \* the processor's registers; the words on its stack
          code,         \* what runs: the thread, and the handlers above it
          report,       \* what the exception report shows
          halted,
          answer,       \* what the last __syscall returned
          actual_errno,
          calls, raises \* counted for their bounds

trapvars == <<pic, irq_handlers, interrupts, regs, stack, code, report, halted,
          answer, actual_errno, calls, raises>>
machine == <<regs, stack, code>>
controllers == <<pic, raises>>
results == <<answer, actual_errno, calls>>

-----------------------------------------------------------------------------
(* gdt.c, gdt.h and memop.s: flat segments.                                *)

CXR == 10
DRW == 2
Access(valid, user, type) == valid * 128 + user * 96 + 16 + type

\* The descriptors after the null descriptor: kernel code and data, user code
\* and data; a limit in pages of 4K.
gdt == [i \in 1 .. 4 |->
          [limit |-> 1024 * 1024 - 1, access |-> CASE i = 1 -> Access(1, 0, CXR)
                                              [] i = 2 -> Access(1, 0, DRW)
                                              [] i = 3 -> Access(1, 1, CXR)
                                              [] i = 4 -> Access(1, 1, DRW)]]

KCODE == 8
KDATA == 16
Descriptor(selector) == gdt[selector \div 8]
IsCode(selector) == Descriptor(selector).access % 16 = CXR
Privilege(selector) == (Descriptor(selector).access \div 32) % 4

-----------------------------------------------------------------------------
(* Where the assembler puts the handlers: one macro expansion behind the   *)
(* other.  The lengths that matter are those at their beginning.           *)

HasErrorCode == {8, 10, 11, 12, 13, 14, 17, 30}

\* push dword 0 takes two bytes; without it there are two nops.
\* Mutant: the nops are left out.
ExcLength_tight(i) == 60 + (IF i \in HasErrorCode THEN 0 ELSE 2)
ExcLength(i) == 60 + (IF i \in HasErrorCode THEN 1 + 1 ELSE 2)
IrqLength(i) == 48

\* The text crosses a border of 64K between exc0 and exc1.
K64 == 65536
exc0 == 17 * K64 - 30
ExcAt[i \in 0 .. 32] == IF i = 0 THEN exc0 ELSE ExcAt[i - 1] + ExcLength(i - 1)
irq0 == exc0 + 10000
IrqAt[i \in 32 .. 48] == IF i = 32 THEN irq0 ELSE IrqAt[i - 1] + IrqLength(i - 1)
syscall_handler == irq0 + 10000
SYSCALL == 128

\* The vector whose handler begins at an address.
HandlerAt(address) ==
    CASE \E i \in 0 .. 31 : ExcAt[i] = address  -> CHOOSE i \in 0 .. 31 : ExcAt[i] = address
      [] \E i \in 32 .. 47 : IrqAt[i] = address -> CHOOSE i \in 32 .. 47 : IrqAt[i] = address
      [] address = syscall_handler              -> SYSCALL
      [] OTHER                                  -> NULL

-----------------------------------------------------------------------------
(* idt.c                                                                   *)

INT_GATE == 14
INT_PRESENT == 128
INT_USER == 96

set_idt_entry(handler, flags) ==
    [offset_low |-> handler % K64, offset_high |-> handler \div K64,
     type |-> flags, selector |-> KCODE]

\* setup_exc: the length of exc0 is taken for the length of all.
setup_exc == [i \in 0 .. 31 |->
    set_idt_entry(exc0 + i * (ExcAt[1] - ExcAt[0]), INT_PRESENT + INT_GATE)]

setup_irq == [i \in 32 .. 47 |->
    set_idt_entry(irq0 + (i - 32) * (IrqAt[33] - IrqAt[32]), INT_PRESENT + INT_GATE)]

\* The table, as setup_idt leaves it.
idt == [i \in 0 .. 255 |->
    CASE i \in 0 .. 31  -> setup_exc[i]
      [] i \in 32 .. 47 -> setup_irq[i]
      [] i = SYSCALL    -> set_idt_entry(syscall_handler, INT_GATE + INT_PRESENT + INT_USER)
      [] OTHER          -> set_idt_entry(0, 0)]

-----------------------------------------------------------------------------
(* The interrupt controllers (8259): requests irr, in service isr, masked  *)
(* imr; icw counts the initialisation words that are still to come.        *)

Reset == [irr |-> {}, isr |-> {}, imr |-> 0 .. 7, base |-> 0, cascade |-> 0, icw |-> 0]

Bit(n) == <<1, 2, 4, 8, 16, 32, 64, 128>>[n + 1]
Lowest(S) == CHOOSE n \in S : \A k \in S : n <= k

\* A byte written to the command port: ICW1, or the end of the interrupt of
\* the highest priority in service.
Command(chip, v) ==
    CASE v = 17 -> [chip EXCEPT !.icw = 3, !.imr = {}, !.isr = {}]
      [] v = 32 -> [chip EXCEPT !.isr = IF @ = {} THEN {} ELSE @ \ {Lowest(@)}]

\* A byte written to the data port: ICW2, ICW3, ICW4 in turn, then the mask.
Data(chip, v) ==
    CASE chip.icw = 3 -> [chip EXCEPT !.icw = 2, !.base = v]
      [] chip.icw = 2 -> [chip EXCEPT !.icw = 1, !.cascade = v]
      [] chip.icw = 1 -> [chip EXCEPT !.icw = 0]
      [] chip.icw = 0 -> [chip EXCEPT !.imr = {n \in 0 .. 7 : (v \div Bit(n)) % 2 = 1}]

\* Each chip has a command port and a data port.
Pic(port) == IF port \in {32, 33} THEN "master" ELSE "slave"
Written(chip, port, v) == IF port \in {32, 160} THEN Command(chip, v) ELSE Data(chip, v)
outb(chips, port, v) == [chips EXCEPT ![Pic(port)] = Written(@, port, v)]

pic_init(chips) ==
    LET icw1 == outb(outb(chips, 32, 17), 160, 17)
        icw2 == outb(outb(icw1, 33, 32), 161, 40)
        icw3 == outb(outb(icw2, 33, 4), 161, 2)
        icw4 == outb(outb(icw3, 33, 1), 161, 1)
    IN  outb(outb(icw4, 33, 0), 161, 0)

\* What a chip would interrupt with: requests that are not masked and before
\* everything in service.
Deliverable(chip, irr) == {n \in irr \ chip.imr : \A k \in chip.isr : n < k}

SlaveRequests == Deliverable(pic.slave, pic.slave.irr)
MasterRequests ==
    Deliverable(pic.master, pic.master.irr \cup
        IF SlaveRequests # {} THEN {n \in 0 .. 7 : Bit(n) = pic.master.cascade} ELSE {})

Acknowledged(chip, n) == [chip EXCEPT !.irr = @ \ {n}, !.isr = @ \cup {n}]

-----------------------------------------------------------------------------
(* The processor.                                                          *)

Segments == {"ds", "es", "fs", "gs"}
General == <<"eax", "ecx", "edx", "ebx", "ebp", "esi", "edi">>
Registers == Segments \cup Range(General)

Junk == 99             \* what C code leaves in the registers it need not keep
THREAD == 256          \* no vector: the bottom of code
Eip == 1000 + Len(code)
Selectors(r) == [x \in Registers |-> IF x \in Segments THEN KDATA ELSE r[x]]

Top == Last(code)
Runs(pc) == ~halted /\ Top.pc = pc
Moved(pc) == [code EXCEPT ![Len(code)].pc = pc]

TrapsInit ==
    /\ pic = [master |-> Reset, slave |-> Reset]
    /\ irq_handlers = [v \in 32 .. 47 |-> NULL]
    /\ interrupts = FALSE
    /\ regs = [x \in Registers |-> IF x \in Segments THEN KDATA
                                    ELSE CHOOSE i \in DOMAIN General : General[i] = x]
    /\ stack = <<>>
    /\ code = <<[handler |-> THREAD, cause |-> THREAD, pc |-> "boot",
                 was |-> regs, depth |-> 0]>>
    /\ report = NULL
    /\ halted = FALSE
    /\ answer = NULL /\ actual_errno = 0
    /\ calls = 0 /\ raises = [l \in Lines |-> 0]

\* setup_idt: the table is filled, the controllers programmed, interrupts on.
setup_idt ==
    /\ Runs("boot")
    /\ pic' = pic_init(pic)
    /\ interrupts' = TRUE
    /\ code' = Moved("run")
    /\ UNCHANGED <<irq_handlers, regs, stack, report, halted, results, raises>>

\* Words pushed one after the other; esp is where the stack ends.
pushed(s, names) ==
    s \o [i \in DOMAIN names |-> IF names[i] = "esp" THEN Len(s) + i - 1 ELSE regs[names[i]]]

pushad(s) == s \o <<regs["eax"], regs["ecx"], regs["edx"], regs["ebx"], Len(s),
                    regs["ebp"], regs["esi"], regs["edi"]>>

\* An interrupt gate: flags, selector and address of what is interrupted, an
\* error code if the cause has one, and on at the handler with interrupts off.
Enters(vector, cause, error, r, pc) ==
    LET gate == idt[vector]
    IN  /\ gate.type >= INT_PRESENT
        /\ stack' = stack \o <<IF interrupts THEN 1 ELSE 0, KCODE, Eip>> \o error
        /\ interrupts' = FALSE
        /\ regs' = r
        /\ code' = Append(Moved(pc),
                          [handler |-> HandlerAt(gate.offset_high * K64 + gate.offset_low),
                           cause |-> cause, pc |-> "entry",
                           was |-> r, depth |-> Len(stack)])

\* The handler pops the stack s into these registers ("none" for
\* popad's esp; esp itself sets the end of the stack), and iret the rest.
Leaves(s, names) ==
    LET K == {k \in DOMAIN names : names[k] = "esp"}
        Word(i) == IF \E k \in K : k < i
                   THEN LET k == CHOOSE k \in K : TRUE IN s[Len(s) + 1 - k] + k + 1 - i
                   ELSE Len(s) + 1 - i
        bottom == Word(Len(names)) - 1
    IN  /\ regs' = [x \in Registers |->
                        IF \E i \in DOMAIN names : names[i] = x
                        THEN s[Word(CHOOSE i \in DOMAIN names : names[i] = x)]
                        ELSE regs[x]]
        /\ interrupts' = (s[bottom - 2] = 1)
        /\ stack' = SubSeq(s, 1, bottom - 3)
        /\ code' = Front(code)

-----------------------------------------------------------------------------
(* irq.s, irq_handler_i686 and kernel/interrupt.c                          *)

\* A device requests an interrupt.
raise(l) ==
    /\ l \in Lines /\ raises[l] < MaxRaises
    /\ raises' = [raises EXCEPT ![l] = @ + 1]
    /\ pic' = IF l < 8 THEN [pic EXCEPT !.master.irr = @ \cup {l}]
                       ELSE [pic EXCEPT !.slave.irr = @ \cup {l - 8}]
    /\ UNCHANGED <<irq_handlers, interrupts, machine, report, halted, results>>

\* The processor takes the request that the master puts first.
irq_arrives ==
    /\ ~halted /\ interrupts
    /\ MasterRequests # {}
    /\ LET n == Lowest(MasterRequests)
           k == Lowest(SlaveRequests)
           cascaded == Bit(n) = pic.master.cascade
       IN  /\ pic' = [master |-> Acknowledged(pic.master, n),
                      slave |-> IF cascaded THEN Acknowledged(pic.slave, k) ELSE pic.slave]
           /\ Enters(IF cascaded THEN pic.slave.base + k ELSE pic.master.base + n,
                     IF cascaded THEN 40 + k ELSE 32 + n, <<>>, regs, Top.pc)
    /\ UNCHANGED <<irq_handlers, report, halted, results, raises>>

irq_entry ==
    /\ Runs("entry") /\ Top.handler \in 32 .. 47
    /\ stack' = Append(pushed(pushad(stack), <<"ds", "es", "fs", "gs">>), Top.handler)
    /\ regs' = Selectors(regs)
    /\ code' = Moved("body")
    /\ UNCHANGED <<controllers, irq_handlers, interrupts, report, halted, results>>

\* What C code may leave in the registers when it returns v.
Clobbered(v) == [regs EXCEPT !["eax"] = v, !["ecx"] = Junk, !["edx"] = Junk]

\* Mutant: the end of an interrupt is told the master only.
end_of_interrupt_master(chips, irq) == outb(chips, 32, 32)

\* irq_handler_i686, after the registered function: what it tells the chips.
end_of_interrupt(chips, irq) ==
    CASE irq \in 40 .. 47 -> outb(outb(chips, 160, 32), 32, 32)
      [] irq \in 32 .. 39 -> outb(chips, 32, 32)
      [] OTHER            -> chips

\* irq_handler calls the function registered for the vector, if there is one;
\* it keeps to the C calling convention.
irq_handler_i686 ==
    /\ Runs("body") /\ Top.handler \in 32 .. 47
    /\ regs' = Clobbered(Junk)
    /\ pic' = end_of_interrupt(pic, Last(stack))
    /\ code' = Moved(IF irq_handlers[Last(stack)] = NULL THEN "exit" ELSE "served")
    /\ UNCHANGED <<irq_handlers, interrupts, stack, report, halted, results, raises>>

\* The handler's number is dropped; popad ends the list.
irq_pops == <<"none", "gs", "fs", "es", "ds",
              "edi", "esi", "ebp", "none", "ebx", "edx", "ecx", "eax">>

irq_exit ==
    /\ Runs("exit") \/ Runs("served")
    /\ Top.handler \in 32 .. 47
    /\ Leaves(stack, irq_pops)
    /\ UNCHANGED <<controllers, irq_handlers, report, halted, results>>

\* A driver asks for a vector; the first one gets it.
register_irq ==
    /\ Runs("run")
    /\ \E l \in Lines, d \in Drivers :
          /\ irq_handlers[32 + l] = NULL
          /\ irq_handlers' = [irq_handlers EXCEPT ![32 + l] = d]
    /\ UNCHANGED <<controllers, interrupts, machine, report, halted, results>>

unregister_irq ==
    /\ Runs("run")
    /\ \E l \in Lines :
          /\ irq_handlers[32 + l] # NULL
          /\ irq_handlers' = [irq_handlers EXCEPT ![32 + l] = NULL]
    /\ UNCHANGED <<controllers, interrupts, machine, report, halted, results>>

-----------------------------------------------------------------------------
(* System calls: syscall.s, kernel/syscall.c, the stubs behind the table,  *)
(* and __syscall of userspace/stdlib/syscalls.c.                           *)

ENOSYS == 38
nop == "nop"

file_calls == {"sys_read", "sys_write", "sys_open", "sys_close", "sys_lseek",
               "sys_link", "sys_unlink"}
stat_calls == {"sys_stat", "sys_fstat"}
process_calls == {"sys_fork", "sys_execve", "sys_chdir", "sys_kill", "sys_brk",
                  "sys_times", "sys_getcwd"}

\* The functions in the order of the table; what is not listed is nop.
syscall_table == [id \in 0 .. 183 |->
    CASE id = 1 -> "sys_exit"   [] id = 2 -> "sys_fork"    [] id = 3 -> "sys_read"
      [] id = 4 -> "sys_write"  [] id = 5 -> "sys_open"    [] id = 6 -> "sys_close"
      [] id = 9 -> "sys_link"   [] id = 10 -> "sys_unlink" [] id = 11 -> "sys_execve"
      [] id = 12 -> "sys_chdir" [] id = 18 -> "sys_stat"   [] id = 19 -> "sys_lseek"
      [] id = 20 -> "sys_getpid" [] id = 28 -> "sys_fstat" [] id = 37 -> "sys_kill"
      [] id = 43 -> "sys_times" [] id = 45 -> "sys_brk"    [] id = 78 -> "sys_gettimeofday"
      [] id \in {59, 109, 122} -> "sys_uname"              [] id = 183 -> "sys_getcwd"
      [] OTHER -> nop]

\* __syscall loads the registers; "int $0x80".
__syscall(id) ==
    /\ Runs("run") /\ calls < MaxCalls
    /\ calls' = calls + 1
    /\ answer' = [id |-> id, returned |-> FALSE, ret |-> 0]
    /\ Enters(SYSCALL, SYSCALL, <<>>,
              [regs EXCEPT !["eax"] = id, !["ebx"] = 11, !["ecx"] = 12,
                           !["edx"] = 13, !["esi"] = 14], "return")
    /\ UNCHANGED <<controllers, irq_handlers, report, halted, actual_errno>>

syscall_pushes == <<"ds", "es", "fs", "gs", "esp", "ebp", "edi", "esi", "edx", "ecx", "ebx">>
\* Mutant: ecx and edx are restored in the order in which they were saved.
syscall_pops_swapped == <<"ebx", "edx", "ecx", "esi", "edi", "ebp", "esp", "gs", "fs", "es", "ds">>
syscall_pops == <<"ebx", "ecx", "edx", "esi", "edi", "ebp", "esp", "gs", "fs", "es", "ds">>

\* The address in the table goes to edi (0 if there is none), mul leaves its
\* result in edx and eax; eax is preset to -ENOSYS, and loses its lower half
\* on the way to a function.
syscall_entry ==
    /\ Runs("entry") /\ Top.handler = SYSCALL
    /\ stack' = pushed(stack, syscall_pushes)
    /\ LET found == syscall_table[regs["eax"]] # nop
           r == [regs EXCEPT !["ebx"] = 4, !["edx"] = 0, !["edi"] = IF found THEN Junk ELSE 0,
                             !["eax"] = IF found THEN KDATA - K64 ELSE -ENOSYS]
       IN  /\ regs' = IF found THEN Selectors(r) ELSE r
           /\ code' = Moved(IF found THEN "body" ELSE "exit")
    /\ UNCHANGED <<controllers, irq_handlers, interrupts, report, halted, results>>

\* The functions: sys_getpid returns 0, sys_exit returns nothing and leaves eax
\* as it is; the others are not implemented.
syscall_body ==
    /\ Runs("body") /\ Top.handler = SYSCALL
    /\ LET fn == syscall_table[Top.was["eax"]]
       IN  regs' = CASE fn = "sys_getpid" -> Clobbered(0)
                     [] fn = "sys_exit" -> regs
                     [] fn \in file_calls \cup stat_calls \cup process_calls -> Clobbered(-ENOSYS)
                     [] fn \in {"sys_uname", "sys_gettimeofday"} -> Clobbered(-ENOSYS)
    /\ code' = Moved("exit")
    /\ UNCHANGED <<controllers, irq_handlers, interrupts, stack, report, halted, results>>

syscall_exit ==
    /\ Runs("exit") /\ Top.handler = SYSCALL
    /\ Leaves(stack, syscall_pops)
    /\ UNCHANGED <<controllers, irq_handlers, report, halted, results>>

\* __syscall goes on: a negative number is an error.
\* Mutant: errno gets the negative number.
syscall_returns_negated ==
    /\ Runs("return")
    /\ answer' = [answer EXCEPT !.returned = TRUE,
                                !.ret = IF regs["eax"] < 0 THEN -1 ELSE regs["eax"]]
    /\ actual_errno' = IF regs["eax"] < 0 THEN regs["eax"] ELSE actual_errno
    /\ code' = Moved("run")
    /\ UNCHANGED <<controllers, irq_handlers, interrupts, regs, stack, report, halted, calls>>

syscall_returns ==
    /\ Runs("return")
    /\ answer' = [answer EXCEPT !.returned = TRUE,
                                !.ret = IF regs["eax"] < 0 THEN -1 ELSE regs["eax"]]
    /\ actual_errno' = IF regs["eax"] < 0 THEN -regs["eax"] ELSE actual_errno
    /\ code' = Moved("run")
    /\ UNCHANGED <<controllers, irq_handlers, interrupts, regs, stack, report, halted, calls>>

-----------------------------------------------------------------------------
(* Exceptions: exc.s and exc_handler of exception.c.                       *)

\* The processor pushes an error code for these; any number stands for it.
ErrorCode(vector) == IF vector \in {8, 10, 11, 12, 13, 14, 17, 30} THEN <<5>> ELSE <<>>

\* The thread or the C code of a handler does something that it must not.
exception_strikes ==
    /\ Runs("run") \/ Runs("body")
    /\ Len(code) < MaxDepth
    /\ \E v \in Faults : Enters(v, v, ErrorCode(v), regs, Top.pc)
    /\ UNCHANGED <<controllers, irq_handlers, report, halted, results>>

\* A 0 in place of a missing error code; the vector; a pointer to the vector.
exc_entry ==
    /\ Runs("entry") /\ Top.handler \in 0 .. 31
    /\ LET s == IF Top.handler \in HasErrorCode THEN stack ELSE Append(stack, 0)
           context == Append(pushad(pushed(s, <<"ds", "es", "fs", "gs">>)), Top.handler)
       IN  stack' = Append(context, Len(context))
    /\ regs' = Selectors(regs)
    /\ code' = Moved("body")
    /\ UNCHANGED <<controllers, irq_handlers, interrupts, report, halted, results>>

\* struct exc_context, from the pointer upwards.
\* Mutant: the general registers are in the order in which pushad saves them.
exc_context_swapped ==
    <<"id", "eax", "ecx", "edx", "ebx", "esp", "ebp", "esi", "edi",
      "gs", "fs", "es", "ds", "error_code", "eip">>
exc_context ==
    <<"id", "edi", "esi", "ebp", "esp", "ebx", "edx", "ecx", "eax",
      "gs", "fs", "es", "ds", "error_code", "eip">>

\* generic_exception finds every exception fatal: exc_handler reports what its
\* context holds and panics, so what exc.s would restore is never restored.
exc_handler ==
    /\ Runs("body") /\ Top.handler \in 0 .. 31
    /\ report' = [n \in {exc_context[i] : i \in DOMAIN exc_context} |->
                    stack[Last(stack) + 1 - CHOOSE i \in DOMAIN exc_context : exc_context[i] = n]]
    /\ halted' = TRUE
    /\ interrupts' = FALSE
    /\ UNCHANGED <<controllers, irq_handlers, machine, results>>

-----------------------------------------------------------------------------

\* The processor executes what runs.
Step ==
    \/ setup_idt
    \/ irq_entry \/ irq_handler_i686 \/ irq_exit
    \/ syscall_entry \/ syscall_body \/ syscall_exit \/ syscall_returns
    \/ exc_entry \/ exc_handler

TrapsNext ==
    \/ Step \/ irq_arrives
    \/ \E l \in Lines : raise(l)
    \/ \E id \in Ids : __syscall(id)
    \/ register_irq \/ unregister_irq
    \/ exception_strikes

TrapsSpec == TrapsInit /\ [][TrapsNext]_trapvars

\* The processor goes on with what it runs, and takes a request that stays.
FairTraps == TrapsSpec /\ WF_trapvars(Step) /\ WF_trapvars(irq_arrives)

-----------------------------------------------------------------------------
(* Properties                                                              *)

Chip == [irr : SUBSET (0 .. 7), isr : SUBSET (0 .. 7), imr : SUBSET (0 .. 7),
         base : 0 .. 255, cascade : 0 .. 255, icw : 0 .. 3]

\* Types of the variables; what runs above the thread is a handler.
TrapsTypeOK ==
    /\ pic \in [master : Chip, slave : Chip]
    /\ irq_handlers \in [32 .. 47 -> Drivers \cup {NULL}]
    /\ interrupts \in BOOLEAN /\ halted \in BOOLEAN
    /\ regs \in [Registers -> Int] /\ stack \in Seq(Int)
    /\ code # <<>>
    /\ \A i \in DOMAIN code :
          /\ i > 1 => code[i].handler \in 0 .. 47 \cup {SYSCALL}
          /\ code[i].pc \in {"boot", "run", "return", "entry", "body", "served", "exit"}
    /\ actual_errno \in Int
    /\ calls \in 0 .. MaxCalls /\ raises \in [Lines -> 0 .. MaxRaises]

\* Code that was interrupted goes on with its stack and all its registers,
\* segments and the registers that its callees may change included; only a
\* system call changes eax.
ContextKept ==
    [][Len(code') < Len(code) =>
          /\ Len(stack') = Top.depth
          /\ \A x \in Registers :
                regs'[x] = Top.was[x] \/ (x = "eax" /\ Top.cause = SYSCALL)]_trapvars

\* Every vector gets to the code that was assembled for it, at the privilege
\* of the kernel: the gates' addresses, cut in two and computed from the length
\* of the first handler, and the vectors of the interrupt controllers fit.
OwnHandler ==
    /\ TrapsTypeOK
    /\ \A i \in 2 .. Len(code) :
          /\ code[i].handler = code[i].cause
          /\ LET selector == idt[code[i].cause].selector
             IN  IsCode(selector) /\ Privilege(selector) = 0

\* A request of a device, until its interrupt has been ended.
Outstanding(l) ==
    LET chip == IF l < 8 THEN pic.master ELSE pic.slave
    IN  l % 8 \in chip.irr \cup chip.isr

\* No device waits for ever behind a controller that believes that another
\* interrupt is still being served.
IrqServed == \A l \in Lines : Outstanding(l) ~> (~Outstanding(l) \/ halted)

\* What a program gets from a system call, whatever interrupts it: its process
\* number, or -1 and the errno of a function that is not implemented.  _exit is
\* left out: it comes back too, with an arbitrary errno.
CallsAnswer ==
    answer # NULL /\ answer.returned /\ answer.id # 1 =>
        IF answer.id = 20 THEN answer.ret = 0
        ELSE answer.ret = -1 /\ actual_errno = ENOSYS

\* The report of an exception shows the vector, the error code, the place and
\* the registers of the code that it interrupted.
ReportTrue ==
    report # NULL =>
        /\ report["id"] = Top.cause
        /\ report["eip"] = Eip - 1
        /\ report["error_code"] = IF ErrorCode(Top.cause) = <<>> THEN 0 ELSE 5
        /\ \A x \in Registers : report[x] = Top.was[x]
=============================================================================
