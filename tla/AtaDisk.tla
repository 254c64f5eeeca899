------------------------------ MODULE AtaDisk ------------------------------
(***************************************************************************)
(* The ATA driver and the drives, drivers/ata.c: the probe, which asks     *)
(* four positions who is there, and reads by programmed I/O.  Every outb   *)
(* and every poll is a step; the drives answer in steps of their own.      *)
(*                                                                         *)
(* Positions 0 .. 3 are master and slave of the primary and of the         *)
(* secondary channel.  Both drives of a channel see every register write;  *)
(* the command goes to the selected one.  The four registers of a channel  *)
(* keep the last two bytes written (LBA48): a drive takes the low half of  *)
(* the address from the later and the high half from the earlier writes.   *)
(*                                                                         *)
(* The tree has one thread.  With several, switched at any step, the       *)
(* driver relies on controller_lock as an atomic lock, which sync.c is not *)
(* for threads as long as its cli and sti are commented out.  Sectors are  *)
(* numbers, a buffer is the sectors put into it.                           *)
(***************************************************************************)
EXTENDS Naturals, Sequences

CONSTANTS Byte,      \* the values of a register
          Kinds,     \* of what may sit at a position
          Threads,
          Boot,      \* the thread that probes
          Requests,  \* the count and offset of callers of ata_read
          Fails      \* whether drives report errors for reads

Positions == 0 .. 3
Channels == 0 .. 1
Registers == {"scount", "lbalo", "lbamid", "lbahi"}
Nobody == "nobody"

\* size_t has four bytes; callers read at most what two bytes can count.
ASSUME AtaAssumption ==
    /\ Byte \in Nat /\ Byte > 1
    /\ Kinds \subseteq {"none", "disk", "atapi", "faulty"}
    /\ Boot \in Threads /\ Nobody \notin Threads /\ Fails \in BOOLEAN
    /\ \A r \in Requests : /\ r.offset \in 0 .. Byte * Byte * Byte * Byte - 1
                           /\ r.count \in 0 .. Byte * Byte

VARIABLES attached, \* position -> what sits there
          head,     \* channel -> the selected position, 0 or 1
          regs,     \* channel -> register -> the last byte and the one before
          dev,      \* channel -> what its drives are doing
          lock,     \* controller_lock: the thread that holds it
          type,     \* of ata_pci_probe's loop; 4 behind it
          bd_list,  \* the positions registered, in order
          pc, k,    \* thread -> where it is; how many registers it has set
          req, got  \* thread -> its read, and the sectors in its buffer

vars == <<attached, head, regs, dev, lock, type, bd_list, pc, k, req, got>>

\* A drive: idle, busy, offering data (DRQ) or in error; and its command.
Quiet == [st |-> "idle", cmd |-> "none", pos |-> 0, next |-> 0, left |-> 0]

\* get_ports: which channel a position is on, and which drive of it.
Channel(pos) == IF pos < 2 THEN 0 ELSE 1
Drive(pos) == pos % 2

Mbr == [pos |-> 0, offset |-> 0, count |-> 1]

Init ==
    /\ attached \in [Positions -> Kinds]
    /\ head \in [Channels -> {0, 1}]
    /\ regs = [c \in Channels |-> [r \in Registers |-> <<0, 0>>]]
    /\ dev = [c \in Channels |-> Quiet]
    /\ lock = Nobody
    /\ type = 0
    /\ bd_list = <<>>
    /\ pc = [t \in Threads |-> IF t = Boot THEN "identify" ELSE "idle"]
    /\ k = [t \in Threads |-> 0]
    /\ req = [t \in Threads |-> Mbr]
    /\ got = [t \in Threads |-> <<>>]

-----------------------------------------------------------------------------
(* The registers                                                           *)

\* Mutant: the high bytes are written last.
ReadOuts_low_first(r) ==
    << <<"head", Drive(r.pos)>>, <<"scount", r.count % Byte>>, <<"lbalo", r.offset % Byte>>,
       <<"lbamid", (r.offset \div Byte) % Byte>>,
       <<"lbahi", (r.offset \div (Byte * Byte)) % Byte>>,
       <<"scount", (r.count \div Byte) % Byte>>,
       <<"lbalo", (r.offset \div (Byte * Byte * Byte)) % Byte>>, <<"lbamid", 0>>, <<"lbahi", 0>> >>

ReadOuts(r) ==
    << <<"head", Drive(r.pos)>>, <<"scount", (r.count \div Byte) % Byte>>,
       <<"lbalo", (r.offset \div (Byte * Byte * Byte)) % Byte>>, <<"lbamid", 0>>, <<"lbahi", 0>>,
       <<"scount", r.count % Byte>>, <<"lbalo", r.offset % Byte>>,
       <<"lbamid", (r.offset \div Byte) % Byte>>,
       <<"lbahi", (r.offset \div (Byte * Byte)) % Byte>> >>

\* Mutant: the drive is not selected.
IdentifyOuts_unselected(pos) ==
    << <<"scount", 0>>, <<"lbalo", 0>>, <<"lbamid", 0>>, <<"lbahi", 0>> >>

\* What ata_identify writes before its command.
IdentifyOuts(pos) ==
    << <<"head", Drive(pos)>>, <<"scount", 0>>, <<"lbalo", 0>>, <<"lbamid", 0>>, <<"lbahi", 0>> >>

\* outb to a register of a channel.
outb(c, out) ==
    IF out[1] = "head"
    THEN head' = [head EXCEPT ![c] = out[2]] /\ UNCHANGED regs
    ELSE regs' = [regs EXCEPT ![c][out[1]] = <<out[2], @[1]>>] /\ UNCHANGED head

Last(c, r) == regs[c][r][1]
Before(c, r) == regs[c][r][2]

\* The drive's reading of the registers; a count of 0 means the maximum.
Lba(c) ==
    Last(c, "lbalo") + Byte * (Last(c, "lbamid") + Byte * (Last(c, "lbahi")
        + Byte * (Before(c, "lbalo") + Byte * (Before(c, "lbamid") + Byte * Before(c, "lbahi")))))
Count(c) == LET n == Last(c, "scount") + Byte * Before(c, "scount")
            IN  IF n = 0 THEN Byte * Byte ELSE n

Selected(c) == 2 * c + head[c]

-----------------------------------------------------------------------------
(* The drives                                                              *)

\* The selected drive takes a command; nobody does where there is no drive.
Commanded(c, cmd) ==
    IF attached[Selected(c)] = "none" THEN Quiet
    ELSE [st |-> "busy", cmd |-> cmd, pos |-> Selected(c),
          next |-> IF cmd = "read" THEN Lba(c) ELSE 0,
          left |-> IF cmd = "read" THEN Count(c) ELSE 1]

\* A drive finishes what it is busy with: data is ready, or it found an error.
\* Others than ATA disks refuse IDENTIFY, an ATAPI drive with its signature.
drive_ready(c) ==
    /\ dev[c].st = "busy" /\ attached[dev[c].pos] = "disk"
    /\ dev' = [dev EXCEPT ![c].st = "drq"]
    /\ UNCHANGED <<attached, head, regs, lock, type, bd_list, pc, k, req, got>>

drive_error(c) ==
    /\ Fails /\ dev[c].st = "busy" /\ dev[c].cmd = "read"
    /\ dev' = [dev EXCEPT ![c].st = "error"]
    /\ UNCHANGED <<attached, head, regs, lock, type, bd_list, pc, k, req, got>>

drive_refuses(c) ==
    /\ dev[c].st = "busy" /\ attached[dev[c].pos] \in {"atapi", "faulty"}
    /\ dev' = [dev EXCEPT ![c].st = "error"]
    /\ regs' = IF attached[dev[c].pos] = "atapi"
               THEN [regs EXCEPT ![c]["lbamid"] = <<1, 0>>, ![c]["lbahi"] = <<1, 0>>]
               ELSE regs
    /\ UNCHANGED <<attached, head, lock, type, bd_list, pc, k, req, got>>

\* 256 words were read from the data register.
Transferred(d) ==
    IF d.left = 1 THEN Quiet
    ELSE [d EXCEPT !.st = "busy", !.next = @ + 1, !.left = @ - 1]

-----------------------------------------------------------------------------
(* ata_pci_probe and ata_identify                                          *)

Goto(t, to) == pc' = [pc EXCEPT ![t] = to] /\ k' = [k EXCEPT ![t] = 0]

\* The next outb of the sequence outs; behind the last one, go on at to.
Outs(t, c, outs, to) ==
    /\ outb(c, outs[k[t] + 1])
    /\ IF k[t] + 1 = Len(outs) THEN Goto(t, to)
       ELSE k' = [k EXCEPT ![t] = @ + 1] /\ UNCHANGED pc

\* The loop of ata_pci_probe goes on behind the current position.
NextType(t) ==
    /\ type' = type + 1
    /\ Goto(t, IF type = 3 THEN "idle" ELSE "identify")

identify_outs(t) ==
    /\ pc[t] = "identify"
    /\ Outs(t, Channel(type), IdentifyOuts(type), "id_command")
    /\ UNCHANGED <<attached, dev, lock, type, bd_list, req, got>>

identify_command(t) ==
    /\ pc[t] = "id_command"
    /\ dev' = [dev EXCEPT ![Channel(type)] = Commanded(Channel(type), "identify")]
    /\ Goto(t, "id_status")
    /\ UNCHANGED <<attached, head, regs, lock, type, bd_list, req, got>>

\* A status of 0: nobody is there.
identify_status(t) ==
    /\ pc[t] = "id_status"
    /\ IF dev[Channel(type)].st = "idle" THEN NextType(t)
       ELSE Goto(t, "id_signature") /\ UNCHANGED type
    /\ UNCHANGED <<attached, head, regs, dev, lock, bd_list, req, got>>

\* Behind wait_bsy: a signature means that this is no ATA drive.
identify_signature(t) ==
    /\ pc[t] = "id_signature"
    /\ dev[Channel(type)].st # "busy"
    /\ IF Last(Channel(type), "lbamid") # 0 \/ Last(Channel(type), "lbahi") # 0
       THEN NextType(t)
       ELSE Goto(t, "id_data") /\ UNCHANGED type
    /\ UNCHANGED <<attached, head, regs, dev, lock, bd_list, req, got>>

\* The drive offers its data, which are read; it is registered, and
\* register_blkdev scans its partition table by a read of sector 0.
identify_data(t) ==
    /\ pc[t] = "id_data"
    /\ dev[Channel(type)].st = "drq"
    /\ dev' = [dev EXCEPT ![Channel(type)] = Transferred(@)]
    /\ bd_list' = Append(bd_list, type)
    /\ req' = [req EXCEPT ![t] = [Mbr EXCEPT !.pos = type]]
    /\ Goto(t, "lock")
    /\ UNCHANGED <<attached, head, regs, lock, type, got>>

identify_error(t) ==
    /\ pc[t] = "id_data"
    /\ dev[Channel(type)].st = "error"
    /\ NextType(t)
    /\ UNCHANGED <<attached, head, regs, dev, lock, bd_list, req, got>>

-----------------------------------------------------------------------------
(* ata_read                                                                *)

\* A caller reads count sectors of a registered drive; nothing for a count of 0.
ata_read(t, r, pos) ==
    /\ pc[t] = "idle" /\ type = 4
    /\ \E i \in DOMAIN bd_list : bd_list[i] = pos
    /\ IF r.count = 0 THEN UNCHANGED <<pc, k, req>>
       ELSE /\ req' = [req EXCEPT ![t] = [pos |-> pos, offset |-> r.offset, count |-> r.count]]
            /\ Goto(t, "lock")
    /\ UNCHANGED <<attached, head, regs, dev, lock, type, bd_list, got>>

\* Mutant: the lock is not waited for.
mutex_free_always == TRUE
mutex_free == lock = Nobody

read_lock(t) ==
    /\ pc[t] = "lock" /\ mutex_free
    /\ lock' = t
    /\ Goto(t, "outs")
    /\ UNCHANGED <<attached, head, regs, dev, type, bd_list, req, got>>

read_outs(t) ==
    /\ pc[t] = "outs"
    /\ Outs(t, Channel(req[t].pos), ReadOuts(req[t]), "command")
    /\ UNCHANGED <<attached, dev, lock, type, bd_list, req, got>>

\* Behind wait_bsy.
read_command(t) ==
    LET c == Channel(req[t].pos) IN
    /\ pc[t] = "command" /\ dev[c].st # "busy"
    /\ dev' = [dev EXCEPT ![c] = Commanded(c, "read")]
    /\ Goto(t, "data")
    /\ UNCHANGED <<attached, head, regs, lock, type, bd_list, req, got>>

\* Mutant: one sector too many is waited for.
Enough_late(t, n) == n > req[t].count
\* The loop over the sectors ends.
Enough(t, n) == n = req[t].count

\* Behind wait_bsy and wait_drq: one sector.
read_data(t) ==
    LET c == Channel(req[t].pos) IN
    /\ pc[t] = "data" /\ dev[c].st = "drq"
    /\ got' = [got EXCEPT ![t] = Append(@, <<dev[c].pos, dev[c].next>>)]
    /\ dev' = [dev EXCEPT ![c] = Transferred(@)]
    /\ IF Enough(t, Len(got[t]) + 1) THEN Goto(t, "unlock") ELSE UNCHANGED <<pc, k>>
    /\ UNCHANGED <<attached, head, regs, lock, type, bd_list, req>>

\* The buffer is the caller's from here on.
read_unlock(t) ==
    /\ pc[t] = "unlock"
    /\ lock' = Nobody
    /\ got' = [got EXCEPT ![t] = <<>>]
    /\ req' = [req EXCEPT ![t] = Mbr]
    /\ IF t = Boot /\ type < 4 THEN NextType(t) ELSE Goto(t, "idle") /\ UNCHANGED type
    /\ UNCHANGED <<attached, head, regs, dev, bd_list>>

-----------------------------------------------------------------------------
Driver(t) ==
    \/ identify_outs(t) \/ identify_command(t) \/ identify_status(t)
    \/ identify_signature(t) \/ identify_data(t) \/ identify_error(t)
    \/ read_lock(t) \/ read_outs(t) \/ read_command(t) \/ read_data(t) \/ read_unlock(t)
Drives(c) == drive_ready(c) \/ drive_error(c) \/ drive_refuses(c)

Next ==
    \/ \E t \in Threads : Driver(t)
    \/ \E t \in Threads, r \in Requests, pos \in Positions : ata_read(t, r, pos)
    \/ \E c \in Channels : Drives(c)

Spec == Init /\ [][Next]_vars

\* Drives answer, and a thread that can go on does.
FairSpec == Spec /\ (\A c \in Channels : WF_vars(Drives(c))) /\ (\A t \in Threads : WF_vars(Driver(t)))

-----------------------------------------------------------------------------
(* Properties                                                              *)

Reading == {"outs", "command", "data", "unlock"}

\* Registers hold bytes, drives have a state and a command, threads a place.
TypeOK ==
    /\ attached \in [Positions -> Kinds] /\ head \in [Channels -> {0, 1}]
    /\ regs \in [Channels -> [Registers -> (0 .. Byte - 1) \X (0 .. Byte - 1)]]
    /\ \A c \in Channels :
         /\ dev[c].st \in {"idle", "busy", "drq", "error"}
         /\ dev[c].left \in 0 .. Byte * Byte /\ dev[c].next \in Nat
         /\ dev[c].st \in {"busy", "drq"} => dev[c].left > 0 /\ dev[c].cmd # "none"
    /\ lock \in Threads \cup {Nobody}
    /\ type \in 0 .. 4
    /\ pc \in [Threads -> Reading \cup {"idle", "lock", "identify", "id_command", "id_status",
                                        "id_signature", "id_data"}]
    /\ \A t \in Threads : Len(got[t]) <= req[t].count

\* The address is written in nine bytes to shared registers, and the drive
\* delivers sectors one at a time.  A read that returns has the sectors asked
\* for, of the drive asked for, in order.
ReadRight ==
    /\ TypeOK
    /\ \A t \in Threads : pc[t] = "unlock" =>
          got[t] = [i \in 1 .. req[t].count |-> <<req[t].pos, req[t].offset + i - 1>>]

\* Registers are only written, and commands only given, while no drive of the
\* channel works for somebody else.
ChannelQuiet == \A t \in Threads :
    /\ pc[t] \in {"identify", "id_command"} => dev[Channel(type)].st \in {"idle", "error"}
    /\ pc[t] \in {"outs", "command"} => dev[Channel(req[t].pos)].st \in {"idle", "error"}

\* The probe registers the disks that are there, in their order, and neither
\* the master for an absent slave nor an ATAPI drive.
ProbeExact ==
    /\ \A i \in DOMAIN bd_list : attached[bd_list[i]] = "disk"
    /\ \A i, j \in DOMAIN bd_list : i < j => bd_list[i] < bd_list[j]
    /\ \A p \in Positions : p < type /\ attached[p] = "disk" =>
          \E i \in DOMAIN bd_list : bd_list[i] = p

\* controller_lock is held over waits without a bound: a read that holds it
\* ends, unless a drive reports an error.
ReadsEnd == \A t \in Threads :
    pc[t] \in Reading ~> pc[t] = "idle" \/ pc[t] = "identify"
                         \/ \E c \in Channels : dev[c].st = "error"
=============================================================================
