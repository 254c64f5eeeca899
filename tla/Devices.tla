------------------------------ MODULE Devices ------------------------------
(***************************************************************************)
(* From power on to the root file system: iosetup registers the drivers,   *)
(* setup_pci scans the bus and has matching functions probed, the ATA      *)
(* driver registers every disk it finds, register_blkdev scans the disk's  *)
(* partition table, and kmain mounts minor 1 of MAJOR_ATA0.                *)
(*                                                                         *)
(* The machine, what the bus and the four drive positions hold, is chosen  *)
(* at the start.  All disks get the same major number.  How a drive is     *)
(* asked and read is in AtaDisk, what fs_mount does in Ext2Vfs; here both  *)
(* succeed.  A partition entry is known by what it holds.                  *)
(***************************************************************************)
EXTENDS Naturals, Sequences, FiniteSets

CONSTANTS Slots,       \* of the PCI buses
          Fncs,        \* functions of a slot
          MAX_DEVICES, \* of bd_list
          Tables,      \* what sector 0 of a disk may hold
          Zeroed       \* whether kmalloc happens to return zeroed memory

\* An entry: start or count is 0; a Linux partition with and without an ext2
\* superblock; another type.
Entries == {"unused", "ext2", "raw", "other"}
NoTable == <<>>
Absent == <<"absent">>   \* no disk

ASSUME DevicesAssumption ==
    /\ Slots \in Nat \ {0} /\ Fncs \in Nat \ {0} /\ MAX_DEVICES \in Nat
    /\ \A t \in Tables : t = NoTable \/ t \in [1 .. 4 -> Entries]
    /\ Zeroed \in BOOLEAN

Positions == 0 .. 3
Functions == 0 .. Slots * Fncs - 1   \* slot * Fncs + function
SlotOf(f) == f \div Fncs

VARIABLES bus,         \* function -> "none", "ide" or "other"
          attached,    \* position -> the disk's table, or Absent
          step,        \* of iosetup and kmain
          drivers,     \* PCI drivers registered
          filesystems, \* file systems registered
          fnc,         \* the function the scan has come to
          type,        \* the position ata_pci_probe has come to; 4: no probe runs
          devices,     \* functions added, in order
          probed,      \* functions a driver was called for, in order
          bd_list,     \* disks registered, in order
          mounted      \* the root: a disk of bd_list and a slot of its part_list

vars == <<bus, attached, step, drivers, filesystems, fnc, type, devices, probed, bd_list, mounted>>

\* Function 0 of a slot is there if any is.
Init ==
    /\ bus \in [Functions -> {"none", "ide", "other"}]
    /\ \A f \in Functions : bus[f] # "none" => bus[SlotOf(f) * Fncs] # "none"
    /\ attached \in [Positions -> Tables \cup {Absent}]
    /\ step = 1
    /\ drivers = {} /\ filesystems = {}
    /\ fnc = 0 /\ type = 4
    /\ devices = <<>> /\ probed = <<>> /\ bd_list = <<>>
    /\ mounted = <<>>

-----------------------------------------------------------------------------
(* Disks and partitions                                                    *)

\* Mutant: only partitions that can be mounted are counted.
scanned_skipping(bd, table) ==
    IF table = NoTable THEN bd
    ELSE [bd EXCEPT !.part_count = Cardinality({i \in 1 .. 4 : table[i] = "ext2"}),
                    !.part_list = [i \in 1 .. 4 |-> IF table[i] = "unused" THEN @[i] ELSE table[i]]]

\* gendisk_partscan: entries in use are counted, and kept at their own index.
scanned(bd, table) ==
    IF table = NoTable THEN bd
    ELSE [bd EXCEPT !.part_count = @ + Cardinality({i \in 1 .. 4 : table[i] # "unused"}),
                    !.part_list = [i \in 1 .. 4 |-> IF table[i] = "unused" THEN @[i] ELSE table[i]]]

\* What kmalloc returns: part_count and part_list are not initialised.
NewDisks(pos) ==
    [pos : {pos}, part_count : IF Zeroed THEN {0} ELSE 0 .. 5,
     part_list : [1 .. 4 -> IF Zeroed THEN {"unset"} ELSE Entries]]

Null == <<>>

\* Mutant: the last disk of a major is found.
get_gendisk_last(list) == IF list = <<>> THEN Null ELSE <<Len(list)>>
\* get_gendisk(MAJOR_ATA0): the first one registered.
get_gendisk(list) == IF list = <<>> THEN Null ELSE <<1>>

\* get_hdstruct: a disk and a slot of its part_list, which for minor 0, and
\* for more than 4 partitions, is not in the list.
get_hdstruct(list, minor) ==
    LET bd == get_gendisk(list) IN
    IF bd = Null \/ list[bd[1]].part_count < minor THEN Null ELSE <<bd[1], minor>>

-----------------------------------------------------------------------------
(* iosetup                                                                 *)

\* Mutant: the bus is scanned before the ATA driver is there.
iosetup_late == <<"init_ext2", "setup_pci", "init_ata", "do_mount", "done">>
iosetup == <<"init_ata", "init_ext2", "setup_pci", "do_mount", "done">>

At(s) == iosetup[step] = s

init_ata ==
    /\ At("init_ata")
    /\ drivers' = drivers \cup {"ide"} /\ step' = step + 1
    /\ UNCHANGED <<bus, attached, filesystems, fnc, type, devices, probed, bd_list, mounted>>

init_ext2 ==
    /\ At("init_ext2")
    /\ filesystems' = filesystems \cup {"ext2"} /\ step' = step + 1
    /\ UNCHANGED <<bus, attached, drivers, fnc, type, devices, probed, bd_list, mounted>>

\* setup_pci is not probing and still has functions to look at.
Scanning == At("setup_pci") /\ type = 4 /\ fnc \in Functions

\* Mutant: the functions of a slot end with the first gap.
next_function_gap(f) == IF bus[f] = "none" THEN (SlotOf(f) + 1) * Fncs ELSE f + 1
\* A slot without function 0 is skipped.
next_function(f) == IF bus[SlotOf(f) * Fncs] = "none" THEN (SlotOf(f) + 1) * Fncs ELSE f + 1

setup_pci_absent ==
    /\ Scanning /\ bus[fnc] = "none"
    /\ fnc' = next_function(fnc)
    /\ UNCHANGED <<bus, attached, step, drivers, filesystems, type, devices, probed, bd_list, mounted>>

\* add_pci_device: a function that matches a driver is probed.
add_pci_device ==
    /\ Scanning /\ bus[fnc] # "none"
    /\ devices' = Append(devices, fnc)
    /\ IF bus[fnc] \in drivers THEN probed' = Append(probed, fnc) /\ type' = 0
                               ELSE UNCHANGED <<probed, type>>
    /\ fnc' = next_function(fnc)
    /\ UNCHANGED <<bus, attached, step, drivers, filesystems, bd_list, mounted>>

setup_pci_done ==
    /\ At("setup_pci") /\ type = 4 /\ fnc \notin Functions
    /\ step' = step + 1
    /\ UNCHANGED <<bus, attached, drivers, filesystems, fnc, type, devices, probed, bd_list, mounted>>

\* ata_pci_probe at a position where nobody answers IDENTIFY.
probe_absent ==
    /\ type \in Positions /\ attached[type] = Absent
    /\ type' = type + 1
    /\ UNCHANGED <<bus, attached, step, drivers, filesystems, fnc, devices, probed, bd_list, mounted>>

bd_list_has_room == Len(bd_list) < MAX_DEVICES

\* ata_pci_probe and register_blkdev of a disk.
register_blkdev ==
    /\ type \in Positions /\ attached[type] # Absent
    /\ bd_list_has_room
    /\ \E bd \in NewDisks(type) : bd_list' = Append(bd_list, scanned(bd, attached[type]))
    /\ type' = type + 1
    /\ UNCHANGED <<bus, attached, step, drivers, filesystems, fnc, devices, probed, mounted>>

\* panic: the list is full.
register_blkdev_panics ==
    /\ type \in Positions /\ attached[type] # Absent
    /\ ~bd_list_has_room
    /\ step' = Len(iosetup) /\ type' = 4
    /\ UNCHANGED <<bus, attached, drivers, filesystems, fnc, devices, probed, bd_list, mounted>>

-----------------------------------------------------------------------------
(* The root file system                                                    *)

\* probe_fs: Linux partitions are tried as ext2 and need its superblock.
probe_fs(held) == held = "ext2" /\ "ext2" \in filesystems

\* kmain: do_mount(MAJOR_ATA0, 1, "/"), or panic.
do_mount ==
    /\ At("do_mount")
    /\ LET part == get_hdstruct(bd_list, 1) IN
         mounted' = IF part = Null THEN Null
                    ELSE IF probe_fs(bd_list[part[1]].part_list[part[2]]) THEN part ELSE Null
    /\ step' = step + 1
    /\ UNCHANGED <<bus, attached, drivers, filesystems, fnc, type, devices, probed, bd_list>>

-----------------------------------------------------------------------------
Next ==
    \/ init_ata \/ init_ext2
    \/ setup_pci_absent \/ add_pci_device \/ setup_pci_done
    \/ probe_absent \/ register_blkdev \/ register_blkdev_panics
    \/ do_mount

Spec == Init /\ [][Next]_vars

-----------------------------------------------------------------------------
(* Properties                                                              *)

\* Typing, and the fixed-size lists: bd_list never gets more disks than it has
\* entries (devices.c:25), and the scan adds no function twice.
TypeOK ==
    /\ step \in 1 .. Len(iosetup)
    /\ drivers \subseteq {"ide"} /\ filesystems \subseteq {"ext2"}
    /\ fnc \in 0 .. Slots * Fncs /\ type \in 0 .. 4
    /\ devices \in Seq(Functions) /\ Len(devices) <= fnc
    /\ probed \in Seq(Functions) /\ Len(probed) <= Len(devices)
    /\ bd_list \in Seq([pos : Positions, part_count : 0 .. 9, part_list : [1 .. 4 -> Entries \cup {"unset"}]])
    /\ Len(bd_list) <= MAX_DEVICES
    /\ mounted = Null \/ mounted \in (1 .. Len(bd_list)) \X (1 .. 4)

\* A table whose used entries come first.
Contiguous(table) == table = NoTable \/ \A i \in 2 .. 4 : table[i] # "unused" => table[i - 1] # "unused"

\* list holds the functions before n that are of these kinds, each once and in
\* bus order.
InBusOrder(list, kinds, n) ==
    /\ \A i, j \in 1 .. Len(list) : i < j => list[i] < list[j]
    /\ {list[i] : i \in 1 .. Len(list)} = {f \in Functions : f < n /\ bus[f] \in kinds}

\* The order of the init calls and the nested loops over slots and functions:
\* when the scan is over, every function on the bus was added once, and every
\* IDE controller among them probed once, in bus order.
AllProbed ==
    /\ TypeOK
    /\ At("do_mount") => /\ InBusOrder(devices, {"ide", "other"}, Slots * Fncs)
                        /\ InBusOrder(probed, {"ide"}, Slots * Fncs)

\* get_hdstruct compares a number with a count but indexes by slot.  As long
\* as the used entries come first, it finds the partitions of the first disk
\* and nothing else; also when its controller is found twice.
LookupExact == At("do_mount") /\ bd_list # <<>> =>
    LET table == attached[bd_list[1].pos] IN
    Contiguous(table) => \A minor \in 1 .. 5 :
        LET part == get_hdstruct(bd_list, minor) IN
        IF minor <= 4 /\ table # NoTable /\ table[minor] # "unused"
        THEN part # Null /\ bd_list[part[1]].part_list[part[2]] = table[minor]
        ELSE part = Null

\* kernel/main.c:38 mounts the root file system: the first partition of the
\* first disk on a controller, when that is ext2, and otherwise nothing.
BootExact == At("done") /\ Len(bd_list) < MAX_DEVICES =>
    LET disks == {p \in Positions : attached[p] # Absent}
        first == CHOOSE p \in disks : \A q \in disks : p <= q
        found == (\E f \in Functions : bus[f] = "ide") /\ disks # {}
    IN  mounted # Null <=>
            found /\ attached[first] # NoTable /\ attached[first][1] = "ext2"
=============================================================================
