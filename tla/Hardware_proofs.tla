-------------------------- MODULE Hardware_proofs --------------------------
(***************************************************************************)
(* Proofs about the two modules of the hardware interface.                 *)
(*                                                                         *)
(* The boot (Devices): for every number of slots, functions and entries of *)
(* bd_list and for all machines, the partition that main.c names is        *)
(* mounted, if kmalloc returns zeroed memory, as it does before anything   *)
(* was freed: part_count is not initialised.  Without that, every function *)
(* on the bus is added once, and every controller probed once.             *)
(*                                                                         *)
(* Traps: for all lines with devices, drivers, exceptions and calls,       *)
(* however many interrupts arrive and however deep exceptions nest, each   *)
(* vector reaches its own handler, calls are answered, reports are true,   *)
(* and what was interrupted goes on with the registers it had.             *)
(***************************************************************************)
EXTENDS Devices, Traps, FiniteSetTheorems, TLAPS

-----------------------------------------------------------------------------
(* The boot: its invariant                                                 *)

Disk == [pos : Positions, part_count : Nat, part_list : [1 .. 4 -> Entries \cup {"unset"}]]

\* What the partition scan leaves of a table.
Used(table) == IF table = NoTable THEN {} ELSE {i \in 1 .. 4 : table[i] # "unused"}
Listed(bd, table) ==
    /\ bd.part_count = Cardinality(Used(table))
    /\ \A i \in 1 .. 4 : bd.part_list[i] = IF i \in Used(table) THEN table[i] ELSE "unset"

Shapes ==
    /\ bus \in [Functions -> {"none", "ide", "other"}]
    /\ \A f \in Functions : bus[f] # "none" => bus[SlotOf(f) * Fncs] # "none"
    /\ attached \in [Positions -> Tables \cup {Absent}]
    /\ step \in 1 .. 5 /\ fnc \in Nat /\ type \in 0 .. 4
    /\ bd_list \in Seq(Disk) /\ probed \in Seq(Functions)

\* register_blkdev has given up, or has not had to.
Full == Len(bd_list) >= MAX_DEVICES

\* The drivers are there when the scan begins; disks are probed during it.
Order ==
    /\ drivers = IF step = 1 THEN {} ELSE {"ide"}
    /\ filesystems = IF step < 3 THEN {} ELSE {"ext2"}
    /\ type < 4 => step = 3 /\ probed # <<>>
    /\ bd_list # <<>> => probed # <<>>
    /\ step < 3 => probed = <<>>

\* Controllers behind the scan were probed, and no others.
Scan ==
    /\ \A f \in Functions : f < fnc /\ bus[f] = "ide" => probed # <<>>
    /\ probed # <<>> => \E f \in Functions : bus[f] = "ide"
    /\ step >= 4 => fnc \notin Functions \/ Full

\* The first disk of the list is the first of the machine.
FirstDisk ==
    /\ bd_list # <<>> =>
          /\ attached[bd_list[1].pos] # Absent
          /\ \A q \in Positions : q < bd_list[1].pos => attached[q] = Absent
          /\ Listed(bd_list[1], attached[bd_list[1].pos])
    /\ bd_list = <<>> /\ probed # <<>> /\ ~Full =>
          \A q \in Positions : q < type => attached[q] = Absent

Root ==
    step = 5 /\ ~Full =>
        (mounted # Null <=> /\ bd_list # <<>> /\ bd_list[1].part_count >= 1
                            /\ bd_list[1].part_list[1] = "ext2")

DInv == Shapes /\ Order /\ Scan /\ FirstDisk /\ Root

-----------------------------------------------------------------------------
(* The scan of the bus                                                     *)

LEMMA DivMod ==
    ASSUME NEW n \in Nat, NEW b \in Nat \ {0}
    PROVE  n \div b \in Nat /\ (n % b) \in 0 .. b - 1 /\ n = b * (n \div b) + (n % b)
OBVIOUS

LEMMA SameSlot ==
    ASSUME NEW f \in Nat, NEW g \in Nat, NEW b \in Nat \ {0}, f <= g, g < (f \div b + 1) * b
    PROVE  g \div b = f \div b
<1> DEFINE q == f \div b
           r == g \div b
<1>1. q \in Nat /\ (f % b) \in 0 .. b - 1 /\ f = b * q + (f % b)
  BY DivMod
<1>2. r \in Nat /\ (g % b) \in 0 .. b - 1 /\ g = b * r + (g % b)
  BY DivMod
<1> HIDE DEF q, r
<1>3. g < b * q + b /\ b * q <= g
  BY <1>1 DEF q
<1>4. ~(r < q)
  <2> SUFFICES ASSUME r < q PROVE FALSE
    OBVIOUS
  <2>1. b * r + b <= b * q
    BY <1>1, <1>2
  <2> QED BY <1>1, <1>2, <1>3, <2>1
<1>5. ~(q < r)
  <2> SUFFICES ASSUME q < r PROVE FALSE
    OBVIOUS
  <2>1. b * q + b <= b * r
    BY <1>1, <1>2
  <2> QED BY <1>1, <1>2, <1>3, <2>1
<1> QED BY <1>1, <1>2, <1>4, <1>5 DEF q, r

\* Nothing lies in the functions that are passed over.
LEMMA PassesOver ==
    ASSUME \A f \in Functions : bus[f] # "none" => bus[SlotOf(f) * Fncs] # "none",
           fnc \in Functions
    PROVE  /\ next_function(fnc) \in Nat /\ next_function(fnc) > fnc
           /\ next_function(fnc) <= Slots * Fncs
           /\ \A f \in Functions : fnc < f /\ f < next_function(fnc) => bus[f] = "none"
<1> DEFINE s == SlotOf(fnc)
<1>1. /\ Fncs \in Nat \ {0} /\ Slots \in Nat /\ Slots * Fncs \in Nat
      /\ fnc \in Nat /\ fnc < Slots * Fncs
  BY DevicesAssumption DEF Functions
<1>2. s \in Nat /\ fnc < (s + 1) * Fncs
  <2>1. s \in Nat /\ (fnc % Fncs) \in 0 .. Fncs - 1 /\ fnc = Fncs * s + (fnc % Fncs)
    BY <1>1, DivMod DEF SlotOf
  <2> HIDE DEF s
  <2>2. (s + 1) * Fncs = Fncs * s + Fncs
    BY <1>1, <2>1
  <2> QED BY <1>1, <2>1, <2>2
<1>3. (s + 1) * Fncs \in Nat /\ (s + 1) * Fncs <= Slots * Fncs
  <2>1. fnc = Fncs * s + (fnc % Fncs) /\ (fnc % Fncs) \in 0 .. Fncs - 1
    BY <1>1, DivMod DEF SlotOf
  <2> HIDE DEF s
  <2>2. ~(Slots <= s)
    <3> SUFFICES ASSUME Slots <= s PROVE FALSE
      OBVIOUS
    <3>1. Fncs * Slots <= Fncs * s
      BY <1>1, <1>2
    <3> QED BY <1>1, <1>2, <2>1, <3>1
  <2>3. s + 1 <= Slots
    BY <1>1, <1>2, <2>2
  <2>4. (s + 1) * Fncs <= Slots * Fncs
    BY <1>1, <1>2, <2>3
  <2> QED BY <1>1, <1>2, <2>4
<1>4. CASE bus[s * Fncs] = "none"
  <2>1. next_function(fnc) = (s + 1) * Fncs
    BY <1>4 DEF next_function
  <2>2. ASSUME NEW f \in Functions, fnc < f, f < (s + 1) * Fncs PROVE bus[f] = "none"
    <3>1. f \in Nat
      BY <1>1, DevicesAssumption DEF Functions
    <3>2. SlotOf(f) = s
      <4>1. fnc <= f /\ f < (fnc \div Fncs + 1) * Fncs
        BY <1>1, <2>2, <3>1 DEF SlotOf
      <4>2. f \div Fncs = fnc \div Fncs
        BY <1>1, <3>1, <4>1, SameSlot
      <4> QED BY <4>2 DEF SlotOf
    <3> QED BY <1>4, <3>2
  <2> QED BY <1>2, <1>3, <2>1, <2>2
<1>5. CASE bus[s * Fncs] # "none"
  <2>1. next_function(fnc) = fnc + 1
    BY <1>5 DEF next_function
  <2>2. \A f \in Functions : ~(fnc < f /\ f < fnc + 1)
    BY <1>1 DEF Functions
  <2> QED BY <1>1, <2>1, <2>2
<1> QED BY <1>4, <1>5

-----------------------------------------------------------------------------
(* The partition scan                                                      *)

LEMMA UsedCount ==
    ASSUME NEW table
    PROVE  /\ IsFiniteSet(Used(table)) /\ Cardinality(Used(table)) \in Nat
           /\ Used(table) # {} => Cardinality(Used(table)) >= 1
<1>1. IsFiniteSet(1 .. 4)
  <2>1. 1 \in Int /\ 4 \in Int
    OBVIOUS
  <2> QED BY <2>1, FS_Interval
<1>2. Used(table) \subseteq 1 .. 4
  BY DEF Used
<1>3. IsFiniteSet(Used(table))
  BY <1>1, <1>2, FS_Subset
<1>4. Cardinality(Used(table)) \in Nat
  BY <1>3, FS_CardinalityType
<1>5. Cardinality(Used(table)) = 0 <=> Used(table) = {}
  BY <1>3, FS_EmptySet
<1> QED BY <1>3, <1>4, <1>5

\* Where the used entries come first, their number says which they are.
LEMMA UsedInOrder ==
    ASSUME NEW table, Contiguous(table), NEW i \in 1 .. 5
    PROVE  i \in Used(table) <=> i <= Cardinality(Used(table))
<1>1. PICK n \in 0 .. 4 : Used(table) = 1 .. n
  <2> DEFINE U == Used(table)
  <2>1. CASE U = {}
    <3>1. U = 1 .. 0
      BY <2>1
    <3> QED BY <3>1
  <2>2. CASE U # {}
    <3>1. table # NoTable /\ \A j \in 1 .. 4 : j \in U <=> table[j] # "unused"
      BY <2>2 DEF Used
    <3>2. \A x \in U : x = 1 \/ x = 2 \/ x = 3 \/ x = 4
      BY DEF Used
    <3>3. (2 \in U => 1 \in U) /\ (3 \in U => 2 \in U) /\ (4 \in U => 3 \in U)
      BY <3>1 DEF Contiguous
    <3> HIDE DEF U
    <3>4. 1 \in U
      BY <2>2, <3>2, <3>3
    <3>5. CASE 2 \notin U
      <4>1. U = 1 .. 1
        BY <3>2, <3>3, <3>4, <3>5
      <4> QED BY <4>1 DEF U
    <3>6. CASE 2 \in U /\ 3 \notin U
      <4>1. U = 1 .. 2
        BY <3>2, <3>3, <3>4, <3>6
      <4> QED BY <4>1 DEF U
    <3>7. CASE 3 \in U /\ 4 \notin U
      <4>1. U = 1 .. 3
        BY <3>2, <3>3, <3>4, <3>7
      <4> QED BY <4>1 DEF U
    <3>8. CASE 4 \in U
      <4>1. U = 1 .. 4
        BY <3>2, <3>3, <3>4, <3>8
      <4> QED BY <4>1 DEF U
    <3> QED BY <3>3, <3>5, <3>6, <3>7, <3>8
  <2> QED BY <2>1, <2>2
<1>2. Cardinality(1 .. n) = n
  <2>1. 1 \in Int /\ n \in Int
    OBVIOUS
  <2>2. Cardinality(1 .. n) = IF 1 > n THEN 0 ELSE n - 1 + 1
    BY <2>1, FS_Interval
  <2> QED BY <2>2
<1> QED BY <1>1, <1>2

LEMMA ScannedLists ==
    ASSUME Zeroed, NEW pos \in Positions, NEW bd \in NewDisks(pos), NEW table \in Tables
    PROVE  scanned(bd, table) \in Disk /\ scanned(bd, table).pos = pos /\ Listed(scanned(bd, table), table)
<1>1. bd \in [pos : {pos}, part_count : {0}, part_list : [1 .. 4 -> {"unset"}]]
  BY DEF NewDisks
<1>2. table = NoTable \/ table \in [1 .. 4 -> Entries]
  BY DevicesAssumption
<1>3. CASE table = NoTable
  <2>1. Used(table) = {} /\ Cardinality({}) = 0
    BY <1>3, FS_EmptySet DEF Used
  <2> QED BY <1>1, <1>3, <2>1 DEF scanned, Disk, Listed
<1>4. CASE table # NoTable
  <2> DEFINE n == Cardinality(Used(table))
             L == [i \in 1 .. 4 |-> IF table[i] = "unused" THEN bd.part_list[i] ELSE table[i]]
  <2>1. n \in Nat
    BY UsedCount
  <2>2. /\ L \in [1 .. 4 -> Entries \cup {"unset"}]
        /\ \A i \in 1 .. 4 : L[i] = IF i \in Used(table) THEN table[i] ELSE "unset"
    BY <1>1, <1>2, <1>4 DEF Used
  <2>3. scanned(bd, table) = [bd EXCEPT !.part_count = bd.part_count + n, !.part_list = L]
    BY <1>4 DEF scanned, Used
  <2> HIDE DEF n, L
  <2>4. scanned(bd, table) = [pos |-> pos, part_count |-> n, part_list |-> L]
    <3> DEFINE l == bd.part_list
               e == [bd EXCEPT !.part_count = bd.part_count + n]
    <3>1. e = [pos |-> pos, part_count |-> n, part_list |-> l]
      BY <1>1, <2>1
    <3>2. scanned(bd, table) = [e EXCEPT !.part_list = L]
      BY <2>3, Zenon
    <3> HIDE DEF e, l
    <3> QED BY <3>1, <3>2
  <2> QED BY <2>1, <2>2, <2>4 DEF Disk, Listed, n
<1> QED BY <1>3, <1>4

-----------------------------------------------------------------------------
(* The boot: one lemma per action                                          *)

LEMMA Steps ==
    ASSUME step \in 1 .. 5, NEW s, At(s)
    PROVE  /\ s = "init_ata" => step = 1
           /\ s = "init_ext2" => step = 2
           /\ s = "setup_pci" => step = 3
           /\ s = "do_mount" => step = 4
           /\ s = "done" => step = 5
BY DEF At, iosetup

LEMMA FirstIsDisk ==
    ASSUME Shapes, bd_list # <<>>
    PROVE  bd_list[1].pos \in Positions /\ bd_list[1].part_count \in Nat
<1>1. bd_list[1] \in Disk
  <2>1. bd_list \in Seq(Disk)
    BY DEF Shapes
  <2> QED BY <2>1
<1> QED BY <1>1 DEF Disk

LEMMA InitInv == Init => DInv
<1> SUFFICES ASSUME Init PROVE DInv
  OBVIOUS
<1>1. Shapes
  BY DEF Init, Shapes
<1>2. Order /\ Scan /\ FirstDisk /\ Root
  BY DevicesAssumption DEF Init, Order, Scan, FirstDisk, Root, Functions
<1> QED BY <1>1, <1>2 DEF DInv

LEMMA InitAtaKeeps == DInv /\ init_ata => DInv'
<1> SUFFICES ASSUME DInv, init_ata PROVE DInv'
  OBVIOUS
<1>1. step = 1 /\ step' = 2
  BY Steps DEF DInv, Shapes, init_ata
<1>2. Shapes'
  BY <1>1 DEF DInv, Shapes, init_ata
<1>3. Order'
  BY <1>1 DEF DInv, Order, init_ata
<1>4. Scan' /\ FirstDisk' /\ Root'
  BY <1>1 DEF DInv, Scan, FirstDisk, Root, Full, Listed, init_ata
<1> QED BY <1>2, <1>3, <1>4 DEF DInv

LEMMA InitExt2Keeps == DInv /\ init_ext2 => DInv'
<1> SUFFICES ASSUME DInv, init_ext2 PROVE DInv'
  OBVIOUS
<1>1. step = 2 /\ step' = 3
  BY Steps DEF DInv, Shapes, init_ext2
<1>2. Shapes'
  BY <1>1 DEF DInv, Shapes, init_ext2
<1>3. Order'
  BY <1>1 DEF DInv, Order, init_ext2
<1>4. Scan' /\ FirstDisk' /\ Root'
  BY <1>1 DEF DInv, Scan, FirstDisk, Root, Full, Listed, init_ext2
<1> QED BY <1>2, <1>3, <1>4 DEF DInv

LEMMA AbsentKeeps == DInv /\ setup_pci_absent => DInv'
<1> SUFFICES ASSUME DInv, setup_pci_absent PROVE DInv'
  OBVIOUS
<1>1. step = 3 /\ fnc \in Functions /\ type = 4
  BY Steps DEF DInv, Shapes, setup_pci_absent, Scanning
<1>2. /\ fnc' \in Nat /\ fnc' > fnc
      /\ \A f \in Functions : fnc < f /\ f < fnc' => bus[f] = "none"
  BY <1>1, PassesOver DEF DInv, Shapes, setup_pci_absent
<1>3. Shapes'
  BY <1>2 DEF DInv, Shapes, setup_pci_absent
<1>4. Scan'
  <2>1. ASSUME NEW f \in Functions, f < fnc', bus[f] = "ide" PROVE probed # <<>>
    <3>1. f \in Nat /\ fnc \in Nat
      BY DevicesAssumption DEF Functions, DInv, Shapes
    <3>2. ~(fnc < f)
      BY <1>2, <2>1
    <3>3. f # fnc
      BY <2>1 DEF setup_pci_absent
    <3>4. f < fnc
      BY <3>1, <3>2, <3>3
    <3> QED BY <2>1, <3>4 DEF DInv, Scan
  <2> QED BY <1>1, <2>1 DEF DInv, Scan, setup_pci_absent
<1>5. Order' /\ FirstDisk' /\ Root'
  BY <1>1 DEF DInv, Order, FirstDisk, Root, Full, Listed, setup_pci_absent
<1> QED BY <1>3, <1>4, <1>5 DEF DInv

LEMMA AddKeeps == DInv /\ add_pci_device => DInv'
<1> SUFFICES ASSUME DInv, add_pci_device PROVE DInv'
  OBVIOUS
<1>1. step = 3 /\ fnc \in Functions /\ type = 4
  BY Steps DEF DInv, Shapes, add_pci_device, Scanning
<1>2. /\ fnc' \in Nat /\ fnc' > fnc
      /\ \A f \in Functions : fnc < f /\ f < fnc' => bus[f] = "none"
  BY <1>1, PassesOver DEF DInv, Shapes, add_pci_device
<1>3. drivers = {"ide"}
  BY <1>1 DEF DInv, Order
<1>4. /\ bus[fnc] = "ide" => probed' = Append(probed, fnc) /\ type' = 0
      /\ bus[fnc] # "ide" => probed' = probed /\ type' = type
  BY <1>3 DEF add_pci_device
<1>5. /\ probed' \in Seq(Functions)
      /\ bus[fnc] = "ide" \/ probed # <<>> => probed' # <<>>
      /\ probed' # <<>> => bus[fnc] = "ide" \/ probed # <<>>
  BY <1>1, <1>4 DEF DInv, Shapes
<1>6. Shapes'
  BY <1>1, <1>2, <1>4, <1>5 DEF DInv, Shapes, add_pci_device
<1>7. Order'
  BY <1>1, <1>4, <1>5 DEF DInv, Order, add_pci_device
<1>8. Scan'
  <2>1. ASSUME NEW f \in Functions, f < fnc', bus[f] = "ide" PROVE probed' # <<>>
    <3>1. f \in Nat /\ fnc \in Nat
      BY DevicesAssumption DEF Functions, DInv, Shapes
    <3>2. ~(fnc < f)
      BY <1>2, <2>1
    <3>3. f = fnc \/ f < fnc
      BY <3>1, <3>2
    <3> QED BY <1>5, <2>1, <3>3 DEF DInv, Scan
  <2>2. probed' # <<>> => \E f \in Functions : bus[f] = "ide"
    BY <1>1, <1>5 DEF DInv, Scan
  <2>3. bus' = bus /\ step' = 3
    BY <1>1 DEF add_pci_device
  <2> QED BY <2>1, <2>2, <2>3 DEF Scan
<1>9. FirstDisk' /\ Root'
  <2>1. bd_list # <<>> => FirstDisk'
    BY DEF DInv, FirstDisk, Listed, add_pci_device
  <2>2. bd_list = <<>> => FirstDisk'
    <3>1. bus[fnc] = "ide" => \A q \in Positions : ~(q < type')
      BY <1>4 DEF Positions
    <3> QED BY <1>4, <3>1 DEF DInv, FirstDisk, Full, add_pci_device
  <2>3. Root'
    BY <1>1 DEF Root, add_pci_device
  <2> QED BY <2>1, <2>2, <2>3
<1> QED BY <1>6, <1>7, <1>8, <1>9 DEF DInv

LEMMA DoneKeeps == DInv /\ setup_pci_done => DInv'
<1> SUFFICES ASSUME DInv, setup_pci_done PROVE DInv'
  OBVIOUS
<1>1. step = 3 /\ step' = 4 /\ fnc \notin Functions /\ type = 4
  BY Steps DEF DInv, Shapes, setup_pci_done
<1>2. Shapes'
  BY <1>1 DEF DInv, Shapes, setup_pci_done
<1>3. Order' /\ Scan' /\ FirstDisk' /\ Root'
  BY <1>1 DEF DInv, Order, Scan, FirstDisk, Root, Full, Listed, setup_pci_done
<1> QED BY <1>2, <1>3 DEF DInv

LEMMA ProbeAbsentKeeps == DInv /\ probe_absent => DInv'
<1> SUFFICES ASSUME DInv, probe_absent PROVE DInv'
  OBVIOUS
<1>1. type \in 0 .. 3 /\ type' = type + 1 /\ attached[type] = Absent /\ step = 3 /\ probed # <<>>
  BY DEF probe_absent, Positions, DInv, Order
<1>2. Shapes'
  BY <1>1 DEF DInv, Shapes, probe_absent
<1>3. Order' /\ Scan' /\ Root'
  BY <1>1 DEF DInv, Order, Scan, Root, Full, probe_absent
<1>4. FirstDisk'
  <2>1. \A q \in Positions : q < type' => q < type \/ q = type
    BY <1>1 DEF Positions
  <2> QED BY <1>1, <2>1 DEF DInv, FirstDisk, Full, Listed, probe_absent
<1> QED BY <1>2, <1>3, <1>4 DEF DInv

LEMMA RegisterKeeps == Zeroed /\ DInv /\ register_blkdev => DInv'
<1> SUFFICES ASSUME Zeroed, DInv, register_blkdev PROVE DInv'
  OBVIOUS
<1>1. type \in 0 .. 3 /\ type \in Positions /\ type' = type + 1 /\ step = 3 /\ probed # <<>>
  BY DEF register_blkdev, Positions, DInv, Order
<1>2. attached[type] \in Tables /\ attached[type] # Absent
  BY <1>1 DEF register_blkdev, DInv, Shapes
<1>3. PICK bd \in NewDisks(type) : bd_list' = Append(bd_list, scanned(bd, attached[type]))
  BY DEF register_blkdev
<1> DEFINE new == scanned(bd, attached[type])
<1>4. new \in Disk /\ new.pos = type /\ Listed(new, attached[type])
  BY <1>1, <1>2, <1>3, ScannedLists
<1> HIDE DEF new
<1>5. /\ bd_list \in Seq(Disk) /\ bd_list' \in Seq(Disk) /\ bd_list' # <<>>
      /\ bd_list'[1] = IF bd_list = <<>> THEN new ELSE bd_list[1]
  BY <1>3, <1>4 DEF new, DInv, Shapes
<1>6. ~Full
  BY <1>5, DevicesAssumption DEF register_blkdev, bd_list_has_room, Full
<1>7. Shapes'
  BY <1>1, <1>5 DEF DInv, Shapes, register_blkdev
<1>8. Order' /\ Root'
  BY <1>1, <1>5 DEF DInv, Order, Root, register_blkdev
<1>9. Scan'
  BY <1>1 DEF DInv, Scan, register_blkdev
<1>10. FirstDisk'
  <2>1. attached' = attached
    BY DEF register_blkdev
  <2>2. CASE bd_list = <<>>
    <3>1. \A q \in Positions : q < type => attached[q] = Absent
      BY <1>1, <1>6, <2>2 DEF DInv, FirstDisk
    <3>2. bd_list'[1] = new
      BY <1>5, <2>2
    <3> QED BY <1>2, <1>4, <1>5, <2>1, <3>1, <3>2 DEF FirstDisk
  <2>3. CASE bd_list # <<>>
    <3>1. bd_list'[1] = bd_list[1]
      BY <1>5, <2>3
    <3> QED BY <1>5, <2>1, <2>3, <3>1 DEF DInv, FirstDisk, Listed
  <2> QED BY <2>2, <2>3
<1> QED BY <1>7, <1>8, <1>9, <1>10 DEF DInv

LEMMA PanicKeeps == DInv /\ register_blkdev_panics => DInv'
<1> SUFFICES ASSUME DInv, register_blkdev_panics PROVE DInv'
  OBVIOUS
<1>1. step = 3 /\ step' = 5 /\ type' = 4 /\ probed # <<>>
  BY DEF register_blkdev_panics, Positions, DInv, Order, iosetup
<1>2. Full
  BY DevicesAssumption DEF register_blkdev_panics, bd_list_has_room, Full, DInv, Shapes
<1>3. Shapes'
  BY <1>1 DEF DInv, Shapes, register_blkdev_panics
<1>4. Order' /\ Scan' /\ FirstDisk' /\ Root'
  BY <1>1, <1>2 DEF DInv, Order, Scan, FirstDisk, Root, Full, Listed, register_blkdev_panics
<1> QED BY <1>3, <1>4 DEF DInv

LEMMA MountKeeps == DInv /\ do_mount => DInv'
<1> SUFFICES ASSUME DInv, do_mount PROVE DInv'
  OBVIOUS
<1>1. step = 4 /\ step' = 5 /\ type = 4
  <2>1. step = 4
    BY Steps DEF DInv, Shapes, do_mount
  <2> QED BY <2>1 DEF DInv, Order, Shapes, do_mount
<1>2. Shapes'
  BY <1>1 DEF DInv, Shapes, do_mount
<1>3. Order' /\ Scan' /\ FirstDisk'
  BY <1>1 DEF DInv, Order, Scan, FirstDisk, Full, Listed, do_mount
<1>4. Root'
  <2>1. filesystems = {"ext2"} /\ bd_list' = bd_list
    BY <1>1 DEF DInv, Order, do_mount
  <2>2. CASE bd_list = <<>>
    <3>1. get_hdstruct(bd_list, 1) = Null
      BY <2>2 DEF get_hdstruct, get_gendisk, Null
    <3>2. mounted' = Null
      BY <3>1 DEF do_mount
    <3> QED BY <2>1, <2>2, <3>2 DEF Root
  <2>3. CASE bd_list # <<>> /\ bd_list[1].part_count >= 1
    <3>1. bd_list[1].part_count \in Nat
      BY <2>3, FirstIsDisk DEF DInv
    <3>2. get_hdstruct(bd_list, 1) = <<1, 1>>
      BY <2>3, <3>1 DEF get_hdstruct, get_gendisk, Null
    <3>3. mounted' = IF bd_list[1].part_list[1] = "ext2" THEN <<1, 1>> ELSE Null
      BY <2>1, <3>2 DEF do_mount, probe_fs, Null
    <3> QED BY <2>1, <2>3, <3>3 DEF Root, Null
  <2>4. CASE bd_list # <<>> /\ ~(bd_list[1].part_count >= 1)
    <3>1. bd_list[1].part_count \in Nat
      BY <2>4, FirstIsDisk DEF DInv
    <3>2. get_hdstruct(bd_list, 1) = Null
      BY <2>4, <3>1 DEF get_hdstruct, get_gendisk, Null
    <3>3. mounted' = Null
      BY <3>2 DEF do_mount
    <3> QED BY <2>1, <2>4, <3>3 DEF Root
  <2> QED BY <2>2, <2>3, <2>4
<1> QED BY <1>2, <1>3, <1>4 DEF DInv

-----------------------------------------------------------------------------
(* The boot: the theorems                                                  *)

LEMMA StepKeeps == Zeroed /\ DInv /\ [Next]_vars => DInv'
<1> SUFFICES ASSUME Zeroed, DInv, [Next]_vars PROVE DInv'
  OBVIOUS
<1>1. CASE UNCHANGED vars
  BY <1>1 DEF vars, DInv, Shapes, Order, Scan, FirstDisk, Root, Full, Listed
<1>2. CASE Next
  BY <1>2, InitAtaKeeps, InitExt2Keeps, AbsentKeeps, AddKeeps, DoneKeeps, ProbeAbsentKeeps,
     RegisterKeeps, PanicKeeps, MountKeeps DEF Next
<1> QED BY <1>1, <1>2

LEMMA InvBoots == DInv => BootExact
<1> DEFINE disks == {p \in Positions : attached[p] # Absent}
           first == CHOOSE p \in disks : \A q \in disks : p <= q
<1> SUFFICES ASSUME DInv, At("done"), Len(bd_list) < MAX_DEVICES
             PROVE  mounted # Null <=>
                        /\ (\E f \in Functions : bus[f] = "ide") /\ disks # {}
                        /\ attached[first] # NoTable /\ attached[first][1] = "ext2"
  BY DEF BootExact
<1>1. step = 5 /\ type = 4 /\ ~Full
  <2>1. step = 5
    BY Steps DEF DInv, Shapes
  <2>2. ~Full
    BY DevicesAssumption DEF DInv, Shapes, Full
  <2> QED BY <2>1, <2>2 DEF DInv, Shapes, Order
<1>2. mounted # Null <=> /\ bd_list # <<>> /\ bd_list[1].part_count >= 1
                         /\ bd_list[1].part_list[1] = "ext2"
  BY <1>1 DEF DInv, Root
<1>3. probed # <<>> <=> \E f \in Functions : bus[f] = "ide"
  <2>1. \A f \in Functions : f < fnc
    <3>1. fnc \in Nat /\ fnc \notin Functions /\ Slots * Fncs \in Nat
      BY <1>1, DevicesAssumption DEF DInv, Shapes, Scan
    <3>2. fnc > Slots * Fncs - 1
      BY <3>1 DEF Functions
    <3> QED BY <3>1, <3>2 DEF Functions
  <2> QED BY <2>1 DEF DInv, Scan
<1>4. CASE bd_list # <<>>
  <2> DEFINE p == bd_list[1].pos
  <2>1. /\ probed # <<>> /\ p \in Positions /\ attached[p] # Absent
        /\ \A q \in Positions : q < p => attached[q] = Absent
        /\ Listed(bd_list[1], attached[p])
    BY <1>4, FirstIsDisk DEF DInv, Order, FirstDisk
  <2> HIDE DEF p
  <2>2. p \in disks /\ \A q \in disks : p <= q
    BY <2>1 DEF Positions
  <2>3. \A r \in disks : (\A q \in disks : r <= q) => r = p
    BY <2>2 DEF Positions
  <2>4. first = p
    <3> HIDE DEF disks
    <3> QED BY <2>2, <2>3
  <2> HIDE DEF first
  <2> DEFINE table == attached[p]
  <2>5. 1 \in Used(table) <=> table # NoTable /\ table[1] # "unused"
    BY DEF Used
  <2>6. 1 \in Used(table) => bd_list[1].part_count >= 1
    BY <2>1, UsedCount DEF Listed
  <2>7. bd_list[1].part_list[1] = IF 1 \in Used(table) THEN table[1] ELSE "unset"
    BY <2>1 DEF Listed
  <2> HIDE DEF table
  <2>8. mounted # Null <=> table # NoTable /\ table[1] = "ext2"
    BY <1>2, <1>4, <2>5, <2>6, <2>7
  <2> QED BY <1>3, <2>1, <2>2, <2>4, <2>8 DEF table
<1>5. CASE bd_list = <<>>
  <2>1. probed # <<>> => disks = {}
    BY <1>1, <1>5 DEF DInv, FirstDisk, Positions
  <2> QED BY <1>2, <1>3, <1>5, <2>1
<1> QED BY <1>4, <1>5

LEMMA InvFinds == DInv => LookupExact
<1> DEFINE table == attached[bd_list[1].pos]
<1> SUFFICES ASSUME DInv, bd_list # <<>>, Contiguous(table), NEW minor \in 1 .. 5
             PROVE  LET part == get_hdstruct(bd_list, minor) IN
                    IF minor <= 4 /\ table # NoTable /\ table[minor] # "unused"
                    THEN part # Null /\ bd_list[part[1]].part_list[part[2]] = table[minor]
                    ELSE part = Null
  BY DEF LookupExact
<1> DEFINE bd == bd_list[1]
<1>1. Listed(bd, table)
  BY DEF DInv, FirstDisk
<1>2. bd.part_count = Cardinality(Used(table)) /\ bd.part_count \in Nat
  BY <1>1, UsedCount DEF Listed
<1>3. minor \in Used(table) <=> minor <= 4 /\ table # NoTable /\ table[minor] # "unused"
  BY DEF Used
<1>4. minor \in Used(table) <=> minor <= bd.part_count
  BY <1>2, UsedInOrder
<1>5. minor \in Used(table) => bd.part_list[minor] = table[minor]
  BY <1>1, <1>3 DEF Listed
<1>6. get_hdstruct(bd_list, minor) = IF bd.part_count < minor THEN Null ELSE <<1, minor>>
  BY DEF get_hdstruct, get_gendisk, Null
<1> HIDE DEF table
<1>7. CASE minor \in Used(table)
  <2>1. get_hdstruct(bd_list, minor) = <<1, minor>>
    BY <1>2, <1>4, <1>6, <1>7
  <2> QED BY <1>3, <1>5, <1>7, <2>1 DEF Null
<1>8. CASE minor \notin Used(table)
  <2>1. get_hdstruct(bd_list, minor) = Null
    BY <1>2, <1>4, <1>6, <1>8
  <2> QED BY <1>3, <1>8, <2>1
<1> QED BY <1>7, <1>8

LEMMA AlwaysDInv ==
    ASSUME Zeroed
    PROVE  Spec => []DInv
<1>1. DInv /\ [Next]_vars => DInv'
  BY StepKeeps
<1> QED BY InitInv, <1>1, PTL DEF Spec

\* Where kmalloc returns zeroed memory and bd_list does not fill up, kmain
\* mounts the first partition of the first disk on a controller when that is
\* ext2, and otherwise nothing: on every bus, whatever holds the functions.
THEOREM BootsFromFirstDisk ==
    ASSUME Zeroed
    PROVE  Spec => []BootExact
BY AlwaysDInv, InvBoots, PTL

\* Of get_hdstruct, also where bd_list has filled up: it finds the partitions
\* of the first disk and nothing else, if the used entries of the disk's table
\* come first.
THEOREM LooksUpFirstDisk ==
    ASSUME Zeroed
    PROVE  Spec => []LookupExact
BY AlwaysDInv, InvFinds, PTL

-----------------------------------------------------------------------------
(* The boot: what the scan adds and probes                                 *)

\* The lists hold what lies before fnc, at any time; kmalloc may leave
\* anything in a new disk.
SInv ==
    /\ bus \in [Functions -> {"none", "ide", "other"}]
    /\ \A f \in Functions : bus[f] # "none" => bus[SlotOf(f) * Fncs] # "none"
    /\ attached \in [Positions -> Tables \cup {Absent}]
    /\ TypeOK
    /\ drivers = IF step = 1 THEN {} ELSE {"ide"}
    /\ step < 3 => fnc = 0
    /\ type < 4 => step = 3
    /\ step = 4 => fnc \notin Functions
    /\ InBusOrder(devices, {"ide", "other"}, fnc) /\ InBusOrder(probed, {"ide"}, fnc)

LEMMA FiveSteps == Len(iosetup) = 5
BY DEF iosetup

\* The function the scan has come to goes to the end of the lists it belongs to.
LEMMA NextInOrder ==
    ASSUME bus \in [Functions -> {"none", "ide", "other"}],
           NEW list \in Seq(Functions), NEW kinds, "none" \notin kinds,
           NEW n \in Functions, NEW m \in Nat, m > n,
           \A f \in Functions : n < f /\ f < m => bus[f] = "none",
           InBusOrder(list, kinds, n),
           NEW l, l = IF bus[n] \in kinds THEN Append(list, n) ELSE list
    PROVE  InBusOrder(l, kinds, m)
<1>1. Functions \subseteq Nat
  BY DevicesAssumption DEF Functions
<1>2. \A f \in Functions : f < m /\ bus[f] \in kinds <=>
          (f < n /\ bus[f] \in kinds) \/ (f = n /\ bus[n] \in kinds)
  BY <1>1
<1>3. \A i \in 1 .. Len(list) : list[i] \in Functions /\ list[i] < n
  BY DEF InBusOrder
<1>4. CASE bus[n] \notin kinds
  BY <1>2, <1>4 DEF InBusOrder
<1>5. CASE bus[n] \in kinds
  <2>1. /\ Len(l) = Len(list) + 1 /\ Len(list) \in Nat /\ l[Len(list) + 1] = n
        /\ \A i \in 1 .. Len(list) : l[i] = list[i]
    BY <1>5
  <2>2. ASSUME NEW i \in 1 .. Len(l), NEW j \in 1 .. Len(l), i < j PROVE l[i] < l[j]
    <3>1. i \in 1 .. Len(list)
      BY <2>1, <2>2
    <3>2. CASE j = Len(list) + 1
      BY <1>3, <2>1, <3>1, <3>2
    <3>3. CASE j \in 1 .. Len(list)
      BY <2>1, <2>2, <3>1, <3>3 DEF InBusOrder
    <3> QED BY <2>1, <3>2, <3>3
  <2>3. {l[i] : i \in 1 .. Len(l)} = {list[i] : i \in 1 .. Len(list)} \cup {n}
    BY <2>1
  <2>4. {l[i] : i \in 1 .. Len(l)} = {f \in Functions : f < m /\ bus[f] \in kinds}
    BY <1>2, <1>5, <2>3 DEF InBusOrder
  <2> QED BY <2>2, <2>4 DEF InBusOrder
<1> QED BY <1>4, <1>5

\* What a new disk may hold stays within bounds.
LEMMA ScannedTypes ==
    ASSUME NEW pos \in Positions, NEW bd \in NewDisks(pos), NEW table \in Tables
    PROVE  scanned(bd, table) \in [pos : Positions, part_count : 0 .. 9,
                                   part_list : [1 .. 4 -> Entries \cup {"unset"}]]
<1>1. bd \in [pos : {pos}, part_count : 0 .. 5, part_list : [1 .. 4 -> Entries \cup {"unset"}]]
  <2>1. CASE Zeroed
    BY <2>1 DEF NewDisks
  <2>2. CASE ~Zeroed
    BY <2>2 DEF NewDisks
  <2> QED BY <2>1, <2>2
<1>2. table = NoTable \/ table \in [1 .. 4 -> Entries]
  BY DevicesAssumption
<1>3. CASE table = NoTable
  BY <1>1, <1>3 DEF scanned
<1>4. CASE table # NoTable
  <2> DEFINE n == Cardinality(Used(table))
             L == [i \in 1 .. 4 |-> IF table[i] = "unused" THEN bd.part_list[i] ELSE table[i]]
             e == [bd EXCEPT !.part_count = bd.part_count + n]
  <2>1. n \in 0 .. 4
    <3>1. IsFiniteSet(1 .. 4) /\ Cardinality(1 .. 4) = 4
      <4>1. 1 \in Int /\ 4 \in Int
        OBVIOUS
      <4>2. IsFiniteSet(1 .. 4) /\ Cardinality(1 .. 4) = IF 1 > 4 THEN 0 ELSE 4 - 1 + 1
        BY <4>1, FS_Interval
      <4> QED BY <4>2
    <3>2. Used(table) \subseteq 1 .. 4
      BY DEF Used
    <3>3. Cardinality(Used(table)) <= 4 /\ Cardinality(Used(table)) \in Nat
      BY <3>1, <3>2, FS_Subset, UsedCount
    <3> QED BY <3>3
  <2>2. L \in [1 .. 4 -> Entries \cup {"unset"}]
    BY <1>1, <1>2, <1>4
  <2>3. scanned(bd, table) = [e EXCEPT !.part_list = L]
    <3>1. scanned(bd, table) = [bd EXCEPT !.part_count = bd.part_count + n, !.part_list = L]
      BY <1>4 DEF scanned, Used
    <3> HIDE DEF n, L
    <3> QED BY <3>1, Zenon
  <2> HIDE DEF n, L
  <2>4. e \in [pos : {pos}, part_count : 0 .. 9, part_list : [1 .. 4 -> Entries \cup {"unset"}]]
    BY <1>1, <2>1
  <2> HIDE DEF e
  <2> QED BY <2>2, <2>3, <2>4
<1> QED BY <1>3, <1>4

LEMMA InitSInv == Init => SInv
<1> SUFFICES ASSUME Init PROVE SInv
  OBVIOUS
<1>1. step = 1 /\ type = 4 /\ fnc = 0 /\ Slots * Fncs \in Nat
  BY DevicesAssumption DEF Init
<1>2. /\ devices = <<>> /\ probed = <<>> /\ bd_list = <<>> /\ mounted = Null
      /\ drivers = {} /\ filesystems = {}
  BY DEF Init, Null
<1>3. TypeOK
  BY <1>1, <1>2, FiveSteps, DevicesAssumption DEF TypeOK
<1>4. InBusOrder(devices, {"ide", "other"}, fnc) /\ InBusOrder(probed, {"ide"}, fnc)
  <2>1. \A f \in Functions : ~(f < 0)
    BY DevicesAssumption DEF Functions
  <2> QED BY <1>1, <1>2, <2>1 DEF InBusOrder
<1> QED BY <1>1, <1>2, <1>3, <1>4 DEF Init, SInv

\* The scan takes the next function: it is added, probed or neither.
LEMMA ScanKeeps == SInv /\ (setup_pci_absent \/ add_pci_device) => SInv'
<1> SUFFICES ASSUME SInv, setup_pci_absent \/ add_pci_device PROVE SInv'
  OBVIOUS
<1>1. step = 3 /\ fnc \in Functions /\ type = 4 /\ step \in 1 .. 5 /\ drivers = {"ide"}
  BY Steps, FiveSteps DEF SInv, TypeOK, setup_pci_absent, add_pci_device, Scanning
<1>2. /\ fnc' \in Nat /\ fnc' > fnc /\ fnc' <= Slots * Fncs /\ fnc \in Nat
      /\ \A f \in Functions : fnc < f /\ f < fnc' => bus[f] = "none"
  <2>1. fnc' = next_function(fnc)
    BY DEF setup_pci_absent, add_pci_device
  <2>2. fnc \in Nat
    BY <1>1, DevicesAssumption DEF Functions
  <2> QED BY <1>1, <2>1, <2>2, PassesOver DEF SInv
<1>3. /\ UNCHANGED <<bus, attached, step, drivers, filesystems, bd_list, mounted>>
      /\ type' \in 0 .. 4
      /\ devices' = IF bus[fnc] \in {"ide", "other"} THEN Append(devices, fnc) ELSE devices
      /\ probed' = IF bus[fnc] \in {"ide"} THEN Append(probed, fnc) ELSE probed
  <2>1. CASE setup_pci_absent
    BY <1>1, <2>1 DEF setup_pci_absent
  <2>2. CASE add_pci_device
    BY <1>1, <2>2 DEF add_pci_device, SInv
  <2> QED BY <2>1, <2>2
<1>4. /\ devices \in Seq(Functions) /\ Len(devices) <= fnc
      /\ probed \in Seq(Functions) /\ Len(probed) <= Len(devices)
  BY DEF SInv, TypeOK
<1>5. /\ InBusOrder(devices', {"ide", "other"}, fnc')
      /\ InBusOrder(probed', {"ide"}, fnc')
  <2>1. InBusOrder(devices', {"ide", "other"}, fnc')
    BY <1>1, <1>2, <1>3, <1>4, NextInOrder DEF SInv
  <2>2. InBusOrder(probed', {"ide"}, fnc')
    BY <1>1, <1>2, <1>3, <1>4, NextInOrder DEF SInv
  <2> QED BY <2>1, <2>2
<1>6. /\ devices' \in Seq(Functions) /\ Len(devices') <= fnc'
      /\ probed' \in Seq(Functions) /\ Len(probed') <= Len(devices')
  <2>1. CASE bus[fnc] = "ide"
    BY <1>1, <1>2, <1>3, <1>4, <2>1
  <2>2. CASE bus[fnc] # "ide"
    BY <1>1, <1>2, <1>3, <1>4, <2>2
  <2> QED BY <2>1, <2>2
<1>7. TypeOK'
  BY <1>2, <1>3, <1>6 DEF SInv, TypeOK, iosetup
<1>8. InBusOrder(devices, {"ide", "other"}, fnc)' /\ InBusOrder(probed, {"ide"}, fnc)'
  BY <1>3, <1>5 DEF InBusOrder
<1> QED BY <1>1, <1>3, <1>7, <1>8 DEF SInv

\* The disks are probed and read while the scan stands still.
LEMMA DisksKeepS ==
    SInv /\ (probe_absent \/ register_blkdev \/ register_blkdev_panics) => SInv'
<1> SUFFICES ASSUME SInv, probe_absent \/ register_blkdev \/ register_blkdev_panics PROVE SInv'
  OBVIOUS
<1>1. /\ type \in 0 .. 3 /\ step = 3 /\ type' \in 0 .. 4
      /\ step' = 3 \/ (step' = 5 /\ type' = 4)
      /\ UNCHANGED <<bus, attached, drivers, filesystems, fnc, devices, probed, mounted>>
  BY FiveSteps
     DEF probe_absent, register_blkdev, register_blkdev_panics, Positions, SInv, TypeOK
<1> DEFINE Disks == [pos : Positions, part_count : 0 .. 9,
                     part_list : [1 .. 4 -> Entries \cup {"unset"}]]
<1>2. bd_list \in Seq(Disks) /\ Len(bd_list) <= MAX_DEVICES /\ MAX_DEVICES \in Nat
  BY DevicesAssumption DEF SInv, TypeOK
<1>3. /\ bd_list' \in Seq(Disks) /\ Len(bd_list') <= MAX_DEVICES
      /\ Len(bd_list') \in Nat /\ Len(bd_list) <= Len(bd_list')
  <2>1. CASE register_blkdev
    <3>1. attached[type] \in Tables /\ type \in Positions
      BY <2>1, <1>1 DEF register_blkdev, SInv
    <3>2. PICK bd \in NewDisks(type) : bd_list' = Append(bd_list, scanned(bd, attached[type]))
      BY <2>1 DEF register_blkdev
    <3>3. scanned(bd, attached[type]) \in Disks
      BY <3>1, ScannedTypes
    <3> HIDE DEF Disks
    <3> QED BY <1>2, <2>1, <3>2, <3>3 DEF register_blkdev, bd_list_has_room
  <2>2. CASE bd_list' = bd_list
    <3> HIDE DEF Disks
    <3> QED BY <1>2, <2>2
  <2> QED BY <2>1, <2>2 DEF probe_absent, register_blkdev_panics
<1>4. mounted' = Null \/ mounted' \in (1 .. Len(bd_list')) \X (1 .. 4)
  BY <1>1, <1>2, <1>3 DEF SInv, TypeOK
<1>5. TypeOK'
  BY <1>1, <1>3, <1>4, FiveSteps DEF SInv, TypeOK, iosetup
<1>6. InBusOrder(devices, {"ide", "other"}, fnc)' /\ InBusOrder(probed, {"ide"}, fnc)'
  BY <1>1 DEF SInv, InBusOrder
<1> QED BY <1>1, <1>5, <1>6 DEF SInv

\* The other calls of iosetup leave the lists alone.
LEMMA SetupKeepsS == SInv /\ (init_ata \/ init_ext2 \/ setup_pci_done \/ do_mount) => SInv'
<1> SUFFICES ASSUME SInv, init_ata \/ init_ext2 \/ setup_pci_done \/ do_mount PROVE SInv'
  OBVIOUS
<1>1. UNCHANGED <<bus, attached, fnc, type, devices, probed, bd_list>>
  BY DEF init_ata, init_ext2, setup_pci_done, do_mount
<1>2. /\ step \in 1 .. 4 /\ step' = step + 1
      /\ drivers' = {"ide"} /\ filesystems' \subseteq {"ext2"}
      /\ step' = 4 => fnc \notin Functions
  <2>1. step \in 1 .. 5
    BY FiveSteps DEF SInv, TypeOK
  <2>2. CASE init_ata
    BY <2>1, <2>2, Steps DEF SInv, TypeOK, init_ata
  <2>3. CASE init_ext2
    BY <2>1, <2>3, Steps DEF SInv, TypeOK, init_ext2
  <2>4. CASE setup_pci_done
    BY <2>1, <2>4, Steps DEF SInv, TypeOK, setup_pci_done
  <2>5. CASE do_mount
    BY <2>1, <2>5, Steps DEF SInv, TypeOK, do_mount
  <2> QED BY <2>2, <2>3, <2>4, <2>5
<1>3. step < 3 => fnc = 0
  BY DEF SInv
<1>4. type = 4
  BY <1>2, Steps, FiveSteps DEF SInv, TypeOK, init_ata, init_ext2, setup_pci_done, do_mount
<1>5. mounted' = Null \/ mounted' \in (1 .. Len(bd_list)) \X (1 .. 4)
  <2>1. CASE do_mount
    <3>1. get_hdstruct(bd_list, 1) = Null \/ (bd_list # <<>> /\ get_hdstruct(bd_list, 1) = <<1, 1>>)
      BY DEF get_hdstruct, get_gendisk, Null
    <3>2. bd_list # <<>> => Len(bd_list) \in Nat \ {0}
      BY DEF SInv, TypeOK
    <3> QED BY <2>1, <3>1, <3>2 DEF do_mount
  <2>2. CASE mounted' = mounted
    BY <2>2 DEF SInv, TypeOK
  <2> QED BY <2>1, <2>2 DEF init_ata, init_ext2, setup_pci_done
<1>6. TypeOK'
  BY <1>1, <1>2, <1>5, FiveSteps DEF SInv, TypeOK, iosetup
<1>7. InBusOrder(devices, {"ide", "other"}, fnc)' /\ InBusOrder(probed, {"ide"}, fnc)'
  BY <1>1 DEF SInv, InBusOrder
<1> QED BY <1>1, <1>2, <1>3, <1>4, <1>6, <1>7 DEF SInv

LEMMA InvProbes == SInv => AllProbed
<1> SUFFICES ASSUME SInv, At("do_mount")
             PROVE  /\ InBusOrder(devices, {"ide", "other"}, Slots * Fncs)
                    /\ InBusOrder(probed, {"ide"}, Slots * Fncs)
  BY DEF AllProbed, SInv
<1>1. step = 4
  BY Steps, FiveSteps DEF SInv, TypeOK
<1>2. fnc = Slots * Fncs
  BY <1>1, DevicesAssumption DEF SInv, TypeOK, Functions
<1> QED BY <1>2 DEF SInv

\* On every bus, also when disks fill the list or memory is not zeroed: the
\* root is not mounted before every function on the bus was added once, and
\* every IDE controller probed once, in bus order.
THEOREM ProbesAll == Spec => []AllProbed
<1>1. SInv /\ [Next]_vars => SInv'
  <2> SUFFICES ASSUME SInv, [Next]_vars PROVE SInv'
    OBVIOUS
  <2>1. CASE UNCHANGED vars
    BY <2>1 DEF vars, SInv, TypeOK, InBusOrder, At, iosetup
  <2>2. CASE Next
    BY <2>2, ScanKeeps, DisksKeepS, SetupKeepsS DEF Next
  <2> QED BY <2>1, <2>2
<1> QED BY InitSInv, <1>1, InvProbes, PTL DEF Spec

-----------------------------------------------------------------------------
(* Traps: their invariant                                                  *)

Vectors == 0 .. 47 \cup {SYSCALL}
PCs == {"boot", "run", "return", "entry", "body", "served", "exit"}
Regs == [Registers -> Int]
Frame == [handler : Vectors \cup {THREAD}, cause : Vectors \cup {THREAD}, pc : PCs,
          was : Regs, depth : Nat]

Height == Len(code)

\* The controllers after pic_init.
Ready ==
    /\ pic.master.base = 32 /\ pic.master.cascade = Bit(2) /\ pic.master.icw = 0
    /\ pic.slave.base = 40 /\ pic.slave.icw = 0

Controllers ==
    /\ 2 \notin pic.master.irr
    /\ code[1].pc # "boot" => Ready
    /\ interrupts => Height = 1 /\ code[1].pc # "boot"

\* Handlers run with interrupts off, so only exceptions strike them.
Nesting ==
    /\ code \in Seq(Frame) /\ Height > 0
    /\ code[1].cause = THREAD /\ code[1].pc \in {"boot", "run", "return"}
    /\ code[1].pc = "boot" => Height = 1
    /\ Height = 1 => stack = <<>>
    /\ \A i \in 2 .. Height :
          /\ code[i].cause \in Vectors /\ code[i].handler = code[i].cause
          /\ code[i].pc \in {"entry", "body", "exit"}
                \cup IF code[i].cause \in 32 .. 47 THEN {"served"} ELSE {}
          /\ i = 2 => code[i].depth = 0
          /\ i > 2 => code[i].cause \in 0 .. 31
          /\ code[i].cause \in 0 .. 31 => code[i].pc # "exit"

\* What the words of s above d are, when the registers were r.
IrqWords(s, d, r, v) ==
    /\ Len(s) = d + 16
    /\ s[d + 4] = r["eax"] /\ s[d + 5] = r["ecx"] /\ s[d + 6] = r["edx"]
    /\ s[d + 7] = r["ebx"] /\ s[d + 9] = r["ebp"] /\ s[d + 10] = r["esi"]
    /\ s[d + 11] = r["edi"]
    /\ s[d + 12] = r["ds"] /\ s[d + 13] = r["es"] /\ s[d + 14] = r["fs"]
    /\ s[d + 15] = r["gs"] /\ s[d + 16] = v

CallWords(s, d, r) ==
    /\ Len(s) = d + 14
    /\ s[d + 4] = r["ds"] /\ s[d + 5] = r["es"] /\ s[d + 6] = r["fs"]
    /\ s[d + 7] = r["gs"] /\ s[d + 8] = d + 7 /\ s[d + 9] = r["ebp"]
    /\ s[d + 10] = r["edi"] /\ s[d + 11] = r["esi"] /\ s[d + 12] = r["edx"]
    /\ s[d + 13] = r["ecx"] /\ s[d + 14] = r["ebx"]

ExcWords(s, d, r, v) ==
    /\ Len(s) = d + 18
    /\ s[d + 4] = IF ErrorCode(v) = <<>> THEN 0 ELSE 5
    /\ s[d + 5] = r["ds"] /\ s[d + 6] = r["es"] /\ s[d + 7] = r["fs"]
    /\ s[d + 8] = r["gs"]
    /\ s[d + 9] = r["eax"] /\ s[d + 10] = r["ecx"] /\ s[d + 11] = r["edx"]
    /\ s[d + 12] = r["ebx"] /\ s[d + 14] = r["ebp"] /\ s[d + 15] = r["esi"]
    /\ s[d + 16] = r["edi"] /\ s[d + 17] = v /\ s[d + 18] = d + 17

\* At the entry of a handler: what the gate pushed.
GateWords(s, d, error) ==
    /\ Len(s) = d + 3 + Len(error)
    /\ error # <<>> => s[d + 4] = error[1]

\* The words of the top frame; those below it do not return.
Saved ==
    Height > 1 =>
        /\ Len(stack) >= Top.depth + 3
        /\ stack[Top.depth + 3] = Eip - 1
        /\ Top.pc = "entry" =>
              /\ regs = Top.was
              /\ GateWords(stack, Top.depth, ErrorCode(Top.cause))
        /\ Top.pc # "entry" =>
              /\ Top.cause \in 32 .. 47 =>
                    IrqWords(stack, Top.depth, Top.was, Top.cause)
              /\ Top.cause = SYSCALL => CallWords(stack, Top.depth, Top.was)
              /\ Top.cause \in 0 .. 31 =>
                    ExcWords(stack, Top.depth, Top.was, Top.cause)

Answer == [id : Ids, returned : BOOLEAN, ret : Int]

\* The call in progress may find this in eax.
Result(eax) ==
    /\ answer \in Answer /\ ~answer.returned
    /\ answer.id # 1 => eax = IF answer.id = 20 THEN 0 ELSE -ENOSYS

Answering ==
    /\ answer # NULL => answer \in Answer
    /\ Height = 1 /\ code[1].pc = "return" => Result(regs["eax"])
    /\ Height = 2 /\ code[1].pc = "return" /\ Top.cause \in 32 .. 47 =>
          Result(Top.was["eax"])
    /\ Height = 2 /\ Top.cause = SYSCALL =>
          /\ answer \in Answer /\ ~answer.returned
          /\ answer.id = Top.was["eax"]
          /\ code[1].pc = "return"
          /\ Top.pc = "body" => syscall_table[Top.was["eax"]] # nop
          /\ Top.pc = "exit" => Result(regs["eax"])
    /\ CallsAnswer

Reporting == ReportTrue /\ (report # NULL => halted)

TInv == /\ TrapsTypeOK
        /\ Controllers /\ Nesting /\ Saved /\ Answering /\ Reporting

-----------------------------------------------------------------------------
(* Gates and handlers                                                      *)

\* Division by K64 takes an address apart and multiplication puts it together.
LEMMA SplitAddress ==
    ASSUME NEW a \in Nat
    PROVE  (a \div K64) * K64 + (a % K64) = a
BY DEF K64

LEMMA ExcRecursion ==
    ExcAt = [i \in 0 .. 32 |-> IF i = 0 THEN exc0 ELSE ExcAt[i - 1] + ExcLength(i - 1)]
<1> DEFINE f == [i \in 0 .. 32 |-> exc0 + i * 62]
           F(g) == [i \in 0 .. 32 |-> IF i = 0 THEN exc0 ELSE g[i - 1] + ExcLength(i - 1)]
<1>1. ASSUME NEW i \in 0 .. 32 PROVE f[i] = F(f)[i]
  <2>1. CASE i = 0
    BY <2>1 DEF exc0, K64
  <2>2. CASE i # 0
    <3>1. i - 1 \in 0 .. 32 /\ f[i - 1] = exc0 + (i - 1) * 62 /\ ExcLength(i - 1) = 62
      BY <2>2 DEF ExcLength
    <3> QED BY <2>2, <3>1 DEF exc0, K64
  <2> QED BY <2>1, <2>2
<1>2. f = F(f)
  BY <1>1
<1>3. \E g : g = F(g)
  BY <1>2
<1>4. ExcAt = CHOOSE g : g = F(g)
  BY DEF ExcAt
<1> QED BY <1>3, <1>4

LEMMA IrqRecursion ==
    IrqAt = [i \in 32 .. 48 |-> IF i = 32 THEN irq0 ELSE IrqAt[i - 1] + IrqLength(i - 1)]
<1> DEFINE f == [i \in 32 .. 48 |-> irq0 + (i - 32) * 48]
           F(g) == [i \in 32 .. 48 |-> IF i = 32 THEN irq0 ELSE g[i - 1] + IrqLength(i - 1)]
<1>1. ASSUME NEW i \in 32 .. 48 PROVE f[i] = F(f)[i]
  <2>1. CASE i = 32
    BY <2>1 DEF irq0, exc0, K64
  <2>2. CASE i # 32
    <3>1. i - 1 \in 32 .. 48 /\ f[i - 1] = irq0 + (i - 1 - 32) * 48 /\ IrqLength(i - 1) = 48
      BY <2>2 DEF IrqLength
    <3> QED BY <2>2, <3>1 DEF irq0, exc0, K64
  <2> QED BY <2>1, <2>2
<1>2. f = F(f)
  BY <1>1
<1>3. \E g : g = F(g)
  BY <1>2
<1>4. IrqAt = CHOOSE g : g = F(g)
  BY DEF IrqAt
<1> QED BY <1>3, <1>4

\* Every exception's handler is as long as the first: the two nops make up
\* for the push that is left out.
LEMMA ExcAddresses == \A i \in 0 .. 32 : ExcAt[i] = exc0 + i * 62
<1>1. ExcAt[0] = exc0 /\ exc0 \in Nat
  BY ExcRecursion DEF exc0, K64
<1>2. ASSUME NEW i \in 0 .. 31 PROVE ExcAt[i + 1] = ExcAt[i] + 62
  <2>1. i + 1 \in 0 .. 32 /\ i + 1 # 0 /\ (i + 1) - 1 = i /\ ExcLength(i) = 62
    BY DEF ExcLength
  <2>2. ExcAt[i + 1] = ExcAt[(i + 1) - 1] + ExcLength((i + 1) - 1)
    BY <2>1, ExcRecursion
  <2> QED BY <2>1, <2>2
<1>3. /\ ExcAt[1] = exc0 + 1 * 62 /\ ExcAt[2] = exc0 + 2 * 62
      /\ ExcAt[3] = exc0 + 3 * 62 /\ ExcAt[4] = exc0 + 4 * 62
      /\ ExcAt[5] = exc0 + 5 * 62 /\ ExcAt[6] = exc0 + 6 * 62
      /\ ExcAt[7] = exc0 + 7 * 62 /\ ExcAt[8] = exc0 + 8 * 62
  BY <1>1, <1>2
<1>4. /\ ExcAt[9] = exc0 + 9 * 62 /\ ExcAt[10] = exc0 + 10 * 62
      /\ ExcAt[11] = exc0 + 11 * 62 /\ ExcAt[12] = exc0 + 12 * 62
      /\ ExcAt[13] = exc0 + 13 * 62 /\ ExcAt[14] = exc0 + 14 * 62
      /\ ExcAt[15] = exc0 + 15 * 62 /\ ExcAt[16] = exc0 + 16 * 62
  BY <1>1, <1>2, <1>3
<1>5. /\ ExcAt[17] = exc0 + 17 * 62 /\ ExcAt[18] = exc0 + 18 * 62
      /\ ExcAt[19] = exc0 + 19 * 62 /\ ExcAt[20] = exc0 + 20 * 62
      /\ ExcAt[21] = exc0 + 21 * 62 /\ ExcAt[22] = exc0 + 22 * 62
      /\ ExcAt[23] = exc0 + 23 * 62 /\ ExcAt[24] = exc0 + 24 * 62
  BY <1>1, <1>2, <1>4
<1>6. /\ ExcAt[25] = exc0 + 25 * 62 /\ ExcAt[26] = exc0 + 26 * 62
      /\ ExcAt[27] = exc0 + 27 * 62 /\ ExcAt[28] = exc0 + 28 * 62
      /\ ExcAt[29] = exc0 + 29 * 62 /\ ExcAt[30] = exc0 + 30 * 62
      /\ ExcAt[31] = exc0 + 31 * 62 /\ ExcAt[32] = exc0 + 32 * 62
  BY <1>1, <1>2, <1>5
<1>7. ExcAt[0] = exc0 + 0 * 62
  BY <1>1
<1> QED BY <1>3, <1>4, <1>5, <1>6, <1>7

LEMMA IrqAddresses == \A i \in 32 .. 48 : IrqAt[i] = irq0 + (i - 32) * 48
<1>1. IrqAt[32] = irq0 /\ irq0 \in Nat
  BY IrqRecursion DEF irq0, exc0, K64
<1>2. ASSUME NEW i \in 32 .. 47 PROVE IrqAt[i + 1] = IrqAt[i] + 48
  <2>1. i + 1 \in 32 .. 48 /\ i + 1 # 32 /\ (i + 1) - 1 = i /\ IrqLength(i) = 48
    BY DEF IrqLength
  <2>2. IrqAt[i + 1] = IrqAt[(i + 1) - 1] + IrqLength((i + 1) - 1)
    BY <2>1, IrqRecursion
  <2> QED BY <2>1, <2>2
<1>3. /\ IrqAt[33] = irq0 + 1 * 48 /\ IrqAt[34] = irq0 + 2 * 48
      /\ IrqAt[35] = irq0 + 3 * 48 /\ IrqAt[36] = irq0 + 4 * 48
      /\ IrqAt[37] = irq0 + 5 * 48 /\ IrqAt[38] = irq0 + 6 * 48
      /\ IrqAt[39] = irq0 + 7 * 48 /\ IrqAt[40] = irq0 + 8 * 48
  BY <1>1, <1>2
<1>4. /\ IrqAt[41] = irq0 + 9 * 48 /\ IrqAt[42] = irq0 + 10 * 48
      /\ IrqAt[43] = irq0 + 11 * 48 /\ IrqAt[44] = irq0 + 12 * 48
      /\ IrqAt[45] = irq0 + 13 * 48 /\ IrqAt[46] = irq0 + 14 * 48
      /\ IrqAt[47] = irq0 + 15 * 48 /\ IrqAt[48] = irq0 + 16 * 48
  BY <1>1, <1>2, <1>3
<1> QED BY <1>1, <1>3, <1>4

LEMMA GateOf ==
    ASSUME NEW v \in Vectors
    PROVE  /\ v \in 0 .. 31 => idt[v] = setup_exc[v]
           /\ v \in 32 .. 47 => idt[v] = setup_irq[v]
<1> DEFINE other == set_idt_entry(0, 0)
           call == set_idt_entry(syscall_handler, INT_GATE + INT_PRESENT + INT_USER)
<1>1. v \in 0 .. 255
  BY DEF Vectors, SYSCALL
<1>2. idt[v] = CASE v \in 0 .. 31  -> setup_exc[v]
                 [] v \in 32 .. 47 -> setup_irq[v]
                 [] v = SYSCALL    -> call
                 [] OTHER          -> other
  BY <1>1, Zenon DEF idt
<1>3. v \in 0 .. 31 => v \notin 32 .. 47 /\ v # SYSCALL
  BY DEF SYSCALL
<1>4. v \in 32 .. 47 => v \notin 0 .. 31 /\ v # SYSCALL
  BY DEF SYSCALL
<1> HIDE DEF other, call
<1> QED BY <1>2, <1>3, <1>4

LEMMA HandlerBegins ==
    ASSUME NEW v \in Vectors
    PROVE  HandlerAt(idt[v].offset_high * K64 + idt[v].offset_low) = v
<1> DEFINE a == CASE v \in 0 .. 31 -> exc0 + v * 62
                  [] v \in 32 .. 47 -> irq0 + (v - 32) * 48
                  [] OTHER -> syscall_handler
<1>1. a \in Nat
  BY DEF Vectors, exc0, irq0, syscall_handler, K64
<1>2. idt[v].offset_low = a % K64 /\ idt[v].offset_high = a \div K64
  <2>1. CASE v \in 0 .. 31
    <3>1. ExcAt[1] - ExcAt[0] = 62
      BY ExcAddresses DEF exc0, K64
    <3>2. setup_exc[v] = set_idt_entry(exc0 + v * 62, INT_PRESENT + INT_GATE)
      BY <2>1, <3>1, Zenon DEF setup_exc
    <3>4. idt[v] = setup_exc[v]
      BY <2>1, GateOf
    <3>3. a = exc0 + v * 62
      BY <2>1
    <3> QED BY <3>2, <3>3, <3>4 DEF set_idt_entry
  <2>2. CASE v \in 32 .. 47
    <3>1. IrqAt[33] - IrqAt[32] = 48
      BY IrqAddresses DEF irq0, exc0, K64
    <3>2. v \notin 0 .. 31
      BY <2>2
    <3>3. setup_irq[v] = set_idt_entry(irq0 + (v - 32) * 48, INT_PRESENT + INT_GATE)
      BY <2>2, <3>1, Zenon DEF setup_irq
    <3>5. idt[v] = setup_irq[v]
      BY <2>2, GateOf
    <3>4. a = irq0 + (v - 32) * 48
      BY <2>2, <3>2
    <3> QED BY <3>3, <3>4, <3>5 DEF set_idt_entry
  <2>3. CASE v = SYSCALL
    <3>1. v \in 0 .. 255 /\ v \notin 0 .. 31 /\ v \notin 32 .. 47
      BY <2>3 DEF SYSCALL
    <3>2. idt[v] = set_idt_entry(syscall_handler, INT_GATE + INT_PRESENT + INT_USER)
      BY <2>3, <3>1 DEF idt
    <3>3. a = syscall_handler
      BY <3>1
    <3> QED BY <3>2, <3>3 DEF set_idt_entry
  <2> QED BY <2>1, <2>2, <2>3 DEF Vectors
<1>3. idt[v].offset_high * K64 + idt[v].offset_low = a
  BY <1>1, <1>2, SplitAddress
<1> DEFINE e == CHOOSE i \in 0 .. 31 : ExcAt[i] = a
           q == CHOOSE i \in 32 .. 47 : IrqAt[i] = a
<1>5. HandlerAt(a) = CASE \E i \in 0 .. 31 : ExcAt[i] = a  -> e
                       [] \E i \in 32 .. 47 : IrqAt[i] = a -> q
                       [] a = syscall_handler -> SYSCALL
                       [] OTHER -> NULL
  BY Zenon DEF HandlerAt
<1>4. HandlerAt(a) = v
  <2>1. CASE v \in 0 .. 31
    <3>1. a = ExcAt[v]
      BY <2>1, ExcAddresses
    <3>2. \A i \in 0 .. 31 : ExcAt[i] = a => i = v
      BY <2>1, <3>1, ExcAddresses DEF exc0, K64
    <3>3. e = v
      BY <2>1, <3>1, <3>2
    <3>4. \E i \in 0 .. 31 : ExcAt[i] = a
      BY <2>1, <3>1
    <3> HIDE DEF e, q, a
    <3>5. \A i \in 32 .. 47 : ~(\E k \in 0 .. 31 : ExcAt[k] = a /\ IrqAt[i] = a)
      BY ExcAddresses, IrqAddresses DEF irq0, exc0, K64
    <3>6. a # syscall_handler
      BY <3>4, ExcAddresses DEF syscall_handler, irq0, exc0, K64
    <3> QED BY <3>3, <3>4, <3>5, <3>6, <1>5
  <2>2. CASE v \in 32 .. 47
    <3>1. a = IrqAt[v]
      BY <2>2, IrqAddresses
    <3>2. \A i \in 32 .. 47 : IrqAt[i] = a => i = v
      BY <2>2, <3>1, IrqAddresses DEF irq0, exc0, K64
    <3>3. \A i \in 0 .. 31 : ExcAt[i] # a
      BY <2>2, <3>1, ExcAddresses, IrqAddresses DEF irq0, exc0, K64
    <3>4. q = v
      BY <2>2, <3>1, <3>2
    <3>5. \E i \in 32 .. 47 : IrqAt[i] = a
      BY <2>2, <3>1
    <3> HIDE DEF e, q, a
    <3>6. a # syscall_handler
      BY <3>5, IrqAddresses DEF syscall_handler, irq0, exc0, K64
    <3> QED BY <3>3, <3>4, <3>5, <3>6, <1>5
  <2>3. CASE v = SYSCALL
    <3>1. a = syscall_handler
      BY <2>3 DEF SYSCALL
    <3>2. \A i \in 0 .. 31 : ExcAt[i] # a
      BY <3>1, ExcAddresses DEF syscall_handler, irq0, exc0, K64
    <3>3. \A i \in 32 .. 47 : IrqAt[i] # a
      BY <3>1, IrqAddresses DEF syscall_handler, irq0, exc0, K64
    <3> QED BY <2>3, <3>1, <3>2, <3>3 DEF HandlerAt
  <2> QED BY <2>1, <2>2, <2>3 DEF Vectors
<1> QED BY <1>3, <1>4

\* The gates of these vectors are present, and lead to the kernel's code.
LEMMA GateOpen ==
    ASSUME NEW v \in Vectors
    PROVE  /\ idt[v].type >= INT_PRESENT
           /\ IsCode(idt[v].selector) /\ Privilege(idt[v].selector) = 0
<1>1. \E h : \E t \in {INT_PRESENT + INT_GATE, INT_GATE + INT_PRESENT + INT_USER} :
        idt[v] = set_idt_entry(h, t)
  <2>1. CASE v \in 0 .. 31
    <3>1. idt[v] = setup_exc[v]
      BY <2>1, GateOf
    <3>2. setup_exc[v] = set_idt_entry(exc0 + v * (ExcAt[1] - ExcAt[0]), INT_PRESENT + INT_GATE)
      BY <2>1, Zenon DEF setup_exc
    <3> QED BY <3>1, <3>2
  <2>2. CASE v \in 32 .. 47
    <3>1. idt[v] = setup_irq[v]
      BY <2>2, GateOf
    <3>2. setup_irq[v] = set_idt_entry(irq0 + (v - 32) * (IrqAt[33] - IrqAt[32]),
                                       INT_PRESENT + INT_GATE)
      BY <2>2, Zenon DEF setup_irq
    <3> QED BY <3>1, <3>2
  <2>3. CASE v = SYSCALL
    BY <2>3 DEF idt, SYSCALL
  <2> QED BY <2>1, <2>2, <2>3 DEF Vectors
<1>2. idt[v].selector = KCODE /\ idt[v].type >= INT_PRESENT
  BY <1>1 DEF set_idt_entry, INT_PRESENT, INT_GATE, INT_USER
<1>3. gdt[1].access = 154 /\ KCODE \div 8 = 1
  BY DEF gdt, Access, CXR, KCODE
<1>4. Descriptor(KCODE).access = 154
  BY <1>3 DEF Descriptor
<1> QED BY <1>2, <1>4 DEF IsCode, Privilege, CXR

-----------------------------------------------------------------------------
(* What runs                                                               *)

\* Every program counter that the frame may have.
Allowed(f, i, pc) ==
    IF i = 1 THEN pc \in {"run", "return"}
    ELSE /\ pc \in {"body", "exit"} \cup IF f.cause \in 32 .. 47 THEN {"served"} ELSE {}
         /\ f.cause \in 0 .. 31 => pc # "exit"

LEMMA MovedFacts ==
    ASSUME Nesting, NEW pc \in PCs
    PROVE  /\ Moved(pc) \in Seq(Frame) /\ Len(Moved(pc)) = Height
           /\ \A i \in 1 .. Height - 1 : Moved(pc)[i] = code[i]
           /\ Moved(pc)[Height].handler = Top.handler
           /\ Moved(pc)[Height].cause = Top.cause
           /\ Moved(pc)[Height].pc = pc
           /\ Moved(pc)[Height].was = Top.was
           /\ Moved(pc)[Height].depth = Top.depth
<1>1. code \in Seq(Frame) /\ Height \in Nat /\ Height > 0 /\ Top = code[Height]
  BY DEF Nesting, Top, Last, Height
<1>2. Top \in Frame
  BY <1>1 DEF Height
<1> DEFINE t == [Top EXCEPT !.pc = pc]
<1>3. /\ t \in Frame /\ t.handler = Top.handler /\ t.cause = Top.cause /\ t.pc = pc
      /\ t.was = Top.was /\ t.depth = Top.depth
  BY <1>2 DEF Frame
<1>4. Moved(pc) = [code EXCEPT ![Height] = t]
  BY <1>1 DEF Moved, Height
<1> HIDE DEF t
<1>5. /\ Moved(pc) \in Seq(Frame) /\ Len(Moved(pc)) = Height
      /\ Moved(pc)[Height] = t
      /\ \A i \in 1 .. Height - 1 : Moved(pc)[i] = code[i]
  BY <1>1, <1>3, <1>4 DEF Height
<1> QED BY <1>3, <1>5

\* The top frame goes on.
LEMMA MovedNesting ==
    ASSUME Nesting, NEW pc \in PCs, code' = Moved(pc),
           Allowed(Top, Height, pc), Height = 1 => stack' = stack
    PROVE  Nesting'
<1>1. code \in Seq(Frame) /\ Height \in Nat /\ Height > 0 /\ Top = code[Height]
  BY DEF Nesting, Top, Last, Height
<1>2. /\ code' \in Seq(Frame) /\ Height' = Height
      /\ \A i \in 1 .. Height - 1 : code'[i] = code[i]
      /\ code'[Height].handler = Top.handler /\ code'[Height].cause = Top.cause
      /\ code'[Height].pc = pc /\ code'[Height].depth = Top.depth
  BY MovedFacts DEF Height
<1>3. /\ code'[1].cause = THREAD /\ code'[1].pc \in {"boot", "run", "return"}
      /\ code'[1].pc = "boot" => Height = 1
      /\ Height = 1 => stack' = <<>>
  <2>1. CASE Height = 1
    BY <2>1, <1>1, <1>2 DEF Nesting, Allowed
  <2>2. CASE Height > 1
    <3>1. code'[1] = code[1]
      BY <2>2, <1>1, <1>2
    <3> QED BY <3>1, <2>2 DEF Nesting
  <2> QED BY <2>1, <2>2, <1>1
<1>4. ASSUME NEW i \in 2 .. Height
      PROVE  /\ code'[i].cause \in Vectors /\ code'[i].handler = code'[i].cause
             /\ code'[i].pc \in {"entry", "body", "exit"}
                   \cup IF code'[i].cause \in 32 .. 47 THEN {"served"} ELSE {}
             /\ i = 2 => code'[i].depth = 0
             /\ i > 2 => code'[i].cause \in 0 .. 31
             /\ code'[i].cause \in 0 .. 31 => code'[i].pc # "exit"
  <2>1. CASE i = Height
    BY <2>1, <1>1, <1>2 DEF Nesting, Allowed
  <2>2. CASE i # Height
    <3>1. code'[i] = code[i]
      BY <2>2, <1>1, <1>2
    <3> QED BY <3>1 DEF Nesting
  <2> QED BY <2>1, <2>2
<1> QED BY <1>1, <1>2, <1>3, <1>4 DEF Nesting

\* A gate is passed.
LEMMA EntersFacts ==
    ASSUME TrapsTypeOK, Nesting, NEW v \in Vectors, NEW error, NEW r \in Regs, NEW pc \in PCs,
           error = <<>> \/ error = << 5 >>, Enters(v, v, error, r, pc)
    PROVE  /\ code' \in Seq(Frame) /\ Height' = Height + 1
           /\ \A i \in 1 .. Height - 1 : code'[i] = code[i]
           /\ code'[Height].handler = Top.handler /\ code'[Height].cause = Top.cause
           /\ code'[Height].pc = pc /\ code'[Height].depth = Top.depth
           /\ code'[Height + 1] = [handler |-> v, cause |-> v, pc |-> "entry",
                                      was |-> r, depth |-> Len(stack)]
           /\ stack' \in Seq(Int)
           /\ GateWords(stack', Len(stack), error)
           /\ stack'[Len(stack) + 3] = Eip
           /\ regs' = r /\ interrupts' = FALSE
<1>1. code \in Seq(Frame) /\ Height \in Nat /\ Height > 0 /\ Top = code[Height]
  BY DEF Nesting, Top, Last, Height
<1> DEFINE f == [handler |-> v, cause |-> v, pc |-> "entry", was |-> r, depth |-> Len(stack)]
<1>2. stack \in Seq(Int) /\ Len(stack) \in Nat
  BY DEF TrapsTypeOK
<1>3. f \in Frame
  BY <1>2 DEF Frame, PCs, Vectors
<1>4. code' = Append(Moved(pc), f)
  BY HandlerBegins DEF Enters
<1> HIDE DEF f
<1>5. /\ Moved(pc) \in Seq(Frame) /\ Len(Moved(pc)) = Height
      /\ \A i \in 1 .. Height - 1 : Moved(pc)[i] = code[i]
      /\ Moved(pc)[Height].handler = Top.handler
      /\ Moved(pc)[Height].cause = Top.cause
      /\ Moved(pc)[Height].pc = pc
      /\ Moved(pc)[Height].depth = Top.depth
  BY MovedFacts
<1>6. /\ code' \in Seq(Frame) /\ Height' = Height + 1
      /\ code'[Height + 1] = f
      /\ \A i \in 1 .. Height : code'[i] = Moved(pc)[i]
  BY <1>1, <1>3, <1>4, <1>5 DEF Height
<1>7. /\ \A i \in 1 .. Height - 1 : code'[i] = code[i]
      /\ code'[Height] = Moved(pc)[Height]
  BY <1>1, <1>5, <1>6
<1> DEFINE flag == IF interrupts THEN 1 ELSE 0
<1>8. stack' = stack \o <<flag, KCODE, Eip>> \o error
  BY DEF Enters
<1>9. flag \in Int /\ KCODE \in Int /\ Eip \in Int
  BY <1>1 DEF KCODE, Eip
<1> HIDE DEF flag
<1>10. /\ stack' \in Seq(Int) /\ Len(stack') = Len(stack) + 3 + Len(error)
       /\ stack'[Len(stack) + 3] = Eip
       /\ error # <<>> => stack'[Len(stack) + 4] = error[1]
  <2>1. /\ stack \o <<flag, KCODE, Eip>> \in Seq(Int)
        /\ Len(stack \o <<flag, KCODE, Eip>>) = Len(stack) + 3
        /\ (stack \o <<flag, KCODE, Eip>>)[Len(stack) + 3] = Eip
    BY <1>2, <1>9
  <2>2. CASE error = <<>>
    BY <1>2, <1>8, <2>1, <2>2
  <2>3. CASE error = <<5>>
    BY <1>2, <1>8, <2>1, <2>3
  <2> QED BY <2>2, <2>3
<1>11. regs' = r /\ interrupts' = FALSE
  BY DEF Enters
<1>12. GateWords(stack', Len(stack), error)
  BY <1>10 DEF GateWords
<1>13. code'[Height + 1] = [handler |-> v, cause |-> v, pc |-> "entry",
                              was |-> r, depth |-> Len(stack)]
  BY <1>6 DEF f
<1> QED BY <1>5, <1>6, <1>7, <1>10, <1>11, <1>12, <1>13

\* Only exceptions interrupt a handler; the thread may wait for a call.
LEMMA EntersNesting ==
    ASSUME TrapsTypeOK, Nesting, NEW v \in Vectors, NEW error, NEW r \in Regs, NEW pc \in PCs,
           error = <<>> \/ error = << 5 >>, Enters(v, v, error, r, pc),
           pc = Top.pc \/ (Height = 1 /\ pc = "return"),
           Top.pc # "boot", Height > 1 => v \in 0 .. 31
    PROVE  Nesting'
<1>1. code \in Seq(Frame) /\ Height \in Nat /\ Height > 0 /\ Top = code[Height]
  BY DEF Nesting, Top, Last, Height
<1>0. Height \in Nat /\ Height > 0
  BY <1>1
<1> DEFINE f == [handler |-> v, cause |-> v, pc |-> "entry", was |-> r, depth |-> Len(stack)]
<1>2. /\ code' \in Seq(Frame) /\ Height' = Height + 1
      /\ \A i \in 1 .. Height - 1 : code'[i] = code[i]
      /\ code'[Height].handler = Top.handler /\ code'[Height].cause = Top.cause
      /\ code'[Height].pc = pc /\ code'[Height].depth = Top.depth
      /\ code'[Height + 1] = f
  BY EntersFacts
<1>3. f.cause = v /\ f.handler = v /\ f.pc = "entry" /\ f.depth = Len(stack)
  OBVIOUS
<1> HIDE DEF f
<1>4. Height = 1 => Len(stack) = 0
  BY DEF Nesting
<1>5. /\ code'[1].cause = THREAD /\ code'[1].pc \in {"boot", "run", "return"}
      /\ code'[1].pc # "boot"
  <2>1. CASE Height = 1
    BY <2>1, <1>1, <1>2 DEF Nesting
  <2>2. CASE Height > 1
    <3>0. 1 \in 1 .. Height - 1
      BY <2>2, <1>0
    <3>1. code'[1] = code[1]
      BY <3>0, <1>2
    <3> QED BY <3>1, <2>2 DEF Nesting
  <2> QED BY <2>1, <2>2, <1>1
<1>6. ASSUME NEW i \in 2 .. Height + 1
      PROVE  /\ code'[i].cause \in Vectors /\ code'[i].handler = code'[i].cause
             /\ code'[i].pc \in {"entry", "body", "exit"}
                   \cup IF code'[i].cause \in 32 .. 47 THEN {"served"} ELSE {}
             /\ i = 2 => code'[i].depth = 0
             /\ i > 2 => code'[i].cause \in 0 .. 31
             /\ code'[i].cause \in 0 .. 31 => code'[i].pc # "exit"
  <2>1. CASE i = Height + 1
    <3>1. code'[i] = f
      BY <2>1, <1>2
    <3>2. (i = 2 => f.depth = 0) /\ (i > 2 => v \in 0 .. 31)
      BY <2>1, <1>0, <1>3, <1>4
    <3> QED BY <3>1, <3>2, <1>3
  <2>2. CASE i = Height
    <3>1. /\ code'[i].handler = code[i].handler /\ code'[i].cause = code[i].cause
          /\ code'[i].pc = code[i].pc /\ code'[i].depth = code[i].depth
      BY <2>2, <1>1, <1>2
    <3> QED BY <2>2, <3>1 DEF Nesting
  <2>3. CASE i # Height /\ i # Height + 1
    <3>1. code'[i] = code[i] /\ i \in 2 .. Height
      BY <2>3, <1>1, <1>2
    <3> QED BY <3>1 DEF Nesting
  <2> QED BY <2>1, <2>2, <2>3
<1> QED BY <1>1, <1>2, <1>5, <1>6 DEF Nesting

LEMMA Prefix ==
    ASSUME NEW S, NEW s \in Seq(S), NEW n \in 1 .. Len(s)
    PROVE  /\ SubSeq(s, 1, n) \in Seq(S) /\ Len(SubSeq(s, 1, n)) = n
           /\ SubSeq(s, 1, n)[1] = s[1]
OBVIOUS

\* The top frame is done.
Returned == code' = Front(code) /\ stack' = SubSeq(stack, 1, Top.depth)

LEMMA LeavesNesting ==
    ASSUME Nesting, Height > 1, Returned, Top.cause \notin 0 .. 31
    PROVE  /\ Nesting' /\ Height = 2 /\ Height' = 1
           /\ Top.depth = 0 /\ stack' = <<>> /\ code'[1] = code[1] /\ code[1].pc # "boot"
           /\ Top = code[2]
<1>1. code \in Seq(Frame) /\ Height \in Nat /\ Height > 0 /\ Top = code[Height]
  BY DEF Nesting, Top, Last, Height
<1>0. Height \in Nat /\ Height > 0
  BY <1>1
<1>2. Height = 2
  <2>1. Height \in 2 .. Height
    BY <1>0
  <2>2. Height > 2 => Top.cause \in 0 .. 31
    BY <1>1, <2>1 DEF Nesting
  <2>3. ~(Height > 2)
    BY <2>2
  <2> QED BY <1>0, <2>3
<1>3. /\ code' \in Seq(Frame)
      /\ Height' > 0 /\ Height' = 1 /\ code'[1] = code[1]
  <2>1. code' = SubSeq(code, 1, 1)
    BY <1>2 DEF Front, Height, Returned
  <2>2. 1 \in 1 .. Len(code)
    BY <1>2 DEF Height
  <2>3. Len(code') = 1
    BY <1>1, <2>1, <2>2, Prefix
  <2> QED BY <1>1, <2>1, <2>2, <2>3, Prefix DEF Height
<1>4. Top.depth = 0
  BY <1>1, <1>2 DEF Nesting
<1>5. stack' = <<>>
  <2>1. stack' = SubSeq(stack, 1, 0)
    BY <1>4 DEF Returned
  <2> QED BY <2>1
<1>6. code[1].pc # "boot"
  <2>1. code[1].pc = "boot" => Height = 1
    BY DEF Nesting
  <2> QED BY <1>2, <2>1
<1> QED BY <1>1, <1>2, <1>3, <1>4, <1>5, <1>6 DEF Nesting

-----------------------------------------------------------------------------
(* Words on the stack                                                      *)

LEMMA RegisterNames ==
    \A x \in Registers :
        \/ x = "ds" \/ x = "es" \/ x = "fs" \/ x = "gs"
        \/ x = "eax" \/ x = "ecx" \/ x = "edx" \/ x = "ebx"
        \/ x = "ebp" \/ x = "esi" \/ x = "edi"
<1>1. ASSUME NEW x \in Range(General)
      PROVE  \/ x = "eax" \/ x = "ecx" \/ x = "edx" \/ x = "ebx"
             \/ x = "ebp" \/ x = "esi" \/ x = "edi"
  <2>1. PICK i \in DOMAIN General : x = General[i]
    BY DEF Range
  <2>2. i \in 1 .. 7
    BY DEF General
  <2> QED BY <2>1, <2>2 DEF General
<1> QED BY <1>1 DEF Registers, Segments

LEMMA NamesRegister ==
    /\ "ds" \in Registers /\ "es" \in Registers /\ "fs" \in Registers /\ "gs" \in Registers
    /\ "eax" \in Registers /\ "ecx" \in Registers /\ "edx" \in Registers
    /\ "ebx" \in Registers /\ "ebp" \in Registers /\ "esi" \in Registers
    /\ "edi" \in Registers
<1>1. 1 \in DOMAIN General /\ 2 \in DOMAIN General /\ 3 \in DOMAIN General
      /\ 4 \in DOMAIN General /\ 5 \in DOMAIN General /\ 6 \in DOMAIN General
      /\ 7 \in DOMAIN General
  BY DEF General
<1>2. /\ General[1] \in Range(General) /\ General[2] \in Range(General)
      /\ General[3] \in Range(General) /\ General[4] \in Range(General)
      /\ General[5] \in Range(General) /\ General[6] \in Range(General)
      /\ General[7] \in Range(General)
  BY <1>1 DEF Range
<1>3. /\ General[1] = "eax" /\ General[2] = "ecx" /\ General[3] = "edx"
      /\ General[4] = "ebx" /\ General[5] = "ebp" /\ General[6] = "esi"
      /\ General[7] = "edi"
  BY DEF General
<1> QED BY <1>2, <1>3 DEF Registers, Segments

LEMMA Thirteen ==
    \A i \in 1 .. 13 : i = 1 \/ i = 2 \/ i = 3 \/ i = 4 \/ i = 5 \/ i = 6 \/ i = 7
                      \/ i = 8 \/ i = 9 \/ i = 10 \/ i = 11 \/ i = 12 \/ i = 13
OBVIOUS

LEMMA IrqNames ==
    /\ DOMAIN irq_pops = 1 .. 13 /\ Len(irq_pops) = 13
    /\ irq_pops[2] = "gs" /\ irq_pops[3] = "fs" /\ irq_pops[4] = "es"
    /\ irq_pops[5] = "ds" /\ irq_pops[6] = "edi" /\ irq_pops[7] = "esi"
    /\ irq_pops[8] = "ebp" /\ irq_pops[10] = "ebx" /\ irq_pops[11] = "edx"
    /\ irq_pops[12] = "ecx" /\ irq_pops[13] = "eax"
    /\ irq_pops[1] = "none" /\ irq_pops[9] = "none"
<1>1. DOMAIN irq_pops = 1 .. 13
  BY DEF irq_pops
<1>2. Len(irq_pops) = 13
  BY DEF irq_pops
<1> QED BY <1>1, <1>2 DEF irq_pops

\* Where irq_pops has a register.
IrqPlace(x) ==
    CASE x = "gs" -> 2 [] x = "fs" -> 3 [] x = "es" -> 4 [] x = "ds" -> 5
      [] x = "edi" -> 6 [] x = "esi" -> 7 [] x = "ebp" -> 8 [] x = "ebx" -> 10
      [] x = "edx" -> 11 [] x = "ecx" -> 12 [] x = "eax" -> 13

LEMMA IrqPlaces ==
    ASSUME NEW x \in Registers
    PROVE  IrqPlace(x) \in 2 .. 13 /\ irq_pops[IrqPlace(x)] = x
<1>1. CASE x = "ds"
  <2>1. IrqPlace(x) = 5
    BY <1>1 DEF IrqPlace
  <2> QED BY <1>1, <2>1, IrqNames
<1>2. CASE x = "es"
  <2>1. IrqPlace(x) = 4
    BY <1>2 DEF IrqPlace
  <2> QED BY <1>2, <2>1, IrqNames
<1>3. CASE x = "fs"
  <2>1. IrqPlace(x) = 3
    BY <1>3 DEF IrqPlace
  <2> QED BY <1>3, <2>1, IrqNames
<1>4. CASE x = "gs"
  <2>1. IrqPlace(x) = 2
    BY <1>4 DEF IrqPlace
  <2> QED BY <1>4, <2>1, IrqNames
<1>5. CASE x = "eax"
  <2>1. IrqPlace(x) = 13
    BY <1>5 DEF IrqPlace
  <2> QED BY <1>5, <2>1, IrqNames
<1>6. CASE x = "ecx"
  <2>1. IrqPlace(x) = 12
    BY <1>6 DEF IrqPlace
  <2> QED BY <1>6, <2>1, IrqNames
<1>7. CASE x = "edx"
  <2>1. IrqPlace(x) = 11
    BY <1>7 DEF IrqPlace
  <2> QED BY <1>7, <2>1, IrqNames
<1>8. CASE x = "ebx"
  <2>1. IrqPlace(x) = 10
    BY <1>8 DEF IrqPlace
  <2> QED BY <1>8, <2>1, IrqNames
<1>9. CASE x = "ebp"
  <2>1. IrqPlace(x) = 8
    BY <1>9 DEF IrqPlace
  <2> QED BY <1>9, <2>1, IrqNames
<1>10. CASE x = "esi"
  <2>1. IrqPlace(x) = 7
    BY <1>10 DEF IrqPlace
  <2> QED BY <1>10, <2>1, IrqNames
<1>11. CASE x = "edi"
  <2>1. IrqPlace(x) = 6
    BY <1>11 DEF IrqPlace
  <2> QED BY <1>11, <2>1, IrqNames
<1> QED BY RegisterNames, <1>1, <1>2, <1>3, <1>4, <1>5, <1>6, <1>7, <1>8, <1>9, <1>10, <1>11

LEMMA IrqPlaceOnly ==
    ASSUME NEW i \in 1 .. 13, irq_pops[i] \in Registers
    PROVE  IrqPlace(irq_pops[i]) = i
<1>1. irq_pops[i] # "none"
  BY RegisterNames
<1>2. i # 1 /\ i # 9
  BY <1>1, IrqNames
<1> QED BY <1>2, Thirteen, IrqNames DEF IrqPlace

LEMMA IrqHeld ==
    ASSUME NEW s, NEW d \in Nat, NEW r, NEW v, IrqWords(s, d, r, v), NEW x \in Registers
    PROVE  s[d + 17 - IrqPlace(x)] = r[x]
<1>1. CASE x = "ds"
  BY <1>1, SMT DEF IrqPlace, IrqWords
<1>2. CASE x = "es"
  BY <1>2, SMT DEF IrqPlace, IrqWords
<1>3. CASE x = "fs"
  BY <1>3, SMT DEF IrqPlace, IrqWords
<1>4. CASE x = "gs"
  BY <1>4, SMT DEF IrqPlace, IrqWords
<1>5. CASE x = "eax"
  BY <1>5, SMT DEF IrqPlace, IrqWords
<1>6. CASE x = "ecx"
  BY <1>6, SMT DEF IrqPlace, IrqWords
<1>7. CASE x = "edx"
  BY <1>7, SMT DEF IrqPlace, IrqWords
<1>8. CASE x = "ebx"
  BY <1>8, SMT DEF IrqPlace, IrqWords
<1>9. CASE x = "ebp"
  BY <1>9, SMT DEF IrqPlace, IrqWords
<1>10. CASE x = "esi"
  BY <1>10, SMT DEF IrqPlace, IrqWords
<1>11. CASE x = "edi"
  BY <1>11, SMT DEF IrqPlace, IrqWords
<1> QED BY RegisterNames, <1>1, <1>2, <1>3, <1>4, <1>5, <1>6, <1>7, <1>8, <1>9, <1>10, <1>11

\* The same number of words is popped as was pushed, in the other order.
LEMMA IrqPops ==
    ASSUME stack \in Seq(Int), NEW d \in Nat, NEW r, NEW v,
           IrqWords(stack, d, r, v), Leaves(stack, irq_pops)
    PROVE  /\ code' = Front(code) /\ stack' = SubSeq(stack, 1, d)
           /\ regs' \in Regs /\ interrupts' \in BOOLEAN
           /\ \A x \in Registers : regs'[x] = r[x]
<1> DEFINE names == irq_pops
           K == {k \in DOMAIN names : names[k] = "esp"}
           Word(i) == IF \E k \in K : k < i
                      THEN LET k == CHOOSE k \in K : TRUE
                           IN  stack[Len(stack) + 1 - k] + k + 1 - i
                      ELSE Len(stack) + 1 - i
           bottom == Word(Len(names)) - 1
           pos(x) == CHOOSE i \in DOMAIN names : names[i] = x
<1>1. /\ regs' = [x \in Registers |-> IF \E i \in DOMAIN names : names[i] = x
                                     THEN stack[Word(pos(x))]
                                     ELSE regs[x]]
      /\ interrupts' = (stack[bottom - 2] = 1)
      /\ stack' = SubSeq(stack, 1, bottom - 3)
      /\ code' = Front(code)
  BY Zenon DEF Leaves
<1>2. DOMAIN names = 1 .. 13 /\ Len(names) = 13
  BY IrqNames, Zenon
<1>3. \A i \in 1 .. 13 : names[i] # "esp"
  BY IrqNames, Thirteen
<1>4. \A i : Word(i) = Len(stack) + 1 - i
  <2>1. K = {}
    BY <1>2, <1>3
  <2> QED BY <2>1
<1> HIDE DEF K, Word
<1>5. ASSUME NEW x \in Registers PROVE pos(x) = IrqPlace(x)
  <2>1. IrqPlace(x) \in DOMAIN names /\ names[IrqPlace(x)] = x
    BY <1>2, IrqPlaces
  <2>2. \A i \in DOMAIN names : names[i] = x => i = IrqPlace(x)
    BY <1>2, <1>5, IrqPlaceOnly
  <2> HIDE DEF names
  <2> QED BY <2>1, <2>2
<1> HIDE DEF pos, names
<1>8. Len(stack) = d + 16
  BY DEF IrqWords
<1>9. bottom = d + 3
  BY <1>2, <1>4, <1>8
<1>10. ASSUME NEW x \in Registers PROVE regs'[x] = r[x] /\ regs'[x] \in Int
  <2> DEFINE k == IrqPlace(x)
  <2>1. k \in 1 .. 13 /\ names[k] = x
    BY IrqPlaces DEF names
  <2>2. regs'[x] = stack[Word(k)]
    BY <1>1, <1>2, <1>5, <2>1
  <2>3. Word(k) = d + 17 - k /\ Word(k) \in 1 .. Len(stack)
    <3>1. k \in Int /\ 1 <= k /\ k <= 13
      BY <2>1
    <3>2. Word(k) = Len(stack) + 1 - k
      BY <1>4
    <3> HIDE DEF k
    <3> QED BY <1>8, <3>1, <3>2
  <2>4. regs'[x] \in Int
    BY <2>2, <2>3
  <2>5. stack[d + 17 - k] = r[x]
    BY IrqHeld
  <2>6. regs'[x] = r[x]
    BY <2>2, <2>3, <2>5
  <2> QED BY <2>4, <2>6
<1>11. regs' \in Regs
  BY <1>1, <1>10 DEF Regs
<1>12. interrupts' \in BOOLEAN
  BY <1>1
<1>13. stack' = SubSeq(stack, 1, d)
  BY <1>1, <1>9
<1> HIDE DEF bottom
<1> QED BY <1>1, <1>10, <1>11, <1>12, <1>13

LEMMA Eleven ==
    \A i \in 1 .. 11 : i = 1 \/ i = 2 \/ i = 3 \/ i = 4 \/ i = 5 \/ i = 6
                      \/ i = 7 \/ i = 8 \/ i = 9 \/ i = 10 \/ i = 11
OBVIOUS

LEMMA CallNames ==
    /\ DOMAIN syscall_pops = 1 .. 11 /\ Len(syscall_pops) = 11
    /\ syscall_pops[1] = "ebx" /\ syscall_pops[2] = "ecx" /\ syscall_pops[3] = "edx"
    /\ syscall_pops[4] = "esi" /\ syscall_pops[5] = "edi" /\ syscall_pops[6] = "ebp"
    /\ syscall_pops[7] = "esp" /\ syscall_pops[8] = "gs" /\ syscall_pops[9] = "fs"
    /\ syscall_pops[10] = "es" /\ syscall_pops[11] = "ds"
<1>1. DOMAIN syscall_pops = 1 .. 11
  BY DEF syscall_pops
<1>2. Len(syscall_pops) = 11
  BY DEF syscall_pops
<1> QED BY <1>1, <1>2 DEF syscall_pops

\* Where syscall_pops has a register; eax is not saved.
CallPlace(x) ==
    CASE x = "ebx" -> 1 [] x = "ecx" -> 2 [] x = "edx" -> 3 [] x = "esi" -> 4
      [] x = "edi" -> 5 [] x = "ebp" -> 6 [] x = "gs" -> 8 [] x = "fs" -> 9
      [] x = "es" -> 10 [] x = "ds" -> 11

LEMMA CallPlaces ==
    ASSUME NEW x \in Registers, x # "eax"
    PROVE  CallPlace(x) \in 1 .. 11 /\ syscall_pops[CallPlace(x)] = x
<1>1. CASE x = "ds"
  <2>1. CallPlace(x) = 11
    BY <1>1 DEF CallPlace
  <2> QED BY <1>1, <2>1, CallNames
<1>2. CASE x = "es"
  <2>1. CallPlace(x) = 10
    BY <1>2 DEF CallPlace
  <2> QED BY <1>2, <2>1, CallNames
<1>3. CASE x = "fs"
  <2>1. CallPlace(x) = 9
    BY <1>3 DEF CallPlace
  <2> QED BY <1>3, <2>1, CallNames
<1>4. CASE x = "gs"
  <2>1. CallPlace(x) = 8
    BY <1>4 DEF CallPlace
  <2> QED BY <1>4, <2>1, CallNames
<1>5. CASE x = "ecx"
  <2>1. CallPlace(x) = 2
    BY <1>5 DEF CallPlace
  <2> QED BY <1>5, <2>1, CallNames
<1>6. CASE x = "edx"
  <2>1. CallPlace(x) = 3
    BY <1>6 DEF CallPlace
  <2> QED BY <1>6, <2>1, CallNames
<1>7. CASE x = "ebx"
  <2>1. CallPlace(x) = 1
    BY <1>7 DEF CallPlace
  <2> QED BY <1>7, <2>1, CallNames
<1>8. CASE x = "ebp"
  <2>1. CallPlace(x) = 6
    BY <1>8 DEF CallPlace
  <2> QED BY <1>8, <2>1, CallNames
<1>9. CASE x = "esi"
  <2>1. CallPlace(x) = 4
    BY <1>9 DEF CallPlace
  <2> QED BY <1>9, <2>1, CallNames
<1>10. CASE x = "edi"
  <2>1. CallPlace(x) = 5
    BY <1>10 DEF CallPlace
  <2> QED BY <1>10, <2>1, CallNames
<1> QED BY RegisterNames, <1>1, <1>2, <1>3, <1>4, <1>5, <1>6, <1>7, <1>8, <1>9, <1>10

LEMMA CallPlaceOnly ==
    ASSUME NEW i \in 1 .. 11, syscall_pops[i] \in Registers
    PROVE  CallPlace(syscall_pops[i]) = i /\ syscall_pops[i] # "eax"
<1>1. syscall_pops[i] # "esp"
  BY RegisterNames
<1>2. i # 7
  BY <1>1, CallNames
<1> QED BY <1>2, Eleven, CallNames DEF CallPlace

LEMMA CallHeld ==
    ASSUME NEW s, NEW d \in Nat, NEW r, CallWords(s, d, r), NEW x \in Registers, x # "eax"
    PROVE  s[d + 15 - CallPlace(x)] = r[x]
<1>1. CASE x = "ds"
  BY <1>1, SMT DEF CallPlace, CallWords
<1>2. CASE x = "es"
  BY <1>2, SMT DEF CallPlace, CallWords
<1>3. CASE x = "fs"
  BY <1>3, SMT DEF CallPlace, CallWords
<1>4. CASE x = "gs"
  BY <1>4, SMT DEF CallPlace, CallWords
<1>5. CASE x = "ecx"
  BY <1>5, SMT DEF CallPlace, CallWords
<1>6. CASE x = "edx"
  BY <1>6, SMT DEF CallPlace, CallWords
<1>7. CASE x = "ebx"
  BY <1>7, SMT DEF CallPlace, CallWords
<1>8. CASE x = "ebp"
  BY <1>8, SMT DEF CallPlace, CallWords
<1>9. CASE x = "esi"
  BY <1>9, SMT DEF CallPlace, CallWords
<1>10. CASE x = "edi"
  BY <1>10, SMT DEF CallPlace, CallWords
<1> QED BY RegisterNames, <1>1, <1>2, <1>3, <1>4, <1>5, <1>6, <1>7, <1>8, <1>9, <1>10

\* The saved stack pointer skips nothing: it points where gs was pushed.
LEMMA CallPops ==
    ASSUME stack \in Seq(Int), regs \in Regs, NEW d \in Nat, NEW r,
           CallWords(stack, d, r), Leaves(stack, syscall_pops)
    PROVE  /\ code' = Front(code) /\ stack' = SubSeq(stack, 1, d)
           /\ regs' \in Regs /\ interrupts' \in BOOLEAN
           /\ \A x \in Registers : regs'[x] = IF x = "eax" THEN regs[x] ELSE r[x]
<1> DEFINE names == syscall_pops
           K == {k \in DOMAIN names : names[k] = "esp"}
           Word(i) == IF \E k \in K : k < i
                      THEN LET k == CHOOSE k \in K : TRUE
                           IN  stack[Len(stack) + 1 - k] + k + 1 - i
                      ELSE Len(stack) + 1 - i
           bottom == Word(Len(names)) - 1
           pos(x) == CHOOSE i \in DOMAIN names : names[i] = x
<1>1. /\ regs' = [x \in Registers |-> IF \E i \in DOMAIN names : names[i] = x
                                     THEN stack[Word(pos(x))]
                                     ELSE regs[x]]
      /\ interrupts' = (stack[bottom - 2] = 1)
      /\ stack' = SubSeq(stack, 1, bottom - 3)
      /\ code' = Front(code)
  BY Zenon DEF Leaves
<1>2. DOMAIN names = 1 .. 11 /\ Len(names) = 11
  BY CallNames, Zenon
<1>8. Len(stack) = d + 14 /\ stack[d + 8] = d + 7
  BY DEF CallWords
<1>3. \A i \in 1 .. 11 : names[i] = "esp" <=> i = 7
  BY CallNames, Eleven
<1>4. ASSUME NEW i \in 1 .. 11 PROVE Word(i) = d + 15 - i
  <2>1. K = {7}
    BY <1>2, <1>3
  <2> HIDE DEF K
  <2>2. CASE i <= 7
    BY <2>1, <2>2, <1>8
  <2>3. CASE i > 7
    <3> DEFINE c == CHOOSE k \in K : TRUE
    <3>1. c = 7
      BY <2>1
    <3>2. Word(i) = stack[Len(stack) + 1 - c] + c + 1 - i
      BY <2>1, <2>3
    <3> HIDE DEF c, Word
    <3>3. Len(stack) + 1 - c = d + 8
      BY <3>1, <1>8
    <3> QED BY <3>1, <3>2, <3>3, <1>8
  <2> QED BY <2>2, <2>3
<1> HIDE DEF K, Word
<1>5. ASSUME NEW x \in Registers, x # "eax" PROVE pos(x) = CallPlace(x)
  <2>1. CallPlace(x) \in DOMAIN names /\ names[CallPlace(x)] = x
    BY <1>2, <1>5, CallPlaces
  <2>2. \A i \in DOMAIN names : names[i] = x => i = CallPlace(x)
    BY <1>2, <1>5, CallPlaceOnly
  <2> HIDE DEF names
  <2> QED BY <2>1, <2>2
<1> HIDE DEF pos
<1>6. \A i \in DOMAIN names : names[i] # "eax"
  BY <1>2, CallPlaceOnly, NamesRegister
<1> HIDE DEF names
<1>9. bottom = d + 3
  <2>1. 11 \in 1 .. 11
    OBVIOUS
  <2>2. Word(11) = d + 15 - 11
    BY <1>4, <2>1
  <2> QED BY <1>2, <2>2
<1>10. ASSUME NEW x \in Registers, x # "eax" PROVE regs'[x] = r[x] /\ regs'[x] \in Int
  <2> DEFINE k == CallPlace(x)
  <2>1. k \in 1 .. 11 /\ names[k] = x
    BY <1>10, CallPlaces DEF names
  <2>2. regs'[x] = stack[Word(k)]
    BY <1>1, <1>2, <1>5, <1>10, <2>1
  <2>3. Word(k) = d + 15 - k
    BY <1>4, <2>1
  <2>4. stack[d + 15 - k] = r[x]
    BY <1>10, CallHeld
  <2>5. d + 15 - k \in 1 .. Len(stack)
    <3> HIDE DEF k
    <3> QED BY <2>1, <1>8
  <2> QED BY <2>2, <2>3, <2>4, <2>5
<1>7. regs'["eax"] = regs["eax"]
  BY <1>1, <1>6, NamesRegister
<1>11. regs' \in Regs
  <2>1. \A x \in Registers : regs'[x] \in Int
    BY <1>7, <1>10 DEF Regs
  <2> QED BY <1>1, <2>1 DEF Regs
<1>12. interrupts' \in BOOLEAN
  BY <1>1
<1>13. stack' = SubSeq(stack, 1, d)
  BY <1>1, <1>9
<1> HIDE DEF bottom
<1> QED BY <1>1, <1>7, <1>10, <1>11, <1>12, <1>13

Words(s, n) == s \in Seq(Int) /\ Len(s) = n

\* p is s, of m words, with the n words of t on top; p is s with v on top.
Joined(p, s, t, m, n) ==
    /\ Words(p, m + n)
    /\ \A i \in 1 .. m : p[i] = s[i]
    /\ \A i \in 1 .. n : p[m + i] = t[i]

Added(p, s, m, v) ==
    /\ Words(p, m + 1)
    /\ \A i \in 1 .. m : p[i] = s[i]
    /\ p[m + 1] = v

\* What is below a push stays, what is pushed lies above it.
LEMMA ConcatLengths ==
    ASSUME NEW s \in Seq(Int), NEW t \in Seq(Int)
    PROVE  /\ s \o t \in Seq(Int) /\ Len(s \o t) = Len(s) + Len(t)
           /\ \A i \in 1 .. Len(s) : (s \o t)[i] = s[i]
           /\ \A i \in 1 .. Len(t) : (s \o t)[Len(s) + i] = t[i]
OBVIOUS

LEMMA Concat ==
    ASSUME NEW s, NEW t, NEW m \in Nat, NEW n \in Nat, Words(s, m), Words(t, n)
    PROVE  Joined(s \o t, s, t, m, n)
BY ConcatLengths, Zenon DEF Words, Joined

LEMMA Appended ==
    ASSUME NEW s, NEW v \in Int, NEW m \in Nat, Words(s, m)
    PROVE  Added(Append(s, v), s, m, v)
BY DEF Words, Added

LEMMA PushadWords ==
    ASSUME NEW s, regs \in Regs, NEW m \in Nat, Words(s, m)
    PROVE  /\ Words(pushad(s), m + 8)
           /\ \A i \in 1 .. m : pushad(s)[i] = s[i]
           /\ pushad(s)[m + 1] = regs["eax"] /\ pushad(s)[m + 2] = regs["ecx"]
           /\ pushad(s)[m + 3] = regs["edx"] /\ pushad(s)[m + 4] = regs["ebx"]
           /\ pushad(s)[m + 6] = regs["ebp"] /\ pushad(s)[m + 7] = regs["esi"]
           /\ pushad(s)[m + 8] = regs["edi"]
<1> DEFINE t == <<regs["eax"], regs["ecx"], regs["edx"], regs["ebx"], Len(s),
                  regs["ebp"], regs["esi"], regs["edi"]>>
<1>1. /\ regs["eax"] \in Int /\ regs["ecx"] \in Int /\ regs["edx"] \in Int
      /\ regs["ebx"] \in Int /\ regs["ebp"] \in Int /\ regs["esi"] \in Int
      /\ regs["edi"] \in Int
  BY NamesRegister DEF Regs
<1>2. Words(t, 8)
  BY <1>1 DEF Words
<1>3. /\ t[1] = regs["eax"] /\ t[2] = regs["ecx"] /\ t[3] = regs["edx"]
      /\ t[4] = regs["ebx"] /\ t[6] = regs["ebp"] /\ t[7] = regs["esi"] /\ t[8] = regs["edi"]
  OBVIOUS
<1>4. pushad(s) = s \o t
  BY DEF pushad
<1> HIDE DEF t
<1> DEFINE p == s \o t
<1>5. Joined(p, s, t, m, 8)
  <2>1. 8 \in Nat
    OBVIOUS
  <2> QED BY <1>2, <2>1, Concat, Zenon
<1>6. /\ Words(p, m + 8)
      /\ \A i \in 1 .. m : p[i] = s[i]
      /\ \A i \in 1 .. 8 : p[m + i] = t[i]
  BY <1>5 DEF Joined
<1> HIDE DEF p
<1>7. /\ p[m + 1] = t[1] /\ p[m + 2] = t[2] /\ p[m + 3] = t[3] /\ p[m + 4] = t[4]
      /\ p[m + 6] = t[6] /\ p[m + 7] = t[7] /\ p[m + 8] = t[8]
  BY <1>6
<1>8. pushad(s) = p
  BY <1>4 DEF p
<1> QED BY <1>3, <1>6, <1>7, <1>8

\* The segment registers.
LEMMA SegmentWords ==
    ASSUME NEW s, regs \in Regs, NEW m \in Nat, Words(s, m), NEW p,
           p = pushed(s, <<"ds", "es", "fs", "gs">>)
    PROVE  /\ Words(p, m + 4)
           /\ \A i \in 1 .. m : p[i] = s[i]
           /\ p[m + 1] = regs["ds"] /\ p[m + 2] = regs["es"]
           /\ p[m + 3] = regs["fs"] /\ p[m + 4] = regs["gs"]
<1> DEFINE names == <<"ds", "es", "fs", "gs">>
           t == [i \in DOMAIN names |-> IF names[i] = "esp" THEN Len(s) + i - 1
                                        ELSE regs[names[i]]]
<1>1. regs["ds"] \in Int /\ regs["es"] \in Int /\ regs["fs"] \in Int /\ regs["gs"] \in Int
  BY NamesRegister DEF Regs
<1>2. DOMAIN names = 1 .. 4
  OBVIOUS
<1>3. t[1] = regs["ds"] /\ t[2] = regs["es"] /\ t[3] = regs["fs"] /\ t[4] = regs["gs"]
  OBVIOUS
<1>4. p = s \o t
  BY Zenon DEF pushed
<1>5. DOMAIN t = 1 .. 4
  BY <1>2
<1>6. \A i \in 1 .. 4 : t[i] \in Int
  <2>1. \A i \in 1 .. 4 : i = 1 \/ i = 2 \/ i = 3 \/ i = 4
    OBVIOUS
  <2> HIDE DEF t
  <2> QED BY <1>1, <1>3, <2>1
<1>7. Words(t, 4)
  <2>1. t = [i \in 1 .. 4 |-> t[i]]
    BY <1>2
  <2> HIDE DEF t
  <2> QED BY <1>6, <2>1 DEF Words
<1> HIDE DEF t, names
<1>10. Joined(p, s, t, m, 4)
  <2>1. 4 \in Nat
    OBVIOUS
  <2> QED BY <1>4, <1>7, <2>1, Concat, Zenon
<1>8. /\ Words(p, m + 4)
      /\ \A i \in 1 .. m : p[i] = s[i]
      /\ \A i \in 1 .. 4 : p[m + i] = t[i]
  BY <1>10 DEF Joined
<1>9. p[m + 1] = t[1] /\ p[m + 2] = t[2] /\ p[m + 3] = t[3] /\ p[m + 4] = t[4]
  BY <1>8
<1> QED BY <1>3, <1>8, <1>9

\* The entry code of irq.s.
LEMMA IrqPushes ==
    ASSUME NEW s, regs \in Regs, NEW d \in Nat, Words(s, d + 3), NEW v \in Int
    PROVE  LET t == Append(pushed(pushad(s), <<"ds", "es", "fs", "gs">>), v)
           IN  t \in Seq(Int) /\ IrqWords(t, d, regs, v) /\ t[d + 3] = s[d + 3]
<1> DEFINE a == pushad(s)
           b == pushed(a, <<"ds", "es", "fs", "gs">>)
           t == Append(b, v)
<1>1. d + 3 \in Nat /\ d + 11 \in Nat /\ d + 15 \in Nat
  OBVIOUS
<1>2. /\ Words(a, (d + 3) + 8)
      /\ \A i \in 1 .. d + 3 : a[i] = s[i]
      /\ a[(d + 3) + 1] = regs["eax"] /\ a[(d + 3) + 2] = regs["ecx"]
      /\ a[(d + 3) + 3] = regs["edx"] /\ a[(d + 3) + 4] = regs["ebx"]
      /\ a[(d + 3) + 6] = regs["ebp"] /\ a[(d + 3) + 7] = regs["esi"]
      /\ a[(d + 3) + 8] = regs["edi"]
  BY <1>1, PushadWords
<1> HIDE DEF a
<1>3. Words(a, d + 11)
  BY <1>2
<1>4. /\ Words(b, (d + 11) + 4)
      /\ \A i \in 1 .. d + 11 : b[i] = a[i]
      /\ b[(d + 11) + 1] = regs["ds"] /\ b[(d + 11) + 2] = regs["es"]
      /\ b[(d + 11) + 3] = regs["fs"] /\ b[(d + 11) + 4] = regs["gs"]
  BY <1>1, <1>2, <1>3, SegmentWords
<1> HIDE DEF b
<1>5. Words(b, d + 15)
  BY <1>4
<1>6. /\ Words(t, (d + 15) + 1)
      /\ \A i \in 1 .. d + 15 : t[i] = b[i]
      /\ t[(d + 15) + 1] = v
  <2>1. Added(t, b, d + 15, v)
    BY <1>1, <1>4, <1>5, Appended, Zenon
  <2> QED BY <2>1 DEF Added
<1> HIDE DEF t
<1>7. \A i \in 1 .. d + 11 : t[i] = a[i]
  BY <1>4, <1>6
<1>8. /\ t[d + 4] = regs["eax"] /\ t[d + 5] = regs["ecx"] /\ t[d + 6] = regs["edx"]
      /\ t[d + 7] = regs["ebx"] /\ t[d + 9] = regs["ebp"] /\ t[d + 10] = regs["esi"]
      /\ t[d + 11] = regs["edi"] /\ t[d + 3] = s[d + 3]
  BY <1>2, <1>7
<1>9. /\ t[d + 12] = regs["ds"] /\ t[d + 13] = regs["es"]
      /\ t[d + 14] = regs["fs"] /\ t[d + 15] = regs["gs"]
  BY <1>4, <1>6
<1>10. t[d + 16] = v /\ Len(t) = d + 16 /\ t \in Seq(Int)
  BY <1>6 DEF Words
<1>11. IrqWords(t, d, regs, v)
  BY <1>8, <1>9, <1>10 DEF IrqWords
<1> QED BY <1>8, <1>10, <1>11 DEF t, a, b

\* The entry code of exc.s, on top of an error code.
LEMMA ExcPushes ==
    ASSUME NEW s, regs \in Regs, NEW d \in Nat, Words(s, d + 4), NEW v \in Int,
           s[d + 4] = IF ErrorCode(v) = <<>> THEN 0 ELSE 5
    PROVE  LET c == Append(pushad(pushed(s, <<"ds", "es", "fs", "gs">>)), v)
               t == Append(c, Len(c))
           IN  t \in Seq(Int) /\ ExcWords(t, d, regs, v) /\ t[d + 3] = s[d + 3]
<1> DEFINE a == pushed(s, <<"ds", "es", "fs", "gs">>)
           b == pushad(a)
           c == Append(b, v)
           t == Append(c, Len(c))
<1>1. d + 4 \in Nat /\ d + 8 \in Nat /\ d + 16 \in Nat /\ d + 17 \in Nat
  OBVIOUS
<1>2. /\ Words(a, (d + 4) + 4)
      /\ \A i \in 1 .. d + 4 : a[i] = s[i]
      /\ a[(d + 4) + 1] = regs["ds"] /\ a[(d + 4) + 2] = regs["es"]
      /\ a[(d + 4) + 3] = regs["fs"] /\ a[(d + 4) + 4] = regs["gs"]
  BY <1>1, SegmentWords
<1> HIDE DEF a
<1>3. Words(a, d + 8)
  BY <1>2
<1>4. /\ Words(b, (d + 8) + 8)
      /\ \A i \in 1 .. d + 8 : b[i] = a[i]
      /\ b[(d + 8) + 1] = regs["eax"] /\ b[(d + 8) + 2] = regs["ecx"]
      /\ b[(d + 8) + 3] = regs["edx"] /\ b[(d + 8) + 4] = regs["ebx"]
      /\ b[(d + 8) + 6] = regs["ebp"] /\ b[(d + 8) + 7] = regs["esi"]
      /\ b[(d + 8) + 8] = regs["edi"]
  BY <1>1, <1>2, <1>3, PushadWords
<1> HIDE DEF b
<1>5. Words(b, d + 16)
  BY <1>4
<1>6. /\ Words(c, (d + 16) + 1)
      /\ \A i \in 1 .. d + 16 : c[i] = b[i]
      /\ c[(d + 16) + 1] = v
  <2>1. Added(c, b, d + 16, v)
    BY <1>1, <1>4, <1>5, Appended, Zenon
  <2> QED BY <2>1 DEF Added
<1> HIDE DEF c
<1>7. Words(c, d + 17) /\ Len(c) = d + 17 /\ Len(c) \in Int
  BY <1>6 DEF Words
<1>8. /\ Words(t, (d + 17) + 1)
      /\ \A i \in 1 .. d + 17 : t[i] = c[i]
      /\ t[(d + 17) + 1] = Len(c)
  <2>1. Added(t, c, d + 17, Len(c))
    BY <1>1, <1>6, <1>7, Appended, Zenon
  <2> QED BY <2>1 DEF Added
<1> HIDE DEF t
<1>9. \A i \in 1 .. d + 16 : t[i] = b[i]
  BY <1>6, <1>8
<1>10. \A i \in 1 .. d + 8 : t[i] = a[i]
  BY <1>4, <1>9
<1>11. /\ t[d + 9] = regs["eax"] /\ t[d + 10] = regs["ecx"] /\ t[d + 11] = regs["edx"]
       /\ t[d + 12] = regs["ebx"] /\ t[d + 14] = regs["ebp"] /\ t[d + 15] = regs["esi"]
       /\ t[d + 16] = regs["edi"]
  BY <1>4, <1>9
<1>12. /\ t[d + 5] = regs["ds"] /\ t[d + 6] = regs["es"]
       /\ t[d + 7] = regs["fs"] /\ t[d + 8] = regs["gs"]
       /\ t[d + 3] = s[d + 3] /\ t[d + 4] = s[d + 4]
  BY <1>2, <1>10
<1>13. /\ t[d + 17] = v /\ t[d + 18] = d + 17 /\ Len(t) = d + 18
       /\ t \in Seq(Int)
  BY <1>6, <1>7, <1>8 DEF Words
<1>14. ExcWords(t, d, regs, v)
  BY <1>11, <1>12, <1>13 DEF ExcWords
<1> QED BY <1>12, <1>13, <1>14 DEF t, a, b, c

\* The entry code of syscall.s.
LEMMA CallPushes ==
    ASSUME NEW s, regs \in Regs, NEW d \in Nat, Words(s, d + 3)
    PROVE  LET t == pushed(s, syscall_pushes)
           IN  t \in Seq(Int) /\ CallWords(t, d, regs) /\ t[d + 3] = s[d + 3]
<1> DEFINE names == syscall_pushes
           w == [i \in DOMAIN names |-> IF names[i] = "esp" THEN Len(s) + i - 1
                                        ELSE regs[names[i]]]
           t == s \o w
<1>1. \A x \in Registers : regs[x] \in Int
  BY DEF Regs
<1>2. DOMAIN names = 1 .. 11
  BY DEF syscall_pushes
<1>3. /\ names[1] = "ds" /\ names[2] = "es" /\ names[3] = "fs" /\ names[4] = "gs"
      /\ names[5] = "esp" /\ names[6] = "ebp" /\ names[7] = "edi" /\ names[8] = "esi"
      /\ names[9] = "edx" /\ names[10] = "ecx" /\ names[11] = "ebx"
  BY DEF syscall_pushes
<1>4. pushed(s, syscall_pushes) = t
  BY Zenon DEF pushed
<1> HIDE DEF names
<1>5. /\ w[1] = regs["ds"] /\ w[2] = regs["es"] /\ w[3] = regs["fs"] /\ w[4] = regs["gs"]
      /\ w[6] = regs["ebp"] /\ w[7] = regs["edi"] /\ w[8] = regs["esi"]
      /\ w[9] = regs["edx"] /\ w[10] = regs["ecx"] /\ w[11] = regs["ebx"]
      /\ w[5] = Len(s) + 5 - 1
  BY <1>2, <1>3
<1>6. w = [i \in 1 .. 11 |-> w[i]]
  BY <1>2
<1> HIDE DEF w
<1>7. w[5] = d + 7
  <2>1. w[5] = Len(s) + 5 - 1
    BY <1>5
  <2>2. Len(s) = d + 3
    BY DEF Words
  <2> QED BY <2>1, <2>2
<1>8. \A i \in 1 .. 11 : w[i] \in Int
  <2>1. /\ w[1] \in Int /\ w[2] \in Int /\ w[3] \in Int /\ w[4] \in Int /\ w[5] \in Int
        /\ w[6] \in Int /\ w[7] \in Int /\ w[8] \in Int /\ w[9] \in Int
        /\ w[10] \in Int /\ w[11] \in Int
    BY <1>1, <1>5, <1>7, NamesRegister
  <2> QED BY <2>1, Eleven
<1>9. Words(w, 11)
  BY <1>6, <1>8 DEF Words
<1>10. /\ Words(t, (d + 3) + 11)
       /\ \A i \in 1 .. d + 3 : t[i] = s[i]
       /\ \A i \in 1 .. 11 : t[(d + 3) + i] = w[i]
  <2>1. d + 3 \in Nat /\ 11 \in Nat
    OBVIOUS
  <2>2. Joined(t, s, w, d + 3, 11)
    BY <1>9, <2>1, Concat, Zenon
  <2> QED BY <2>2 DEF Joined
<1> HIDE DEF t
<1>11. /\ t[d + 4] = w[1] /\ t[d + 5] = w[2] /\ t[d + 6] = w[3] /\ t[d + 7] = w[4]
       /\ t[d + 8] = w[5] /\ t[d + 9] = w[6] /\ t[d + 10] = w[7] /\ t[d + 11] = w[8]
       /\ t[d + 12] = w[9] /\ t[d + 13] = w[10] /\ t[d + 14] = w[11]
       /\ t[d + 3] = s[d + 3] /\ Len(t) = d + 14 /\ t \in Seq(Int)
  BY <1>10 DEF Words
<1>12. CallWords(t, d, regs)
  BY <1>5, <1>7, <1>11 DEF CallWords
<1> QED BY <1>4, <1>11, <1>12

-----------------------------------------------------------------------------
(* The controllers                                                         *)

Pics == [master : Chip, slave : Chip]

LEMMA LowestIn ==
    ASSUME NEW S \in SUBSET (0 .. 7), S # {}
    PROVE  Lowest(S) \in S
<1>1. \A n \in S : \/ n = 0 \/ n = 1 \/ n = 2 \/ n = 3 \/ n = 4 \/ n = 5 \/ n = 6 \/ n = 7
  OBVIOUS
<1>2. \E n \in S : \A k \in S : n <= k
  <2>1. CASE 0 \in S
    BY <1>1, <2>1
  <2>2. CASE 0 \notin S /\ 1 \in S
    BY <1>1, <2>2
  <2>3. CASE 0 \notin S /\ 1 \notin S /\ 2 \in S
    BY <1>1, <2>3
  <2>4. CASE 0 \notin S /\ 1 \notin S /\ 2 \notin S /\ 3 \in S
    BY <1>1, <2>4
  <2>5. CASE 0 \notin S /\ 1 \notin S /\ 2 \notin S /\ 3 \notin S /\ 4 \in S
    BY <1>1, <2>5
  <2>6. CASE /\ 0 \notin S /\ 1 \notin S /\ 2 \notin S /\ 3 \notin S
             /\ 4 \notin S /\ 5 \in S
    BY <1>1, <2>6
  <2>7. CASE /\ 0 \notin S /\ 1 \notin S /\ 2 \notin S /\ 3 \notin S
             /\ 4 \notin S /\ 5 \notin S /\ 6 \in S
    BY <1>1, <2>7
  <2>8. CASE /\ 0 \notin S /\ 1 \notin S /\ 2 \notin S /\ 3 \notin S
             /\ 4 \notin S /\ 5 \notin S /\ 6 \notin S
    <3>1. \A n \in S : n = 7
      BY <1>1, <2>8
    <3>2. PICK n \in S : TRUE
      OBVIOUS
    <3>3. n \in S /\ \A k \in S : n <= k
      BY <3>1
    <3> QED BY <3>3
  <2> QED BY <2>1, <2>2, <2>3, <2>4, <2>5, <2>6, <2>7, <2>8
<1> QED BY <1>2 DEF Lowest

LEMMA Bits ==
    /\ Bit(2) = 4 /\ \A n \in 0 .. 7 : Bit(n) = 4 => n = 2
<1>1. /\ Bit(0) = 1 /\ Bit(1) = 2 /\ Bit(2) = 4 /\ Bit(3) = 8
      /\ Bit(4) = 16 /\ Bit(5) = 32 /\ Bit(6) = 64 /\ Bit(7) = 128
  BY DEF Bit
<1>2. \A n \in 0 .. 7 : n = 0 \/ n = 1 \/ n = 2 \/ n = 3 \/ n = 4 \/ n = 5 \/ n = 6 \/ n = 7
  OBVIOUS
<1> QED BY <1>1, <1>2

\* The initialisation words one by one: what each leaves of a chip c.
Keeps(k, c) == k \in Chip /\ k.irr = c.irr

LEMMA FirstWord ==
    ASSUME NEW c \in Chip
    PROVE  Keeps(Command(c, 17), c) /\ Command(c, 17).icw = 3
<1> DEFINE a == [c EXCEPT !.icw = 3]
           b == [a EXCEPT !.imr = {}]
<1>1. Command(c, 17) = [b EXCEPT !.isr = {}]
  BY DEF Command
<1>2. a \in Chip /\ a.irr = c.irr /\ a.icw = 3
  BY DEF Chip
<1> HIDE DEF a
<1>3. b \in Chip /\ b.irr = c.irr /\ b.icw = 3
  BY <1>2 DEF Chip
<1> HIDE DEF b
<1> QED BY <1>1, <1>3 DEF Chip, Keeps

LEMMA SecondWord ==
    ASSUME NEW c \in Chip, c.icw = 3, NEW v \in 0 .. 255
    PROVE  Keeps(Data(c, v), c) /\ Data(c, v).icw = 2 /\ Data(c, v).base = v
<1> DEFINE a == [c EXCEPT !.icw = 2]
<1>1. Data(c, v) = [a EXCEPT !.base = v]
  BY DEF Data
<1>2. a \in Chip /\ a.irr = c.irr /\ a.icw = 2
  BY DEF Chip
<1> HIDE DEF a
<1> QED BY <1>1, <1>2 DEF Chip, Keeps

LEMMA ThirdWord ==
    ASSUME NEW c \in Chip, c.icw = 2, NEW v \in 0 .. 255
    PROVE  /\ Keeps(Data(c, v), c) /\ Data(c, v).icw = 1 /\ Data(c, v).cascade = v
           /\ Data(c, v).base = c.base
<1> DEFINE a == [c EXCEPT !.icw = 1]
<1>1. Data(c, v) = [a EXCEPT !.cascade = v]
  BY DEF Data
<1>2. a \in Chip /\ a.irr = c.irr /\ a.icw = 1 /\ a.base = c.base
  BY DEF Chip
<1> HIDE DEF a
<1> QED BY <1>1, <1>2 DEF Chip, Keeps

LEMMA FourthWord ==
    ASSUME NEW c \in Chip, c.icw = 1, NEW v \in 0 .. 255
    PROVE  /\ Keeps(Data(c, v), c) /\ Data(c, v).icw = 0
           /\ Data(c, v).base = c.base /\ Data(c, v).cascade = c.cascade
<1>1. Data(c, v) = [c EXCEPT !.icw = 0]
  BY DEF Data
<1> QED BY <1>1 DEF Chip, Keeps

LEMMA MaskWord ==
    ASSUME NEW c \in Chip, c.icw = 0, NEW v \in 0 .. 255
    PROVE  /\ Keeps(Data(c, v), c) /\ Data(c, v).icw = 0
           /\ Data(c, v).base = c.base /\ Data(c, v).cascade = c.cascade
<1>1. Data(c, v) = [c EXCEPT !.imr = {n \in 0 .. 7 : (v \div Bit(n)) % 2 = 1}]
  BY DEF Data
<1>2. {n \in 0 .. 7 : (v \div Bit(n)) % 2 = 1} \in SUBSET (0 .. 7)
  BY Zenon
<1> QED BY <1>1, <1>2 DEF Chip, Keeps

LEMMA EndOfInterrupt ==
    ASSUME NEW c \in Chip
    PROVE  /\ Keeps(Command(c, 32), c) /\ Command(c, 32).icw = c.icw
           /\ Command(c, 32).base = c.base /\ Command(c, 32).cascade = c.cascade
<1> DEFINE i == IF c.isr = {} THEN {} ELSE c.isr \ {Lowest(c.isr)}
<1>1. Command(c, 32) = [c EXCEPT !.isr = i]
  BY DEF Command
<1>2. i \in SUBSET (0 .. 7)
  BY DEF Chip
<1> HIDE DEF i
<1> QED BY <1>1, <1>2 DEF Chip, Keeps

LEMMA Ports ==
    ASSUME NEW p \in Pics, NEW v
    PROVE  /\ outb(p, 32, v) = [p EXCEPT !.master = Command(p.master, v)]
           /\ outb(p, 33, v) = [p EXCEPT !.master = Data(p.master, v)]
           /\ outb(p, 160, v) = [p EXCEPT !.slave = Command(p.slave, v)]
           /\ outb(p, 161, v) = [p EXCEPT !.slave = Data(p.slave, v)]
<1>1. /\ Pic(32) = "master" /\ Pic(33) = "master" /\ Pic(160) = "slave" /\ Pic(161) = "slave"
      /\ \A c : /\ Written(c, 32, v) = Command(c, v) /\ Written(c, 33, v) = Data(c, v)
                /\ Written(c, 160, v) = Command(c, v) /\ Written(c, 161, v) = Data(c, v)
  BY DEF Pic, Written
<1>2. \A port : outb(p, port, v) = [p EXCEPT ![Pic(port)] = Written(p[Pic(port)], port, v)]
  BY Zenon DEF outb
<1> HIDE DEF Pics
<1> QED BY <1>1, <1>2

LEMMA Chips ==
    ASSUME NEW p \in Pics
    PROVE  /\ p.master \in Chip /\ p.slave \in Chip
           /\ \A k \in Chip : /\ [p EXCEPT !.master = k] \in Pics
                              /\ [p EXCEPT !.master = k].master = k
                              /\ [p EXCEPT !.master = k].slave = p.slave
                              /\ [p EXCEPT !.slave = k] \in Pics
                              /\ [p EXCEPT !.slave = k].slave = k
                              /\ [p EXCEPT !.slave = k].master = p.master
BY DEF Pics

LEMMA MasterWritten ==
    ASSUME NEW p \in Pics, NEW v
    PROVE  /\ Command(p.master, v) \in Chip =>
                 /\ outb(p, 32, v) \in Pics
                 /\ outb(p, 32, v).master = Command(p.master, v)
                 /\ outb(p, 32, v).slave = p.slave
           /\ Data(p.master, v) \in Chip =>
                 /\ outb(p, 33, v) \in Pics
                 /\ outb(p, 33, v).master = Data(p.master, v)
                 /\ outb(p, 33, v).slave = p.slave
<1> DEFINE c == Command(p.master, v)
           d == Data(p.master, v)
<1>1. /\ outb(p, 32, v) = [p EXCEPT !.master = c]
      /\ outb(p, 33, v) = [p EXCEPT !.master = d]
  BY Ports
<1> HIDE DEF c, d
<1>2. c \in Chip => /\ outb(p, 32, v) \in Pics
                    /\ outb(p, 32, v).master = c
                    /\ outb(p, 32, v).slave = p.slave
  BY <1>1 DEF Pics
<1>3. d \in Chip => /\ outb(p, 33, v) \in Pics
                    /\ outb(p, 33, v).master = d
                    /\ outb(p, 33, v).slave = p.slave
  BY <1>1 DEF Pics
<1> QED BY <1>2, <1>3 DEF c, d

LEMMA SlaveWritten ==
    ASSUME NEW p \in Pics, NEW v
    PROVE  /\ Command(p.slave, v) \in Chip =>
                 /\ outb(p, 160, v) \in Pics
                 /\ outb(p, 160, v).slave = Command(p.slave, v)
                 /\ outb(p, 160, v).master = p.master
           /\ Data(p.slave, v) \in Chip =>
                 /\ outb(p, 161, v) \in Pics
                 /\ outb(p, 161, v).slave = Data(p.slave, v)
                 /\ outb(p, 161, v).master = p.master
<1> DEFINE c == Command(p.slave, v)
           d == Data(p.slave, v)
<1>1. /\ outb(p, 160, v) = [p EXCEPT !.slave = c]
      /\ outb(p, 161, v) = [p EXCEPT !.slave = d]
  BY Ports
<1> HIDE DEF c, d
<1>2. c \in Chip => /\ outb(p, 160, v) \in Pics
                    /\ outb(p, 160, v).slave = c
                    /\ outb(p, 160, v).master = p.master
  BY <1>1 DEF Pics
<1>3. d \in Chip => /\ outb(p, 161, v) \in Pics
                    /\ outb(p, 161, v).slave = d
                    /\ outb(p, 161, v).master = p.master
  BY <1>1 DEF Pics
<1> QED BY <1>2, <1>3 DEF c, d

\* pic_init programs both, whatever was requested before.
LEMMA PicInit ==
    ASSUME NEW p \in Pics
    PROVE  /\ pic_init(p) \in Pics /\ pic_init(p).master.irr = p.master.irr
           /\ pic_init(p).master.base = 32 /\ pic_init(p).slave.base = 40
           /\ pic_init(p).master.cascade = 4
           /\ pic_init(p).master.icw = 0 /\ pic_init(p).slave.icw = 0
<1> DEFINE p1 == outb(p, 32, 17)
           p2 == outb(p1, 160, 17)
           p3 == outb(p2, 33, 32)
           p4 == outb(p3, 161, 40)
           p5 == outb(p4, 33, 4)
           p6 == outb(p5, 161, 2)
           p7 == outb(p6, 33, 1)
           p8 == outb(p7, 161, 1)
           p9 == outb(p8, 33, 0)
           p10 == outb(p9, 161, 0)
<1>0. pic_init(p) = p10
  BY Zenon DEF pic_init
<1>20. /\ 32 \in 0 .. 255 /\ 40 \in 0 .. 255 /\ 4 \in 0 .. 255 /\ 2 \in 0 .. 255
       /\ 1 \in 0 .. 255 /\ 0 \in 0 .. 255
  OBVIOUS
<1>21. p.master \in Chip /\ p.slave \in Chip
  BY Chips
<1>1. /\ p1 \in Pics /\ p1.slave = p.slave /\ p1.master \in Chip
      /\ p1.master.irr = p.master.irr
      /\ p1.master.icw = 3
  <2> DEFINE c == p.master
             k == Command(c, 17)
  <2>1. /\ p \in Pics /\ c \in Chip /\ c.irr = p.master.irr
    BY <1>21
  <2>2. k \in Chip => p1 \in Pics /\ p1.master = k /\ p1.slave = p.slave
    BY <2>1, MasterWritten
  <2> HIDE DEF c
  <2>3. Keeps(k, c) /\ k.icw = 3
    BY <2>1, <1>20, FirstWord
  <2>4. k \in Chip /\ k.irr = p.master.irr
    BY <2>1, <2>3 DEF Keeps
  <2> HIDE DEF k, p1
  <2> QED BY <2>2, <2>3, <2>4
<1> HIDE DEF p1
<1>2. /\ p2 \in Pics /\ p2.master = p1.master /\ p2.slave \in Chip
      /\ p2.slave.irr = p.slave.irr
      /\ p2.slave.icw = 3
  <2> DEFINE c == p1.slave
             k == Command(c, 17)
  <2>1. /\ p1 \in Pics /\ c \in Chip /\ c.irr = p.slave.irr
    BY <1>21, <1>1
  <2>2. k \in Chip => p2 \in Pics /\ p2.slave = k /\ p2.master = p1.master
    BY <2>1, SlaveWritten
  <2> HIDE DEF c
  <2>3. Keeps(k, c) /\ k.icw = 3
    BY <2>1, <1>20, FirstWord
  <2>4. k \in Chip /\ k.irr = p.slave.irr
    BY <2>1, <2>3 DEF Keeps
  <2> HIDE DEF k, p2
  <2> QED BY <2>2, <2>3, <2>4
<1> HIDE DEF p2
<1>3. /\ p3 \in Pics /\ p3.slave = p2.slave /\ p3.master \in Chip
      /\ p3.master.irr = p.master.irr
      /\ p3.master.icw = 2 /\ p3.master.base = 32
  <2> DEFINE c == p2.master
             k == Data(c, 32)
  <2>1. /\ p2 \in Pics /\ c \in Chip /\ c.irr = p.master.irr
        /\ c.icw = 3
    BY <1>1, <1>2
  <2>2. k \in Chip => p3 \in Pics /\ p3.master = k /\ p3.slave = p2.slave
    BY <2>1, MasterWritten
  <2> HIDE DEF c
  <2>3. Keeps(k, c) /\ k.icw = 2 /\ k.base = 32
    BY <2>1, <1>20, SecondWord
  <2>4. k \in Chip /\ k.irr = p.master.irr
    BY <2>1, <2>3 DEF Keeps
  <2> HIDE DEF k, p3
  <2> QED BY <2>2, <2>3, <2>4
<1> HIDE DEF p3
<1>4. /\ p4 \in Pics /\ p4.master = p3.master /\ p4.slave \in Chip
      /\ p4.slave.irr = p.slave.irr
      /\ p4.slave.icw = 2 /\ p4.slave.base = 40
  <2> DEFINE c == p3.slave
             k == Data(c, 40)
  <2>1. /\ p3 \in Pics /\ c \in Chip /\ c.irr = p.slave.irr
        /\ c.icw = 3
    BY <1>2, <1>3
  <2>2. k \in Chip => p4 \in Pics /\ p4.slave = k /\ p4.master = p3.master
    BY <2>1, SlaveWritten
  <2> HIDE DEF c
  <2>3. Keeps(k, c) /\ k.icw = 2 /\ k.base = 40
    BY <2>1, <1>20, SecondWord
  <2>4. k \in Chip /\ k.irr = p.slave.irr
    BY <2>1, <2>3 DEF Keeps
  <2> HIDE DEF k, p4
  <2> QED BY <2>2, <2>3, <2>4
<1> HIDE DEF p4
<1>5. /\ p5 \in Pics /\ p5.slave = p4.slave /\ p5.master \in Chip
      /\ p5.master.irr = p.master.irr
      /\ p5.master.icw = 1 /\ p5.master.base = 32 /\ p5.master.cascade = 4
  <2> DEFINE c == p4.master
             k == Data(c, 4)
  <2>1. /\ p4 \in Pics /\ c \in Chip /\ c.irr = p.master.irr
        /\ c.icw = 2 /\ c.base = 32
    BY <1>3, <1>4
  <2>2. k \in Chip => p5 \in Pics /\ p5.master = k /\ p5.slave = p4.slave
    BY <2>1, MasterWritten
  <2> HIDE DEF c
  <2>3. Keeps(k, c) /\ k.icw = 1 /\ k.base = 32 /\ k.cascade = 4
    BY <2>1, <1>20, ThirdWord
  <2>4. k \in Chip /\ k.irr = p.master.irr
    BY <2>1, <2>3 DEF Keeps
  <2> HIDE DEF k, p5
  <2> QED BY <2>2, <2>3, <2>4
<1> HIDE DEF p5
<1>6. /\ p6 \in Pics /\ p6.master = p5.master /\ p6.slave \in Chip
      /\ p6.slave.irr = p.slave.irr
      /\ p6.slave.icw = 1 /\ p6.slave.base = 40 /\ p6.slave.cascade = 2
  <2> DEFINE c == p5.slave
             k == Data(c, 2)
  <2>1. /\ p5 \in Pics /\ c \in Chip /\ c.irr = p.slave.irr
        /\ c.icw = 2 /\ c.base = 40
    BY <1>4, <1>5
  <2>2. k \in Chip => p6 \in Pics /\ p6.slave = k /\ p6.master = p5.master
    BY <2>1, SlaveWritten
  <2> HIDE DEF c
  <2>3. Keeps(k, c) /\ k.icw = 1 /\ k.base = 40 /\ k.cascade = 2
    BY <2>1, <1>20, ThirdWord
  <2>4. k \in Chip /\ k.irr = p.slave.irr
    BY <2>1, <2>3 DEF Keeps
  <2> HIDE DEF k, p6
  <2> QED BY <2>2, <2>3, <2>4
<1> HIDE DEF p6
<1>7. /\ p7 \in Pics /\ p7.slave = p6.slave /\ p7.master \in Chip
      /\ p7.master.irr = p.master.irr
      /\ p7.master.icw = 0 /\ p7.master.base = 32 /\ p7.master.cascade = 4
  <2> DEFINE c == p6.master
             k == Data(c, 1)
  <2>1. /\ p6 \in Pics /\ c \in Chip /\ c.irr = p.master.irr
        /\ c.icw = 1 /\ c.base = 32 /\ c.cascade = 4
    BY <1>5, <1>6
  <2>2. k \in Chip => p7 \in Pics /\ p7.master = k /\ p7.slave = p6.slave
    BY <2>1, MasterWritten
  <2> HIDE DEF c
  <2>3. Keeps(k, c) /\ k.icw = 0 /\ k.base = 32 /\ k.cascade = 4
    BY <2>1, <1>20, FourthWord
  <2>4. k \in Chip /\ k.irr = p.master.irr
    BY <2>1, <2>3 DEF Keeps
  <2> HIDE DEF k, p7
  <2> QED BY <2>2, <2>3, <2>4
<1> HIDE DEF p7
<1>8. /\ p8 \in Pics /\ p8.master = p7.master /\ p8.slave \in Chip
      /\ p8.slave.irr = p.slave.irr
      /\ p8.slave.icw = 0 /\ p8.slave.base = 40 /\ p8.slave.cascade = 2
  <2> DEFINE c == p7.slave
             k == Data(c, 1)
  <2>1. /\ p7 \in Pics /\ c \in Chip /\ c.irr = p.slave.irr
        /\ c.icw = 1 /\ c.base = 40 /\ c.cascade = 2
    BY <1>6, <1>7
  <2>2. k \in Chip => p8 \in Pics /\ p8.slave = k /\ p8.master = p7.master
    BY <2>1, SlaveWritten
  <2> HIDE DEF c
  <2>3. Keeps(k, c) /\ k.icw = 0 /\ k.base = 40 /\ k.cascade = 2
    BY <2>1, <1>20, FourthWord
  <2>4. k \in Chip /\ k.irr = p.slave.irr
    BY <2>1, <2>3 DEF Keeps
  <2> HIDE DEF k, p8
  <2> QED BY <2>2, <2>3, <2>4
<1> HIDE DEF p8
<1>9. /\ p9 \in Pics /\ p9.slave = p8.slave /\ p9.master \in Chip
      /\ p9.master.irr = p.master.irr
      /\ p9.master.icw = 0 /\ p9.master.base = 32 /\ p9.master.cascade = 4
  <2> DEFINE c == p8.master
             k == Data(c, 0)
  <2>1. /\ p8 \in Pics /\ c \in Chip /\ c.irr = p.master.irr
        /\ c.icw = 0 /\ c.base = 32 /\ c.cascade = 4
    BY <1>7, <1>8
  <2>2. k \in Chip => p9 \in Pics /\ p9.master = k /\ p9.slave = p8.slave
    BY <2>1, MasterWritten
  <2> HIDE DEF c
  <2>3. Keeps(k, c) /\ k.icw = 0 /\ k.base = 32 /\ k.cascade = 4
    BY <2>1, <1>20, MaskWord
  <2>4. k \in Chip /\ k.irr = p.master.irr
    BY <2>1, <2>3 DEF Keeps
  <2> HIDE DEF k, p9
  <2> QED BY <2>2, <2>3, <2>4
<1> HIDE DEF p9
<1>10. /\ p10 \in Pics /\ p10.master = p9.master /\ p10.slave \in Chip
      /\ p10.slave.irr = p.slave.irr
      /\ p10.slave.icw = 0 /\ p10.slave.base = 40 /\ p10.slave.cascade = 2
  <2> DEFINE c == p9.slave
             k == Data(c, 0)
  <2>1. /\ p9 \in Pics /\ c \in Chip /\ c.irr = p.slave.irr
        /\ c.icw = 0 /\ c.base = 40 /\ c.cascade = 2
    BY <1>8, <1>9
  <2>2. k \in Chip => p10 \in Pics /\ p10.slave = k /\ p10.master = p9.master
    BY <2>1, SlaveWritten
  <2> HIDE DEF c
  <2>3. Keeps(k, c) /\ k.icw = 0 /\ k.base = 40 /\ k.cascade = 2
    BY <2>1, <1>20, MaskWord
  <2>4. k \in Chip /\ k.irr = p.slave.irr
    BY <2>1, <2>3 DEF Keeps
  <2> HIDE DEF k, p10
  <2> QED BY <2>2, <2>3, <2>4
<1> HIDE DEF p10
<1> QED BY <1>0, <1>9, <1>10

\* Ending an interrupt disturbs nothing but what is in service.
LEMMA EoiKeeps ==
    ASSUME NEW p \in Pics, NEW q, q = p \/ q = outb(p, 32, 32) \/ q = outb(outb(p, 160, 32), 32, 32)
    PROVE  /\ q \in Pics
           /\ q.master.irr = p.master.irr /\ q.master.icw = p.master.icw
           /\ q.master.base = p.master.base /\ q.master.cascade = p.master.cascade
           /\ q.slave.base = p.slave.base /\ q.slave.icw = p.slave.icw
<1>1. p.master \in Chip /\ p.slave \in Chip
  BY Chips
<1>2. ASSUME NEW r \in Pics
      PROVE  /\ outb(r, 32, 32) \in Pics
             /\ outb(r, 32, 32).master.irr = r.master.irr
             /\ outb(r, 32, 32).master.icw = r.master.icw
             /\ outb(r, 32, 32).master.base = r.master.base
             /\ outb(r, 32, 32).master.cascade = r.master.cascade
             /\ outb(r, 32, 32).slave = r.slave
  <2>1. r.master \in Chip
    BY Chips
  <2> QED BY <2>1, MasterWritten, EndOfInterrupt DEF Keeps
<1>3. /\ outb(p, 160, 32) \in Pics
      /\ outb(p, 160, 32).master = p.master
      /\ outb(p, 160, 32).slave.icw = p.slave.icw
      /\ outb(p, 160, 32).slave.base = p.slave.base
  BY <1>1, SlaveWritten, EndOfInterrupt DEF Keeps
<1>4. CASE q = p
  BY <1>4
<1>5. CASE q = outb(p, 32, 32)
  BY <1>2, <1>5
<1>6. CASE q = outb(outb(p, 160, 32), 32, 32)
  <2> DEFINE r == outb(p, 160, 32)
  <2>1. r \in Pics /\ r.master = p.master /\ r.slave.icw = p.slave.icw /\ r.slave.base = p.slave.base
    BY <1>3
  <2>2. q = outb(r, 32, 32)
    BY <1>6
  <2> HIDE DEF r
  <2> QED BY <1>2, <2>1, <2>2
<1> QED BY <1>4, <1>5, <1>6

-----------------------------------------------------------------------------
(* The steps                                                               *)

LEMMA TopFacts ==
    ASSUME Nesting
    PROVE  /\ Height \in Nat /\ Height > 0 /\ Top = code[Height] /\ Top \in Frame
           /\ Top.depth \in Nat /\ Top.was \in Regs /\ Eip = 1000 + Height
<1>1. code \in Seq(Frame) /\ Height \in Nat /\ Height > 0 /\ Top = code[Height]
  BY DEF Nesting, Top, Last, Height
<1>2. Top \in Frame
  BY <1>1 DEF Height
<1> QED BY <1>1, <1>2 DEF Frame, Eip, Height

\* The thread runs when it runs a program counter of the thread.
LEMMA InThread ==
    ASSUME Nesting, Top.pc \in {"boot", "run", "return"}
    PROVE  Height = 1 /\ Top = code[1] /\ stack = <<>>
<1>1. Height \in Nat /\ Height > 0 /\ Top = code[Height]
  BY TopFacts
<1>2. CASE Height > 1
  <2>1. Height \in 2 .. Height
    BY <1>1, <1>2
  <2>2. code[Height].pc \in {"entry", "body", "exit", "served"}
    BY <2>1 DEF Nesting
  <2> QED BY <2>2, <1>1
<1>3. CASE Height = 1
  BY <1>1, <1>3 DEF Nesting
<1> QED BY <1>1, <1>2, <1>3

LEMMA InHandler ==
    ASSUME Nesting, Top.pc \in {"entry", "body", "exit", "served"}
    PROVE  /\ Height > 1 /\ Top.cause \in Vectors /\ Top.handler = Top.cause
           /\ Top.pc = "served" => Top.cause \in 32 .. 47
           /\ Top.cause \in 0 .. 31 => Top.pc # "exit"
           /\ Height > 2 => Top.cause \in 0 .. 31
<1>1. Height \in Nat /\ Height > 0 /\ Top = code[Height]
  BY TopFacts
<1>2. Height > 1
  <2>1. code[1].pc \in {"boot", "run", "return"}
    BY DEF Nesting
  <2>2. Height # 1
    BY <1>1, <2>1
  <2> QED BY <1>1, <2>2
<1>3. Height \in 2 .. Height
  BY <1>1, <1>2
<1> QED BY <1>1, <1>2, <1>3 DEF Nesting

LEMMA MovedTop ==
    ASSUME Nesting, Nesting', NEW pc \in PCs, code' = Moved(pc)
    PROVE  /\ Height' = Height /\ Top'.cause = Top.cause /\ Top'.was = Top.was
           /\ Top'.depth = Top.depth /\ Top'.pc = pc /\ Eip' = Eip
           /\ Height > 1 => code'[1] = code[1]
<1>1. Height \in Nat /\ Height > 0
  BY TopFacts
<1>2. /\ Height' = Height
      /\ \A i \in 1 .. Height - 1 : code'[i] = code[i]
      /\ code'[Height].cause = Top.cause /\ code'[Height].was = Top.was
      /\ code'[Height].depth = Top.depth /\ code'[Height].pc = pc
  BY MovedFacts DEF Height
<1>3. Top' = code'[Height]
  <2>1. code' \in Seq(Frame) /\ Height' > 0
    BY DEF Nesting
  <2>2. Top' = code'[Height']
    BY <2>1 DEF Top, Last, Height
  <2> QED BY <1>2, <2>2
<1>4. Height > 1 => code'[1] = code[1]
  BY <1>1, <1>2
<1>5. Eip' = Eip
  BY <1>2 DEF Eip, Height
<1> QED BY <1>2, <1>3, <1>4, <1>5

LEMMA EntersTop ==
    ASSUME TrapsTypeOK, Nesting, Nesting', NEW v \in Vectors, NEW error, NEW r \in Regs,
           NEW pc \in PCs, error = <<>> \/ error = << 5 >>, Enters(v, v, error, r, pc)
    PROVE  /\ Height' = Height + 1 /\ Top'.cause = v /\ Top'.was = r
           /\ Top'.depth = Len(stack) /\ Top'.pc = "entry" /\ Eip' - 1 = Eip
           /\ Height > 1 => code'[1] = code[1]
           /\ Height = 1 => code'[1].pc = pc
<1>1. Height \in Nat /\ Height > 0
  BY TopFacts
<1> DEFINE f == [handler |-> v, cause |-> v, pc |-> "entry", was |-> r, depth |-> Len(stack)]
<1>2. /\ Height' = Height + 1
      /\ \A i \in 1 .. Height - 1 : code'[i] = code[i]
      /\ code'[Height].pc = pc
      /\ code'[Height + 1] = f
  BY EntersFacts
<1>3. f.cause = v /\ f.was = r /\ f.pc = "entry" /\ f.depth = Len(stack)
  OBVIOUS
<1> HIDE DEF f
<1>4. Top' = f
  <2>1. code' \in Seq(Frame) /\ Height' > 0
    BY DEF Nesting
  <2>2. Top' = code'[Height']
    BY <2>1 DEF Top, Last, Height
  <2> QED BY <1>2, <2>2
<1>5. Height > 1 => code'[1] = code[1]
  BY <1>1, <1>2
<1>6. Eip' = 1000 + Height' /\ Eip = 1000 + Height
  BY DEF Eip, Height
<1>7. Eip' - 1 = Eip
  BY <1>1, <1>2, <1>6
<1>8. Height = 1 => code'[1].pc = pc
  BY <1>2
<1> QED BY <1>2, <1>3, <1>4, <1>5, <1>7, <1>8

LEMMA TypesKept ==
    ASSUME Nesting', pic' \in Pics, irq_handlers' \in [32 .. 47 -> Drivers \cup {NULL}],
           interrupts' \in BOOLEAN, halted' \in BOOLEAN, regs' \in Regs, stack' \in Seq(Int),
           actual_errno' \in Int, calls' \in 0 .. MaxCalls,
           raises' \in [Lines -> 0 .. MaxRaises]
    PROVE  TrapsTypeOK'
<1>1. code' \in Seq(Frame) /\ Height' > 0 /\ Height' = Len(code')
  BY DEF Nesting, Height
<1>2. code' # <<>>
  BY <1>1
<1>3. ASSUME NEW i \in DOMAIN code'
      PROVE  /\ i > 1 => code'[i].handler \in 0 .. 47 \cup {SYSCALL}
             /\ code'[i].pc \in PCs
  <2>1. code'[i] \in Frame /\ i \in 1 .. Height' /\ Height' \in Nat
    BY <1>1
  <2>2. i > 1 => i \in 2 .. Height'
    BY <2>1
  <2>3. i > 1 => code'[i].handler \in Vectors
    BY <2>2 DEF Nesting
  <2> QED BY <2>1, <2>3 DEF Frame, Vectors
<1> QED BY <1>2, <1>3 DEF TrapsTypeOK, Pics, Regs, PCs

\* Before an exception there is no report.
LEMMA NoReport ==
    ASSUME Reporting, ~halted, report' = report
    PROVE  Reporting'
BY DEF Reporting, ReportTrue

\* setup_idt starts everything: before it no handler runs.
LEMMA SetupKeeps ==
    ASSUME TInv, setup_idt
    PROVE  TInv'
<1>1. /\ TrapsTypeOK /\ Controllers /\ Nesting /\ Saved /\ Answering /\ Reporting
      /\ Top.pc = "boot" /\ ~halted
  BY DEF TInv, setup_idt, Runs
<1>2. /\ pic' = pic_init(pic) /\ interrupts' = TRUE /\ code' = Moved("run")
      /\ UNCHANGED <<irq_handlers, regs, stack, report, halted, answer, actual_errno,
                     calls, raises>>
  BY DEF setup_idt, results
<1>3. Height = 1 /\ Top = code[1] /\ stack = <<>>
  BY <1>1, InThread
<1>4. "run" \in PCs
  BY DEF PCs
<1>5. Nesting'
  BY <1>1, <1>2, <1>3, <1>4, MovedNesting DEF Allowed
<1>6. Height' = 1 /\ Top'.pc = "run" /\ Top' = code'[1]
  <2>1. Height' = Height /\ Top'.pc = "run"
    BY <1>1, <1>2, <1>4, <1>5, MovedTop
  <2>2. code' \in Seq(Frame) /\ Height' > 0 /\ Height' = Len(code')
    BY <1>5 DEF Nesting, Height
  <2> QED BY <1>3, <2>1, <2>2 DEF Top, Last
<1>7. pic \in Pics
  BY <1>1 DEF TrapsTypeOK, Pics
<1>8. /\ pic' \in Pics /\ pic'.master.irr = pic.master.irr /\ Ready'
  BY <1>2, <1>7, PicInit, Bits DEF Ready
<1>9. Controllers'
  BY <1>1, <1>2, <1>6, <1>8 DEF Controllers
<1>10. TrapsTypeOK'
  BY <1>1, <1>2, <1>5, <1>8, TypesKept DEF TrapsTypeOK, Regs
<1>11. Saved'
  BY <1>6 DEF Saved
<1>12. Answering'
  BY <1>1, <1>2, <1>6 DEF Answering, CallsAnswer
<1>13. Reporting'
  BY <1>1, <1>2, NoReport
<1> QED BY <1>5, <1>9, <1>10, <1>11, <1>12, <1>13 DEF TInv

\* A request that is delivered gets its own vector: IR2 of the master is the
\* cascade and nothing else.
LEMMA Arrives ==
    ASSUME TrapsTypeOK, Controllers, Ready, MasterRequests # {}
    PROVE  LET n == Lowest(MasterRequests)
               k == Lowest(SlaveRequests)
               cascaded == Bit(n) = pic.master.cascade
           IN  /\ n \in 0 .. 7
               /\ n # 2 => ~cascaded
               /\ n = 2 => cascaded /\ k \in 0 .. 7
<1> DEFINE M == MasterRequests
           S == SlaveRequests
           n == Lowest(M)
           k == Lowest(S)
<1>1. pic.master \in Chip /\ pic.slave \in Chip
  BY DEF TrapsTypeOK
<1>2. S \in SUBSET (0 .. 7)
  BY <1>1 DEF SlaveRequests, Deliverable, Chip
<1>3. M \in SUBSET (0 .. 7) /\ (2 \in M => S # {})
  <2> DEFINE c == IF S # {} THEN {i \in 0 .. 7 : Bit(i) = pic.master.cascade} ELSE {}
             q == pic.master.irr \cup c
  <2>1. M = Deliverable(pic.master, q)
    BY DEF MasterRequests
  <2>2. \A i : i \in M => i \in q
    BY <2>1 DEF Deliverable
  <2>3. q \in SUBSET (0 .. 7)
    BY <1>1 DEF Chip
  <2>4. 2 \in q => S # {}
    BY DEF Controllers
  <2> QED BY <2>2, <2>3, <2>4
<1> HIDE DEF M, S
<1>4. n \in M
  BY <1>3, LowestIn DEF M
<1>5. n \in 0 .. 7
  BY <1>3, <1>4
<1>6. n = 2 => k \in 0 .. 7
  BY <1>2, <1>3, <1>4, LowestIn
<1>7. Bit(n) = pic.master.cascade <=> n = 2
  BY <1>5, Bits DEF Ready
<1> QED BY <1>5, <1>6, <1>7 DEF M, S

LEMMA Acknowledges ==
    ASSUME NEW c \in Chip, NEW n \in 0 .. 7
    PROVE  LET a == Acknowledged(c, n)
           IN  /\ a \in Chip /\ a.irr \subseteq c.irr /\ a.icw = c.icw
               /\ a.base = c.base /\ a.cascade = c.cascade
<1> DEFINE i == c.irr \ {n}
           s == c.isr \cup {n}
           b == [c EXCEPT !.irr = i]
<1>1. Acknowledged(c, n) = [b EXCEPT !.isr = s]
  BY DEF Acknowledged
<1>2. i \in SUBSET (0 .. 7) /\ s \in SUBSET (0 .. 7) /\ i \subseteq c.irr
  BY DEF Chip
<1> HIDE DEF i, s
<1>3. b \in Chip /\ b.irr = i /\ b.icw = c.icw /\ b.base = c.base /\ b.cascade = c.cascade
  BY <1>2 DEF Chip
<1> HIDE DEF b
<1> QED BY <1>1, <1>2, <1>3 DEF Chip

\* Interrupts are on in the thread only, and after pic_init.
LEMMA ArrivesKeeps ==
    ASSUME TInv, irq_arrives
    PROVE  TInv'
<1> DEFINE n == Lowest(MasterRequests)
           k == Lowest(SlaveRequests)
           cascaded == Bit(n) = pic.master.cascade
           v == IF cascaded THEN 40 + k ELSE 32 + n
           m == Acknowledged(pic.master, n)
           s == IF cascaded THEN Acknowledged(pic.slave, k) ELSE pic.slave
<1>1. /\ TrapsTypeOK /\ Controllers /\ Nesting /\ Saved /\ Answering /\ Reporting
      /\ ~halted /\ interrupts /\ MasterRequests # {}
  BY DEF TInv, irq_arrives
<1>2. /\ pic' = [master |-> m, slave |-> s]
      /\ Enters(IF cascaded THEN pic.slave.base + k ELSE pic.master.base + n,
                v, <<>>, regs, Top.pc)
      /\ UNCHANGED <<irq_handlers, report, halted, answer, actual_errno, calls, raises>>
  BY Zenon DEF irq_arrives, results
<1>3. Height = 1 /\ code[1].pc # "boot" /\ Ready
  BY <1>1 DEF Controllers
<1>4. Top = code[1] /\ stack = <<>> /\ Top.pc \in {"run", "return"} /\ Top.pc \in PCs
  BY <1>1, <1>3, TopFacts DEF Nesting, PCs
<1>5. n \in 0 .. 7 /\ (n # 2 => ~cascaded) /\ (n = 2 => cascaded /\ k \in 0 .. 7)
  BY <1>1, <1>3, Arrives
<1>6. v \in 32 .. 47 /\ Enters(v, v, <<>>, regs, Top.pc)
  BY <1>2, <1>3, <1>5 DEF Ready
<1>7. /\ m \in Chip /\ m.irr \subseteq pic.master.irr /\ m.icw = pic.master.icw
      /\ m.base = pic.master.base /\ m.cascade = pic.master.cascade
  BY <1>1, <1>5, Acknowledges DEF TrapsTypeOK
<1>8. s \in Chip /\ s.base = pic.slave.base /\ s.icw = pic.slave.icw
  BY <1>1, <1>5, Acknowledges DEF TrapsTypeOK
<1> HIDE DEF m, s, v, cascaded, n, k
<1>9. /\ pic' \in Pics /\ Ready' /\ 2 \notin pic'.master.irr
  BY <1>1, <1>2, <1>3, <1>7, <1>8 DEF Pics, Ready, Controllers
<1>10. v \in Vectors /\ v \notin 0 .. 31 /\ v # SYSCALL /\ ErrorCode(v) = <<>>
  BY <1>6 DEF Vectors, SYSCALL, ErrorCode
<1>11. regs \in Regs
  BY <1>1 DEF TrapsTypeOK, Regs
<1> DEFINE e == <<>>
<1>12. e = <<>> \/ e = <<5>>
  OBVIOUS
<1>13. Nesting'
  BY <1>1, <1>3, <1>4, <1>6, <1>10, <1>11, <1>12, EntersNesting
<1>14. /\ stack' \in Seq(Int) /\ GateWords(stack', Len(stack), <<>>)
       /\ stack'[Len(stack) + 3] = Eip /\ regs' = regs /\ interrupts' = FALSE
  BY <1>1, <1>4, <1>6, <1>10, <1>11, <1>12, EntersFacts
<1>15. /\ Height' = Height + 1 /\ Top'.cause = v /\ Top'.was = regs
       /\ Top'.depth = Len(stack) /\ Top'.pc = "entry" /\ Eip' - 1 = Eip
       /\ code'[1].pc = Top.pc
  BY <1>1, <1>3, <1>4, <1>6, <1>10, <1>11, <1>12, <1>13, EntersTop
<1>16. TrapsTypeOK'
  BY <1>1, <1>2, <1>9, <1>13, <1>14, TypesKept DEF TrapsTypeOK, Regs
<1>17. Controllers'
  BY <1>9, <1>14 DEF Controllers
<1>18. Saved'
  <2>1. Len(stack') >= Len(stack) + 3
    BY <1>4, <1>14 DEF GateWords
  <2> QED BY <2>1, <1>10, <1>14, <1>15 DEF Saved
<1>19. Answering'
  <2>1. Top.pc = "return" => Result(regs["eax"])
    BY <1>1, <1>3, <1>4 DEF Answering
  <2>2. Top.pc = "return" => Result(regs["eax"])'
    BY <2>1, <1>2, <1>14 DEF Result
  <2>3. Height' = 2
    BY <1>3, <1>15
  <2>4. Result(regs["eax"])' => Result(Top.was["eax"])'
    BY <1>14, <1>15 DEF Result
  <2>5. CallsAnswer' /\ (answer' # NULL => answer' \in Answer)
    BY <1>1, <1>2 DEF Answering, CallsAnswer
  <2> QED BY <2>2, <2>3, <2>4, <2>5, <1>10, <1>15 DEF Answering
<1>20. Reporting'
  BY <1>1, <1>2, NoReport
<1> QED BY <1>13, <1>16, <1>17, <1>18, <1>19, <1>20 DEF TInv

\* Kernel selectors in the segment registers, the others as they were.
LEMMA SelectorsType ==
    ASSUME NEW r \in Regs
    PROVE  Selectors(r) \in Regs
BY DEF Selectors, Regs, KDATA

LEMMA ClobberedType ==
    ASSUME regs \in Regs, NEW v \in Int
    PROVE  Clobbered(v) \in Regs /\ Clobbered(v)["eax"] = v
<1> DEFINE a == [regs EXCEPT !["eax"] = v]
           b == [a EXCEPT !["ecx"] = Junk]
<1>1. Clobbered(v) = [b EXCEPT !["edx"] = Junk]
  BY DEF Clobbered
<1>2. a \in Regs /\ a["eax"] = v
  BY NamesRegister DEF Regs
<1> HIDE DEF a
<1>3. b \in Regs /\ b["eax"] = v
  BY <1>2, NamesRegister DEF Regs, Junk
<1> HIDE DEF b
<1> QED BY <1>1, <1>3, NamesRegister DEF Regs, Junk

\* The entry code of irq.s makes the frame that its exit takes apart.
LEMMA IrqEntryKeeps ==
    ASSUME TInv, irq_entry
    PROVE  TInv'
<1> DEFINE d == Top.depth
           c == Top.cause
<1>1. /\ TrapsTypeOK /\ Controllers /\ Nesting /\ Saved /\ Answering /\ Reporting
      /\ ~halted /\ Top.pc = "entry" /\ Top.handler \in 32 .. 47
  BY DEF TInv, irq_entry, Runs
<1>2. /\ stack' = Append(pushed(pushad(stack), <<"ds", "es", "fs", "gs">>), Top.handler)
      /\ regs' = Selectors(regs) /\ code' = Moved("body")
      /\ UNCHANGED <<pic, raises, irq_handlers, interrupts, report, halted,
                     answer, actual_errno, calls>>
  BY Zenon DEF irq_entry, controllers, results
<1>3. /\ Height > 1 /\ c \in Vectors /\ Top.handler = c
      /\ Height > 2 => c \in 0 .. 31
  BY <1>1, InHandler
<1>4. /\ Height \in Nat /\ Height > 0 /\ Top = code[Height]
      /\ d \in Nat /\ Top.was \in Regs /\ Eip = 1000 + Height
  BY <1>1, TopFacts
<1>5. c \in 32 .. 47 /\ c \in Int /\ c \notin 0 .. 31 /\ c # SYSCALL /\ ErrorCode(c) = <<>>
  BY <1>1, <1>3 DEF SYSCALL, ErrorCode
<1>6. "body" \in PCs /\ Allowed(Top, Height, "body")
  BY <1>3, <1>5 DEF PCs, Allowed
<1>7. Nesting'
  BY <1>1, <1>2, <1>3, <1>6, MovedNesting
<1>8. /\ Height' = Height /\ Top'.cause = c /\ Top'.was = Top.was
      /\ Top'.depth = d /\ Top'.pc = "body" /\ Eip' = Eip
      /\ code'[1] = code[1]
  BY <1>1, <1>2, <1>3, <1>6, <1>7, MovedTop
<1>9. regs = Top.was /\ regs \in Regs /\ Words(stack, d + 3) /\ stack[d + 3] = Eip - 1
  <2>1. GateWords(stack, d, <<>>) /\ regs = Top.was /\ stack[d + 3] = Eip - 1
    BY <1>1, <1>3, <1>5 DEF Saved
  <2>2. Len(stack) = d + 3
    BY <1>4, <2>1 DEF GateWords
  <2> QED BY <1>1, <1>4, <2>1, <2>2 DEF TrapsTypeOK, Words
<1> HIDE DEF c, d
<1>10. stack' \in Seq(Int) /\ IrqWords(stack', d, regs, c) /\ stack'[d + 3] = stack[d + 3]
  <2>1. stack' = Append(pushed(pushad(stack), <<"ds", "es", "fs", "gs">>), c)
    BY <1>2, <1>3
  <2>2. regs \in Regs /\ d \in Nat /\ Words(stack, d + 3) /\ c \in Int
    BY <1>4, <1>5, <1>9
  <2> QED BY <2>1, <2>2, IrqPushes
<1>11. TrapsTypeOK'
  BY <1>1, <1>2, <1>7, <1>9, <1>10, TypesKept, SelectorsType DEF TrapsTypeOK, Pics
<1>12. Controllers'
  <2>1. Ready => Ready'
    BY <1>2 DEF Ready
  <2> QED BY <2>1, <1>1, <1>2, <1>8 DEF Controllers
<1>13. Saved'
  <2>1. Len(stack') >= d + 3
    BY <1>4, <1>10 DEF IrqWords
  <2> QED BY <2>1, <1>5, <1>8, <1>9, <1>10 DEF Saved
<1>14. Answering'
  <2>1. Result(Top.was["eax"]) => Result(Top.was["eax"])'
    BY <1>2, <1>8 DEF Result
  <2>2. CallsAnswer' /\ (answer' # NULL => answer' \in Answer)
    BY <1>1, <1>2 DEF Answering, CallsAnswer
  <2>3. Height' > 1 /\ Top'.cause # SYSCALL /\ (Height' = 2 => Height = 2)
    BY <1>3, <1>4, <1>5, <1>8
  <2>4. Top.cause \in 32 .. 47
    BY <1>5 DEF c
  <2> HIDE DEF Top
  <2> QED BY <1>1, <1>8, <2>1, <2>2, <2>3, <2>4 DEF Answering
<1>15. Reporting'
  BY <1>1, <1>2, NoReport
<1> QED BY <1>7, <1>11, <1>12, <1>13, <1>14, <1>15 DEF TInv

\* The chips are told by the handler's number, the last word.
LEMMA IrqBodyKeeps ==
    ASSUME TInv, irq_handler_i686
    PROVE  TInv'
<1> DEFINE d == Top.depth
           c == Top.cause
           pc == IF irq_handlers[Last(stack)] = NULL THEN "exit" ELSE "served"
<1>1. /\ TrapsTypeOK /\ Controllers /\ Nesting /\ Saved /\ Answering /\ Reporting
      /\ ~halted /\ Top.pc = "body" /\ Top.handler \in 32 .. 47
  BY DEF TInv, irq_handler_i686, Runs
<1>2. /\ pic' = end_of_interrupt(pic, Last(stack))
      /\ regs' = Clobbered(Junk) /\ code' = Moved(pc)
      /\ UNCHANGED <<raises, irq_handlers, interrupts, stack, report, halted,
                     answer, actual_errno, calls>>
  BY Zenon DEF irq_handler_i686, results
<1>3. /\ Height > 1 /\ c \in Vectors /\ Top.handler = c
      /\ Height > 2 => c \in 0 .. 31
  BY <1>1, InHandler
<1>4. /\ Height \in Nat /\ Height > 0 /\ Top = code[Height]
      /\ d \in Nat /\ Top.was \in Regs /\ Eip = 1000 + Height
  BY <1>1, TopFacts
<1>5. c \in 32 .. 47 /\ c \notin 0 .. 31 /\ c # SYSCALL
  BY <1>1, <1>3 DEF SYSCALL
<1>6. pc \in PCs /\ Allowed(Top, Height, pc) /\ pc # "entry"
  BY <1>3, <1>5 DEF PCs, Allowed
<1> HIDE DEF pc
<1>7. Nesting'
  BY <1>1, <1>2, <1>3, <1>6, MovedNesting
<1>8. /\ Height' = Height /\ Top'.cause = c /\ Top'.was = Top.was
      /\ Top'.depth = d /\ Top'.pc = pc /\ Eip' = Eip
      /\ code'[1] = code[1]
  BY <1>1, <1>2, <1>3, <1>6, <1>7, MovedTop
<1>9. IrqWords(stack, d, Top.was, c) /\ stack[d + 3] = Eip - 1 /\ Len(stack) >= d + 3
  BY <1>1, <1>3, <1>5 DEF Saved
<1> HIDE DEF c, d
<1>10. Last(stack) = c
  BY <1>9 DEF Last, IrqWords
<1>11. /\ pic' \in Pics
       /\ pic'.master.irr = pic.master.irr /\ pic'.master.icw = pic.master.icw
       /\ pic'.master.base = pic.master.base /\ pic'.master.cascade = pic.master.cascade
       /\ pic'.slave.base = pic.slave.base /\ pic'.slave.icw = pic.slave.icw
  <2>1. pic \in Pics
    BY <1>1 DEF TrapsTypeOK, Pics
  <2>2. \/ pic' = pic
        \/ pic' = outb(pic, 32, 32)
        \/ pic' = outb(outb(pic, 160, 32), 32, 32)
    <3>1. CASE c \in 40 .. 47
      BY <3>1, <1>2, <1>10 DEF end_of_interrupt
    <3>2. CASE c \in 32 .. 39
      <4>1. c \notin 40 .. 47
        BY <3>2
      <4> QED BY <4>1, <3>2, <1>2, <1>10 DEF end_of_interrupt
    <3> QED BY <1>5, <3>1, <3>2
  <2> QED BY <2>1, <2>2, EoiKeeps
<1>12. regs \in Regs /\ regs' \in Regs
  BY <1>1, <1>2, ClobberedType DEF TrapsTypeOK, Regs, Junk
<1>13. TrapsTypeOK'
  BY <1>1, <1>2, <1>7, <1>11, <1>12, TypesKept DEF TrapsTypeOK
<1>14. Controllers'
  <2>1. Ready => Ready'
    BY <1>11 DEF Ready
  <2> QED BY <2>1, <1>1, <1>2, <1>8, <1>11 DEF Controllers
<1>15. Saved'
  BY <1>2, <1>5, <1>6, <1>8, <1>9 DEF Saved
<1>16. Answering'
  <2>1. Result(Top.was["eax"]) => Result(Top.was["eax"])'
    BY <1>2, <1>8 DEF Result
  <2>2. CallsAnswer' /\ (answer' # NULL => answer' \in Answer)
    BY <1>1, <1>2 DEF Answering, CallsAnswer
  <2> HIDE DEF Top
  <2> QED BY <1>1, <1>3, <1>5, <1>8, <2>1, <2>2 DEF Answering, c
<1>17. Reporting'
  BY <1>1, <1>2, NoReport
<1> QED BY <1>7, <1>13, <1>14, <1>15, <1>16, <1>17 DEF TInv

\* What returns from an interrupt finds its registers.
LEMMA IrqReturns ==
    ASSUME TInv, irq_exit
    PROVE  /\ TrapsTypeOK /\ Controllers /\ Nesting /\ Answering /\ Reporting /\ ~halted
           /\ Height = 2 /\ Height' = 1 /\ code'[1] = code[1] /\ code[1].pc # "boot"
           /\ Top = code[2] /\ Top.cause \in 32 .. 47 /\ Top.depth = 0
           /\ Nesting' /\ stack' = <<>> /\ interrupts' \in BOOLEAN /\ regs' \in Regs
           /\ \A x \in Registers : regs'[x] = Top.was[x]
           /\ UNCHANGED <<pic, raises, irq_handlers, report, halted, answer, actual_errno,
                          calls>>
<1> DEFINE d == Top.depth
           c == Top.cause
<1>1. /\ TrapsTypeOK /\ Controllers /\ Nesting /\ Saved /\ Answering /\ Reporting
      /\ ~halted /\ Top.pc \in {"exit", "served"} /\ Top.handler \in 32 .. 47
  BY DEF TInv, irq_exit, Runs
<1>2. /\ Leaves(stack, irq_pops)
      /\ UNCHANGED <<pic, raises, irq_handlers, report, halted, answer, actual_errno, calls>>
  BY DEF irq_exit, controllers, results
<1>3. Height > 1 /\ c \in Vectors /\ Top.handler = c
  BY <1>1, InHandler
<1>4. c \in 32 .. 47 /\ c \notin 0 .. 31 /\ d \in Nat
  BY <1>1, <1>3, TopFacts
<1>5. IrqWords(stack, d, Top.was, c) /\ stack \in Seq(Int)
  BY <1>1, <1>3, <1>4 DEF Saved, TrapsTypeOK
<1>6. /\ code' = Front(code) /\ stack' = SubSeq(stack, 1, d)
      /\ regs' \in Regs /\ interrupts' \in BOOLEAN
      /\ \A x \in Registers : regs'[x] = Top.was[x]
  <2> HIDE DEF c, d
  <2>1. d \in Nat /\ stack \in Seq(Int) /\ IrqWords(stack, d, Top.was, c)
    BY <1>4, <1>5
  <2> QED BY <1>2, <2>1, IrqPops
<1>7. Returned
  BY <1>6 DEF Returned
<1> QED BY <1>1, <1>2, <1>3, <1>4, <1>6, <1>7, LeavesNesting

LEMMA IrqExitKeeps ==
    ASSUME TInv, irq_exit
    PROVE  TInv'
<1>1. /\ TrapsTypeOK /\ Controllers /\ Nesting /\ Answering /\ Reporting /\ ~halted
      /\ Height = 2 /\ Height' = 1 /\ code'[1] = code[1] /\ code[1].pc # "boot"
      /\ Top.cause \in 32 .. 47
      /\ Nesting' /\ stack' = <<>> /\ interrupts' \in BOOLEAN /\ regs' \in Regs
      /\ \A x \in Registers : regs'[x] = Top.was[x]
      /\ UNCHANGED <<pic, raises, irq_handlers, report, halted, answer, actual_errno, calls>>
  BY IrqReturns
<1>2. TrapsTypeOK'
  <2>1. stack' \in Seq(Int)
    BY <1>1
  <2> QED BY <1>1, <2>1, TypesKept DEF TrapsTypeOK, Pics
<1>3. Controllers'
  <2>1. Ready => Ready'
    BY <1>1 DEF Ready
  <2> QED BY <2>1, <1>1 DEF Controllers
<1>4. Saved'
  BY <1>1 DEF Saved
<1>5. Answering'
  <2>1. regs'["eax"] = Top.was["eax"]
    BY <1>1, NamesRegister
  <2>2. Result(Top.was["eax"]) => Result(regs["eax"])'
    BY <1>1, <2>1 DEF Result
  <2>3. CallsAnswer' /\ (answer' # NULL => answer' \in Answer)
    BY <1>1 DEF Answering, CallsAnswer
  <2> QED BY <1>1, <2>2, <2>3 DEF Answering
<1>6. Reporting'
  BY <1>1, NoReport
<1> QED BY <1>1, <1>2, <1>3, <1>4, <1>5, <1>6 DEF TInv

\* What leaves the machine alone keeps what is known about it.
LEMMA MachineKept ==
    ASSUME TInv, regs' = regs, stack' = stack, code' = code, answer' = answer,
           actual_errno' = actual_errno
    PROVE  /\ Nesting' /\ Saved' /\ Answering'
           /\ Height' = Height /\ Top' = Top /\ Eip' = Eip
           /\ report' = report /\ halted' = halted => Reporting'
<1>1. /\ Nesting /\ Saved /\ Answering /\ Reporting
  BY DEF TInv
<1>2. Height' = Height /\ Top' = Top /\ Eip' = Eip
  BY DEF Height, Top, Eip
<1>3. Nesting'
  BY <1>1, <1>2, Zenon DEF Nesting
<1>4. Saved'
  BY <1>1, <1>2, Zenon DEF Saved
<1>5. CallsAnswer' /\ (answer' # NULL => answer' \in Answer)
  BY <1>1 DEF Answering, CallsAnswer
<1>6. \A a : Result(a) => Result(a)'
  BY DEF Result
<1>7. Answering'
  <2>1. Result(regs["eax"]) => Result(regs["eax"])'
    BY DEF Result
  <2>2. Result(Top.was["eax"]) => Result(Top.was["eax"])'
    BY <1>2 DEF Result
  <2> HIDE DEF Top, Height
  <2> QED BY <1>1, <1>2, <1>5, <2>1, <2>2 DEF Answering
<1>8. report' = report /\ halted' = halted => Reporting'
  <2> HIDE DEF Top, Eip
  <2> QED BY <1>1, <1>2 DEF Reporting, ReportTrue
<1> QED BY <1>2, <1>3, <1>4, <1>7, <1>8

LEMMA RegisterKeepsInv ==
    ASSUME TInv, register_irq \/ unregister_irq
    PROVE  TInv'
<1>1. /\ irq_handlers' \in [32 .. 47 -> Drivers \cup {NULL}]
      /\ UNCHANGED <<pic, raises, interrupts, regs, stack, code, report, halted, answer,
                     actual_errno, calls>>
  <2>1. irq_handlers \in [32 .. 47 -> Drivers \cup {NULL}]
    BY DEF TInv, TrapsTypeOK
  <2>2. CASE register_irq
    BY <2>1, <2>2 DEF register_irq, controllers, machine, results
  <2>3. CASE unregister_irq
    BY <2>1, <2>3 DEF unregister_irq, controllers, machine, results
  <2> QED BY <2>2, <2>3
<1>2. Nesting' /\ Saved' /\ Answering' /\ Reporting' /\ Height' = Height
  BY <1>1, MachineKept
<1>3. Controllers'
  <2>1. Ready => Ready'
    BY <1>1 DEF Ready
  <2> QED BY <2>1, <1>1, <1>2 DEF TInv, Controllers
<1>4. TrapsTypeOK'
  <2>1. TrapsTypeOK
    BY DEF TInv
  <2> QED BY <2>1, <1>1, <1>2, TypesKept DEF TrapsTypeOK, Pics, Regs
<1> QED BY <1>2, <1>3, <1>4 DEF TInv

\* No device is connected where the second controller is.
LEMMA RaiseKeeps ==
    ASSUME TInv, NEW l \in Lines, raise(l)
    PROVE  TInv'
<1>1. /\ pic' = IF l < 8 THEN [pic EXCEPT !.master.irr = @ \cup {l}]
                         ELSE [pic EXCEPT !.slave.irr = @ \cup {l - 8}]
      /\ raises' = [raises EXCEPT ![l] = @ + 1] /\ raises[l] < MaxRaises
      /\ UNCHANGED <<irq_handlers, interrupts, regs, stack, code, report, halted, answer,
                     actual_errno, calls>>
  BY DEF raise, machine, results
<1>2. l \in 0 .. 15 /\ l # 2
  BY TrapsAssumption
<1>3. pic \in Pics /\ TrapsTypeOK /\ Controllers
  BY DEF TInv, TrapsTypeOK, Pics
<1>4. pic.master \in Chip /\ pic.slave \in Chip
  BY <1>3 DEF Pics
<1>5. /\ pic' \in Pics /\ 2 \notin pic'.master.irr
      /\ pic'.master.icw = pic.master.icw /\ pic'.master.base = pic.master.base
      /\ pic'.master.cascade = pic.master.cascade
      /\ pic'.slave.base = pic.slave.base /\ pic'.slave.icw = pic.slave.icw
  <2>1. CASE l < 8
    <3> DEFINE i == pic.master.irr \cup {l}
               m == [pic.master EXCEPT !.irr = i]
    <3>1. pic' = [pic EXCEPT !.master = m]
      BY <1>1, <2>1
    <3>2. i \in SUBSET (0 .. 7) /\ 2 \notin i
      BY <1>2, <1>3, <1>4, <2>1 DEF Chip, Controllers
    <3> HIDE DEF i
    <3>3. /\ m \in Chip /\ m.irr = i /\ m.icw = pic.master.icw /\ m.base = pic.master.base
          /\ m.cascade = pic.master.cascade
      BY <1>4, <3>2 DEF Chip
    <3> HIDE DEF m
    <3> QED BY <1>3, <3>1, <3>2, <3>3 DEF Pics
  <2>2. CASE ~(l < 8)
    <3> DEFINE i == pic.slave.irr \cup {l - 8}
               s == [pic.slave EXCEPT !.irr = i]
    <3>1. pic' = [pic EXCEPT !.slave = s]
      BY <1>1, <2>2
    <3>2. i \in SUBSET (0 .. 7)
      BY <1>2, <1>4, <2>2 DEF Chip
    <3> HIDE DEF i
    <3>3. s \in Chip /\ s.base = pic.slave.base /\ s.icw = pic.slave.icw
      BY <1>4, <3>2 DEF Chip
    <3> HIDE DEF s
    <3> QED BY <1>3, <3>1, <3>3 DEF Pics, Controllers
  <2> QED BY <2>1, <2>2
<1>6. Nesting' /\ Saved' /\ Answering' /\ Reporting' /\ Height' = Height
  BY <1>1, MachineKept
<1>7. Controllers'
  <2>1. Ready => Ready'
    BY <1>5 DEF Ready
  <2> QED BY <2>1, <1>1, <1>3, <1>5, <1>6 DEF Controllers
<1>8. raises' \in [Lines -> 0 .. MaxRaises]
  <2>1. raises \in [Lines -> 0 .. MaxRaises] /\ MaxRaises \in Nat
    BY <1>3, TrapsAssumption DEF TrapsTypeOK
  <2>2. raises[l] + 1 \in 0 .. MaxRaises
    BY <1>1, <2>1
  <2> QED BY <1>1, <2>1, <2>2
<1>9. TrapsTypeOK'
  BY <1>1, <1>3, <1>5, <1>6, <1>8, TypesKept DEF TrapsTypeOK, Regs
<1> QED BY <1>6, <1>7, <1>9 DEF TInv

\* One register after the other.
LEMMA Loaded ==
    ASSUME NEW r \in Regs, NEW x \in Registers, NEW v \in Int
    PROVE  /\ [r EXCEPT ![x] = v] \in Regs /\ [r EXCEPT ![x] = v][x] = v
           /\ \A y \in Registers \ {x} : [r EXCEPT ![x] = v][y] = r[y]
BY DEF Regs

\* A call starts with its number in eax, and only the thread makes one.
LEMMA CallKeeps ==
    ASSUME TInv, NEW id \in Ids, __syscall(id)
    PROVE  TInv'
<1> DEFINE r == [regs EXCEPT !["eax"] = id, !["ebx"] = 11, !["ecx"] = 12,
                             !["edx"] = 13, !["esi"] = 14]
           e == <<>>
<1>1. /\ TrapsTypeOK /\ Controllers /\ Nesting /\ Saved /\ Answering /\ Reporting
      /\ ~halted /\ Top.pc = "run"
  BY DEF TInv, __syscall, Runs
<1>2. /\ calls < MaxCalls /\ calls' = calls + 1
      /\ answer' = [id |-> id, returned |-> FALSE, ret |-> 0]
      /\ Enters(SYSCALL, SYSCALL, e, r, "return")
      /\ UNCHANGED <<pic, raises, irq_handlers, report, halted, actual_errno>>
  BY Zenon DEF __syscall, controllers
<1>3. regs \in Regs /\ id \in Int
  BY <1>1, TrapsAssumption DEF TrapsTypeOK, Regs
<1>4. r \in Regs /\ r["eax"] = id
  <2> DEFINE a == [regs EXCEPT !["eax"] = id]
             b == [a EXCEPT !["ebx"] = 11]
             c == [b EXCEPT !["ecx"] = 12]
             d == [c EXCEPT !["edx"] = 13]
  <2>1. r = [d EXCEPT !["esi"] = 14]
    OBVIOUS
  <2>2. a \in Regs /\ a["eax"] = id
    BY <1>3, NamesRegister DEF Regs
  <2> HIDE DEF a, r
  <2>3. b \in Regs /\ b["eax"] = id
    BY <2>2, NamesRegister DEF Regs
  <2> HIDE DEF b
  <2>4. c \in Regs /\ c["eax"] = id
    BY <2>3, NamesRegister DEF Regs
  <2> HIDE DEF c
  <2>5. d \in Regs /\ d["eax"] = id
    BY <2>4, NamesRegister DEF Regs
  <2> HIDE DEF d
  <2> QED BY <2>1, <2>5, NamesRegister DEF Regs
<1> HIDE DEF r
<1>5. Height = 1 /\ stack = <<>>
  BY <1>1, InThread
<1>6. SYSCALL \in Vectors /\ SYSCALL \notin 0 .. 47 /\ ErrorCode(SYSCALL) = <<>>
  BY DEF Vectors, SYSCALL, ErrorCode
<1>7. "return" \in PCs /\ (e = <<>> \/ e = <<5>>)
  BY DEF PCs
<1>8. Nesting'
  <2>1. /\ Height = 1 /\ Top.pc # "boot"
        /\ Height > 1 => SYSCALL \in 0 .. 31
    BY <1>1, <1>5
  <2> HIDE DEF e
  <2> QED BY <2>1, <1>1, <1>2, <1>4, <1>6, <1>7, EntersNesting
<1>9. /\ stack' \in Seq(Int) /\ GateWords(stack', Len(stack), e)
      /\ stack'[Len(stack) + 3] = Eip /\ regs' = r /\ interrupts' = FALSE
  BY <1>1, <1>2, <1>4, <1>6, <1>7, EntersFacts
<1>10. /\ Height' = Height + 1 /\ Top'.cause = SYSCALL /\ Top'.was = r
       /\ Top'.depth = Len(stack) /\ Top'.pc = "entry" /\ Eip' - 1 = Eip
       /\ code'[1].pc = "return"
  BY <1>1, <1>2, <1>4, <1>5, <1>6, <1>7, <1>8, EntersTop
<1>11. calls' \in 0 .. MaxCalls
  BY <1>1, <1>2, TrapsAssumption DEF TrapsTypeOK
<1>12. TrapsTypeOK'
  BY <1>1, <1>2, <1>4, <1>8, <1>9, <1>11, TypesKept DEF TrapsTypeOK, Pics
<1>13. Controllers'
  <2>1. Ready => Ready'
    BY <1>2 DEF Ready
  <2>2. Ready
    <3>1. code[1].pc = "run"
      BY <1>1, InThread
    <3> QED BY <3>1, <1>1 DEF Controllers
  <2> QED BY <2>1, <2>2, <1>1, <1>2, <1>9 DEF Controllers
<1>14. Saved'
  <2>1. Len(stack') >= Len(stack) + 3
    BY <1>5, <1>9 DEF GateWords
  <2> QED BY <2>1, <1>6, <1>9, <1>10 DEF Saved
<1>15. Answering'
  <2>1. answer' \in Answer /\ ~answer'.returned /\ answer'.id = id
    BY <1>2 DEF Answer
  <2>2. CallsAnswer'
    BY <2>1 DEF CallsAnswer
  <2>3. Height' = 2 /\ Top'.cause \notin 32 .. 47 /\ Top'.was["eax"] = id
    BY <1>4, <1>5, <1>6, <1>10
  <2> HIDE DEF Top
  <2> QED BY <2>1, <2>2, <2>3, <1>10 DEF Answering
<1>16. Reporting'
  BY <1>1, <1>2, NoReport
<1> QED BY <1>8, <1>12, <1>13, <1>14, <1>15, <1>16 DEF TInv

\* What a call finds behind its number.
LEMMA TableEntries ==
    ASSUME NEW id \in 0 .. 183
    PROVE  /\ id = 20 => syscall_table[id] = "sys_getpid"
           /\ id = 1 => syscall_table[id] = "sys_exit"
           /\ id \notin {1, 20} /\ syscall_table[id] # nop =>
                 syscall_table[id] \in file_calls \cup stat_calls \cup process_calls
                                        \cup {"sys_uname", "sys_gettimeofday"}
<1> DEFINE f == CASE id = 1 -> "sys_exit"   [] id = 2 -> "sys_fork"    [] id = 3 -> "sys_read"
               [] id = 4 -> "sys_write"  [] id = 5 -> "sys_open"    [] id = 6 -> "sys_close"
               [] id = 9 -> "sys_link"   [] id = 10 -> "sys_unlink" [] id = 11 -> "sys_execve"
               [] id = 12 -> "sys_chdir" [] id = 18 -> "sys_stat"   [] id = 19 -> "sys_lseek"
               [] id = 20 -> "sys_getpid" [] id = 28 -> "sys_fstat" [] id = 37 -> "sys_kill"
               [] id = 43 -> "sys_times" [] id = 45 -> "sys_brk"    [] id = 78 -> "sys_gettimeofday"
               [] id \in {59, 109, 122} -> "sys_uname"              [] id = 183 -> "sys_getcwd"
               [] OTHER -> nop
<1>1. syscall_table[id] = f
  BY Zenon DEF syscall_table
<1>2. id = 20 => f = "sys_getpid"
  OBVIOUS
<1>3. id = 1 => f = "sys_exit"
  OBVIOUS
<1>4. id \notin {1, 20} /\ f # nop =>
         f \in file_calls \cup stat_calls \cup process_calls
                  \cup {"sys_uname", "sys_gettimeofday"}
  BY DEF file_calls, stat_calls, process_calls
<1> HIDE DEF f
<1> QED BY <1>1, <1>2, <1>3, <1>4

\* The entry code of syscall.s; a number that has no function is answered
\* with -ENOSYS at once.
LEMMA CallEntryKeeps ==
    ASSUME TInv, syscall_entry
    PROVE  TInv'
<1> DEFINE d == Top.depth
           id == Top.was["eax"]
           found == syscall_table[regs["eax"]] # nop
           r == [regs EXCEPT !["ebx"] = 4, !["edx"] = 0, !["edi"] = IF found THEN Junk ELSE 0,
                             !["eax"] = IF found THEN KDATA - K64 ELSE -ENOSYS]
           pc == IF found THEN "body" ELSE "exit"
<1>1. /\ TrapsTypeOK /\ Controllers /\ Nesting /\ Saved /\ Answering /\ Reporting
      /\ ~halted /\ Top.pc = "entry" /\ Top.handler = SYSCALL
  BY DEF TInv, syscall_entry, Runs
<1>2. /\ stack' = pushed(stack, syscall_pushes)
      /\ regs' = IF found THEN Selectors(r) ELSE r
      /\ code' = Moved(pc)
      /\ UNCHANGED <<pic, raises, irq_handlers, interrupts, report, halted,
                     answer, actual_errno, calls>>
  BY Zenon DEF syscall_entry, controllers, results
<1>3. /\ Height > 1 /\ Top.cause = SYSCALL /\ (Height > 2 => Top.cause \in 0 .. 31)
  BY <1>1, InHandler
<1>4. /\ Height \in Nat /\ Height > 0 /\ Top = code[Height]
      /\ d \in Nat /\ Top.was \in Regs
  BY <1>1, TopFacts
<1>5. Height = 2 /\ SYSCALL \notin 0 .. 31 /\ SYSCALL \notin 32 .. 47 /\ ErrorCode(SYSCALL) = <<>>
  BY <1>3, <1>4 DEF SYSCALL, ErrorCode
<1>6. pc \in PCs /\ Allowed(Top, Height, pc) /\ pc # "entry"
  BY <1>3, <1>5 DEF PCs, Allowed
<1>7. regs \in Regs /\ regs = Top.was /\ Words(stack, d + 3) /\ stack[d + 3] = Eip - 1
  <2>1. GateWords(stack, d, <<>>) /\ regs = Top.was /\ stack[d + 3] = Eip - 1
    BY <1>1, <1>3, <1>5 DEF Saved
  <2>2. Len(stack) = d + 3
    BY <1>4, <2>1 DEF GateWords
  <2> QED BY <1>1, <1>4, <2>1, <2>2 DEF TrapsTypeOK, Words
<1>8. /\ answer \in Answer /\ ~answer.returned /\ answer.id = id
      /\ code[1].pc = "return"
  BY <1>1, <1>3, <1>5 DEF Answering
<1>9. id \in 0 .. 183
  BY <1>8, TrapsAssumption DEF Answer
<1>10. /\ found <=> syscall_table[id] # nop
       /\ id = 20 => found
  <2>1. id = 20 => syscall_table[id] = "sys_getpid"
    BY <1>9, TableEntries
  <2> QED BY <2>1, <1>7 DEF nop
<1>11. regs' \in Regs /\ (~found => regs'["eax"] = -ENOSYS)
  <2> DEFINE v == IF found THEN Junk ELSE 0
             w == IF found THEN KDATA - K64 ELSE -ENOSYS
             a == [regs EXCEPT !["ebx"] = 4]
             b == [a EXCEPT !["edx"] = 0]
             c == [b EXCEPT !["edi"] = v]
  <2>1. r = [c EXCEPT !["eax"] = w]
    OBVIOUS
  <2>2. v \in Int /\ w \in Int /\ (~found => w = -ENOSYS)
    BY DEF Junk, KDATA, K64, ENOSYS
  <2> HIDE DEF v, w, r, found
  <2>3. a \in Regs
    BY <1>7, NamesRegister DEF Regs
  <2> HIDE DEF a
  <2>4. b \in Regs
    BY <2>3, NamesRegister DEF Regs
  <2> HIDE DEF b
  <2>5. c \in Regs
    BY <2>2, <2>4 DEF Regs
  <2> HIDE DEF c
  <2>6. r \in Regs /\ r["eax"] = w
    BY <2>1, <2>2, <2>5, NamesRegister DEF Regs
  <2>7. Selectors(r) \in Regs
    BY <2>6, SelectorsType
  <2> QED BY <1>2, <2>2, <2>6, <2>7
<1> HIDE DEF r
<1>12. Nesting'
  <2> HIDE DEF pc
  <2> QED BY <1>1, <1>2, <1>3, <1>6, MovedNesting
<1>13. /\ Height' = Height /\ Top'.cause = Top.cause /\ Top'.was = Top.was
       /\ Top'.depth = d /\ Top'.pc = pc /\ Eip' = Eip
       /\ code'[1] = code[1]
  <2> HIDE DEF pc
  <2> QED BY <1>1, <1>2, <1>3, <1>6, <1>12, MovedTop
<1> HIDE DEF d
<1>14. stack' \in Seq(Int) /\ CallWords(stack', d, regs) /\ stack'[d + 3] = stack[d + 3]
  BY <1>2, <1>4, <1>7, CallPushes
<1>15. TrapsTypeOK'
  BY <1>1, <1>2, <1>11, <1>12, <1>14, TypesKept DEF TrapsTypeOK, Pics
<1>16. Controllers'
  <2>1. Ready => Ready'
    BY <1>2 DEF Ready
  <2> QED BY <2>1, <1>1, <1>2, <1>13 DEF Controllers
<1>17. Saved'
  <2>1. Len(stack') >= d + 3
    BY <1>4, <1>14 DEF CallWords
  <2> HIDE DEF pc
  <2> QED BY <2>1, <1>3, <1>5, <1>6, <1>7, <1>13, <1>14 DEF Saved
<1>18. Answering'
  <2>1. pc = "exit" => Result(regs["eax"])'
    BY <1>2, <1>8, <1>10, <1>11 DEF Result
  <2>2. CallsAnswer'
    BY <1>1, <1>2 DEF Answering, CallsAnswer
  <2>3. pc = "body" => syscall_table[Top.was["eax"]]' # nop
    BY <1>10, <1>13
  <2>4. Height' = 2 /\ Top'.cause \notin 32 .. 47 /\ Top'.cause = SYSCALL
    BY <1>3, <1>5, <1>13
  <2>5. answer' \in Answer /\ ~answer'.returned /\ answer'.id = Top'.was["eax"]
        /\ code'[1].pc = "return"
    BY <1>2, <1>8, <1>13
  <2> HIDE DEF Top, pc
  <2> QED BY <2>1, <2>2, <2>3, <2>4, <2>5, <1>13 DEF Answering
<1>19. Reporting'
  BY <1>1, <1>2, NoReport
<1> QED BY <1>12, <1>15, <1>16, <1>17, <1>18, <1>19 DEF TInv

\* The functions: only getpid has an answer, exit leaves eax as it is.
LEMMA CallBodyKeeps ==
    ASSUME TInv, syscall_body
    PROVE  TInv'
<1> DEFINE d == Top.depth
           id == Top.was["eax"]
           fn == syscall_table[id]
<1>1. /\ TrapsTypeOK /\ Controllers /\ Nesting /\ Saved /\ Answering /\ Reporting
      /\ ~halted /\ Top.pc = "body" /\ Top.handler = SYSCALL
  BY DEF TInv, syscall_body, Runs
<1>2. /\ regs' = CASE fn = "sys_getpid" -> Clobbered(0)
                   [] fn = "sys_exit" -> regs
                   [] fn \in file_calls \cup stat_calls \cup process_calls -> Clobbered(-ENOSYS)
                   [] fn \in {"sys_uname", "sys_gettimeofday"} -> Clobbered(-ENOSYS)
      /\ code' = Moved("exit")
      /\ UNCHANGED <<pic, raises, irq_handlers, interrupts, stack, report, halted,
                     answer, actual_errno, calls>>
  BY Zenon DEF syscall_body, controllers, results
<1>3. /\ Height > 1 /\ Top.cause = SYSCALL /\ (Height > 2 => Top.cause \in 0 .. 31)
  BY <1>1, InHandler
<1>4. /\ Height \in Nat /\ Height > 0 /\ Top = code[Height]
      /\ d \in Nat /\ Top.was \in Regs
  BY <1>1, TopFacts
<1>5. Height = 2 /\ SYSCALL \notin 0 .. 31 /\ SYSCALL \notin 32 .. 47
  BY <1>3, <1>4 DEF SYSCALL
<1>6. "exit" \in PCs /\ Allowed(Top, Height, "exit")
  BY <1>3, <1>5 DEF PCs, Allowed
<1>7. regs \in Regs /\ CallWords(stack, d, Top.was) /\ stack[d + 3] = Eip - 1
      /\ Len(stack) >= d + 3
  BY <1>1, <1>3, <1>5 DEF Saved, TrapsTypeOK, Regs
<1>8. /\ answer \in Answer /\ ~answer.returned /\ answer.id = id
      /\ code[1].pc = "return" /\ fn # nop
  BY <1>1, <1>3, <1>5 DEF Answering
<1>9. id \in 0 .. 183
  BY <1>8, TrapsAssumption DEF Answer
<1>10. regs' \in Regs /\ (id # 1 => regs'["eax"] = IF id = 20 THEN 0 ELSE -ENOSYS)
  <2>1. /\ id = 20 => fn = "sys_getpid"
        /\ id = 1 => fn = "sys_exit"
        /\ id \notin {1, 20} => fn \in file_calls \cup stat_calls \cup process_calls
                                         \cup {"sys_uname", "sys_gettimeofday"}
    BY <1>8, <1>9, TableEntries
  <2>2. /\ Clobbered(0) \in Regs /\ Clobbered(0)["eax"] = 0
        /\ Clobbered(-ENOSYS) \in Regs /\ Clobbered(-ENOSYS)["eax"] = -ENOSYS
    <3>1. 0 \in Int /\ -ENOSYS \in Int
      BY DEF ENOSYS
    <3> QED BY <3>1, <1>7, ClobberedType
  <2>3. /\ "sys_getpid" \notin file_calls \cup stat_calls \cup process_calls
        /\ "sys_exit" \notin file_calls \cup stat_calls \cup process_calls
    BY DEF file_calls, stat_calls, process_calls
  <2> DEFINE a == Clobbered(0)
             b == Clobbered(-ENOSYS)
             F == file_calls \cup stat_calls \cup process_calls
  <2> HIDE DEF fn, id, a, b, F
  <2>4. regs' = CASE fn = "sys_getpid" -> a [] fn = "sys_exit" -> regs
                  [] fn \in F -> b [] fn \in {"sys_uname", "sys_gettimeofday"} -> b
    BY <1>2, Zenon DEF a, b, F
  <2>5. CASE id = 20
    <3>1. regs' = a
      BY <2>1, <2>3, <2>4, <2>5 DEF F
    <3> QED BY <3>1, <2>2, <2>5 DEF a
  <2>6. CASE id = 1
    <3>1. regs' = regs
      BY <2>1, <2>3, <2>4, <2>6 DEF F
    <3> QED BY <3>1, <1>7, <2>6
  <2>7. CASE id \notin {1, 20}
    <3>1. fn \in F \/ fn \in {"sys_uname", "sys_gettimeofday"}
      BY <2>1, <2>7 DEF F
    <3>2. fn # "sys_getpid" /\ fn # "sys_exit"
      BY <2>3, <3>1 DEF F
    <3>3. regs' = b
      BY <2>4, <3>1, <3>2
    <3> QED BY <3>3, <2>2, <2>7 DEF b
  <2> QED BY <2>5, <2>6, <2>7
<1> HIDE DEF fn
<1>12. Nesting'
  BY <1>1, <1>2, <1>3, <1>6, MovedNesting
<1>13. /\ Height' = Height /\ Top'.cause = Top.cause /\ Top'.was = Top.was
       /\ Top'.depth = d /\ Top'.pc = "exit" /\ Eip' = Eip
       /\ code'[1] = code[1]
  BY <1>1, <1>2, <1>3, <1>6, <1>12, MovedTop
<1> HIDE DEF d
<1>15. TrapsTypeOK'
  <2>1. stack' \in Seq(Int)
    BY <1>1, <1>2 DEF TrapsTypeOK
  <2> QED BY <2>1, <1>1, <1>2, <1>10, <1>12, TypesKept DEF TrapsTypeOK, Pics
<1>16. Controllers'
  <2>1. Ready => Ready'
    BY <1>2 DEF Ready
  <2> QED BY <2>1, <1>1, <1>2, <1>13 DEF Controllers
<1>17. Saved'
  BY <1>2, <1>3, <1>5, <1>7, <1>13 DEF Saved
<1>18. Answering'
  <2>1. Result(regs["eax"])'
    BY <1>2, <1>8, <1>10 DEF Result
  <2>2. CallsAnswer'
    BY <1>1, <1>2 DEF Answering, CallsAnswer
  <2>4. Height' = 2 /\ Top'.cause \notin 32 .. 47 /\ Top'.cause = SYSCALL
    BY <1>3, <1>5, <1>13
  <2>5. answer' \in Answer /\ ~answer'.returned /\ answer'.id = Top'.was["eax"]
        /\ code'[1].pc = "return"
    BY <1>2, <1>8, <1>13
  <2> HIDE DEF Top
  <2> QED BY <2>1, <2>2, <2>4, <2>5, <1>13 DEF Answering
<1>19. Reporting'
  BY <1>1, <1>2, NoReport
<1> QED BY <1>12, <1>15, <1>16, <1>17, <1>18, <1>19 DEF TInv

\* A call comes back with what is in eax; the rest is as it was.
LEMMA CallReturns ==
    ASSUME TInv, syscall_exit
    PROVE  /\ TrapsTypeOK /\ Controllers /\ Nesting /\ Answering /\ Reporting /\ ~halted
           /\ Height = 2 /\ Height' = 1 /\ code'[1] = code[1] /\ code[1].pc # "boot"
           /\ Top = code[2] /\ Top.cause = SYSCALL /\ Top.depth = 0 /\ Top.pc = "exit"
           /\ Nesting' /\ stack' = <<>> /\ interrupts' \in BOOLEAN /\ regs' \in Regs
           /\ \A x \in Registers : regs'[x] = IF x = "eax" THEN regs[x] ELSE Top.was[x]
           /\ UNCHANGED <<pic, raises, irq_handlers, report, halted, answer, actual_errno,
                          calls>>
<1> DEFINE d == Top.depth
           c == Top.cause
<1>1. /\ TrapsTypeOK /\ Controllers /\ Nesting /\ Saved /\ Answering /\ Reporting
      /\ ~halted /\ Top.pc = "exit" /\ Top.handler = SYSCALL
  BY DEF TInv, syscall_exit, Runs
<1>2. /\ Leaves(stack, syscall_pops)
      /\ UNCHANGED <<pic, raises, irq_handlers, report, halted, answer, actual_errno, calls>>
  BY DEF syscall_exit, controllers, results
<1>3. Height > 1 /\ c = SYSCALL
  BY <1>1, InHandler
<1>4. c \notin 0 .. 31 /\ d \in Nat
  BY <1>1, <1>3, TopFacts DEF SYSCALL
<1>5. CallWords(stack, d, Top.was) /\ stack \in Seq(Int) /\ regs \in Regs
  BY <1>1, <1>3 DEF Saved, TrapsTypeOK, Regs
<1>6. /\ code' = Front(code) /\ stack' = SubSeq(stack, 1, d)
      /\ regs' \in Regs /\ interrupts' \in BOOLEAN
      /\ \A x \in Registers : regs'[x] = IF x = "eax" THEN regs[x] ELSE Top.was[x]
  <2> HIDE DEF c, d
  <2>1. d \in Nat /\ stack \in Seq(Int) /\ regs \in Regs /\ CallWords(stack, d, Top.was)
    BY <1>4, <1>5
  <2> QED BY <1>2, <2>1, CallPops
<1>7. Returned
  BY <1>6 DEF Returned
<1> QED BY <1>1, <1>2, <1>3, <1>4, <1>6, <1>7, LeavesNesting

LEMMA CallExitKeeps ==
    ASSUME TInv, syscall_exit
    PROVE  TInv'
<1>1. /\ TrapsTypeOK /\ Controllers /\ Nesting /\ Answering /\ Reporting /\ ~halted
      /\ Height = 2 /\ Height' = 1 /\ code'[1] = code[1] /\ code[1].pc # "boot"
      /\ Top.cause = SYSCALL /\ Top.pc = "exit"
      /\ Nesting' /\ stack' = <<>> /\ interrupts' \in BOOLEAN /\ regs' \in Regs
      /\ \A x \in Registers : regs'[x] = IF x = "eax" THEN regs[x] ELSE Top.was[x]
      /\ UNCHANGED <<pic, raises, irq_handlers, report, halted, answer, actual_errno, calls>>
  BY CallReturns
<1>2. TrapsTypeOK'
  <2>1. stack' \in Seq(Int)
    BY <1>1
  <2> QED BY <1>1, <2>1, TypesKept DEF TrapsTypeOK, Pics
<1>3. Controllers'
  <2>1. Ready => Ready'
    BY <1>1 DEF Ready
  <2> QED BY <2>1, <1>1 DEF Controllers
<1>4. Saved'
  BY <1>1 DEF Saved
<1>5. Answering'
  <2>1. regs'["eax"] = regs["eax"]
    BY <1>1, NamesRegister
  <2>2. Result(regs["eax"])'
    BY <1>1, <2>1 DEF Result, Answering
  <2>3. CallsAnswer' /\ (answer' # NULL => answer' \in Answer)
    BY <1>1 DEF Answering, CallsAnswer
  <2> QED BY <1>1, <2>2, <2>3 DEF Answering
<1>6. Reporting'
  BY <1>1, NoReport
<1> QED BY <1>1, <1>2, <1>3, <1>4, <1>5, <1>6 DEF TInv

\* The wrapper: the number that came back, or -1 and its errno.
LEMMA WrapperKeeps ==
    ASSUME TInv, syscall_returns
    PROVE  TInv'
<1> DEFINE x == regs["eax"]
           ret == IF x < 0 THEN -1 ELSE x
<1>1. /\ TrapsTypeOK /\ Controllers /\ Nesting /\ Saved /\ Answering /\ Reporting
      /\ ~halted /\ Top.pc = "return"
  BY DEF TInv, syscall_returns, Runs
<1>2. /\ answer' = [answer EXCEPT !.returned = TRUE, !.ret = ret]
      /\ actual_errno' = IF x < 0 THEN -x ELSE actual_errno
      /\ code' = Moved("run")
      /\ UNCHANGED <<pic, raises, irq_handlers, interrupts, regs, stack, report, halted, calls>>
  BY Zenon DEF syscall_returns, controllers
<1>3. Height = 1 /\ Top = code[1] /\ stack = <<>>
  BY <1>1, InThread
<1>4. Result(x)
  BY <1>1, <1>3 DEF Answering
<1>5. regs \in Regs /\ x \in Int /\ ret \in Int
  BY <1>1, NamesRegister DEF TrapsTypeOK, Regs
<1> HIDE DEF x
<1>6. /\ answer' \in Answer /\ answer'.returned /\ answer'.id = answer.id /\ answer'.ret = ret
  <2> DEFINE a == [answer EXCEPT !.returned = TRUE]
  <2> HIDE DEF ret
  <2>1. answer \in Answer
    BY <1>4 DEF Result
  <2>2. answer' = [a EXCEPT !.ret = ret]
    BY <1>2
  <2>3. a \in Answer /\ a.returned /\ a.id = answer.id
    BY <2>1 DEF Answer
  <2> HIDE DEF a
  <2> QED BY <1>5, <2>2, <2>3 DEF Answer
<1>7. CallsAnswer'
  <2>1. answer.id # 1 => x = IF answer.id = 20 THEN 0 ELSE -ENOSYS
    BY <1>4 DEF Result
  <2>2. actual_errno' = IF x < 0 THEN -x ELSE actual_errno
    BY <1>2
  <2>3. CASE answer'.id = 20
    BY <2>1, <2>3, <1>6 DEF CallsAnswer
  <2>4. CASE answer'.id # 1 /\ answer'.id # 20
    <3>1. x = -ENOSYS
      BY <2>1, <2>4, <1>6
    <3>2. x < 0 /\ -x = ENOSYS
      <4>1. ENOSYS \in Int /\ ENOSYS > 0
        BY DEF ENOSYS
      <4> QED BY <3>1, <4>1
    <3>3. actual_errno' = ENOSYS /\ answer'.ret = -1
      BY <2>2, <3>2, <1>6
    <3> QED BY <2>4, <3>3 DEF CallsAnswer
  <2>5. CASE answer'.id = 1
    BY <2>5 DEF CallsAnswer
  <2> QED BY <2>3, <2>4, <2>5
<1>8. "run" \in PCs /\ Allowed(Top, Height, "run")
  BY <1>3 DEF PCs, Allowed
<1>9. Nesting'
  BY <1>1, <1>2, <1>3, <1>8, MovedNesting
<1>10. Height' = 1 /\ Top'.pc = "run" /\ Top' = code'[1]
  <2>1. Height' = Height /\ Top'.pc = "run"
    BY <1>1, <1>2, <1>8, <1>9, MovedTop
  <2>2. code' \in Seq(Frame) /\ Height' > 0 /\ Height' = Len(code')
    BY <1>9 DEF Nesting, Height
  <2> QED BY <1>3, <2>1, <2>2 DEF Top, Last
<1>11. actual_errno' \in Int
  BY <1>1, <1>2, <1>5 DEF TrapsTypeOK
<1>12. TrapsTypeOK'
  BY <1>1, <1>2, <1>5, <1>9, <1>11, TypesKept DEF TrapsTypeOK, Pics
<1>13. Controllers'
  <2>1. Ready => Ready'
    BY <1>2 DEF Ready
  <2>2. code[1].pc # "boot" /\ code'[1].pc # "boot"
    BY <1>1, <1>3, <1>10
  <2> QED BY <2>1, <2>2, <1>1, <1>2, <1>10 DEF Controllers
<1>14. Saved'
  BY <1>10 DEF Saved
<1>15. Answering'
  <2> HIDE DEF Top
  <2> QED BY <1>6, <1>7, <1>10 DEF Answering
<1>16. Reporting'
  BY <1>1, <1>2, NoReport
<1> QED BY <1>9, <1>12, <1>13, <1>14, <1>15, <1>16 DEF TInv

LEMMA ErrorCodes ==
    ASSUME NEW v
    PROVE  /\ ErrorCode(v) = <<>> \/ ErrorCode(v) = <<5>>
           /\ v \in HasErrorCode => ErrorCode(v) = <<5>>
           /\ v \notin HasErrorCode => ErrorCode(v) = <<>>
           /\ <<5>> # <<>> /\ <<5>>[1] = 5
BY DEF ErrorCode, HasErrorCode

\* An exception may strike the thread and any handler's body.
LEMMA StrikesKeeps ==
    ASSUME TInv, exception_strikes
    PROVE  TInv'
<1>1. /\ TrapsTypeOK /\ Controllers /\ Nesting /\ Saved /\ Answering /\ Reporting
      /\ ~halted /\ Top.pc \in {"run", "body"}
      /\ UNCHANGED <<pic, raises, irq_handlers, report, halted, answer, actual_errno, calls>>
  BY DEF TInv, exception_strikes, Runs, controllers, results
<1>2. PICK v \in Faults : Enters(v, v, ErrorCode(v), regs, Top.pc)
  BY Zenon DEF exception_strikes
<1> DEFINE e == ErrorCode(v)
<1>3. v \in 0 .. 31 /\ v \in Vectors /\ v \notin 32 .. 47 /\ v # SYSCALL
  BY TrapsAssumption DEF Vectors, SYSCALL
<1>4. Height \in Nat /\ Height > 0 /\ Top = code[Height]
  BY <1>1, TopFacts
<1>5. Top.pc \in PCs /\ Top.pc # "boot" /\ (e = <<>> \/ e = <<5>>) /\ regs \in Regs
  BY <1>1, ErrorCodes DEF PCs, TrapsTypeOK, Regs
<1> HIDE DEF e
<1>6. Enters(v, v, e, regs, Top.pc)
  BY <1>2 DEF e
<1>7. Nesting'
  BY <1>1, <1>3, <1>5, <1>6, EntersNesting
<1>8. /\ stack' \in Seq(Int) /\ GateWords(stack', Len(stack), e)
      /\ stack'[Len(stack) + 3] = Eip /\ regs' = regs /\ interrupts' = FALSE
  <2>1. TrapsTypeOK /\ Nesting /\ v \in Vectors /\ Top.pc \in PCs
    BY <1>1, <1>3, <1>5
  <2> HIDE DEF Top
  <2> QED BY <2>1, <1>5, <1>6, EntersFacts
<1>9. /\ Height' = Height + 1 /\ Top'.cause = v /\ Top'.was = regs
      /\ Top'.depth = Len(stack) /\ Top'.pc = "entry" /\ Eip' - 1 = Eip
      /\ Height > 1 => code'[1] = code[1]
      /\ Height = 1 => code'[1].pc = Top.pc
  <2>1. TrapsTypeOK /\ Nesting /\ v \in Vectors /\ Top.pc \in PCs /\ regs \in Regs
    BY <1>1, <1>3, <1>5
  <2>2. e = <<>> \/ e = <<5>>
    BY <1>5
  <2> HIDE DEF Top
  <2> QED BY <2>1, <2>2, <1>6, <1>7, EntersTop
<1>10. TrapsTypeOK'
  BY <1>1, <1>5, <1>7, <1>8, TypesKept DEF TrapsTypeOK, Pics
<1>11. code'[1].pc # "boot" /\ code[1].pc # "boot"
  <2>1. CASE Height = 1
    BY <2>1, <1>4, <1>5, <1>9
  <2>2. CASE Height > 1
    <3>1. code[1].pc # "boot"
      BY <2>2, <1>1 DEF Nesting
    <3> QED BY <2>2, <3>1, <1>9
  <2> QED BY <2>1, <2>2, <1>4
<1>12. Controllers'
  <2>1. Ready => Ready'
    BY <1>1 DEF Ready
  <2> QED BY <2>1, <1>1, <1>8, <1>11 DEF Controllers
<1>13. Saved'
  <2>1. Len(stack') >= Len(stack) + 3
    <3>1. Len(e) \in Nat /\ Len(stack) \in Nat
      BY <1>1, <1>5 DEF TrapsTypeOK
    <3>2. Len(stack') = Len(stack) + 3 + Len(e)
      BY <1>8 DEF GateWords
    <3> QED BY <3>1, <3>2
  <2> QED BY <2>1, <1>3, <1>8, <1>9 DEF Saved, e
<1>14. Answering'
  <2>1. CallsAnswer' /\ (answer' # NULL => answer' \in Answer)
    BY <1>1 DEF Answering, CallsAnswer
  <2>2. Height' # 1
    BY <1>4, <1>9
  <2>3. Top'.cause \notin 32 .. 47 /\ Top'.cause # SYSCALL
    BY <1>3, <1>9
  <2> HIDE DEF Top
  <2> QED BY <2>1, <2>2, <2>3 DEF Answering
<1>15. Reporting'
  BY <1>1, NoReport
<1> QED BY <1>7, <1>10, <1>12, <1>13, <1>14, <1>15 DEF TInv

\* With the 0 in place of a missing error code all exceptions have one frame.
LEMMA ExcEntryKeeps ==
    ASSUME TInv, exc_entry
    PROVE  TInv'
<1> DEFINE d == Top.depth
           v == Top.cause
           s == IF v \in HasErrorCode THEN stack ELSE Append(stack, 0)
           c == Append(pushad(pushed(s, <<"ds", "es", "fs", "gs">>)), v)
<1>1. /\ TrapsTypeOK /\ Controllers /\ Nesting /\ Saved /\ Answering /\ Reporting
      /\ ~halted /\ Top.pc = "entry" /\ Top.handler \in 0 .. 31
  BY DEF TInv, exc_entry, Runs
<1>3. Height > 1 /\ Top.handler = v
  BY <1>1, InHandler
<1>2. /\ stack' = Append(c, Len(c))
      /\ regs' = Selectors(regs) /\ code' = Moved("body")
      /\ UNCHANGED <<pic, raises, irq_handlers, interrupts, report, halted,
                     answer, actual_errno, calls>>
  BY <1>3, Zenon DEF exc_entry, controllers, results
<1>4. /\ Height \in Nat /\ Height > 0 /\ Top = code[Height]
      /\ d \in Nat /\ Top.was \in Regs
  BY <1>1, TopFacts
<1>5. v \in 0 .. 31 /\ v \in Int /\ v \notin 32 .. 47 /\ v # SYSCALL
  BY <1>1, <1>3 DEF SYSCALL
<1>6. "body" \in PCs /\ Allowed(Top, Height, "body")
  BY <1>3, <1>4 DEF PCs, Allowed
<1>7. Nesting'
  BY <1>1, <1>2, <1>3, <1>6, MovedNesting
<1>8. /\ Height' = Height /\ Top'.cause = v /\ Top'.was = Top.was
      /\ Top'.depth = d /\ Top'.pc = "body" /\ Eip' = Eip
      /\ code'[1] = code[1]
  BY <1>1, <1>2, <1>3, <1>6, <1>7, MovedTop
<1>9. /\ regs = Top.was /\ GateWords(stack, d, ErrorCode(v))
      /\ stack[d + 3] = Eip - 1 /\ stack \in Seq(Int)
  BY <1>1, <1>3 DEF Saved, TrapsTypeOK
<1>10. regs \in Regs
  BY <1>4, <1>9
<1> HIDE DEF d, v
<1>11. /\ Words(s, d + 4) /\ s[d + 3] = stack[d + 3]
       /\ s[d + 4] = IF ErrorCode(v) = <<>> THEN 0 ELSE 5
  <2>1. CASE v \in HasErrorCode
    <3>1. ErrorCode(v) = <<5>> /\ <<5>> # <<>> /\ <<5>>[1] = 5 /\ Len(<<5>>) = 1
      BY <2>1, ErrorCodes
    <3>2. Len(stack) = d + 4 /\ stack[d + 4] = 5
      BY <1>4, <1>9, <3>1 DEF GateWords
    <3> QED BY <2>1, <3>1, <3>2, <1>9 DEF Words
  <2>2. CASE v \notin HasErrorCode
    <3>1. ErrorCode(v) = <<>>
      BY <2>2, ErrorCodes
    <3>2. Len(stack) = d + 3
      BY <1>4, <1>9, <3>1 DEF GateWords
    <3>3. Words(stack, d + 3) /\ d + 3 \in Nat /\ 0 \in Int
      BY <1>4, <1>9, <3>2 DEF Words
    <3>4. Added(s, stack, d + 3, 0)
      BY <2>2, <3>3, Appended
    <3> HIDE DEF s
    <3>5. Words(s, (d + 3) + 1) /\ s[(d + 3) + 1] = 0
          /\ \A i \in 1 .. d + 3 : s[i] = stack[i]
      BY <3>4 DEF Added
    <3> QED BY <1>4, <3>1, <3>5
  <2> QED BY <2>1, <2>2
<1> HIDE DEF s
<1>12. stack' \in Seq(Int) /\ ExcWords(stack', d, regs, v) /\ stack'[d + 3] = s[d + 3]
  BY <1>2, <1>4, <1>5, <1>10, <1>11, ExcPushes
<1>13. TrapsTypeOK'
  BY <1>1, <1>2, <1>7, <1>10, <1>12, TypesKept, SelectorsType DEF TrapsTypeOK, Pics
<1>14. Controllers'
  <2>1. Ready => Ready'
    BY <1>2 DEF Ready
  <2> QED BY <2>1, <1>1, <1>2, <1>8 DEF Controllers
<1>15. Saved'
  <2>1. Len(stack') >= d + 3
    BY <1>4, <1>12 DEF ExcWords
  <2> QED BY <2>1, <1>5, <1>8, <1>9, <1>11, <1>12 DEF Saved
<1>16. Answering'
  <2>1. CallsAnswer' /\ (answer' # NULL => answer' \in Answer)
    BY <1>1, <1>2 DEF Answering, CallsAnswer
  <2>2. Height' # 1 /\ Top'.cause \notin 32 .. 47 /\ Top'.cause # SYSCALL
    BY <1>3, <1>4, <1>5, <1>8
  <2> HIDE DEF Top
  <2> QED BY <2>1, <2>2 DEF Answering
<1>17. Reporting'
  BY <1>1, <1>2, NoReport
<1> QED BY <1>7, <1>13, <1>14, <1>15, <1>16, <1>17 DEF TInv

LEMMA Fifteen ==
    \A i \in 1 .. 15 : i = 1 \/ i = 2 \/ i = 3 \/ i = 4 \/ i = 5 \/ i = 6 \/ i = 7 \/ i = 8
                      \/ i = 9 \/ i = 10 \/ i = 11 \/ i = 12 \/ i = 13 \/ i = 14 \/ i = 15
OBVIOUS

LEMMA ContextNames ==
    /\ DOMAIN exc_context = 1 .. 15
    /\ exc_context[1] = "id" /\ exc_context[2] = "edi" /\ exc_context[3] = "esi"
    /\ exc_context[4] = "ebp" /\ exc_context[5] = "esp" /\ exc_context[6] = "ebx"
    /\ exc_context[7] = "edx" /\ exc_context[8] = "ecx" /\ exc_context[9] = "eax"
    /\ exc_context[10] = "gs" /\ exc_context[11] = "fs" /\ exc_context[12] = "es"
    /\ exc_context[13] = "ds" /\ exc_context[14] = "error_code" /\ exc_context[15] = "eip"
<1>1. DOMAIN exc_context = 1 .. 15
  BY DEF exc_context
<1> QED BY <1>1 DEF exc_context

\* Where exc_context has a field.
ContextPlace(n) ==
    CASE n = "id" -> 1 [] n = "edi" -> 2 [] n = "esi" -> 3 [] n = "ebp" -> 4
      [] n = "esp" -> 5 [] n = "ebx" -> 6 [] n = "edx" -> 7 [] n = "ecx" -> 8
      [] n = "eax" -> 9 [] n = "gs" -> 10 [] n = "fs" -> 11 [] n = "es" -> 12
      [] n = "ds" -> 13 [] n = "error_code" -> 14 [] n = "eip" -> 15

LEMMA ContextPlaces == \A i \in 1 .. 15 : ContextPlace(exc_context[i]) = i
<1>1. /\ ContextPlace("id") = 1 /\ ContextPlace("edi") = 2 /\ ContextPlace("esi") = 3
      /\ ContextPlace("ebp") = 4 /\ ContextPlace("esp") = 5 /\ ContextPlace("ebx") = 6
      /\ ContextPlace("edx") = 7 /\ ContextPlace("ecx") = 8 /\ ContextPlace("eax") = 9
      /\ ContextPlace("gs") = 10 /\ ContextPlace("fs") = 11 /\ ContextPlace("es") = 12
      /\ ContextPlace("ds") = 13 /\ ContextPlace("error_code") = 14
      /\ ContextPlace("eip") = 15
  BY DEF ContextPlace
<1> QED BY <1>1, Fifteen, ContextNames

\* The report shows what is that far above the pointer.
LEMMA Shown ==
    ASSUME NEW k \in 1 .. 15, NEW n, exc_context[k] = n, exc_handler
    PROVE  report'[n] = stack[Last(stack) + 1 - k]
<1> DEFINE pos(x) == CHOOSE i \in DOMAIN exc_context : exc_context[i] = x
<1>1. report' = [x \in {exc_context[i] : i \in DOMAIN exc_context} |->
                    stack[Last(stack) + 1 - pos(x)]]
  BY Zenon DEF exc_handler
<1>2. pos(n) = k
  <2>1. \A i \in DOMAIN exc_context : exc_context[i] = n => i = k
    BY ContextNames, ContextPlaces
  <2>2. k \in DOMAIN exc_context /\ exc_context[k] = n
    BY ContextNames
  <2> QED BY <2>1, <2>2
<1>3. n \in {exc_context[i] : i \in DOMAIN exc_context}
  BY ContextNames
<1> HIDE DEF pos
<1> QED BY <1>1, <1>2, <1>3

\* struct exc_context fits the frame, so the report is true.
LEMMA ReportKeeps ==
    ASSUME TInv, exc_handler
    PROVE  TInv'
<1> DEFINE d == Top.depth
           v == Top.cause
<1>1. /\ TrapsTypeOK /\ Controllers /\ Nesting /\ Saved
      /\ ~halted /\ Top.pc = "body" /\ Top.handler \in 0 .. 31
  BY DEF TInv, exc_handler, Runs
<1>2. /\ halted' = TRUE /\ interrupts' = FALSE
      /\ UNCHANGED <<pic, raises, irq_handlers, regs, stack, code, answer, actual_errno, calls>>
  BY DEF exc_handler, controllers, machine, results
<1>3. Height > 1 /\ Top.handler = v
  BY <1>1, InHandler
<1>4. ExcWords(stack, d, Top.was, v) /\ stack[d + 3] = Eip - 1 /\ d \in Nat
  BY <1>1, <1>3, TopFacts DEF Saved
<1>5. Nesting' /\ Saved' /\ Answering' /\ Height' = Height /\ Top' = Top /\ Eip' = Eip
  BY <1>2, MachineKept
<1> DEFINE r == Top.was
<1> HIDE DEF d, v, r
<1>6. /\ Last(stack) = d + 17
      /\ stack[d + 4] = IF ErrorCode(v) = <<>> THEN 0 ELSE 5
      /\ stack[d + 5] = r["ds"] /\ stack[d + 6] = r["es"] /\ stack[d + 7] = r["fs"]
      /\ stack[d + 8] = r["gs"]
      /\ stack[d + 9] = r["eax"] /\ stack[d + 10] = r["ecx"] /\ stack[d + 11] = r["edx"]
      /\ stack[d + 12] = r["ebx"] /\ stack[d + 14] = r["ebp"] /\ stack[d + 15] = r["esi"]
      /\ stack[d + 16] = r["edi"] /\ stack[d + 17] = v
  BY <1>4 DEF ExcWords, Last, r
<1>7. ASSUME NEW k \in 1 .. 15, NEW n, exc_context[k] = n
      PROVE  report'[n] = stack[d + 18 - k]
  <2>1. report'[n] = stack[Last(stack) + 1 - k]
    BY <1>7, Shown
  <2>2. Last(stack) + 1 - k = d + 18 - k
    BY <1>4, <1>6
  <2> QED BY <2>1, <2>2
<1>8. /\ report'["id"] = v
      /\ report'["error_code"] = IF ErrorCode(v) = <<>> THEN 0 ELSE 5
      /\ report'["eip"] = Eip - 1
  <2>1. /\ report'["id"] = stack[d + 18 - 1] /\ report'["error_code"] = stack[d + 18 - 14]
        /\ report'["eip"] = stack[d + 18 - 15]
    BY <1>7, ContextNames
  <2>2. d + 18 - 1 = d + 17 /\ d + 18 - 14 = d + 4 /\ d + 18 - 15 = d + 3
    BY <1>4
  <2> QED BY <2>1, <2>2, <1>4, <1>6
<1>9. ASSUME NEW x \in Registers PROVE report'[x] = r[x]
  <2>1. /\ report'["edi"] = stack[d + 18 - 2] /\ report'["esi"] = stack[d + 18 - 3]
        /\ report'["ebp"] = stack[d + 18 - 4] /\ report'["ebx"] = stack[d + 18 - 6]
        /\ report'["edx"] = stack[d + 18 - 7] /\ report'["ecx"] = stack[d + 18 - 8]
        /\ report'["eax"] = stack[d + 18 - 9] /\ report'["gs"] = stack[d + 18 - 10]
        /\ report'["fs"] = stack[d + 18 - 11] /\ report'["es"] = stack[d + 18 - 12]
        /\ report'["ds"] = stack[d + 18 - 13]
    BY <1>7, ContextNames
  <2>2. /\ d + 18 - 2 = d + 16 /\ d + 18 - 3 = d + 15 /\ d + 18 - 4 = d + 14
        /\ d + 18 - 6 = d + 12 /\ d + 18 - 7 = d + 11 /\ d + 18 - 8 = d + 10
        /\ d + 18 - 9 = d + 9 /\ d + 18 - 10 = d + 8 /\ d + 18 - 11 = d + 7
        /\ d + 18 - 12 = d + 6 /\ d + 18 - 13 = d + 5
    BY <1>4
  <2>3. /\ report'["edi"] = r["edi"] /\ report'["esi"] = r["esi"] /\ report'["ebp"] = r["ebp"]
        /\ report'["ebx"] = r["ebx"] /\ report'["edx"] = r["edx"] /\ report'["ecx"] = r["ecx"]
        /\ report'["eax"] = r["eax"] /\ report'["gs"] = r["gs"] /\ report'["fs"] = r["fs"]
        /\ report'["es"] = r["es"] /\ report'["ds"] = r["ds"]
    BY <2>1, <2>2, <1>6
  <2> QED BY <2>3, RegisterNames
<1>10. Reporting'
  <2>1. Top'.cause = v /\ Top'.was = r /\ Eip' = Eip
    BY <1>5 DEF v, r
  <2> HIDE DEF Top, Eip
  <2> QED BY <2>1, <1>2, <1>8, <1>9 DEF Reporting, ReportTrue
<1>11. TrapsTypeOK'
  BY <1>1, <1>2, <1>5, TypesKept DEF TrapsTypeOK, Pics, Regs
<1>12. Controllers'
  <2>1. Ready => Ready'
    BY <1>2 DEF Ready
  <2> QED BY <2>1, <1>1, <1>2, <1>5 DEF Controllers
<1> QED BY <1>5, <1>10, <1>11, <1>12 DEF TInv

-----------------------------------------------------------------------------
(* Traps: the theorems                                                     *)

LEMMA InitTInv == TrapsInit => TInv
<1> SUFFICES ASSUME TrapsInit PROVE TInv
  OBVIOUS
<1> DEFINE place(x) == CHOOSE i \in DOMAIN General : General[i] = x
           f == [handler |-> THREAD, cause |-> THREAD, pc |-> "boot", was |-> regs, depth |-> 0]
<1>1. /\ pic = [master |-> Reset, slave |-> Reset]
      /\ irq_handlers = [v \in 32 .. 47 |-> NULL]
      /\ interrupts = FALSE /\ halted = FALSE
      /\ regs = [x \in Registers |-> IF x \in Segments THEN KDATA ELSE place(x)]
      /\ stack = <<>> /\ code = <<f>> /\ report = NULL
      /\ answer = NULL /\ actual_errno = 0
      /\ calls = 0 /\ raises = [l \in Lines |-> 0]
  BY Zenon DEF TrapsInit
<1>2. regs \in Regs
  <2>1. ASSUME NEW x \in Registers, x \notin Segments PROVE place(x) \in Int
    <3>1. x \in Range(General)
      BY <2>1 DEF Registers
    <3>2. \E i \in DOMAIN General : General[i] = x
      BY <3>1 DEF Range
    <3>3. place(x) \in DOMAIN General
      BY <3>2
    <3>4. DOMAIN General = 1 .. 7
      BY DEF General
    <3> HIDE DEF place
    <3> QED BY <3>3, <3>4
  <2> HIDE DEF place
  <2> QED BY <1>1, <2>1 DEF Regs, KDATA
<1>3. f \in Frame /\ f.cause = THREAD /\ f.pc = "boot"
  BY <1>2 DEF Frame, PCs
<1> HIDE DEF f, place
<1>4. code \in Seq(Frame) /\ Len(code) = 1 /\ code[1] = f /\ code # <<>>
  BY <1>1, <1>3
<1>5. Height = 1
  BY <1>4 DEF Height
<1>6. Nesting
  BY <1>1, <1>3, <1>4, <1>5 DEF Nesting
<1>7. Reset \in Chip /\ Reset.irr = {}
  BY DEF Reset, Chip
<1>8. TrapsTypeOK
  <2>1. pic \in [master : Chip, slave : Chip]
    BY <1>1, <1>7
  <2>2. \A i \in DOMAIN code :
           /\ i > 1 => code[i].handler \in 0 .. 47 \cup {SYSCALL}
           /\ code[i].pc \in {"boot", "run", "return", "entry", "body", "served", "exit"}
    BY <1>3, <1>4
  <2>3. irq_handlers \in [32 .. 47 -> Drivers \cup {NULL}] /\ stack \in Seq(Int)
    BY <1>1
  <2>4. calls \in 0 .. MaxCalls /\ raises \in [Lines -> 0 .. MaxRaises]
    BY <1>1, TrapsAssumption
  <2>5. interrupts \in BOOLEAN /\ halted \in BOOLEAN /\ actual_errno \in Int
    <3>1. interrupts = FALSE /\ halted = FALSE /\ actual_errno = 0
      BY <1>1, Zenon
    <3>2. FALSE \in BOOLEAN /\ 0 \in Int
      OBVIOUS
    <3> QED BY <3>1, <3>2, Zenon
  <2>6. regs \in [Registers -> Int] /\ code # <<>>
    BY <1>2, <1>4 DEF Regs
  <2> QED BY <2>1, <2>2, <2>3, <2>4, <2>5, <2>6, Zenon DEF TrapsTypeOK
<1>9. Controllers
  BY <1>1, <1>3, <1>4, <1>7 DEF Controllers
<1>10. Saved
  BY <1>5 DEF Saved
<1>11. Answering
  BY <1>1, <1>3, <1>4, <1>5 DEF Answering, CallsAnswer
<1>12. Reporting
  BY <1>1 DEF Reporting, ReportTrue
<1> QED BY <1>6, <1>8, <1>9, <1>10, <1>11, <1>12 DEF TInv

LEMMA NextTInv == TInv /\ [TrapsNext]_trapvars => TInv'
<1> SUFFICES ASSUME TInv, [TrapsNext]_trapvars PROVE TInv'
  OBVIOUS
<1>1. CASE Step
  BY <1>1, SetupKeeps, IrqEntryKeeps, IrqBodyKeeps, IrqExitKeeps, CallEntryKeeps,
     CallBodyKeeps, CallExitKeeps, WrapperKeeps, ExcEntryKeeps, ReportKeeps DEF Step
<1>2. CASE irq_arrives
  BY <1>2, ArrivesKeeps
<1>3. CASE \E l \in Lines : raise(l)
  BY <1>3, RaiseKeeps
<1>4. CASE \E id \in Ids : __syscall(id)
  BY <1>4, CallKeeps
<1>5. CASE register_irq \/ unregister_irq
  BY <1>5, RegisterKeepsInv
<1>6. CASE exception_strikes
  BY <1>6, StrikesKeeps
<1>7. CASE UNCHANGED trapvars
  <2>1. /\ UNCHANGED <<pic, irq_handlers, interrupts, regs, stack, code, report, halted,
                       answer, actual_errno, calls, raises>>
    BY <1>7 DEF trapvars
  <2>2. Nesting' /\ Saved' /\ Answering' /\ Reporting' /\ Height' = Height
    BY <2>1, MachineKept
  <2>3. Controllers'
    <3>1. Ready => Ready'
      BY <2>1 DEF Ready
    <3> QED BY <3>1, <2>1, <2>2 DEF TInv, Controllers
  <2>4. TrapsTypeOK'
    <3>1. TrapsTypeOK
      BY DEF TInv
    <3> QED BY <3>1, <2>1, <2>2, TypesKept DEF TrapsTypeOK, Pics, Regs
  <2> QED BY <2>2, <2>3, <2>4 DEF TInv
<1> QED BY <1>1, <1>2, <1>3, <1>4, <1>5, <1>6, <1>7 DEF TrapsNext

LEMMA AlwaysTInv == TrapsSpec => []TInv
BY InitTInv, NextTInv, PTL DEF TrapsSpec

\* Whatever interrupts what, every vector reaches the handler that was
\* assembled for it, through an open gate of the kernel (setup_idt, pic_init,
\* exc.s, irq.s, syscall.s), and the variables keep their types.
THEOREM EveryOwnHandler == TrapsSpec => []OwnHandler
<1>1. TInv => OwnHandler
  <2> SUFFICES ASSUME TInv, NEW i \in 2 .. Len(code)
               PROVE  /\ TrapsTypeOK /\ code[i].handler = code[i].cause
                      /\ IsCode(idt[code[i].cause].selector)
                      /\ Privilege(idt[code[i].cause].selector) = 0
    BY DEF OwnHandler, TInv
  <2>1. TrapsTypeOK /\ Nesting
    BY DEF TInv
  <2>2. code[i].handler = code[i].cause /\ code[i].cause \in Vectors
    BY <2>1 DEF Nesting, Height
  <2> QED BY <2>1, <2>2, GateOpen
<1> QED BY <1>1, AlwaysTInv, PTL

\* A system call is answered by its own function, whatever interrupts it
\* between int $0x80 and the wrapper's look at eax.
THEOREM EveryCallAnswers == TrapsSpec => []CallsAnswer
<1>1. TInv => CallsAnswer
  BY DEF TInv, Answering
<1> QED BY <1>1, AlwaysTInv, PTL

\* struct exc_context lies over exactly what exc.s and the processor pushed,
\* with and without an error code, at any depth of nesting.
THEOREM EveryReportTrue == TrapsSpec => []ReportTrue
<1>1. TInv => ReportTrue
  BY DEF TInv, Reporting
<1> QED BY <1>1, AlwaysTInv, PTL

\* What ContextKept says of a step.
KeepsContext ==
    Len(code') < Len(code) =>
          /\ Len(stack') = Top.depth
          /\ \A x \in Registers :
                regs'[x] = Top.was[x] \/ (x = "eax" /\ Top.cause = SYSCALL)

LEMMA Longer ==
    ASSUME NEW S, NEW s \in Seq(S), NEW f
    PROVE  Len(Append(s, f)) = Len(s) + 1
OBVIOUS

\* Only iret makes the stack of handlers shorter.
LEMMA StepKeepsContext == TInv /\ [TrapsNext]_trapvars => KeepsContext
<1> SUFFICES ASSUME TInv, [TrapsNext]_trapvars PROVE KeepsContext
  OBVIOUS
<1>1. TrapsTypeOK /\ Nesting /\ Controllers
  BY DEF TInv
<1>2. CASE irq_exit
  <2>1. /\ stack' = <<>> /\ Top.depth = 0
        /\ \A x \in Registers : regs'[x] = Top.was[x]
    BY <1>2, IrqReturns
  <2> QED BY <2>1 DEF KeepsContext
<1>3. CASE syscall_exit
  <2>1. /\ stack' = <<>> /\ Top.depth = 0 /\ Top.cause = SYSCALL
        /\ \A x \in Registers : regs'[x] = IF x = "eax" THEN regs[x] ELSE Top.was[x]
    BY <1>3, CallReturns
  <2> QED BY <2>1 DEF KeepsContext
<1>4. CASE code' = code
  <2>1. ~(Len(code') < Len(code))
    BY <1>4, <1>1, TopFacts DEF Height
  <2> QED BY <2>1 DEF KeepsContext
<1>5. CASE \E pc \in PCs : code' = Moved(pc)
  <2>1. Len(code') = Len(code) /\ Len(code) \in Nat
    BY <1>1, <1>5, MovedFacts, TopFacts DEF Height
  <2>2. ~(Len(code') < Len(code))
    BY <2>1
  <2> QED BY <2>2 DEF KeepsContext
<1>6. CASE \E pc \in PCs : \E f : code' = Append(Moved(pc), f)
  <2>1. PICK pc \in PCs : \E f : code' = Append(Moved(pc), f)
    BY <1>6
  <2>2. PICK f : code' = Append(Moved(pc), f)
    BY <2>1
  <2>3. Moved(pc) \in Seq(Frame) /\ Len(Moved(pc)) = Len(code) /\ Len(code) \in Nat
    BY <1>1, MovedFacts, TopFacts DEF Height
  <2>4. Len(code') = Len(code) + 1
    BY <2>2, <2>3, Longer
  <2>5. ~(Len(code') < Len(code))
    BY <2>3, <2>4
  <2> QED BY <2>5 DEF KeepsContext
<1>7. ASSUME NEW gate, NEW v, NEW error, NEW r, NEW pc \in PCs, Enters(gate, v, error, r, pc)
      PROVE  \E q \in PCs : \E f : code' = Append(Moved(q), f)
  BY <1>7, Zenon DEF Enters
<1>8. Top.pc \in PCs
  BY <1>1, TopFacts DEF Frame
<1>9. CASE irq_arrives
  <2>1. \E gate, v : Enters(gate, v, <<>>, regs, Top.pc)
    BY <1>9, Zenon DEF irq_arrives
  <2> QED BY <2>1, <1>6, <1>7, <1>8
<1>10. CASE \E id \in Ids : __syscall(id)
  <2>1. \E r : Enters(SYSCALL, SYSCALL, <<>>, r, "return")
    BY <1>10, Zenon DEF __syscall
  <2>2. "return" \in PCs
    BY DEF PCs
  <2> QED BY <2>1, <2>2, <1>6, <1>7
<1>11. CASE exception_strikes
  <2>1. \E v : Enters(v, v, ErrorCode(v), regs, Top.pc)
    BY <1>11, Zenon DEF exception_strikes
  <2> QED BY <2>1, <1>6, <1>7, <1>8
<1>12. CASE \/ setup_idt \/ irq_entry \/ irq_handler_i686 \/ syscall_entry
            \/ syscall_body \/ syscall_returns \/ exc_entry
  <2>1. \E pc \in {"run", "body", "exit", "served"} : code' = Moved(pc)
    BY <1>12 DEF setup_idt, irq_entry, irq_handler_i686, syscall_entry, syscall_body,
                 syscall_returns, exc_entry
  <2> QED BY <2>1, <1>5 DEF PCs
<1>13. CASE \/ exc_handler \/ register_irq \/ unregister_irq \/ UNCHANGED trapvars
            \/ \E l \in Lines : raise(l)
  BY <1>13, <1>4 DEF exc_handler, register_irq, unregister_irq, raise, machine, trapvars
<1> QED BY <1>2, <1>3, <1>9, <1>10, <1>11, <1>12, <1>13 DEF TrapsNext, Step

\* Code that was interrupted, by whatever and through irq.s or syscall.s, goes
\* on with its stack and its registers as they were: each pop finds the word
\* of the push that it undoes.
THEOREM EveryContextKept == TrapsSpec => ContextKept
<1>1. TInv /\ [TrapsNext]_trapvars => [KeepsContext]_trapvars
  BY StepKeepsContext
<1>2. TrapsSpec => [][KeepsContext]_trapvars
  BY <1>1, AlwaysTInv, PTL DEF TrapsSpec
<1> QED BY <1>2 DEF ContextKept, KeepsContext

=============================================================================
