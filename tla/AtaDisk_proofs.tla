-------------------------- MODULE AtaDisk_proofs --------------------------
(***************************************************************************)
(* Proofs about AtaDisk for every width of the registers, every set of     *)
(* drives and every number of threads: the probe registers the disks that  *)
(* are there, the channels are kept apart, and a read that returns has     *)
(* the sectors it was asked for.                                           *)
(***************************************************************************)
EXTENDS AtaDisk, TLAPS

-----------------------------------------------------------------------------
(* Numbers and their bytes                                                 *)

LEMMA DivMod ==
    ASSUME NEW n \in Nat, NEW b \in Nat \ {0}
    PROVE  /\ n \div b \in Nat
           /\ (n % b) \in 0 .. b - 1
           /\ n = b * (n \div b) + (n % b)
OBVIOUS

LEMMA TimesMonotone ==
    ASSUME NEW a \in Nat, NEW b \in Nat, NEW c \in Nat \ {0}, a < b
    PROVE  c * a + c <= c * b
OBVIOUS

LEMMA DivLess ==
    ASSUME NEW n \in Nat, NEW b \in Nat \ {0}, NEW m \in Nat, n < b * m
    PROVE  n \div b < m
<1>1. n = b * (n \div b) + (n % b) /\ n \div b \in Nat /\ (n % b) \in 0 .. b - 1
  BY DivMod
<1>2. ASSUME ~(n \div b < m) PROVE FALSE
  <2>1. b * (n \div b) >= b * m
    BY <1>1, <1>2
  <2> QED BY <1>1, <2>1
<1> QED BY <1>1, <1>2

LEMMA DivUnique ==
    ASSUME NEW n \in Nat, NEW b \in Nat \ {0}, NEW q \in Nat, NEW r \in 0 .. b - 1, n = b * q + r
    PROVE  n \div b = q /\ (n % b) = r
<1> DEFINE p == n \div b
           s == n % b
<1>1. n = b * p + s /\ p \in Nat /\ s \in 0 .. b - 1
  BY DivMod
<1> HIDE DEF p, s
<1>2. ~(p < q)
  BY <1>1, TimesMonotone
<1>3. ~(q < p)
  BY <1>1, TimesMonotone
<1>4. p = q
  BY <1>1, <1>2, <1>3
<1>5. s = r
  BY <1>1, <1>4
<1> QED BY <1>4, <1>5 DEF p, s

LEMMA DivDiv ==
    ASSUME NEW n \in Nat, NEW b \in Nat \ {0}, NEW c \in Nat \ {0}
    PROVE  n \div (b * c) = (n \div b) \div c
<1> DEFINE q == n \div b
           s == n % b
           p == q \div c
           u == q % c
<1>1. n = b * q + s /\ q \in Nat /\ s \in 0 .. b - 1
  BY DivMod
<1>2. q = c * p + u /\ p \in Nat /\ u \in 0 .. c - 1
  BY <1>1, DivMod
<1> HIDE DEF q, s, p, u
<1>3. b * u + s \in 0 .. b * c - 1
  <2>1. b * u + b <= b * c
    BY <1>2, TimesMonotone
  <2> QED BY <1>1, <1>2, <2>1
<1>4. b * q = (b * c) * p + b * u
  BY <1>1, <1>2
<1>5. n = (b * c) * p + (b * u + s)
  BY <1>1, <1>2, <1>4
<1>6. b * c \in Nat \ {0}
  OBVIOUS
<1>7. n \div (b * c) = p
  BY <1>2, <1>3, <1>5, <1>6, DivUnique
<1> QED BY <1>7 DEF p, q

\* The four bytes that a drive reads of the six it is sent.
LEMMA OffsetBytes ==
    ASSUME NEW B \in Nat \ {0}, NEW o \in Nat, o < B * B * B * B
    PROVE  (o % B) + B * (((o \div B) % B) + B * (((o \div (B * B)) % B)
               + B * (((o \div (B * B * B)) % B) + B * (0 + B * 0)))) = o
<1> DEFINE q1 == o \div B
           q2 == o \div (B * B)
           q3 == o \div (B * B * B)
<1>1. B * B \in Nat \ {0} /\ B * B * B \in Nat \ {0}
  OBVIOUS
<1>2. q2 = q1 \div B /\ q3 = q2 \div B
  BY <1>1, DivDiv
<1>3. q1 \in Nat /\ q2 \in Nat /\ q3 \in Nat
  BY <1>1, DivMod
<1>4. q3 < B
  BY <1>1, DivLess
<1>5. (q3 % B) = q3
  <2>1. q3 = B * 0 + q3
    BY <1>3
  <2> HIDE DEF q3
  <2> QED BY <1>3, <1>4, <2>1, DivUnique
<1>6. o = B * q1 + (o % B) /\ (o % B) \in Nat
  BY DivMod
<1> HIDE DEF q1, q2, q3
<1>7. q1 = B * q2 + (q1 % B) /\ (q1 % B) \in Nat
  BY <1>2, <1>3, DivMod
<1>8. q2 = B * q3 + (q2 % B) /\ (q2 % B) \in Nat
  BY <1>2, <1>3, DivMod
<1>9. (o % B) + B * ((q1 % B) + B * ((q2 % B) + B * ((q3 % B) + B * (0 + B * 0)))) = o
  <2>1. (q3 % B) + B * (0 + B * 0) = q3
    BY <1>3, <1>5
  <2>2. (q2 % B) + B * ((q3 % B) + B * (0 + B * 0)) = q2
    BY <1>3, <1>8, <2>1
  <2>3. (q1 % B) + B * ((q2 % B) + B * ((q3 % B) + B * (0 + B * 0))) = q1
    BY <1>3, <1>7, <2>2
  <2> QED BY <1>3, <1>6, <2>3
<1> QED BY <1>9 DEF q1, q2, q3

\* The two bytes of a count; the largest is sent as 0.
LEMMA CountBytes ==
    ASSUME NEW B \in Nat \ {0}, NEW n \in 1 .. B * B,
           NEW m, m = (n % B) + B * ((n \div B) % B)
    PROVE  (IF m = 0 THEN B * B ELSE m) = n
<1> DEFINE q == n \div B
<1>1. n = B * q + (n % B) /\ q \in Nat /\ (n % B) \in 0 .. B - 1
  <2>1. n \in Nat
    OBVIOUS
  <2> QED BY <2>1, DivMod
<1>2. CASE n < B * B
  <2>1. q < B
    BY <1>2, DivLess
  <2>2. q \in 0 .. B - 1
    BY <1>1, <2>1
  <2> HIDE DEF q
  <2>3. (q % B) = q
    <3>1. q = B * 0 + q /\ q \in Nat
      BY <2>2
    <3> QED BY <2>2, <3>1, DivUnique
  <2>4. m = n
    BY <1>1, <2>3 DEF q
  <2> QED BY <2>4
<1>3. CASE n = B * B
  <2>1. n = B * B + 0
    BY <1>3
  <2>2. q = B /\ (n % B) = 0
    BY <2>1, DivUnique
  <2>3. B = B * 1 + 0
    OBVIOUS
  <2>4. (B % B) = 0
    BY <2>3, DivUnique
  <2>5. m = 0
    BY <2>2, <2>4
  <2> QED BY <1>3, <2>5
<1> QED BY <1>2, <1>3

-----------------------------------------------------------------------------
(* What the registers hold after j writes                                  *)

Low(n) == n % Byte
ByteOf(n, b) == (n \div b) % Byte

\* Of the nine writes before a read, and of the five before an IDENTIFY.
Sent(hd, rg, c, r, j) ==
    /\ j >= 1 => hd[c] = Drive(r.pos)
    /\ j >= 2 => rg[c]["scount"][1] = IF j < 6 THEN ByteOf(r.count, Byte) ELSE Low(r.count)
    /\ j >= 6 => rg[c]["scount"][2] = ByteOf(r.count, Byte)
    /\ j >= 3 => rg[c]["lbalo"][1] = IF j < 7 THEN ByteOf(r.offset, Byte * Byte * Byte) ELSE Low(r.offset)
    /\ j >= 7 => rg[c]["lbalo"][2] = ByteOf(r.offset, Byte * Byte * Byte)
    /\ j >= 4 => rg[c]["lbamid"][1] = IF j < 8 THEN 0 ELSE ByteOf(r.offset, Byte)
    /\ j >= 8 => rg[c]["lbamid"][2] = 0
    /\ j >= 5 => rg[c]["lbahi"][1] = IF j < 9 THEN 0 ELSE ByteOf(r.offset, Byte * Byte)
    /\ j >= 9 => rg[c]["lbahi"][2] = 0

IdSent(hd, rg, c, pos, j) ==
    /\ j >= 1 => hd[c] = Drive(pos)
    /\ j >= 4 => rg[c]["lbamid"][1] = 0
    /\ j >= 5 => rg[c]["lbahi"][1] = 0

Bytes == 0 .. Byte - 1
Heads == [Channels -> {0, 1}]
Contents == [Channels -> [Registers -> Bytes \X Bytes]]
Req == [pos : Positions, offset : 0 .. Byte * Byte * Byte * Byte - 1, count : 0 .. Byte * Byte]

\* One outb to a register that is not the drive's.
LEMMA OutbAt ==
    ASSUME head \in Heads, regs \in Contents, NEW c \in Channels, NEW out, outb(c, out)
    PROVE  /\ \A d \in Channels \ {c} : head'[d] = head[d] /\ regs'[d] = regs[d]
           /\ out[1] = "head" => regs' = regs /\ (out[2] \in {0, 1} => head' \in Heads) /\ head'[c] = out[2]
           /\ out[1] \in Registers =>
                 /\ head' = head
                 /\ out[2] \in Bytes => regs' \in Contents
                 /\ regs'[c][out[1]][1] = out[2] /\ regs'[c][out[1]][2] = regs[c][out[1]][1]
                 /\ \A x \in Registers \ {out[1]} : regs'[c][x] = regs[c][x]
<1>1. CASE out[1] = "head"
  BY <1>1 DEF outb, Heads, Registers
<1>2. CASE out[1] # "head"
  <2>1. head' = head /\ regs' = [regs EXCEPT ![c][out[1]] = <<out[2], regs[c][out[1]][1]>>]
    BY <1>2 DEF outb, Contents
  <2>2. ASSUME out[1] \in Registers
        PROVE  /\ regs'[c][out[1]] = <<out[2], regs[c][out[1]][1]>>
               /\ \A x \in Registers \ {out[1]} : regs'[c][x] = regs[c][x]
    BY <2>1, <2>2 DEF Contents
  <2>3. \A d \in Channels \ {c} : regs'[d] = regs[d]
    BY <2>1 DEF Contents
  <2>4. ASSUME out[1] \in Registers, out[2] \in Bytes PROVE regs' \in Contents
    <3>1. regs[c][out[1]][1] \in Bytes
      BY <2>4 DEF Contents
    <3>2. <<out[2], regs[c][out[1]][1]>> \in Bytes \X Bytes
      BY <2>4, <3>1
    <3> QED BY <2>1, <2>4, <3>2 DEF Contents
  <2> QED BY <1>2, <2>1, <2>2, <2>3, <2>4
<1> QED BY <1>1, <1>2

LEMMA BytesAre ==
    /\ Byte \in Nat \ {0, 1}
    /\ \A n \in Nat : Low(n) \in Bytes
    /\ \A n \in Nat, b \in Nat \ {0} : ByteOf(n, b) \in Bytes
    /\ Byte * Byte \in Nat \ {0} /\ Byte * Byte * Byte \in Nat \ {0}
<1>1. Byte \in Nat \ {0, 1}
  BY AtaAssumption
<1>2. \A n \in Nat : (n % Byte) \in 0 .. Byte - 1
  BY <1>1, DivMod
<1>3. \A n \in Nat, b \in Nat \ {0} : n \div b \in Nat
  BY DivMod
<1> QED BY <1>1, <1>2, <1>3 DEF Low, ByteOf, Bytes

LEMMA ReadOutsAt ==
    ASSUME NEW r \in Req, NEW j \in 0 .. 8
    PROVE  LET out == ReadOuts(r)[j + 1] IN
           /\ Len(ReadOuts(r)) = 9
           /\ j = 0 => out[1] = "head" /\ out[2] = Drive(r.pos)
           /\ j = 1 => out[1] = "scount" /\ out[2] = ByteOf(r.count, Byte)
           /\ j = 2 => out[1] = "lbalo" /\ out[2] = ByteOf(r.offset, Byte * Byte * Byte)
           /\ j = 3 => out[1] = "lbamid" /\ out[2] = 0
           /\ j = 4 => out[1] = "lbahi" /\ out[2] = 0
           /\ j = 5 => out[1] = "scount" /\ out[2] = Low(r.count)
           /\ j = 6 => out[1] = "lbalo" /\ out[2] = Low(r.offset)
           /\ j = 7 => out[1] = "lbamid" /\ out[2] = ByteOf(r.offset, Byte)
           /\ j = 8 => out[1] = "lbahi" /\ out[2] = ByteOf(r.offset, Byte * Byte)
BY DEF ReadOuts, Low, ByteOf

LEMMA ReadOutSent ==
    ASSUME head \in Heads, regs \in Contents, NEW r \in Req, NEW c \in Channels, NEW j \in 0 .. 8,
           Sent(head, regs, c, r, j), outb(c, ReadOuts(r)[j + 1])
    PROVE  /\ Sent(head', regs', c, r, j + 1)
           /\ head' \in Heads /\ regs' \in Contents
           /\ \A d \in Channels \ {c} : head'[d] = head[d] /\ regs'[d] = regs[d]
<1> DEFINE out == ReadOuts(r)[j + 1]
<1>1. Drive(r.pos) \in {0, 1} /\ r.count \in Nat /\ r.offset \in Nat
  BY BytesAre DEF Drive, Req, Positions
<1>2. ByteOf(r.count, Byte) \in Bytes /\ ByteOf(r.offset, Byte * Byte * Byte) \in Bytes /\ 0 \in Bytes
      /\ Low(r.count) \in Bytes /\ Low(r.offset) \in Bytes /\ ByteOf(r.offset, Byte) \in Bytes
      /\ ByteOf(r.offset, Byte * Byte) \in Bytes
  <2>1. Byte \in Nat \ {0} /\ 0 \in Bytes
    BY BytesAre DEF Bytes
  <2> QED BY <1>1, <2>1, BytesAre
<1>3. /\ j = 0 => out[1] = "head" /\ out[2] = Drive(r.pos)
      /\ j = 1 => out[1] = "scount" /\ out[2] = ByteOf(r.count, Byte)
      /\ j = 2 => out[1] = "lbalo" /\ out[2] = ByteOf(r.offset, Byte * Byte * Byte)
      /\ j = 3 => out[1] = "lbamid" /\ out[2] = 0
      /\ j = 4 => out[1] = "lbahi" /\ out[2] = 0
      /\ j = 5 => out[1] = "scount" /\ out[2] = Low(r.count)
      /\ j = 6 => out[1] = "lbalo" /\ out[2] = Low(r.offset)
      /\ j = 7 => out[1] = "lbamid" /\ out[2] = ByteOf(r.offset, Byte)
      /\ j = 8 => out[1] = "lbahi" /\ out[2] = ByteOf(r.offset, Byte * Byte)
  BY ReadOutsAt
<1> HIDE DEF out
<1>4. /\ \A d \in Channels \ {c} : head'[d] = head[d] /\ regs'[d] = regs[d]
      /\ out[1] = "head" => regs' = regs /\ (out[2] \in {0, 1} => head' \in Heads) /\ head'[c] = out[2]
      /\ out[1] \in Registers =>
            /\ head' = head
            /\ out[2] \in Bytes => regs' \in Contents
            /\ regs'[c][out[1]][1] = out[2] /\ regs'[c][out[1]][2] = regs[c][out[1]][1]
            /\ \A x \in Registers \ {out[1]} : regs'[c][x] = regs[c][x]
  <2>1. outb(c, out)
    BY DEF out
  <2> QED BY <2>1, OutbAt
<1>5. head' \in Heads /\ regs' \in Contents
  BY <1>1, <1>2, <1>3, <1>4 DEF Registers
<1>6. Sent(head', regs', c, r, j + 1)
  <2>1. CASE j = 0
    BY <1>3, <1>4, <2>1 DEF Sent
  <2>2. CASE j \in {1, 2, 3, 4}
    BY <1>3, <1>4, <2>2 DEF Sent, Registers
  <2>3. CASE j \in {5, 6, 7, 8}
    BY <1>3, <1>4, <2>3 DEF Sent, Registers
  <2> QED BY <2>1, <2>2, <2>3
<1> QED BY <1>4, <1>5, <1>6

\* What the selected drive reads.
LEMMA AllSent ==
    ASSUME NEW r \in Req, r.count > 0, NEW c \in Channels, c = Channel(r.pos), Sent(head, regs, c, r, 9)
    PROVE  Selected(c) = r.pos /\ Count(c) = r.count /\ Lba(c) = r.offset
<1>1. Selected(c) = r.pos
  BY DEF Sent, Selected, Channel, Drive, Req, Positions
<1>2. Count(c) = r.count
  <2>1. r.count \in 1 .. Byte * Byte
    BY BytesAre DEF Req
  <2> DEFINE m == (r.count % Byte) + Byte * ((r.count \div Byte) % Byte)
  <2>2. (IF m = 0 THEN Byte * Byte ELSE m) = r.count
    <3>1. Byte \in Nat \ {0}
      BY BytesAre
    <3>2. m = (r.count % Byte) + Byte * ((r.count \div Byte) % Byte)
      OBVIOUS
    <3> HIDE DEF m
    <3> QED BY <2>1, <3>1, <3>2, CountBytes
  <2>3. Last(c, "scount") + Byte * Before(c, "scount") = m
    BY DEF Sent, Last, Before, Low, ByteOf
  <2> HIDE DEF m
  <2> QED BY <2>2, <2>3 DEF Count
<1>3. Lba(c) = r.offset
  <2>1. r.offset \in Nat /\ r.offset < Byte * Byte * Byte * Byte
    BY BytesAre DEF Req
  <2>2. (r.offset % Byte) + Byte * (((r.offset \div Byte) % Byte) + Byte * (((r.offset \div (Byte * Byte)) % Byte)
            + Byte * (((r.offset \div (Byte * Byte * Byte)) % Byte) + Byte * (0 + Byte * 0)))) = r.offset
    BY <2>1, BytesAre, OffsetBytes
  <2>3. /\ Last(c, "lbalo") = (r.offset % Byte) /\ Before(c, "lbalo") = ((r.offset \div (Byte * Byte * Byte)) % Byte)
        /\ Last(c, "lbamid") = ((r.offset \div Byte) % Byte) /\ Before(c, "lbamid") = 0
        /\ Last(c, "lbahi") = ((r.offset \div (Byte * Byte)) % Byte) /\ Before(c, "lbahi") = 0
    BY DEF Sent, Last, Before, Low, ByteOf
  <2> QED BY <2>2, <2>3, Zenon DEF Lba
<1> QED BY <1>1, <1>2, <1>3

LEMMA IdentifyOutSent ==
    ASSUME head \in Heads, regs \in Contents, NEW pos \in Positions, NEW c \in Channels, NEW j \in 0 .. 4,
           IdSent(head, regs, c, pos, j), outb(c, IdentifyOuts(pos)[j + 1])
    PROVE  /\ IdSent(head', regs', c, pos, j + 1)
           /\ head' \in Heads /\ regs' \in Contents
           /\ \A d \in Channels \ {c} : head'[d] = head[d] /\ regs'[d] = regs[d]
           /\ Len(IdentifyOuts(pos)) = 5
<1> DEFINE out == IdentifyOuts(pos)[j + 1]
<1>1. Drive(pos) \in {0, 1} /\ 0 \in Bytes
  BY BytesAre DEF Drive, Positions, Bytes
<1>2. /\ j = 0 => out[1] = "head" /\ out[2] = Drive(pos)
      /\ j = 1 => out[1] = "scount" /\ out[2] = 0
      /\ j = 2 => out[1] = "lbalo" /\ out[2] = 0
      /\ j = 3 => out[1] = "lbamid" /\ out[2] = 0
      /\ j = 4 => out[1] = "lbahi" /\ out[2] = 0
      /\ Len(IdentifyOuts(pos)) = 5
  BY DEF IdentifyOuts
<1> HIDE DEF out
<1>3. /\ \A d \in Channels \ {c} : head'[d] = head[d] /\ regs'[d] = regs[d]
      /\ out[1] = "head" => regs' = regs /\ (out[2] \in {0, 1} => head' \in Heads) /\ head'[c] = out[2]
      /\ out[1] \in Registers =>
            /\ head' = head
            /\ out[2] \in Bytes => regs' \in Contents
            /\ regs'[c][out[1]][1] = out[2] /\ regs'[c][out[1]][2] = regs[c][out[1]][1]
            /\ \A x \in Registers \ {out[1]} : regs'[c][x] = regs[c][x]
  <2>1. outb(c, out)
    BY DEF out
  <2> QED BY <2>1, OutbAt
<1> QED BY <1>1, <1>2, <1>3 DEF IdSent, Registers

-----------------------------------------------------------------------------
(* The invariant                                                           *)

Identifying == {"identify", "id_command", "id_status", "id_signature", "id_data"}
Asked == {"id_status", "id_signature", "id_data"}
Taken == {"lock"} \cup Reading
Pcs == Identifying \cup Taken \cup {"idle"}

DriveState == [st : {"idle", "busy", "drq", "error"}, cmd : {"none", "identify", "read"},
               pos : Positions, next : Nat, left : 0 .. Byte * Byte]

Sectors(r, n) == [i \in 1 .. n |-> <<r.pos, r.offset + i - 1>>]

Shapes ==
    /\ attached \in [Positions -> Kinds]
    /\ head \in Heads /\ regs \in Contents
    /\ dev \in [Channels -> DriveState]
    /\ lock \in Threads \cup {Nobody}
    /\ type \in 0 .. 4
    /\ bd_list \in Seq(Positions)
    /\ pc \in [Threads -> Pcs]
    /\ k \in [Threads -> 0 .. 8]
    /\ req \in [Threads -> Req]
    /\ got \in [Threads -> Seq(Positions \X Nat)]

\* Only the boot thread runs while disks are probed, and then whoever holds
\* controller_lock; reads are for disks.
Turns == \A t \in Threads :
    /\ pc[t] \in Identifying => t = Boot /\ type < 4
    /\ type < 4 /\ t # Boot => pc[t] = "idle"
    /\ pc[t] \in Reading <=> lock = t
    /\ pc[t] \in Taken => /\ req[t].count > 0 /\ attached[req[t].pos] = "disk"
                          /\ type < 4 => req[t].pos = type
    /\ pc[t] \notin {"identify", "outs"} => k[t] = 0
    /\ pc[t] = "identify" => k[t] <= 4

\* A drive works only for the probe or for the read that holds the lock.
Owned == \A c \in Channels :
    dev[c].st \in {"busy", "drq"} =>
        \/ pc[Boot] \in Asked /\ Channel(type) = c
        \/ \E t \in Threads : pc[t] = "data" /\ Channel(req[t].pos) = c

Drivers == \A c \in Channels :
    /\ dev[c].st \in {"busy", "drq"} => dev[c].left > 0 /\ dev[c].cmd # "none"
    /\ dev[c].st = "drq" => attached[dev[c].pos] = "disk"

\* The probe of position type.
IdPart ==
    LET c == Channel(type) IN
    /\ pc[Boot] = "identify" => IdSent(head, regs, c, type, k[Boot])
    /\ pc[Boot] = "id_command" => IdSent(head, regs, c, type, 5)
    /\ pc[Boot] \in Asked =>
          /\ dev[c].st = "idle" => attached[type] = "none" /\ pc[Boot] = "id_status"
          /\ dev[c].st # "idle" => dev[c].pos = type /\ dev[c].cmd = "identify" /\ dev[c].left = 1
          /\ dev[c].st = "error" => attached[type] # "disk"
          /\ attached[type] = "disk" => regs[c]["lbamid"][1] = 0 /\ regs[c]["lbahi"][1] = 0
          /\ pc[Boot] = "id_data" => dev[c].st # "busy"

\* A read sets the registers, takes the sectors and has them.
OutsPart == \A t \in Threads :
    LET c == Channel(req[t].pos) IN
    /\ pc[t] = "outs" => Sent(head, regs, c, req[t], k[t])
    /\ pc[t] = "command" => Sent(head, regs, c, req[t], 9)

DataPart == \A t \in Threads :
    LET c == Channel(req[t].pos)
        n == Len(got[t])
    IN  /\ pc[t] \notin {"data", "unlock"} => got[t] = <<>>
        /\ pc[t] = "data" =>
              /\ got[t] = Sectors(req[t], n) /\ n < req[t].count
              /\ dev[c].st # "error" =>
                    /\ dev[c].st \in {"busy", "drq"} /\ dev[c].pos = req[t].pos
                    /\ dev[c].next = req[t].offset + n /\ dev[c].left = req[t].count - n
        /\ pc[t] = "unlock" => got[t] = Sectors(req[t], req[t].count)

Listed ==
    /\ \A i \in DOMAIN bd_list :
          /\ attached[bd_list[i]] = "disk"
          /\ bd_list[i] < type \/ (bd_list[i] = type /\ pc[Boot] \in Taken)
    /\ \A i, j \in DOMAIN bd_list : i < j => bd_list[i] < bd_list[j]
    /\ \A p \in Positions :
          attached[p] = "disk" /\ (p < type \/ (p = type /\ pc[Boot] \in Taken)) =>
              \E i \in DOMAIN bd_list : bd_list[i] = p

AInv == Shapes /\ Turns /\ Owned /\ Drivers /\ IdPart /\ OutsPart /\ DataPart /\ Listed

-----------------------------------------------------------------------------
(* What follows from it                                                    *)

\* One thread at most is in a read, and then the probe waits.
LEMMA OneReads ==
    ASSUME Shapes, Turns, NEW t \in Threads, NEW u \in Threads, pc[t] \in Reading
    PROVE  /\ pc[u] \in Reading => u = t
           /\ pc[u] \notin Identifying
           /\ type < 4 => t = Boot
<1>1. pc[u] \in Reading => u = t
  BY DEF Turns
<1>2. type < 4 => t = Boot
  BY DEF Turns, Reading
<1>3. ASSUME pc[u] \in Identifying PROVE FALSE
  BY <1>2, <1>3 DEF Turns, Reading, Identifying
<1> QED BY <1>1, <1>2, <1>3

LEMMA Quietness == AInv => ChannelQuiet
<1> SUFFICES ASSUME AInv, NEW t \in Threads
             PROVE  /\ pc[t] \in {"identify", "id_command"} => dev[Channel(type)].st \in {"idle", "error"}
                    /\ pc[t] \in {"outs", "command"} => dev[Channel(req[t].pos)].st \in {"idle", "error"}
  BY DEF ChannelQuiet
<1>1. \A c \in Channels : dev[c].st \in {"idle", "busy", "drq", "error"}
  BY DEF AInv, Shapes, DriveState
<1>2. Channel(type) \in Channels /\ Channel(req[t].pos) \in Channels
  BY DEF Channel, Channels
<1>3. ASSUME pc[t] \in {"identify", "id_command"} PROVE dev[Channel(type)].st \notin {"busy", "drq"}
  <2>1. t = Boot /\ type < 4
    BY <1>3 DEF AInv, Turns, Identifying
  <2>2. \A u \in Threads : pc[u] # "data"
    BY <1>3, <2>1 DEF AInv, Turns
  <2> QED BY <1>2, <1>3, <2>1, <2>2 DEF AInv, Owned, Asked
<1>4. ASSUME pc[t] \in {"outs", "command"} PROVE dev[Channel(req[t].pos)].st \notin {"busy", "drq"}
  <2>1. pc[t] \in Reading
    BY <1>4 DEF Reading
  <2>2. \A u \in Threads : pc[u] # "data" /\ pc[u] \notin Identifying
    BY <1>4, <2>1, OneReads DEF AInv, Reading
  <2> QED BY <1>2, <2>2, AtaAssumption DEF AInv, Owned, Asked, Identifying
<1> QED BY <1>1, <1>2, <1>3, <1>4

LEMMA Probing == AInv => ProbeExact
BY DEF AInv, Listed, ProbeExact

LEMMA RightReading == AInv => ReadRight
<1> SUFFICES ASSUME AInv PROVE ReadRight
  OBVIOUS
<1>1. \A t \in Threads : pc[t] = "unlock" =>
         got[t] = [i \in 1 .. req[t].count |-> <<req[t].pos, req[t].offset + i - 1>>]
  BY DEF AInv, DataPart, Sectors
<1>2. \A t \in Threads : Len(got[t]) <= req[t].count
  <2> SUFFICES ASSUME NEW t \in Threads PROVE Len(got[t]) <= req[t].count
    OBVIOUS
  <2>1. req[t].count \in Nat
    BY BytesAre DEF AInv, Shapes, Req
  <2>2. CASE pc[t] = "unlock"
    <3>1. got[t] = [i \in 1 .. req[t].count |-> <<req[t].pos, req[t].offset + i - 1>>]
      BY <1>1, <2>2
    <3>2. Len(got[t]) = req[t].count
      BY <2>1, <3>1
    <3> QED BY <2>1, <3>2
  <2>3. CASE pc[t] = "data"
    BY <2>1, <2>3 DEF AInv, Shapes, DataPart
  <2>4. CASE pc[t] \notin {"data", "unlock"}
    <3>1. got[t] = <<>>
      BY <2>4 DEF AInv, DataPart
    <3> QED BY <2>1, <3>1
  <2> QED BY <2>2, <2>3, <2>4
<1>3. \A c \in Channels :
         /\ dev[c].st \in {"idle", "busy", "drq", "error"}
         /\ dev[c].left \in 0 .. Byte * Byte /\ dev[c].next \in Nat
         /\ dev[c].st \in {"busy", "drq"} => dev[c].left > 0 /\ dev[c].cmd # "none"
  BY DEF AInv, Shapes, Drivers, DriveState
<1>4. pc \in [Threads -> Reading \cup {"idle", "lock", "identify", "id_command", "id_status",
                                        "id_signature", "id_data"}]
  BY DEF AInv, Shapes, Pcs, Taken, Identifying
<1>5. TypeOK
  BY <1>2, <1>3, <1>4 DEF AInv, Shapes, TypeOK, Heads, Contents, Bytes
<1> QED BY <1>1, <1>5 DEF ReadRight

LEMMA InitAInv == Init => AInv
<1> SUFFICES ASSUME Init PROVE AInv
  OBVIOUS
<1> USE AtaAssumption, BytesAre
<1>1. Mbr \in Req
  <2>1. 1 \in 0 .. Byte * Byte /\ 0 \in 0 .. Byte * Byte * Byte * Byte - 1
    OBVIOUS
  <2> QED BY <2>1 DEF Mbr, Req, Positions
<1>2. Quiet \in DriveState
  BY DEF Quiet, DriveState, Positions
<1>3. Shapes
  <2>1. regs \in Contents
    <3>1. 0 \in Bytes
      BY DEF Bytes
    <3> QED BY <3>1 DEF Init, Contents
  <2> QED BY <1>1, <1>2, <2>1 DEF Init, Shapes, Heads, Pcs, Identifying, Taken
<1>4. Turns
  BY DEF Init, Turns, Identifying, Taken, Reading
<1>5. Owned /\ Drivers
  BY DEF Init, Owned, Drivers, Quiet
<1>6. IdPart
  BY DEF Init, IdPart, IdSent, Asked
<1>7. OutsPart /\ DataPart
  BY DEF Init, OutsPart, DataPart
<1>8. Listed
  BY DEF Init, Listed, Taken, Reading, Positions
<1> QED BY <1>3, <1>4, <1>5, <1>6, <1>7, <1>8 DEF AInv

-----------------------------------------------------------------------------
(* The probe's steps                                                       *)

LEMMA ChannelIs ==
    \A pos : Channel(pos) \in Channels
BY DEF Channel, Channels

\* While disks are probed nobody reads.
LEMMA OnlyProbe ==
    ASSUME Shapes, Turns, NEW t \in Threads, pc[t] \in Identifying
    PROVE  /\ t = Boot /\ type \in Positions
           /\ \A u \in Threads : u # t => pc[u] = "idle"
           /\ \A u \in Threads : pc[u] \notin Taken
<1>1. t = Boot /\ type \in Positions
  BY DEF Turns, Shapes, Positions
<1>2. \A u \in Threads : u # t => pc[u] = "idle"
  BY <1>1 DEF Turns, Positions
<1> QED BY <1>1, <1>2 DEF Identifying, Taken, Reading

LEMMA IdentifyOutsKeeps ==
    ASSUME AInv, NEW t \in Threads, identify_outs(t) PROVE AInv'
<1> DEFINE c == Channel(type)
<1>1. /\ pc[t] = "identify" /\ outb(c, IdentifyOuts(type)[k[t] + 1])
      /\ UNCHANGED <<attached, dev, lock, type, bd_list, req, got>>
  BY DEF identify_outs, Outs
<1>2. Shapes /\ Turns /\ t = Boot /\ type \in Positions /\ \A u \in Threads : pc[u] \notin Taken
  BY <1>1, OnlyProbe DEF AInv, Identifying
<1>3. k[t] \in 0 .. 4 /\ c \in Channels
  <2>1. k[t] \in 0 .. 8 /\ k[t] <= 4
    BY <1>1, <1>2 DEF Turns, Shapes
  <2> QED BY <2>1, ChannelIs
<1>4. IdSent(head, regs, c, type, k[t])
  BY <1>1, <1>2 DEF AInv, IdPart
<1>5. /\ IdSent(head', regs', c, type, k[t] + 1) /\ head' \in Heads /\ regs' \in Contents
      /\ Len(IdentifyOuts(type)) = 5
  BY <1>1, <1>2, <1>3, <1>4, IdentifyOutSent DEF Shapes
<1>6. \/ /\ k[t] = 4 /\ pc' = [pc EXCEPT ![t] = "id_command"] /\ k' = [k EXCEPT ![t] = 0]
      \/ /\ k[t] < 4 /\ pc' = pc /\ k' = [k EXCEPT ![t] = k[t] + 1]
  BY <1>2, <1>3, <1>5 DEF identify_outs, Outs, Goto, Shapes
<1> HIDE DEF c
<1>7. Shapes'
  <2>1. pc' \in [Threads -> Pcs]
    BY <1>2, <1>6 DEF Shapes, Pcs, Identifying
  <2>2. \E n \in 0 .. 8 : k' = [k EXCEPT ![t] = n]
    <3>1. k[t] + 1 \in 0 .. 8 /\ 0 \in 0 .. 8
      BY <1>3
    <3> QED BY <1>6, <3>1
  <2>3. k' \in [Threads -> 0 .. 8]
    BY <1>2, <2>2 DEF Shapes
  <2> QED BY <1>1, <1>2, <1>5, <2>1, <2>3 DEF Shapes
<1>8. Turns'
  BY <1>1, <1>2, <1>3, <1>6 DEF Turns, Shapes, Identifying, Taken, Reading
<1>9. Owned'
  BY <1>1, <1>2, <1>6 DEF AInv, Owned, Shapes, Asked
<1>10. Drivers'
  BY <1>1 DEF AInv, Drivers
<1>11. IdPart'
  <2>1. IdSent(head', regs', Channel(type'), type', k[t] + 1)
    BY <1>1, <1>5 DEF c
  <2>2. pc'[Boot] \in {"identify", "id_command"} /\ pc'[Boot] \notin Asked
    BY <1>1, <1>2, <1>6 DEF Shapes, Asked
  <2>3. pc'[Boot] = "id_command" => k[t] + 1 = 5
    BY <1>1, <1>2, <1>6 DEF Shapes
  <2>4. pc'[Boot] = "identify" => k'[Boot] = k[t] + 1
    BY <1>1, <1>2, <1>3, <1>6 DEF Shapes
  <2> QED BY <2>1, <2>2, <2>3, <2>4 DEF IdPart
<1>12. \A u \in Threads : pc'[u] \notin Taken
  BY <1>2, <1>6 DEF Shapes, Taken, Reading
<1>13. OutsPart' /\ DataPart'
  BY <1>1, <1>2, <1>12 DEF AInv, OutsPart, DataPart, Taken, Reading
<1>14. Listed'
  BY <1>1, <1>2, <1>12, AtaAssumption DEF AInv, Listed
<1> QED BY <1>7, <1>8, <1>9, <1>10, <1>11, <1>13, <1>14 DEF AInv

LEMMA IdentifyCommandKeeps ==
    ASSUME AInv, NEW t \in Threads, identify_command(t) PROVE AInv'
<1> DEFINE c == Channel(type)
           D == Commanded(c, "identify")
<1>1. /\ pc[t] = "id_command" /\ dev' = [dev EXCEPT ![c] = D]
      /\ pc' = [pc EXCEPT ![t] = "id_status"] /\ k' = [k EXCEPT ![t] = 0]
      /\ UNCHANGED <<attached, head, regs, lock, type, bd_list, req, got>>
  BY DEF identify_command, Goto
<1>2. Shapes /\ Turns /\ t = Boot /\ type \in Positions /\ \A u \in Threads : pc[u] \notin Taken
  BY <1>1, OnlyProbe DEF AInv, Identifying
<1>3. c \in Channels /\ IdSent(head, regs, c, type, 5)
  BY <1>1, <1>2, ChannelIs DEF AInv, IdPart
<1>4. Selected(c) = type
  BY <1>2, <1>3 DEF IdSent, Selected, Channel, Drive, Positions
<1>5. /\ D \in DriveState
      /\ attached[type] = "none" => D.st = "idle"
      /\ attached[type] # "none" =>
            D.st = "busy" /\ D.pos = type /\ D.cmd = "identify" /\ D.left = 1
  <2>1. 1 \in 0 .. Byte * Byte /\ 0 \in 0 .. Byte * Byte
    BY BytesAre
  <2> QED BY <1>2, <1>4, <2>1 DEF Commanded, Quiet, DriveState, Positions
<1> HIDE DEF c, D
<1>6. Shapes'
  <2>1. pc' \in [Threads -> Pcs] /\ k' \in [Threads -> 0 .. 8]
    BY <1>1, <1>2 DEF Shapes, Pcs, Identifying
  <2>2. dev' \in [Channels -> DriveState]
    BY <1>1, <1>2, <1>5 DEF Shapes
  <2> QED BY <1>1, <1>2, <2>1, <2>2 DEF Shapes
<1>7. Turns'
  BY <1>1, <1>2 DEF Turns, Shapes, Identifying, Taken, Reading
<1>8. pc'[Boot] = "id_status" /\ dev'[c] = D /\ \A d \in Channels \ {c} : dev'[d] = dev[d]
  BY <1>1, <1>2, <1>3 DEF Shapes
<1>9. Owned'
  <2>1. \A d \in Channels : dev[d].st \notin {"busy", "drq"}
    BY <1>1, <1>2 DEF AInv, Owned, Asked, Taken, Reading
  <2>2. Channel(type') = c
    BY <1>1 DEF c
  <2> QED BY <1>8, <2>1, <2>2 DEF Owned, Asked
<1>10. Drivers'
  BY <1>1, <1>5, <1>8 DEF AInv, Drivers
<1>11. IdPart'
  <2>1. c = Channel(type')
    BY <1>1 DEF c
  <2> QED BY <1>1, <1>3, <1>5, <1>8, <2>1 DEF IdPart, IdSent, Asked
<1>12. \A u \in Threads : pc'[u] \notin Taken
  BY <1>1, <1>2 DEF Shapes, Taken, Reading
<1>13. OutsPart' /\ DataPart'
  BY <1>1, <1>2, <1>12 DEF AInv, OutsPart, DataPart, Taken, Reading
<1>14. Listed'
  BY <1>1, <1>2, <1>12, AtaAssumption DEF AInv, Listed
<1> QED BY <1>6, <1>7, <1>9, <1>10, <1>11, <1>13, <1>14 DEF AInv

\* The loop of the probe goes on, with no drive at work.
LEMMA NextTypeKeeps ==
    ASSUME AInv, type < 4, NextType(Boot), UNCHANGED <<attached, head, regs, dev, bd_list>>,
           \A u \in Threads \ {Boot} : pc[u] = "idle",
           \A c \in Channels : dev[c].st \notin {"busy", "drq"},
           lock' = Nobody, req' \in [Threads -> Req], got' \in [Threads -> Seq(Positions \X Nat)],
           \A u \in Threads : got'[u] = <<>>,
           attached[type] = "disk" => \E i \in DOMAIN bd_list : bd_list[i] = type
    PROVE  AInv'
<1>1. /\ type' = type + 1 /\ k' = [k EXCEPT ![Boot] = 0]
      /\ pc' = [pc EXCEPT ![Boot] = IF type = 3 THEN "idle" ELSE "identify"]
  BY DEF NextType, Goto
<1>2. Shapes /\ Boot \in Threads /\ Nobody \notin Threads
  BY AtaAssumption DEF AInv
<1>3. pc'[Boot] \in {"idle", "identify"} /\ (pc'[Boot] = "identify" => type' < 4)
      /\ \A u \in Threads \ {Boot} : pc'[u] = "idle"
  BY <1>1, <1>2 DEF Shapes
<1>4. Shapes'
  <2>1. pc' \in [Threads -> Pcs] /\ k' \in [Threads -> 0 .. 8]
    BY <1>1, <1>2 DEF Shapes, Pcs, Identifying
  <2>2. type' \in 0 .. 4
    BY <1>1, <1>2 DEF Shapes
  <2> QED BY <1>2, <2>1, <2>2 DEF Shapes
<1>5. k'[Boot] = 0 /\ \A u \in Threads \ {Boot} : k'[u] = k[u]
  BY <1>1, <1>2 DEF Shapes
<1>6. Turns'
  BY <1>2, <1>3, <1>5 DEF AInv, Turns, Identifying, Taken, Reading
<1>7. Owned' /\ Drivers'
  BY DEF AInv, Owned, Drivers
<1>8. IdPart'
  BY <1>3, <1>5 DEF IdPart, IdSent, Asked
<1>9. OutsPart' /\ DataPart'
  BY <1>3 DEF OutsPart, DataPart
<1>10. Listed'
  <2>1. \A i \in DOMAIN bd_list : bd_list[i] <= type /\ bd_list[i] \in Positions
    BY <1>2 DEF AInv, Listed, Shapes, Positions
  <2>2. \A i \in DOMAIN bd_list : bd_list[i] < type'
    <3>1. type \in Nat
      BY <1>2 DEF Shapes
    <3>2. \A p \in Positions : p <= type => p < type + 1
      BY <3>1 DEF Positions
    <3> QED BY <1>1, <2>1, <3>2
  <2>3. \A p \in Positions : p < type' => p < type \/ p = type
    BY <1>1, <1>2 DEF Shapes, Positions
  <2>4. pc'[Boot] \notin Taken
    BY <1>3 DEF Taken, Reading
  <2> QED BY <2>2, <2>3, <2>4 DEF AInv, Listed
<1> QED BY <1>4, <1>6, <1>7, <1>8, <1>9, <1>10 DEF AInv

\* Among the probe's steps these end the look at a position.
LEMMA AskedKeeps ==
    ASSUME AInv, NEW t \in Threads, pc[t] \in Asked, NextType(t), attached[type] # "disk",
           dev[Channel(type)].st \notin {"busy", "drq"},
           UNCHANGED <<attached, head, regs, dev, lock, bd_list, req, got>>
    PROVE  AInv'
<1>1. Shapes /\ Turns /\ t = Boot /\ type \in Positions /\ (\A u \in Threads : pc[u] \notin Taken)
      /\ \A u \in Threads : u # Boot => pc[u] = "idle"
  BY OnlyProbe DEF AInv, Identifying, Asked
<1>2. \A c \in Channels : dev[c].st \notin {"busy", "drq"}
  BY <1>1 DEF AInv, Owned, Taken, Reading
<1>3. lock = Nobody
  BY <1>1 DEF Shapes, Turns, Taken
<1>4. \A u \in Threads : got[u] = <<>>
  BY <1>1 DEF AInv, DataPart, Taken, Reading
<1>5. type < 4
  BY <1>1 DEF Positions
<1> QED BY <1>1, <1>2, <1>3, <1>4, <1>5, NextTypeKeeps DEF Shapes

\* And these wait for more.
LEMMA LookKeeps ==
    ASSUME AInv, NEW t \in Threads, NEW to \in Asked, pc[t] \in Asked, Goto(t, to),
           dev[Channel(type)].st # "idle", to = "id_data" => dev[Channel(type)].st # "busy",
           UNCHANGED <<attached, head, regs, dev, lock, type, bd_list, req, got>>
    PROVE  AInv'
<1>1. Shapes /\ Turns /\ t = Boot /\ type \in Positions /\ \A u \in Threads : pc[u] \notin Taken
  BY OnlyProbe DEF AInv, Identifying, Asked
<1>2. pc' = [pc EXCEPT ![t] = to] /\ k' = [k EXCEPT ![t] = 0]
  BY DEF Goto
<1>3. to \in Pcs \ ({"identify", "outs", "id_command", "idle"} \cup Taken) /\ to \in Identifying
  BY DEF Asked, Pcs, Identifying, Taken, Reading
<1>4. pc'[Boot] = to /\ \A u \in Threads : u # t => pc'[u] = pc[u] /\ k'[u] = k[u]
  BY <1>1, <1>2 DEF Shapes
<1>5. Shapes'
  <2>1. pc' \in [Threads -> Pcs] /\ k' \in [Threads -> 0 .. 8]
    BY <1>1, <1>2, <1>3 DEF Shapes
  <2> QED BY <1>1, <2>1 DEF Shapes
<1>6. \A u \in Threads : pc'[u] \notin Taken
  BY <1>1, <1>3, <1>4
<1>7. Turns'
  <2>1. k'[t] = 0
    BY <1>1, <1>2 DEF Shapes
  <2>2. \A u \in Threads : lock # u
    BY <1>1 DEF Turns, Taken
  <2> QED BY <1>1, <1>3, <1>4, <1>6, <2>1, <2>2 DEF Turns, Taken, Positions
<1>8. Owned' /\ Drivers'
  BY <1>1, <1>4 DEF AInv, Owned, Drivers, Taken, Reading
<1>9. IdPart'
  BY <1>1, <1>3, <1>4 DEF AInv, IdPart, Asked
<1>10. OutsPart' /\ DataPart'
  BY <1>1, <1>6 DEF AInv, OutsPart, DataPart, Taken, Reading
<1>11. Listed'
  BY <1>1, <1>6, AtaAssumption DEF AInv, Listed
<1> QED BY <1>5, <1>7, <1>8, <1>9, <1>10, <1>11 DEF AInv

LEMMA IdentifyStatusKeeps ==
    ASSUME AInv, NEW t \in Threads, identify_status(t) PROVE AInv'
<1>1. pc[t] = "id_status" /\ UNCHANGED <<attached, head, regs, dev, lock, bd_list, req, got>>
  BY DEF identify_status
<1>2. t = Boot /\ type \in Positions
  BY <1>1, OnlyProbe DEF AInv, Identifying
<1>3. CASE dev[Channel(type)].st = "idle"
  <2>1. attached[type] = "none"
    BY <1>1, <1>2, <1>3 DEF AInv, IdPart, Asked
  <2>2. NextType(t)
    BY <1>3 DEF identify_status
  <2> QED BY <1>1, <1>3, <2>1, <2>2, AskedKeeps DEF Asked
<1>4. CASE dev[Channel(type)].st # "idle"
  <2>1. Goto(t, "id_signature") /\ UNCHANGED type
    BY <1>4 DEF identify_status
  <2> QED BY <1>1, <1>4, <2>1, LookKeeps DEF Asked
<1> QED BY <1>3, <1>4

LEMMA IdentifySignatureKeeps ==
    ASSUME AInv, NEW t \in Threads, identify_signature(t) PROVE AInv'
<1> DEFINE c == Channel(type)
<1>1. pc[t] = "id_signature" /\ dev[c].st # "busy"
      /\ UNCHANGED <<attached, head, regs, dev, lock, bd_list, req, got>>
  BY DEF identify_signature
<1>2. t = Boot /\ type \in Positions
  BY <1>1, OnlyProbe DEF AInv, Identifying
<1>3. CASE Last(c, "lbamid") # 0 \/ Last(c, "lbahi") # 0
  <2>1. attached[type] # "disk"
    BY <1>1, <1>2, <1>3 DEF AInv, IdPart, Asked, Last
  <2>2. NextType(t)
    BY <1>3 DEF identify_signature
  <2>3. dev[c].st # "drq"
    BY <1>1, <1>2, <2>1, ChannelIs DEF AInv, IdPart, Drivers, Asked
  <2> QED BY <1>1, <2>1, <2>2, <2>3, AskedKeeps DEF Asked
<1>4. CASE ~(Last(c, "lbamid") # 0 \/ Last(c, "lbahi") # 0)
  <2>1. Goto(t, "id_data") /\ UNCHANGED type
    BY <1>4 DEF identify_signature
  <2>2. dev[c].st # "idle"
    BY <1>1, <1>2 DEF AInv, IdPart, Asked
  <2> QED BY <1>1, <2>1, <2>2, LookKeeps DEF Asked
<1> QED BY <1>3, <1>4

LEMMA IdentifyErrorKeeps ==
    ASSUME AInv, NEW t \in Threads, identify_error(t) PROVE AInv'
<1>1. pc[t] = "id_data" /\ dev[Channel(type)].st = "error" /\ NextType(t)
      /\ UNCHANGED <<attached, head, regs, dev, lock, bd_list, req, got>>
  BY DEF identify_error
<1>2. t = Boot
  BY <1>1, OnlyProbe DEF AInv, Identifying
<1>3. attached[type] # "disk"
  BY <1>1, <1>2 DEF AInv, IdPart, Asked
<1> QED BY <1>1, <1>3, AskedKeeps DEF Asked

\* The disk is registered, and the boot thread goes for its first sector.
LEMMA IdentifyDataKeeps ==
    ASSUME AInv, NEW t \in Threads, identify_data(t) PROVE AInv'
<1> DEFINE c == Channel(type)
<1>1. /\ pc[t] = "id_data" /\ dev[c].st = "drq"
      /\ dev' = [dev EXCEPT ![c] = Transferred(dev[c])]
      /\ bd_list' = Append(bd_list, type)
      /\ req' = [req EXCEPT ![t] = [Mbr EXCEPT !.pos = type]]
      /\ pc' = [pc EXCEPT ![t] = "lock"] /\ k' = [k EXCEPT ![t] = 0]
      /\ UNCHANGED <<attached, head, regs, lock, type, got>>
  BY DEF identify_data, Goto
<1>2. Shapes /\ Turns /\ t = Boot /\ type \in Positions /\ (\A u \in Threads : pc[u] \notin Taken)
      /\ \A u \in Threads : u # t => pc[u] = "idle"
  BY <1>1, OnlyProbe DEF AInv, Identifying
<1>3. dev[c].pos = type /\ dev[c].left = 1 /\ c \in Channels /\ attached[type] = "disk"
  <2>1. dev[c].pos = type /\ dev[c].left = 1 /\ c \in Channels
    BY <1>1, <1>2, ChannelIs DEF AInv, IdPart, Asked
  <2> QED BY <1>1, <2>1 DEF AInv, Drivers
<1>4. dev' = [dev EXCEPT ![c] = Quiet] /\ Quiet \in DriveState /\ Quiet.st = "idle"
  <2>1. Transferred(dev[c]) = Quiet
    BY <1>3 DEF Transferred
  <2>2. 0 \in 0 .. Byte * Byte
    BY BytesAre
  <2> QED BY <1>1, <2>1, <2>2 DEF Quiet, DriveState, Positions
<1>5. req'[t] \in Req /\ req'[t].pos = type /\ req'[t].count = 1 /\ req' \in [Threads -> Req]
  <2>1. req'[t] = [pos |-> type, offset |-> 0, count |-> 1]
    BY <1>1, <1>2 DEF Shapes, Mbr
  <2>2. 0 \in 0 .. Byte * Byte * Byte * Byte - 1 /\ 1 \in 0 .. Byte * Byte
    BY BytesAre
  <2>3. req'[t] \in Req
    BY <1>2, <2>1, <2>2 DEF Req
  <2> QED BY <1>1, <1>2, <2>1, <2>3 DEF Shapes
<1> HIDE DEF c
<1>6. pc'[t] = "lock" /\ k'[t] = 0 /\ \A u \in Threads : u # t => pc'[u] = "idle" /\ k'[u] = k[u]
  BY <1>1, <1>2 DEF Shapes
<1>7. Shapes'
  <2>1. pc' \in [Threads -> Pcs] /\ k' \in [Threads -> 0 .. 8]
    BY <1>1, <1>2 DEF Shapes, Pcs, Identifying, Taken
  <2>2. bd_list' \in Seq(Positions)
    BY <1>1, <1>2 DEF Shapes
  <2>3. dev' \in [Channels -> DriveState]
    BY <1>2, <1>4 DEF Shapes
  <2> QED BY <1>1, <1>2, <1>5, <2>1, <2>2, <2>3 DEF Shapes
<1>8. Turns'
  <2>1. \A u \in Threads : lock # u
    BY <1>2 DEF Turns, Taken
  <2> QED BY <1>1, <1>2, <1>3, <1>5, <1>6, <2>1 DEF Turns, Identifying, Taken, Reading
<1>9. Owned'
  <2>1. \A d \in Channels : d # c => dev[d].st \notin {"busy", "drq"}
    BY <1>2 DEF AInv, Owned, Taken, Reading, c
  <2>2. \A d \in Channels : dev'[d].st \notin {"busy", "drq"}
    BY <1>2, <1>4, <2>1 DEF Shapes
  <2> QED BY <2>2 DEF Owned
<1>10. Drivers'
  BY <1>1, <1>2, <1>4 DEF AInv, Drivers, Shapes
<1>11. IdPart'
  BY <1>2, <1>6 DEF IdPart, Asked
<1>12. OutsPart' /\ DataPart'
  <2>1. \A u \in Threads : pc'[u] \in {"lock", "idle"}
    BY <1>6
  <2>2. \A u \in Threads : got[u] = <<>>
    BY <1>2 DEF AInv, DataPart, Taken, Reading
  <2> QED BY <1>1, <2>1, <2>2 DEF OutsPart, DataPart
<1>13. Listed'
  <2>1. pc'[Boot] \in Taken /\ pc[Boot] \notin Taken
    BY <1>2, <1>6 DEF Taken
  <2> DEFINE n == Len(bd_list)
  <2>2. /\ n \in Nat /\ DOMAIN bd_list = 1 .. n /\ DOMAIN bd_list' = 1 .. n + 1
        /\ bd_list'[n + 1] = type
        /\ \A i \in 1 .. n : bd_list'[i] = bd_list[i] /\ bd_list[i] \in Positions
    BY <1>1, <1>2 DEF Shapes
  <2>3. \A i \in 1 .. n : attached[bd_list[i]] = "disk" /\ bd_list[i] < type
    BY <2>1, <2>2 DEF AInv, Listed
  <2>4. \A i \in 1 .. n + 1 : i \in 1 .. n \/ i = n + 1
    BY <2>2
  <2> HIDE DEF n
  <2>5. \A i \in 1 .. n + 1 : /\ attached[bd_list'[i]] = "disk"
                              /\ bd_list'[i] < type \/ bd_list'[i] = type
    BY <1>3, <2>2, <2>3, <2>4
  <2>6. \A i, j \in 1 .. n + 1 : i < j => bd_list'[i] < bd_list'[j]
    <3> SUFFICES ASSUME NEW i \in 1 .. n + 1, NEW j \in 1 .. n + 1, i < j
                 PROVE  bd_list'[i] < bd_list'[j]
      OBVIOUS
    <3>1. i \in 1 .. n
      BY <2>2
    <3>2. CASE j = n + 1
      BY <2>2, <2>3, <3>1, <3>2
    <3>3. CASE j \in 1 .. n
      BY <2>2, <3>1, <3>3 DEF AInv, Listed
    <3> QED BY <2>4, <3>2, <3>3
  <2>7. ASSUME NEW p \in Positions, attached[p] = "disk", p < type \/ p = type
        PROVE  \E i \in 1 .. n + 1 : bd_list'[i] = p
    <3>1. CASE p = type
      <4>1. n + 1 \in 1 .. n + 1
        BY <2>2
      <4> QED BY <2>2, <3>1, <4>1
    <3>2. CASE p < type
      <4>1. PICK i \in 1 .. n : bd_list[i] = p
        BY <2>2, <2>7, <3>2 DEF AInv, Listed
      <4>2. i \in 1 .. n + 1
        BY <2>2
      <4> QED BY <2>2, <4>1, <4>2
    <3> QED BY <2>7, <3>1, <3>2
  <2>8. \A i \in DOMAIN bd_list' :
          /\ attached'[bd_list'[i]] = "disk"
          /\ bd_list'[i] < type' \/ (bd_list'[i] = type' /\ pc'[Boot] \in Taken)
    <3>1. attached' = attached /\ type' = type
      BY <1>1
    <3> SUFFICES ASSUME NEW i \in DOMAIN bd_list'
                 PROVE  /\ attached[bd_list'[i]] = "disk"
                        /\ bd_list'[i] < type \/ bd_list'[i] = type
      BY <2>1, <3>1
    <3>2. i \in 1 .. n + 1
      BY <2>2
    <3> QED BY <2>5, <3>2
  <2>9. \A i, j \in DOMAIN bd_list' : i < j => bd_list'[i] < bd_list'[j]
    BY <2>2, <2>6
  <2>10. \A p \in Positions :
           attached'[p] = "disk" /\ (p < type' \/ (p = type' /\ pc'[Boot] \in Taken)) =>
               \E i \in DOMAIN bd_list' : bd_list'[i] = p
    BY <1>1, <2>2, <2>7
  <2> QED BY <2>8, <2>9, <2>10 DEF Listed
<1> QED BY <1>7, <1>8, <1>9, <1>10, <1>11, <1>12, <1>13 DEF AInv

-----------------------------------------------------------------------------
(* The reads' steps                                                        *)

\* No drive is at work, and nobody asks one, for as long as a thread wants
\* the lock or sets registers.
LEMMA ReadsAlone ==
    ASSUME AInv, NEW t \in Threads, pc[t] \in Reading
    PROVE  /\ lock = t /\ pc[Boot] \notin Identifying
           /\ \A u \in Threads : u # t => pc[u] \notin Reading
           /\ pc[t] # "data" => \A c \in Channels : dev[c].st \notin {"busy", "drq"}
           /\ type < 4 => t = Boot /\ req[t].pos = type
           /\ req[t].count > 0 /\ attached[req[t].pos] = "disk" /\ req[t] \in Req
           /\ Channel(req[t].pos) \in Channels
<1>1. Shapes /\ Turns /\ Owned /\ Boot \in Threads
  BY AtaAssumption DEF AInv
<1>2. pc[Boot] \notin Identifying
  BY <1>1, OneReads
<1>3. \A u \in Threads : u # t => pc[u] \notin Reading
  BY <1>1, OneReads
<1>4. ASSUME pc[t] # "data" PROVE \A c \in Channels : dev[c].st \notin {"busy", "drq"}
  <2>1. \A u \in Threads : pc[u] # "data"
    BY <1>3, <1>4 DEF Reading
  <2>2. pc[Boot] \notin Asked
    BY <1>2 DEF Asked, Identifying
  <2> QED BY <1>1, <2>1, <2>2 DEF Owned
<1>5. lock = t
  BY <1>1 DEF Turns
<1>6. (type < 4 => t = Boot /\ req[t].pos = type) /\ req[t].count > 0 /\ attached[req[t].pos] = "disk"
  BY <1>1 DEF Turns, Taken, Reading
<1> QED BY <1>1, <1>2, <1>3, <1>4, <1>5, <1>6, ChannelIs DEF Shapes

\* A read is accepted when all disks are known.
LEMMA ReadKeeps ==
    ASSUME AInv, NEW t \in Threads, NEW r \in Requests, NEW pos \in Positions, ata_read(t, r, pos)
    PROVE  AInv'
<1>1. /\ pc[t] = "idle" /\ type = 4 /\ \E i \in DOMAIN bd_list : bd_list[i] = pos
      /\ UNCHANGED <<attached, head, regs, dev, lock, type, bd_list, got>>
  BY DEF ata_read
<1>2. CASE r.count = 0
  <2>1. UNCHANGED <<pc, k, req>>
    BY <1>2 DEF ata_read
  <2> QED BY <1>1, <2>1 DEF AInv, Shapes, Turns, Owned, Drivers, IdPart, OutsPart, DataPart, Listed
<1>3. CASE r.count # 0
  <2> DEFINE q == [pos |-> pos, offset |-> r.offset, count |-> r.count]
  <2>1. req' = [req EXCEPT ![t] = q] /\ pc' = [pc EXCEPT ![t] = "lock"] /\ k' = [k EXCEPT ![t] = 0]
    BY <1>3 DEF ata_read, Goto
  <2>2. q \in Req /\ q.count > 0 /\ attached[q.pos] = "disk"
    <3>1. r.offset \in 0 .. Byte * Byte * Byte * Byte - 1 /\ r.count \in 0 .. Byte * Byte
      BY AtaAssumption
    <3>2. r.count > 0
      <4>1. r.count \in Nat
        BY <3>1, BytesAre
      <4> QED BY <1>3, <4>1
    <3> QED BY <1>1, <3>1, <3>2 DEF Req, AInv, Listed
  <2> HIDE DEF q
  <2>3. Shapes /\ Turns
    BY DEF AInv
  <2>4. /\ req'[t] = q /\ pc'[t] = "lock" /\ k'[t] = 0
        /\ \A u \in Threads : u # t => pc'[u] = pc[u] /\ k'[u] = k[u] /\ req'[u] = req[u]
    BY <2>1, <2>3 DEF Shapes
  <2>5. Shapes'
    <3>1. pc' \in [Threads -> Pcs] /\ k' \in [Threads -> 0 .. 8] /\ req' \in [Threads -> Req]
      BY <2>1, <2>2, <2>3 DEF Shapes, Pcs, Taken
    <3> QED BY <1>1, <2>3, <3>1 DEF Shapes
  <2>6. Turns'
    BY <1>1, <2>2, <2>3, <2>4 DEF Turns, Identifying, Taken, Reading
  <2>7. pc[Boot] \notin Identifying /\ pc'[Boot] \notin Identifying /\ Boot \in Threads
    <3>1. pc[Boot] \notin Identifying /\ Boot \in Threads
      BY <1>1, <2>3, AtaAssumption DEF Turns
    <3> QED BY <2>4, <3>1 DEF Identifying
  <2>8. Owned' /\ Drivers'
    <3>1. Drivers'
      BY <1>1 DEF AInv, Drivers
    <3>2. Owned'
      <4> SUFFICES ASSUME NEW c \in Channels, dev[c].st \in {"busy", "drq"}
                   PROVE  \E u \in Threads : pc'[u] = "data" /\ Channel(req'[u].pos) = c
        BY <1>1 DEF Owned
      <4>1. PICK u \in Threads : pc[u] = "data" /\ Channel(req[u].pos) = c
        BY <2>7 DEF AInv, Owned, Asked, Identifying
      <4>2. u # t
        BY <1>1, <4>1
      <4> QED BY <2>4, <4>1, <4>2
    <3> QED BY <3>1, <3>2
  <2>9. IdPart'
    BY <2>7 DEF IdPart, Identifying, Asked
  <2>10. OutsPart'
    BY <1>1, <2>4 DEF AInv, OutsPart
  <2>11. DataPart'
    BY <1>1, <2>4 DEF AInv, DataPart
  <2>12. Listed'
    <3>1. \A p \in Positions : p < 4
      BY DEF Positions
    <3>2. \A i \in DOMAIN bd_list : bd_list[i] \in Positions
      BY <2>3 DEF Shapes
    <3> QED BY <1>1, <3>1, <3>2 DEF AInv, Listed
  <2> QED BY <2>5, <2>6, <2>8, <2>9, <2>10, <2>11, <2>12 DEF AInv
<1> QED BY <1>2, <1>3

LEMMA ReadLockKeeps ==
    ASSUME AInv, NEW t \in Threads, read_lock(t) PROVE AInv'
<1>1. /\ pc[t] = "lock" /\ lock = Nobody /\ lock' = t
      /\ pc' = [pc EXCEPT ![t] = "outs"] /\ k' = [k EXCEPT ![t] = 0]
      /\ UNCHANGED <<attached, head, regs, dev, type, bd_list, req, got>>
  BY DEF read_lock, mutex_free, Goto
<1>2. Shapes /\ Turns /\ Boot \in Threads /\ Nobody \notin Threads
  BY AtaAssumption DEF AInv
<1>3. /\ pc'[t] = "outs" /\ k'[t] = 0
      /\ \A u \in Threads : u # t => pc'[u] = pc[u] /\ k'[u] = k[u]
  BY <1>1, <1>2 DEF Shapes
<1>4. (type < 4 => t = Boot /\ pc[Boot] \in Taken)
  BY <1>1, <1>2 DEF Turns, Taken
<1>5. pc[Boot] \notin Identifying /\ pc'[Boot] \notin Identifying
  <2>1. pc[Boot] \notin Identifying
    BY <1>2, <1>4 DEF Turns, Identifying, Taken, Reading
  <2> QED BY <1>2, <1>3, <2>1 DEF Identifying
<1>6. Shapes'
  <2>1. pc' \in [Threads -> Pcs] /\ k' \in [Threads -> 0 .. 8] /\ lock' \in Threads \cup {Nobody}
    BY <1>1, <1>2 DEF Shapes, Pcs, Taken, Reading
  <2> QED BY <1>1, <1>2, <2>1 DEF Shapes
<1>7. Turns'
  BY <1>1, <1>2, <1>3 DEF Turns, Identifying, Taken, Reading
<1>8. \A u \in Threads : pc[u] # "data"
  BY <1>1, <1>2 DEF Turns, Reading
<1>9. Owned' /\ Drivers'
  BY <1>1, <1>2, <1>5, <1>8 DEF AInv, Owned, Drivers, Asked, Identifying
<1>10. IdPart'
  BY <1>5 DEF IdPart, Identifying, Asked
<1>11. OutsPart' /\ DataPart'
  <2>1. OutsPart'
    BY <1>1, <1>3 DEF AInv, OutsPart, Sent
  <2>2. DataPart'
    BY <1>1, <1>3 DEF AInv, DataPart
  <2> QED BY <2>1, <2>2
<1>12. Listed'
  <2>1. pc'[Boot] \in Taken <=> pc[Boot] \in Taken
    BY <1>1, <1>2, <1>3 DEF Taken, Reading
  <2> QED BY <1>1, <2>1 DEF AInv, Listed
<1> QED BY <1>6, <1>7, <1>9, <1>10, <1>11, <1>12 DEF AInv

\* A step of the read that holds the lock, which stays in it: what is left to
\* show is about its registers, its drive and its buffer.
LEMMA ReadingKeeps ==
    ASSUME AInv, NEW t \in Threads, pc[t] \in Reading, NEW to \in Reading, pc' = [pc EXCEPT ![t] = to],
           NEW n \in 0 .. 8, k' = [k EXCEPT ![t] = n], to # "outs" => n = 0,
           UNCHANGED <<attached, lock, type, bd_list, req>>,
           head' \in Heads, regs' \in Contents, dev' \in [Channels -> DriveState],
           NEW b \in Seq(Positions \X Nat), got' = [got EXCEPT ![t] = b],
           Drivers',
           \A c \in Channels : dev'[c].st \in {"busy", "drq"} => to = "data" /\ Channel(req[t].pos) = c,
           to = "outs" => Sent(head', regs', Channel(req[t].pos), req[t], n),
           to = "command" => Sent(head', regs', Channel(req[t].pos), req[t], 9),
           to \notin {"data", "unlock"} => b = <<>>,
           to = "data" => /\ b = Sectors(req[t], Len(b)) /\ Len(b) < req[t].count
                          /\ dev'[Channel(req[t].pos)].st # "error" =>
                                LET d == dev'[Channel(req[t].pos)] IN
                                /\ d.st \in {"busy", "drq"} /\ d.pos = req[t].pos
                                /\ d.next = req[t].offset + Len(b) /\ d.left = req[t].count - Len(b),
           to = "unlock" => b = Sectors(req[t], req[t].count)
    PROVE  AInv'
<1>1. /\ lock = t /\ pc[Boot] \notin Identifying
      /\ \A u \in Threads : u # t => pc[u] \notin Reading
      /\ type < 4 => t = Boot
  BY ReadsAlone
<1>2. Shapes /\ Turns /\ Boot \in Threads
  BY AtaAssumption DEF AInv
<1>3. /\ pc'[t] = to /\ k'[t] = n /\ got'[t] = b
      /\ \A u \in Threads : u # t => pc'[u] = pc[u] /\ k'[u] = k[u] /\ got'[u] = got[u]
  BY <1>2 DEF Shapes
<1>4. pc'[Boot] \notin Identifying
  BY <1>1, <1>2, <1>3 DEF Identifying, Reading
<1>5. Shapes'
  <2>1. pc' \in [Threads -> Pcs] /\ k' \in [Threads -> 0 .. 8] /\ got' \in [Threads -> Seq(Positions \X Nat)]
    BY <1>2 DEF Shapes, Pcs, Taken
  <2> QED BY <1>2, <2>1 DEF Shapes
<1>6. Turns'
  <2>1. \A u \in Threads : pc'[u] \in Reading <=> pc[u] \in Reading
    BY <1>3
  <2>2. \A u \in Threads : pc'[u] \in Taken <=> pc[u] \in Taken
    BY <1>3 DEF Taken
  <2>3. \A u \in Threads : pc'[u] \in Identifying <=> pc[u] \in Identifying
    BY <1>3 DEF Identifying, Reading
  <2>4. \A u \in Threads : /\ pc'[u] \notin {"identify", "outs"} => k'[u] = 0
                           /\ pc'[u] = "identify" => k'[u] <= 4
                           /\ pc'[u] = "idle" <=> pc[u] = "idle"
    BY <1>2, <1>3 DEF Turns, Reading
  <2>5. UNCHANGED <<lock, type, attached, req>>
    OBVIOUS
  <2> SUFFICES ASSUME NEW u \in Threads
               PROVE  /\ pc'[u] \in Identifying => u = Boot /\ type < 4
                      /\ type < 4 /\ u # Boot => pc'[u] = "idle"
                      /\ pc'[u] \in Reading <=> lock = u
                      /\ pc'[u] \in Taken => /\ req[u].count > 0 /\ attached[req[u].pos] = "disk"
                                             /\ type < 4 => req[u].pos = type
                      /\ pc'[u] \notin {"identify", "outs"} => k'[u] = 0
                      /\ pc'[u] = "identify" => k'[u] <= 4
    BY <2>5 DEF Turns
  <2>6. /\ pc[u] \in Identifying => u = Boot /\ type < 4
        /\ type < 4 /\ u # Boot => pc[u] = "idle"
        /\ pc[u] \in Reading <=> lock = u
        /\ pc[u] \in Taken => /\ req[u].count > 0 /\ attached[req[u].pos] = "disk"
                              /\ type < 4 => req[u].pos = type
    BY <1>2 DEF Turns
  <2> QED BY <2>1, <2>2, <2>3, <2>4, <2>6
<1>7. Owned'
  BY <1>3 DEF Owned
<1>8. IdPart'
  BY <1>4 DEF IdPart, Identifying, Asked
<1>9. OutsPart'
  <2> SUFFICES ASSUME NEW u \in Threads
               PROVE  /\ pc'[u] = "outs" => Sent(head', regs', Channel(req[u].pos), req[u], k'[u])
                      /\ pc'[u] = "command" => Sent(head', regs', Channel(req[u].pos), req[u], 9)
    BY DEF OutsPart
  <2>1. CASE u = t
    BY <1>3, <2>1
  <2>2. CASE u # t
    BY <1>1, <1>3, <2>2 DEF Reading
  <2> QED BY <2>1, <2>2
<1>10. DataPart'
  <2> SUFFICES ASSUME NEW u \in Threads
               PROVE  LET c == Channel(req[u].pos)
                          m == Len(got'[u])
                      IN  /\ pc'[u] \notin {"data", "unlock"} => got'[u] = <<>>
                          /\ pc'[u] = "data" =>
                                /\ got'[u] = Sectors(req[u], m) /\ m < req[u].count
                                /\ dev'[c].st # "error" =>
                                      /\ dev'[c].st \in {"busy", "drq"} /\ dev'[c].pos = req[u].pos
                                      /\ dev'[c].next = req[u].offset + m /\ dev'[c].left = req[u].count - m
                          /\ pc'[u] = "unlock" => got'[u] = Sectors(req[u], req[u].count)
    BY DEF DataPart, Sectors
  <2>1. CASE u = t
    BY <1>3, <2>1
  <2>2. CASE u # t
    BY <1>1, <1>3, <2>2 DEF AInv, DataPart, Reading
  <2> QED BY <2>1, <2>2
<1>11. Listed'
  <2>1. pc'[Boot] \in Taken <=> pc[Boot] \in Taken
    BY <1>2, <1>3 DEF Taken
  <2> QED BY <2>1 DEF AInv, Listed
<1> QED BY <1>5, <1>6, <1>7, <1>8, <1>9, <1>10, <1>11 DEF AInv

LEMMA ReadOutsKeeps ==
    ASSUME AInv, NEW t \in Threads, read_outs(t) PROVE AInv'
<1> DEFINE c == Channel(req[t].pos)
<1>1. /\ pc[t] = "outs" /\ outb(c, ReadOuts(req[t])[k[t] + 1])
      /\ UNCHANGED <<attached, dev, lock, type, bd_list, req, got>>
  BY DEF read_outs, Outs
<1>2. Shapes
  BY DEF AInv
<1>3. /\ req[t] \in Req /\ c \in Channels /\ pc[t] \in Reading
      /\ \A d \in Channels : dev[d].st \notin {"busy", "drq"}
  BY <1>1, ReadsAlone DEF Reading
<1>4. k[t] \in 0 .. 8 /\ Sent(head, regs, c, req[t], k[t]) /\ got[t] = <<>>
  BY <1>1, <1>2 DEF AInv, Shapes, OutsPart, DataPart
<1>5. Sent(head', regs', c, req[t], k[t] + 1) /\ head' \in Heads /\ regs' \in Contents
  BY <1>1, <1>2, <1>3, <1>4, ReadOutSent DEF Shapes
<1>6. Len(ReadOuts(req[t])) = 9
  BY DEF ReadOuts
<1>7. got' = [got EXCEPT ![t] = <<>>] /\ <<>> \in Seq(Positions \X Nat)
  BY <1>1, <1>2, <1>4 DEF Shapes
<1>8. Drivers' /\ dev' \in [Channels -> DriveState]
  BY <1>1, <1>2 DEF AInv, Drivers, Shapes
<1>9. UNCHANGED <<attached, lock, type, bd_list, req>> /\ dev' = dev
  BY <1>1
<1>10. CASE k[t] = 8
  <2>1. pc' = [pc EXCEPT ![t] = "command"] /\ k' = [k EXCEPT ![t] = 0]
    BY <1>6, <1>10 DEF read_outs, Outs, Goto
  <2>2. Sent(head', regs', c, req[t], 9)
    BY <1>5, <1>10
  <2> HIDE DEF c
  <2>3. "command" \in Reading /\ 0 \in 0 .. 8
    BY DEF Reading
  <2> QED BY <1>3, <1>5, <1>7, <1>8, <1>9, <2>1, <2>2, <2>3, ReadingKeeps DEF c
<1>11. CASE k[t] # 8
  <2>1. pc' = pc /\ k' = [k EXCEPT ![t] = k[t] + 1]
    BY <1>2, <1>4, <1>6, <1>11 DEF read_outs, Outs, Shapes
  <2>2. pc' = [pc EXCEPT ![t] = "outs"]
    BY <1>1, <1>2, <2>1 DEF Shapes
  <2>3. "outs" \in Reading /\ k[t] + 1 \in 0 .. 8
    BY <1>4, <1>11 DEF Reading
  <2> QED BY <1>3, <1>5, <1>7, <1>8, <1>9, <2>1, <2>2, <2>3, ReadingKeeps
<1> QED BY <1>10, <1>11

LEMMA ReadCommandKeeps ==
    ASSUME AInv, NEW t \in Threads, read_command(t) PROVE AInv'
<1> DEFINE c == Channel(req[t].pos)
           D == Commanded(c, "read")
<1>1. /\ pc[t] = "command" /\ dev' = [dev EXCEPT ![c] = D]
      /\ pc' = [pc EXCEPT ![t] = "data"] /\ k' = [k EXCEPT ![t] = 0]
      /\ UNCHANGED <<attached, head, regs, lock, type, bd_list, req, got>>
  BY DEF read_command, Goto
<1>2. Shapes
  BY DEF AInv
<1>3. /\ req[t] \in Req /\ c \in Channels /\ pc[t] \in Reading
      /\ req[t].count > 0 /\ attached[req[t].pos] = "disk"
      /\ \A d \in Channels : dev[d].st \notin {"busy", "drq"}
  BY <1>1, ReadsAlone DEF Reading
<1>4. Sent(head, regs, c, req[t], 9) /\ got[t] = <<>>
  BY <1>1 DEF AInv, OutsPart, DataPart
<1>5. Selected(c) = req[t].pos /\ Count(c) = req[t].count /\ Lba(c) = req[t].offset
  BY <1>3, <1>4, AllSent
<1>6. D = [st |-> "busy", cmd |-> "read", pos |-> req[t].pos,
           next |-> req[t].offset, left |-> req[t].count]
  BY <1>3, <1>5 DEF Commanded
<1>7. D \in DriveState
  <2>1. req[t].offset \in Nat /\ req[t].count \in 0 .. Byte * Byte /\ req[t].pos \in Positions
    BY <1>3, BytesAre DEF Req
  <2> QED BY <1>6, <2>1 DEF DriveState
<1> HIDE DEF D
<1>8. dev'[c] = D /\ (\A d \in Channels \ {c} : dev'[d] = dev[d]) /\ dev' \in [Channels -> DriveState]
  BY <1>1, <1>2, <1>3, <1>7 DEF Shapes
<1>9. Drivers'
  <2>1. D.st = "busy" /\ D.left > 0 /\ D.cmd # "none"
    BY <1>3, <1>6
  <2> QED BY <1>1, <1>8, <2>1 DEF AInv, Drivers
<1>10. got' = [got EXCEPT ![t] = <<>>] /\ <<>> \in Seq(Positions \X Nat)
  BY <1>1, <1>2, <1>4 DEF Shapes
<1>11. \A d \in Channels : dev'[d].st \in {"busy", "drq"} => c = d
  BY <1>3, <1>8
<1>12. <<>> = Sectors(req[t], Len(<<>>)) /\ Len(<<>>) < req[t].count
  BY <1>3 DEF Sectors
<1>13. /\ dev'[c].st \in {"busy", "drq"} /\ dev'[c].pos = req[t].pos
       /\ dev'[c].next = req[t].offset + Len(<<>>) /\ dev'[c].left = req[t].count - Len(<<>>)
  <2>1. req[t].offset \in Nat /\ req[t].count \in Nat
    BY <1>3, BytesAre DEF Req
  <2> QED BY <1>6, <1>8, <2>1
<1>14. UNCHANGED <<attached, lock, type, bd_list, req>> /\ head' \in Heads /\ regs' \in Contents
  BY <1>1, <1>2 DEF Shapes
<1>15. "data" \in Reading /\ 0 \in 0 .. 8
  BY DEF Reading
<1> QED BY <1>1, <1>3, <1>8, <1>9, <1>10, <1>11, <1>12, <1>13, <1>14, <1>15, ReadingKeeps

LEMMA ReadDataKeeps ==
    ASSUME AInv, NEW t \in Threads, read_data(t) PROVE AInv'
<1> DEFINE c == Channel(req[t].pos)
           r == req[t]
           n == Len(got[t])
           b == Append(got[t], <<dev[c].pos, dev[c].next>>)
           D == Transferred(dev[c])
<1>1. /\ pc[t] = "data" /\ dev[c].st = "drq"
      /\ got' = [got EXCEPT ![t] = b] /\ dev' = [dev EXCEPT ![c] = D]
      /\ IF n + 1 = r.count THEN Goto(t, "unlock") ELSE UNCHANGED <<pc, k>>
      /\ UNCHANGED <<attached, head, regs, lock, type, bd_list, req>>
  <2>1. got' = [got EXCEPT ![t] = Append(@, <<dev[c].pos, dev[c].next>>)]
        /\ dev' = [dev EXCEPT ![c] = Transferred(@)]
    BY DEF read_data
  <2> QED BY <2>1 DEF read_data, Enough
<1>2. Shapes /\ n \in Nat /\ got[t] \in Seq(Positions \X Nat)
  BY DEF AInv, Shapes
<1>3. /\ r \in Req /\ c \in Channels /\ pc[t] \in Reading /\ r.count > 0 /\ attached[r.pos] = "disk"
  BY <1>1, ReadsAlone DEF Reading
<1>4. r.offset \in Nat /\ r.count \in 0 .. Byte * Byte /\ r.pos \in Positions /\ r.count \in Nat
  BY <1>3, BytesAre DEF Req
<1>5. /\ got[t] = Sectors(r, n) /\ n < r.count /\ dev[c].pos = r.pos
      /\ dev[c].next = r.offset + n /\ dev[c].left = r.count - n
  BY <1>1 DEF AInv, DataPart
<1>6. dev[c] \in DriveState /\ dev[c].cmd # "none"
  BY <1>1, <1>2, <1>3 DEF Shapes, AInv, Drivers
<1>7. b = Sectors(r, n + 1) /\ b \in Seq(Positions \X Nat) /\ Len(b) = n + 1
  <2>1. b = Append(Sectors(r, n), <<r.pos, r.offset + n>>)
    BY <1>5
  <2>2. <<r.pos, r.offset + n>> \in Positions \X Nat
    BY <1>2, <1>4
  <2>3. b \in Seq(Positions \X Nat) /\ Len(b) = n + 1
    BY <1>2, <1>5, <2>1, <2>2
  <2>4. b = Sectors(r, n + 1)
    <3>1. \A i \in 1 .. n : b[i] = got[t][i]
      BY <1>2
    <3>2. \A i \in 1 .. n : got[t][i] = <<r.pos, r.offset + i - 1>>
      BY <1>5 DEF Sectors
    <3>3. b[n + 1] = <<r.pos, r.offset + n>> /\ r.offset + n = r.offset + (n + 1) - 1
      BY <1>2, <1>4, <1>5
    <3>4. b = [i \in 1 .. n + 1 |-> b[i]]
      BY <2>3
    <3> HIDE DEF b, n, r
    <3>5. \A i \in 1 .. n + 1 : i \in 1 .. n \/ i = n + 1
      BY <1>2
    <3>6. \A i \in 1 .. n + 1 : b[i] = <<r.pos, r.offset + i - 1>>
      BY <3>1, <3>2, <3>3, <3>5
    <3> QED BY <3>4, <3>6 DEF Sectors
  <2> QED BY <2>3, <2>4
<1>8. UNCHANGED <<attached, lock, type, bd_list, req>> /\ head' \in Heads /\ regs' \in Contents
      /\ attached' = attached
  BY <1>1, <1>2 DEF Shapes
<1>9. \A d \in Channels : dev[d].st \in {"busy", "drq"} => c = d
  <2>1. pc[Boot] \notin Identifying /\ \A u \in Threads : u # t => pc[u] \notin Reading
    BY <1>3, ReadsAlone
  <2> QED BY <2>1 DEF AInv, Owned, Identifying, Asked, Reading
<1>10. CASE n + 1 = r.count
  <2>1. D = Quiet
    BY <1>2, <1>4, <1>5, <1>10 DEF Transferred
  <2>2. Quiet \in DriveState /\ Quiet.st = "idle"
    <3>1. 0 \in 0 .. Byte * Byte
      BY BytesAre
    <3> QED BY <3>1 DEF Quiet, DriveState, Positions
  <2> HIDE DEF D, b, n, r, c
  <2>3. dev' \in [Channels -> DriveState] /\ dev'[c].st = "idle" /\ \A d \in Channels \ {c} : dev'[d] = dev[d]
    BY <1>1, <1>2, <1>3, <2>1, <2>2 DEF Shapes
  <2>4. Drivers'
    BY <1>8, <2>3 DEF AInv, Drivers
  <2>5. \A d \in Channels : dev'[d].st \notin {"busy", "drq"}
    BY <1>9, <2>3
  <2>6. pc' = [pc EXCEPT ![t] = "unlock"] /\ k' = [k EXCEPT ![t] = 0]
    BY <1>1, <1>10 DEF Goto
  <2>7. "unlock" \in Reading /\ 0 \in 0 .. 8 /\ b = Sectors(req[t], req[t].count)
    BY <1>7, <1>10 DEF Reading, r
  <2> QED BY <1>1, <1>3, <1>7, <1>8, <2>3, <2>4, <2>5, <2>6, <2>7, ReadingKeeps
<1>11. CASE n + 1 # r.count
  <2>1. D = [dev[c] EXCEPT !.st = "busy", !.next = r.offset + n + 1, !.left = r.count - n - 1]
    BY <1>2, <1>4, <1>5, <1>6, <1>11 DEF Transferred
  <2>2. /\ D \in DriveState /\ D.st = "busy" /\ D.pos = r.pos /\ D.next = r.offset + (n + 1)
        /\ D.left = r.count - (n + 1) /\ D.left > 0 /\ D.cmd # "none"
    <3>1. r.offset + n + 1 \in Nat /\ r.count - n - 1 \in 0 .. Byte * Byte /\ r.count - n - 1 > 0
          /\ r.offset + n + 1 = r.offset + (n + 1) /\ r.count - n - 1 = r.count - (n + 1)
      <4>1. r.offset \in Nat /\ r.count \in Nat /\ n \in Nat /\ Byte * Byte \in Nat
            /\ r.count <= Byte * Byte /\ n < r.count /\ n + 1 # r.count
        BY <1>2, <1>4, <1>5, <1>11, BytesAre
      <4> HIDE DEF n, r
      <4> QED BY <4>1
    <3> HIDE DEF D, n, r, c
    <3> QED BY <1>5, <1>6, <2>1, <3>1 DEF DriveState
  <2> HIDE DEF D, b, n, r, c
  <2>3. dev' \in [Channels -> DriveState] /\ dev'[c] = D /\ \A d \in Channels \ {c} : dev'[d] = dev[d]
    BY <1>1, <1>2, <1>3, <2>2 DEF Shapes
  <2>4. Drivers'
    BY <1>8, <2>2, <2>3 DEF AInv, Drivers
  <2>5. \A d \in Channels : dev'[d].st \in {"busy", "drq"} => c = d
    BY <1>9, <2>3
  <2>6. pc' = [pc EXCEPT ![t] = "data"] /\ k' = [k EXCEPT ![t] = 0]
    <3>1. k[t] = 0
      BY <1>1 DEF AInv, Turns
    <3>2. pc' = pc /\ k' = k
      BY <1>1, <1>11
    <3> QED BY <1>1, <1>2, <3>1, <3>2 DEF Shapes
  <2>7. /\ b = Sectors(req[t], Len(b)) /\ Len(b) < req[t].count
        /\ dev'[c].st \in {"busy", "drq"} /\ dev'[c].pos = req[t].pos
        /\ dev'[c].next = req[t].offset + Len(b) /\ dev'[c].left = req[t].count - Len(b)
    <3>1. n + 1 < r.count
      BY <1>2, <1>4, <1>5, <1>11
    <3> QED BY <1>7, <2>2, <2>3, <3>1 DEF r
  <2>8. "data" \in Reading /\ 0 \in 0 .. 8
    BY DEF Reading
  <2> QED BY <1>1, <1>3, <1>7, <1>8, <2>3, <2>4, <2>5, <2>6, <2>7, <2>8, ReadingKeeps DEF c
<1> QED BY <1>10, <1>11

LEMMA ReadUnlockKeeps ==
    ASSUME AInv, NEW t \in Threads, read_unlock(t) PROVE AInv'
<1>1. /\ pc[t] = "unlock" /\ lock' = Nobody
      /\ got' = [got EXCEPT ![t] = <<>>] /\ req' = [req EXCEPT ![t] = Mbr]
      /\ IF t = Boot /\ type < 4 THEN NextType(t) ELSE Goto(t, "idle") /\ UNCHANGED type
      /\ UNCHANGED <<attached, head, regs, dev, bd_list>>
  BY DEF read_unlock
<1>2. Shapes /\ Turns /\ Boot \in Threads /\ Nobody \notin Threads
  BY AtaAssumption DEF AInv
<1>3. /\ pc[Boot] \notin Identifying /\ (\A u \in Threads : u # t => pc[u] \notin Reading)
      /\ (\A c \in Channels : dev[c].st \notin {"busy", "drq"})
      /\ type < 4 => t = Boot /\ req[t].pos = type
  BY <1>1, ReadsAlone DEF Reading
<1>4. Mbr \in Req
  <2>1. 1 \in 0 .. Byte * Byte /\ 0 \in 0 .. Byte * Byte * Byte * Byte - 1
    BY BytesAre
  <2> QED BY <2>1 DEF Mbr, Req, Positions
<1>5. req' \in [Threads -> Req] /\ got' \in [Threads -> Seq(Positions \X Nat)]
  <2>1. <<>> \in Seq(Positions \X Nat)
    OBVIOUS
  <2> QED BY <1>1, <1>2, <1>4, <2>1 DEF Shapes
<1>6. \A u \in Threads : got'[u] = <<>>
  <2>1. got'[t] = <<>> /\ \A u \in Threads : u # t => got'[u] = got[u]
    BY <1>1, <1>2 DEF Shapes
  <2>2. \A u \in Threads : u # t => got[u] = <<>>
    BY <1>3 DEF AInv, DataPart, Reading
  <2> QED BY <2>1, <2>2
<1>7. CASE t = Boot /\ type < 4
  <2>1. NextType(Boot)
    BY <1>1, <1>7
  <2>2. \A u \in Threads \ {Boot} : pc[u] = "idle"
    BY <1>2, <1>7 DEF Turns
  <2>3. attached[type] = "disk" => \E j \in DOMAIN bd_list : bd_list[j] = type
    <3>1. pc[Boot] \in Taken /\ type \in Positions
      BY <1>1, <1>2, <1>7 DEF Taken, Reading, Shapes, Positions
    <3> QED BY <3>1 DEF AInv, Listed
  <2> QED BY <1>1, <1>3, <1>5, <1>6, <1>7, <2>1, <2>2, <2>3, NextTypeKeeps
<1>8. CASE ~(t = Boot /\ type < 4)
  <2>1. pc' = [pc EXCEPT ![t] = "idle"] /\ k' = [k EXCEPT ![t] = 0] /\ type' = type /\ type = 4
    BY <1>1, <1>2, <1>3, <1>8 DEF Goto, Shapes
  <2>2. /\ pc'[t] = "idle" /\ k'[t] = 0
        /\ \A u \in Threads : u # t => pc'[u] = pc[u] /\ k'[u] = k[u] /\ req'[u] = req[u]
    BY <1>1, <1>2, <2>1 DEF Shapes
  <2>3. \A u \in Threads : pc'[u] \notin Reading
    BY <1>3, <2>2 DEF Reading
  <2>4. pc'[Boot] \notin Identifying
    BY <1>2, <1>3, <2>2 DEF Identifying
  <2>5. Shapes'
    <3>1. pc' \in [Threads -> Pcs] /\ k' \in [Threads -> 0 .. 8]
      BY <1>2, <2>1 DEF Shapes, Pcs
    <3> QED BY <1>1, <1>2, <1>5, <2>1, <3>1 DEF Shapes
  <2>6. Turns'
    <3> SUFFICES ASSUME NEW u \in Threads
                 PROVE  /\ pc'[u] \in Identifying => u = Boot /\ type' < 4
                        /\ type' < 4 /\ u # Boot => pc'[u] = "idle"
                        /\ pc'[u] \in Reading <=> lock' = u
                        /\ pc'[u] \in Taken => /\ req'[u].count > 0 /\ attached'[req'[u].pos] = "disk"
                                               /\ type' < 4 => req'[u].pos = type'
                        /\ pc'[u] \notin {"identify", "outs"} => k'[u] = 0
                        /\ pc'[u] = "identify" => k'[u] <= 4
      BY DEF Turns
    <3>1. CASE u = t
      BY <1>1, <1>2, <2>1, <2>2, <3>1 DEF Identifying, Taken, Reading
    <3>2. CASE u # t
      <4>1. pc'[u] = pc[u] /\ k'[u] = k[u] /\ req'[u] = req[u] /\ attached' = attached
            /\ lock' # u /\ pc'[u] \notin Reading
        BY <1>1, <1>2, <2>2, <2>3, <3>2
      <4> QED BY <1>2, <2>1, <4>1 DEF Turns
    <3> QED BY <3>1, <3>2
  <2>7. Owned' /\ Drivers'
    BY <1>1, <1>3 DEF AInv, Owned, Drivers
  <2>8. IdPart'
    BY <2>4 DEF IdPart, Identifying, Asked
  <2>9. OutsPart' /\ DataPart'
    BY <1>6, <2>3 DEF OutsPart, DataPart, Reading
  <2>10. Listed'
    <3>1. \A p \in Positions : p < 4
      BY DEF Positions
    <3>2. \A j \in DOMAIN bd_list : bd_list[j] \in Positions
      BY <1>2 DEF Shapes
    <3> QED BY <1>1, <2>1, <3>1, <3>2 DEF AInv, Listed
  <2> QED BY <2>5, <2>6, <2>7, <2>8, <2>9, <2>10 DEF AInv
<1> QED BY <1>7, <1>8

-----------------------------------------------------------------------------
(* The drives' steps                                                       *)

LEMMA DriveKeeps ==
    ASSUME AInv, NEW c \in Channels, dev[c].st = "busy", NEW s \in {"drq", "error"},
           dev' = [dev EXCEPT ![c].st = s],
           s = "drq" => attached[dev[c].pos] = "disk",
           s = "error" => attached[dev[c].pos] # "disk" \/ dev[c].cmd = "read",
           regs' \in Contents, \A d \in Channels \ {c} : regs'[d] = regs[d],
           attached[dev[c].pos] = "disk" => regs' = regs,
           UNCHANGED <<attached, head, lock, type, bd_list, pc, k, req, got>>
    PROVE  AInv'
<1>1. Shapes /\ Turns /\ Boot \in Threads
  BY AtaAssumption DEF AInv
<1>2. /\ dev'[c].st = s /\ dev'[c].pos = dev[c].pos /\ dev'[c].cmd = dev[c].cmd
      /\ dev'[c].next = dev[c].next /\ dev'[c].left = dev[c].left
      /\ (\A d \in Channels : d # c => dev'[d] = dev[d]) /\ dev' \in [Channels -> DriveState]
  BY <1>1 DEF Shapes, DriveState
<1>3. Shapes'
  BY <1>1, <1>2 DEF Shapes
<1>4. Turns'
  BY DEF AInv, Turns
<1>5. Owned'
  BY <1>2 DEF AInv, Owned
<1>6. Drivers'
  BY <1>2 DEF AInv, Drivers
<1>7. \A u \in Threads : pc[u] \in Reading => pc[u] = "data" /\ pc[Boot] \notin Identifying
  BY ReadsAlone
<1>8. pc[Boot] \notin {"identify", "id_command"}
  <2> SUFFICES ASSUME pc[Boot] \in {"identify", "id_command"} PROVE FALSE
    OBVIOUS
  <2>1. \A u \in Threads : pc[u] # "data"
    BY <1>1, OnlyProbe DEF Identifying, Taken, Reading
  <2> QED BY <2>1 DEF AInv, Owned, Asked
<1>9. IdPart'
  <2> SUFFICES ASSUME pc[Boot] \in Asked
               PROVE  LET b == Channel(type) IN
                      /\ dev'[b].st = "idle" => attached[type] = "none" /\ pc[Boot] = "id_status"
                      /\ dev'[b].st # "idle" => dev'[b].pos = type /\ dev'[b].cmd = "identify" /\ dev'[b].left = 1
                      /\ dev'[b].st = "error" => attached[type] # "disk"
                      /\ attached[type] = "disk" => regs'[b]["lbamid"][1] = 0 /\ regs'[b]["lbahi"][1] = 0
                      /\ pc[Boot] = "id_data" => dev'[b].st # "busy"
    BY <1>8 DEF IdPart
  <2>1. \A u \in Threads : pc[u] # "data"
    BY <1>1, OnlyProbe DEF Identifying, Asked, Taken, Reading
  <2>2. c = Channel(type)
    BY <2>1 DEF AInv, Owned
  <2>3. dev[c].pos = type /\ dev[c].cmd = "identify" /\ dev[c].left = 1
    BY <2>2 DEF AInv, IdPart
  <2>4. attached[type] = "disk" => regs'[c]["lbamid"][1] = 0 /\ regs'[c]["lbahi"][1] = 0
    BY <2>2, <2>3 DEF AInv, IdPart
  <2> QED BY <1>2, <2>2, <2>3, <2>4
<1>10. OutsPart'
  BY <1>7 DEF OutsPart, Reading
<1>11. DataPart'
  <2> SUFFICES ASSUME NEW u \in Threads, pc[u] = "data", dev'[Channel(req[u].pos)].st # "error"
               PROVE  LET b == Channel(req[u].pos) IN
                      /\ dev'[b].st \in {"busy", "drq"} /\ dev'[b].pos = req[u].pos
                      /\ dev'[b].next = req[u].offset + Len(got[u]) /\ dev'[b].left = req[u].count - Len(got[u])
    BY DEF AInv, DataPart
  <2>1. CASE Channel(req[u].pos) = c
    BY <1>2, <2>1 DEF AInv, DataPart
  <2>2. CASE Channel(req[u].pos) # c
    BY <1>2, <2>2, ChannelIs DEF AInv, DataPart
  <2> QED BY <2>1, <2>2
<1>12. Listed'
  BY DEF AInv, Listed
<1> QED BY <1>3, <1>4, <1>5, <1>6, <1>9, <1>10, <1>11, <1>12 DEF AInv

LEMMA DrivesKeep ==
    ASSUME AInv, NEW c \in Channels, Drives(c) PROVE AInv'
<1>1. regs \in Contents /\ 1 \in Bytes /\ 0 \in Bytes
  BY BytesAre DEF AInv, Shapes, Bytes
<1>2. CASE drive_ready(c)
  BY <1>1, <1>2, DriveKeeps DEF drive_ready
<1>3. CASE drive_error(c)
  BY <1>1, <1>3, DriveKeeps DEF drive_error
<1>4. CASE drive_refuses(c)
  <2>1. regs' \in Contents /\ \A d \in Channels \ {c} : regs'[d] = regs[d]
    <3>1. CASE attached[dev[c].pos] = "atapi"
      <4> DEFINE R == [regs[c] EXCEPT !["lbamid"] = <<1, 0>>, !["lbahi"] = <<1, 0>>]
      <4>1. regs' = [regs EXCEPT ![c] = R]
        BY <1>1, <1>4, <3>1 DEF drive_refuses, Contents
      <4>2. R \in [Registers -> Bytes \X Bytes]
        BY <1>1 DEF Contents
      <4> HIDE DEF R
      <4> QED BY <1>1, <4>1, <4>2 DEF Contents
    <3>2. CASE attached[dev[c].pos] # "atapi"
      BY <1>1, <1>4, <3>2 DEF drive_refuses
    <3> QED BY <3>1, <3>2
  <2>2. /\ dev[c].st = "busy" /\ attached[dev[c].pos] # "disk" /\ dev' = [dev EXCEPT ![c].st = "error"]
        /\ UNCHANGED <<attached, head, lock, type, bd_list, pc, k, req, got>>
    BY <1>4 DEF drive_refuses
  <2> QED BY <2>1, <2>2, DriveKeeps
<1> QED BY <1>2, <1>3, <1>4 DEF Drives

-----------------------------------------------------------------------------
(* The theorems                                                            *)

LEMMA StepKeeps == AInv /\ [Next]_vars => AInv'
<1> SUFFICES ASSUME AInv, [Next]_vars PROVE AInv'
  OBVIOUS
<1>1. ASSUME NEW t \in Threads, Driver(t) PROVE AInv'
  BY <1>1, IdentifyOutsKeeps, IdentifyCommandKeeps, IdentifyStatusKeeps, IdentifySignatureKeeps,
     IdentifyDataKeeps, IdentifyErrorKeeps, ReadLockKeeps, ReadOutsKeeps, ReadCommandKeeps,
     ReadDataKeeps, ReadUnlockKeeps DEF Driver
<1>2. ASSUME NEW t \in Threads, NEW r \in Requests, NEW pos \in Positions, ata_read(t, r, pos)
      PROVE  AInv'
  BY <1>2, ReadKeeps
<1>3. ASSUME NEW c \in Channels, Drives(c) PROVE AInv'
  BY <1>3, DrivesKeep
<1>4. CASE UNCHANGED vars
  BY <1>4 DEF vars, AInv, Shapes, Turns, Owned, Drivers, IdPart, OutsPart, DataPart, Listed
<1> QED BY <1>1, <1>2, <1>3, <1>4 DEF Next

LEMMA AlwaysAInv == Spec => []AInv
BY InitAInv, StepKeeps, PTL DEF Spec

\* Of ata_read: whatever the drives answer and however the threads are
\* switched, a read that comes to its end has the sectors it was asked for,
\* of the drive it was asked for, in their order.
THEOREM ReadsAreRight == Spec => []ReadRight
BY AlwaysAInv, RightReading, PTL

\* Of the waits before the outb in ata_identify and ata_read: no register is
\* written and no command given while a drive of the channel is at work.
THEOREM ChannelsAreQuiet == Spec => []ChannelQuiet
BY AlwaysAInv, Quietness, PTL

\* Of ata_pci_probe: it registers the disks that are there, in their order.
THEOREM ProbesAreExact == Spec => []ProbeExact
BY AlwaysAInv, Probing, PTL
=============================================================================
