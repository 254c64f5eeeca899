------------------------------ MODULE Ext2Vfs ------------------------------
(***************************************************************************)
(* The directory tree in memory and how it is filled: kernel/fs/vfs.c      *)
(* (setup_fs, namei), kernel/fs/mount.c and the directory half of          *)
(* kernel/fs/ext2.c.                                                       *)
(*                                                                         *)
(* namei walks the tree one name at a time and calls back into ext2 when   *)
(* it enters a directory that has no entries yet; do_mount looks its path  *)
(* up with namei and makes ext2 load the root of the new file system.      *)
(* Reads of the disk may fail.  A directory is named by the names that lead *)
(* to the entry it was made for, the root being << >>; "." and ".." share  *)
(* the structures of others and make none.                                 *)
(*                                                                         *)
(* status is "panic" after a failed ASSERT and "wild" after an access      *)
(* through a NULL or uninitialised pointer or of a block that holds no     *)
(* directory.  Nothing is modelled from there on.                          *)
(***************************************************************************)
EXTENDS Naturals, Sequences, SequencesExt

CONSTANTS Partitions, \* that get_hdstruct finds
          Worlds      \* kernels, disks and what callers ask of them

RootInode == 2
None == "none"    \* no file system

\* disk: what is on the partitions that hold an ext2 file system.
\* names, short: names in the paths that callers pass, and those of one
\* character among them; most bounds the names of a path.  mounts: partitions
\* and paths that callers mount.  debug: built with _DEBUG_, so that ASSERT is
\* compiled in.  zeroed: whether kmalloc happens to return zeroed memory.
\* fails: whether reads may fail.
\* Of a disk: inode is the type of every inode, blocks the blocks of every
\* directory, data the entries in every block that holds some, 0 being no
\* inode; sb is the superblock, tables has the block of every group's inodes.
ASSUME DiskAssumption ==
    /\ None \notin Partitions
    /\ \A w \in Worlds :
          /\ DOMAIN w.disk \subseteq Partitions
          /\ w.short \subseteq w.names
          /\ w.most \in Nat
          /\ w.debug \in BOOLEAN /\ w.zeroed \in BOOLEAN /\ w.fails \in BOOLEAN
          /\ \A p \in DOMAIN w.disk : LET D == w.disk[p] IN
                /\ RootInode \in DOMAIN D.inode /\ D.inode[RootInode] = "dir"
                /\ \A i \in DOMAIN D.inode :
                      /\ i \in 1 .. D.sb.total_inodes
                      /\ D.inode[i] \in {"dir", "other"}
                      /\ D.inode[i] = "dir" => D.blocks[i] \in Seq(DOMAIN D.data) \ {<< >>}
                /\ \A b \in DOMAIN D.data : \A x \in D.data[b] : x.inode \in Nat

VARIABLES world,   \* which of Worlds this is
          dirs,    \* the struct dir_struct of every directory known so far
          call,    \* the call of namei or do_mount that is running
          answer,  \* what the last call returned, until the next one begins
          status   \* "ok", "panic" or "wild"

vars == <<world, dirs, call, answer, status>>

Disk == world.disk
Debug == world.debug
Zeroed == world.zeroed
IoFails == world.fails

Root == << >>
NoDir == <<"/">>  \* the NULL pointer to a directory

Slash == [abs |-> TRUE, names |-> << >>, slash |-> FALSE]
Paths == {Slash} \cup
         {path \in [abs : BOOLEAN, names : UNION {[1 .. n -> world.names] : n \in 1 .. world.most},
                    slash : BOOLEAN] : Last(path.names) = "" => path.slash}

NoAnswer == [op |-> "none", path |-> Slash, result |-> "none", inode |-> 0]
NoCall == [op |-> "none", part |-> None, path |-> Slash,
           dir |-> Root, rem |-> << >>, slash |-> FALSE]

\* A directory: its inode number, its file system, its parent and its entries
\* (none is NULL), and inode number and cached inode of its dir_entry.
Directory(inode, fs, parent, payload) ==
    [inode_no |-> inode, fs_info |-> fs, parent |-> parent, entries |-> {},
     de_inode_no |-> inode, payload |-> payload]

Init ==
    /\ world \in Worlds
    /\ dirs = [d \in {Root} |-> Directory(0, None, Root, "null")]
    /\ call = NoCall
    /\ answer = NoAnswer
    /\ status = "ok"

-----------------------------------------------------------------------------
(* Where ext2.c looks for things on the disk; a sector has IO_BLOCK_SIZE   *)
(* bytes, of which an inode or a group descriptor takes a part.            *)

IO_BLOCK_SIZE == 512
GD_SIZE == 32
block_size(D) == 1024 * 2 ^ D.sb.block_size_log

\* The sector of the drive behind a sector of the partition.
hdd_read(D, lba) == lba + D.start

\* What the format says, in bytes of the drive: the descriptors are in the block
\* behind the one that holds byte 1024, inodes one behind the other in the
\* table of their group.
DescriptorsAt(D) == D.start * IO_BLOCK_SIZE + (1024 \div block_size(D) + 1) * block_size(D)
InodeAt(D, i) ==
    D.start * IO_BLOCK_SIZE
    + D.tables[(i - 1) \div D.sb.inodes_per_group + 1] * block_size(D)
    + ((i - 1) % D.sb.inodes_per_group) * D.sb.inode_size

Lesser(m, n) == IF m < n THEN m ELSE n

\* ext2_mount: the descriptors that are in memory.
group_descriptors(D) ==
    LET gd_count == D.sb.total_blocks \div D.sb.blocks_per_group + 1
        gdt_lba == (IF block_size(D) = 1024 THEN 2 ELSE 1) * (block_size(D) \div IO_BLOCK_SIZE)
        size == gd_count * GD_SIZE
        sectors == size \div IO_BLOCK_SIZE + IF size % IO_BLOCK_SIZE # 0 THEN 1 ELSE 0
    IN  IF hdd_read(D, gdt_lba) * IO_BLOCK_SIZE # DescriptorsAt(D) THEN << >>
        ELSE SubSeq(D.tables, 1, Lesser(Len(D.tables), sectors * (IO_BLOCK_SIZE \div GD_SIZE)))

\* The inode that is at the place computed for inode i, or 0.  What memory in
\* front of the descriptors makes of inode 0 is left open here.
fetch_inode(D, i) ==
    LET group == (i - 1) \div D.sb.inodes_per_group
        per_sector == IO_BLOCK_SIZE \div D.sb.inode_size
        lba == group_descriptors(D)[group + 1] * (block_size(D) \div IO_BLOCK_SIZE)
               + ((i - 1) % D.sb.inodes_per_group) \div per_sector
        place == hdd_read(D, lba) * IO_BLOCK_SIZE + ((i - 1) % per_sector) * D.sb.inode_size
        found == {j \in DOMAIN D.inode : InodeAt(D, j) = place}
    IN  IF i = 0 \/ i > D.sb.total_inodes \/ found = {} THEN 0 ELSE CHOOSE j \in found : TRUE

-----------------------------------------------------------------------------
(* ext2_get_direntries                                                     *)

TypeOn(p, i) ==
    LET j == fetch_inode(Disk[p], i) IN IF j # 0 THEN Disk[p].inode[j] ELSE "other"

\* The inode is fetched from the file system of the parent of dir_entry, and
\* its first block is read from that of the directory.
Parents(ds, d) == ds[ds[d].parent].fs_info
Fetched(ds, d) == fetch_inode(Disk[Parents(ds, d)], ds[d].de_inode_no)
FirstBlock(ds, d) == Head(Disk[Parents(ds, d)].blocks[Fetched(ds, d)])
HasBlock(ds, d) == /\ Fetched(ds, d) \in DOMAIN Disk[Parents(ds, d)].blocks
                   /\ FirstBlock(ds, d) \in DOMAIN Disk[ds[d].fs_info].data
Content(ds, d) == Disk[ds[d].fs_info].data[FirstBlock(ds, d)]

\* Mutant: the parent directory gets a second structure.
directory_of_dot_only(ds, d, x) ==
    IF TypeOn(ds[d].fs_info, x.inode) # "dir" THEN NoDir
    ELSE IF x.inode = ds[d].inode_no THEN d
    ELSE Append(d, x.name)

\* Mutant: the wrong one of two pointers is stored.
directory_of_self(ds, d, x) ==
    IF TypeOn(ds[d].fs_info, x.inode) # "dir" THEN NoDir
    ELSE IF x.inode \in {ds[d].inode_no, ds[ds[d].parent].inode_no} THEN d
    ELSE Append(d, x.name)

\* The structure an entry points to: "." and ".." are told by their inodes.
directory_of(ds, d, x) ==
    IF TypeOn(ds[d].fs_info, x.inode) # "dir" THEN NoDir
    ELSE IF x.inode = ds[d].inode_no THEN d
    ELSE IF x.inode = ds[ds[d].parent].inode_no THEN ds[d].parent
    ELSE Append(d, x.name)

MadeFor(ds, d, x) == directory_of(ds, d, x) = Append(d, x.name)

\* get_direntry fetches the type, inside of an ASSERT.
entry_of(ds, d, x) ==
    [name |-> x.name, inode_no |-> x.inode, directory |-> directory_of(ds, d, x),
     type |-> IF Debug THEN TypeOn(ds[d].fs_info, x.inode) ELSE "unset"]

\* The tree with the entries of d, of which those named in dirty have an
\* uninitialised payload.
loaded(ds, d, dirty) ==
    LET made == {x \in Content(ds, d) : MadeFor(ds, d, x)}
        new  == [c \in {Append(d, x.name) : x \in made} |->
                    LET x == CHOOSE y \in made : c = Append(d, y.name)
                    IN  Directory(x.inode, ds[d].fs_info, d,
                                  CASE Debug -> "inode"
                                    [] ~Debug /\ x.name \in dirty -> "garbage"
                                    [] OTHER -> "null")]
    IN  [c \in DOMAIN ds \cup DOMAIN new |->
            IF c = d THEN [ds[d] EXCEPT !.payload = "inode",
                                        !.entries = {entry_of(ds, d, x) : x \in Content(ds, d)}]
            ELSE IF c \in DOMAIN new THEN new[c] ELSE ds[c]]

\* Entries that do not share the cached inode of another one.
fresh(ds, d) == {x \in Content(ds, d) : directory_of(ds, d, x) \notin {d, ds[d].parent}}

\* A fetch goes through a NULL or uninitialised payload, reads inode 0, or
\* the block is not one of a directory.
strays(ds, d) ==
    \/ ds[d].payload = "garbage"
    \/ IoFails
    \/ ~HasBlock(ds, d)
    \/ /\ Debug
       /\ \/ \E x \in Content(ds, d) : x.inode = 0
          \/ ~Zeroed /\ fresh(ds, d) # {}

\* The block was reached, and in a debug build the inode of every entry.
completes(ds, d) ==
    /\ ds[d].payload # "garbage" /\ HasBlock(ds, d)
    /\ Debug => \A x \in Content(ds, d) : x.inode # 0

Dirty(ds, d) ==
    IF Zeroed \/ Debug THEN {{}} ELSE SUBSET {x.name : x \in fresh(ds, d)}

\* Mutant: the entries are read again.
ext2_get_direntries_again(ds, d) ==
    {[result |-> "SUCCESS", dirs |-> loaded(ds, d, dirty)] :
        dirty \in IF completes(ds, d) THEN Dirty(ds, d) ELSE {}}

\* All results of loading directory d into the tree ds.
ext2_get_direntries(ds, d) ==
    IF ds[d].entries # {} THEN {[result |-> "SUCCESS", dirs |-> ds]}
    ELSE UNION {
        IF strays(ds, d) THEN {[result |-> "wild", dirs |-> ds]} ELSE {},
        IF Debug /\ IoFails THEN {[result |-> "panic", dirs |-> ds]} ELSE {},
        IF IoFails /\ ds[d].payload # "garbage"
        THEN {[result |-> "EIO", dirs |-> [ds EXCEPT ![d].payload = "inode"]]} ELSE {},
        {[result |-> "SUCCESS", dirs |-> loaded(ds, d, dirty)] :
            dirty \in IF completes(ds, d) THEN Dirty(ds, d) ELSE {}}}

Stops(r) == r.result \in {"wild", "panic"}

-----------------------------------------------------------------------------
(* namei                                                                   *)

Begin(op, p, path, rem, slash) ==
    /\ call' = [op |-> op, part |-> p, path |-> path, dir |-> Root,
                rem |-> rem, slash |-> slash]
    /\ answer' = NoAnswer

Answer(op, path, result, inode) ==
    answer' = [op |-> op, path |-> path, result |-> result, inode |-> inode]

\* The call op that is running ends without a node.
Fail(op, result) ==
    /\ Answer(op, call.path, result, 0)
    /\ call' = NoCall

\* namei hands out a node; do_mount goes on with its directory.
Found(op, p, path, inode, directory) ==
    IF op = "namei"
    THEN Answer(op, path, "SUCCESS", inode) /\ call' = NoCall
    ELSE /\ call' = [op |-> "mounting", part |-> p, path |-> path,
                     dir |-> directory, rem |-> << >>, slash |-> FALSE]
         /\ answer' = NoAnswer

\* The test for a lone "/" looks one character too far: behind the
\* terminator, or at the end of a name of one character.
returns_root(path) ==
    /\ path.abs
    /\ \/ path.names = << >>
       \/ Len(path.names) = 1 /\ path.names[1] \in world.short /\ ~path.slash

namei(op, p, path) ==
    \/ /\ returns_root(path)
       /\ Found(op, p, path, dirs[Root].de_inode_no, Root)
       /\ UNCHANGED <<dirs, status>>
    \/ /\ ~returns_root(path) \/ path.names = << >>
       /\ IF path.names = << >> THEN Begin(op, p, path, <<".">>, TRUE)
                                ELSE Begin(op, p, path, path.names, path.slash)
       /\ UNCHANGED <<dirs, status>>

Walking == status = "ok" /\ call.op \in {"namei", "do_mount"}

\* An empty name is read as ".".
Read(name) == IF name = "" THEN "." ELSE name

CurrentName == Read(Head(call.rem))
Matching == {e \in dirs[call.dir].entries : e.name = CurrentName}

\* Whether a test of an entry's type may come out as yes.
is_dir(e, yes) ==
    IF e.type = "unset" THEN ~yes \/ ~Zeroed ELSE yes = (e.type = "dir")

namei_not_found ==
    /\ Walking
    /\ Matching = {}
    /\ Fail(call.op, "ENOENT")
    /\ UNCHANGED <<dirs, status>>

\* The last name of the path.
namei_last ==
    /\ Walking /\ Len(call.rem) = 1
    /\ \E e \in Matching :
          \/ /\ ~call.slash \/ is_dir(e, TRUE)
             /\ Found(call.op, call.part, call.path, e.inode_no, e.directory)
          \/ /\ call.slash /\ is_dir(e, FALSE)
             /\ Fail(call.op, "ENOTDIR")
    /\ UNCHANGED <<dirs, status>>

namei_not_a_directory ==
    /\ Walking /\ Len(call.rem) > 1
    /\ \E e \in Matching : is_dir(e, FALSE)
    /\ Fail(call.op, "ENOENT")
    /\ UNCHANGED <<dirs, status>>

\* The next directory is entered, and filled when it is empty; the result of
\* get_direntries is not looked at.
namei_enters ==
    /\ Walking /\ Len(call.rem) > 1
    /\ \E e \in Matching :
          /\ is_dir(e, TRUE) /\ e.directory # NoDir
          /\ \E r \in ext2_get_direntries(dirs, e.directory) :
                IF Stops(r)
                THEN status' = r.result /\ UNCHANGED <<dirs, call>>
                ELSE /\ dirs' = r.dirs
                     /\ call' = [call EXCEPT !.dir = e.directory, !.rem = Tail(call.rem)]
                     /\ UNCHANGED status
    /\ UNCHANGED answer

\* An uninitialised type sends the walk into an entry without a directory.
namei_strays ==
    /\ Walking /\ Len(call.rem) > 1
    /\ \E e \in Matching : is_dir(e, TRUE) /\ e.directory = NoDir
    /\ status' = "wild"
    /\ UNCHANGED <<dirs, call, answer>>

-----------------------------------------------------------------------------
(* do_mount and ext2_mount                                                 *)

Idle == status = "ok" /\ call.op = "none"

call_namei(path) == Idle /\ namei("namei", None, path)

\* No file system recognises the partition.
do_mount_refused(p, path) ==
    /\ Idle
    /\ p \notin DOMAIN Disk \/ IoFails
    /\ Answer("do_mount", path, "EFSNOTSUP", 0)
    /\ UNCHANGED <<dirs, call, status>>

do_mount(p, path) == Idle /\ p \in DOMAIN Disk /\ namei("do_mount", p, path)

Mounting == status = "ok" /\ call.op = "mounting"

\* Superblock or group descriptors cannot be read.
ext2_mount_unreadable ==
    /\ Mounting
    /\ IoFails
    /\ Fail("do_mount", "EIO")
    /\ UNCHANGED <<dirs, status>>

\* The path names a file: its directory is NULL.
ext2_mount_strays ==
    /\ Mounting
    /\ call.dir = NoDir
    /\ status' = "wild"
    /\ UNCHANGED <<dirs, call, answer>>

mount_point(ds, d, p) ==
    [ds EXCEPT ![d] = [@ EXCEPT !.fs_info = p, !.inode_no = RootInode,
                                !.de_inode_no = RootInode]]

\* Mutant: nothing is restored.
unmounted_never(ds, d, fs_info_backup) == ds

\* The file system is restored, the inode numbers are not.
unmounted(ds, d, fs_info_backup) == [ds EXCEPT ![d].fs_info = fs_info_backup]

ext2_mount ==
    /\ Mounting
    /\ call.dir # NoDir
    /\ \E r \in ext2_get_direntries(mount_point(dirs, call.dir, call.part), call.dir) :
          \/ /\ Stops(r)
             /\ status' = r.result
             /\ UNCHANGED <<dirs, call, answer>>
          \/ /\ r.result = "EIO"
             /\ dirs' = unmounted(r.dirs, call.dir, dirs[call.dir].fs_info)
             /\ Fail("do_mount", "EIO")
             /\ UNCHANGED status
          \/ /\ r.result = "SUCCESS"
             /\ dirs' = r.dirs
             /\ Answer("do_mount", call.path, "SUCCESS", RootInode)
             /\ call' = NoCall
             /\ UNCHANGED status

-----------------------------------------------------------------------------

Step ==
    \/ \E path \in Paths : call_namei(path)
    \/ \E m \in world.mounts : do_mount(m[1], m[2]) \/ do_mount_refused(m[1], m[2])
    \/ namei_not_found \/ namei_last \/ namei_not_a_directory
    \/ namei_enters \/ namei_strays
    \/ ext2_mount \/ ext2_mount_unreadable \/ ext2_mount_strays

Next == Step /\ UNCHANGED world

Spec == Init /\ [][Next]_vars

-----------------------------------------------------------------------------
(* Properties                                                              *)

\* What the tools that make the image write.  Each inode has a place of its own
\* in the table of its group; whole sectors of inodes make up a group.
LaidOut(D) ==
    /\ D.start \in Nat /\ D.tables \in Seq(Nat)
    /\ block_size(D) \in {1024, 2048, 4096}
    /\ D.sb.inode_size \in {128, 256, 512}
    /\ D.sb.inodes_per_group \in Nat \ {0}
    /\ D.sb.inodes_per_group % (IO_BLOCK_SIZE \div D.sb.inode_size) = 0
    /\ D.sb.total_blocks \in Nat /\ D.sb.blocks_per_group \in Nat \ {0}
    /\ Len(D.tables) <= D.sb.total_blocks \div D.sb.blocks_per_group + 1
    /\ D.sb.total_inodes \in Nat
    /\ D.sb.total_inodes <= Len(D.tables) * D.sb.inodes_per_group
    /\ \A i, j \in DOMAIN D.inode : InodeAt(D, i) = InodeAt(D, j) => i = j

Directories(D) == {i \in DOMAIN D.inode : D.inode[i] = "dir"}
Listing(D, i) == D.data[Head(D.blocks[i])]
Proper(x) == x.name \notin {".", ".."}

\* A directory has one block, without unused entries, and in it each name once,
\* itself and its parent; and it has one name but "." and "..".
DirectoryFormed(D, i) ==
    /\ i \in DOMAIN D.blocks /\ Len(D.blocks[i]) = 1
    /\ \A x, y \in Listing(D, i) : x.name = y.name => x = y
    /\ \E x \in Listing(D, i) : x.name = "." /\ x.inode = i
    /\ \A x \in Listing(D, i) :
          /\ x.inode \in DOMAIN D.inode /\ x.name # "/"
          /\ x.name = ".." =>
                \/ i = RootInode /\ x.inode = RootInode
                \/ /\ x.inode \in Directories(D)
                   /\ \E y \in Listing(D, x.inode) : Proper(y) /\ y.inode = i
          /\ Proper(x) /\ x.inode \in Directories(D) =>
                /\ x.inode # RootInode
                /\ \A j \in Directories(D) : \A y \in Listing(D, j) :
                      Proper(y) /\ y.inode = x.inode => i = j /\ x = y
WellFormed(D) == \A i \in Directories(D) : DirectoryFormed(D, i)

\* A debug build that reads one such disk, mounted on the root, without errors,
\* into memory that happens to be zero.
BenignWorlds ==
    {w \in Worlds :
        /\ w.debug /\ w.zeroed /\ ~w.fails
        /\ \A p \in DOMAIN w.disk : LaidOut(w.disk[p]) /\ WellFormed(w.disk[p])
        /\ \A m, n \in w.mounts :
              /\ m[2] = Slash
              /\ m[1] \in DOMAIN w.disk /\ n[1] \in DOMAIN w.disk => m[1] = n[1]}
Benign == world \in BenignWorlds

\* Types of the variables; no entry points to a directory that is not there.
TypeOK ==
    /\ world \in Worlds
    /\ Root \in DOMAIN dirs
    /\ \A d \in DOMAIN dirs :
          /\ dirs[d].inode_no \in Nat /\ dirs[d].de_inode_no \in Nat
          /\ dirs[d].fs_info \in DOMAIN Disk \cup {None}
          /\ dirs[d].parent \in DOMAIN dirs
          /\ dirs[d].payload \in {"null", "inode", "garbage"}
          /\ \A e \in dirs[d].entries : e.directory \in DOMAIN dirs \cup {NoDir}
    /\ call.op \in {"none", "namei", "do_mount", "mounting"}
    /\ call.dir \in DOMAIN dirs \cup {NoDir}
    /\ status \in {"ok", "panic", "wild"}

\* The children of inode i, from all of its blocks.
Children(D, i) == UNION {D.data[D.blocks[i][n]] : n \in DOMAIN D.blocks[i]}

\* Ways over a disk: from its root directory, by each of the first k names, to an
\* inode; and where they end.
Ways(D, names, k) ==
    {way \in [0 .. k -> DOMAIN D.inode] :
        /\ way[0] = RootInode
        /\ \A n \in 1 .. k :
              /\ way[n - 1] \in Directories(D)
              /\ \E x \in Children(D, way[n - 1]) : x.name = Read(names[n]) /\ x.inode = way[n]}
Ends(D, names, k) == {way[k] : way \in Ways(D, names, k)}

\* The inodes that a path names; a slash behind it asks for a directory.
NamedBy(path) ==
    LET p == dirs[Root].fs_info
        ends == Ends(Disk[p], path.names, Len(path.names))
    IN  IF p = None THEN {} ELSE IF path.slash THEN ends \cap Directories(Disk[p]) ELSE ends

\* namei returns the node that the path names on the disk, whatever has been
\* loaded before, and fails only for paths that name nothing (vfs.c:85: a path
\* that starts with "/" is an absolute one), or hands out the root while nothing
\* is mounted; on the way nothing is accessed through a NULL pointer.
NameiExact ==
    Benign =>
        /\ status = "ok"
        /\ answer.op = "namei" /\ world.short \subseteq {"."} =>
              NamedBy(answer.path) =
                 IF answer.result = "SUCCESS" /\ answer.inode # 0 THEN {answer.inode} ELSE {}

\* vfs.h:47-51, the entries of a directory are all immediate children of the
\* inode its inode_no says, on its file system; and "." and ".." are
\* recognised: the tree holds every directory once, so that a walk over it ends.
TreeExact ==
    /\ TypeOK
    /\ Benign =>
          /\ \A d \in DOMAIN dirs : dirs[d].entries # {} =>
                {<<e.name, e.inode_no>> : e \in dirs[d].entries}
                    = {<<x.name, x.inode>> : x \in Children(Disk[dirs[d].fs_info], dirs[d].inode_no)}
          /\ \A c, d \in DOMAIN dirs :
                dirs[c].fs_info = dirs[d].fs_info /\ dirs[c].inode_no = dirs[d].inode_no
                    => c = d

NodesStep ==
    \A d \in DOMAIN dirs :
        /\ d \in DOMAIN dirs'
        /\ dirs[d].entries # {} => dirs'[d].entries = dirs[d].entries

\* Nodes that namei has handed out stay where they are, whatever is loaded or
\* mounted later.
NodesStay == [][NodesStep]_vars

FailedMountStep ==
    answer'.op = "do_mount" /\ answer'.result # "SUCCESS" =>
        \A d \in DOMAIN dirs : dirs'[d].fs_info = dirs[d].fs_info

\* A mount that returns an error leaves every directory on its file system
\* (ext2.c:403, no_mount_unmount).
FailedMountKeepsFs == [][FailedMountStep]_vars
=============================================================================
