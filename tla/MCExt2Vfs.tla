----------------------------- MODULE MCExt2Vfs -----------------------------
(* TLC instances of Ext2Vfs: two small disks and the paths to mount on.   *)
EXTENDS Ext2Vfs

Dots(self, parent) == {[name |-> ".", inode |-> self], [name |-> "..", inode |-> parent]}
Child(n, i) == [name |-> n, inode |-> i]

\* A root with two directories and a file.
DiskA ==
    [sb     |-> [total_inodes |-> 16, inodes_per_group |-> 8, inode_size |-> 128,
                 block_size_log |-> 0, total_blocks |-> 100, blocks_per_group |-> 64],
     start  |-> 63, tables |-> <<5, 69>>,
     inode  |-> (2 :> "dir" @@ 11 :> "dir" @@ 12 :> "dir" @@ 13 :> "other" @@ 14 :> "other"),
     blocks |-> (2 :> <<20>> @@ 11 :> <<21>> @@ 12 :> <<22>>),
     data   |-> (20 :> Dots(2, 2) \cup {Child("bin", 11), Child("mnt", 12), Child("init", 13)}
              @@ 21 :> Dots(11, 2) \cup {Child("sh", 14)}
              @@ 22 :> Dots(12, 2))]

\* Another layout, in which block 20 holds a directory that is not the root.
DiskB ==
    [sb     |-> [total_inodes |-> 32, inodes_per_group |-> 16, inode_size |-> 256,
                 block_size_log |-> 2, total_blocks |-> 48, blocks_per_group |-> 32],
     start  |-> 300, tables |-> <<3, 40>>,
     inode  |-> (2 :> "dir" @@ 11 :> "dir" @@ 12 :> "other"),
     blocks |-> (2 :> <<30>> @@ 11 :> <<20>>),
     data   |-> (30 :> Dots(2, 2) \cup {Child("bin", 11)}
              @@ 20 :> Dots(11, 2) \cup {Child("init", 12)})]

OnlyA == [p \in {"hda1"} |-> DiskA]
BothAB == [p \in {"hda1", "hda2"} |-> IF p = "hda1" THEN DiskA ELSE DiskB]

Mnt == [abs |-> TRUE, names |-> <<"mnt">>, slash |-> FALSE]
InitFile == [abs |-> TRUE, names |-> <<"init">>, slash |-> FALSE]

\* The root file system in a debug build, every path of its names; a release
\* build with errors, dirty memory and two disks mounted anywhere.
Walk ==
    [disk |-> OnlyA, names |-> {"", ".", "..", "bin", "mnt", "init", "sh"}, short |-> {"."}, most |-> 3,
     mounts |-> Partitions \X {Slash}, debug |-> TRUE, zeroed |-> TRUE, fails |-> FALSE]
WalkB == [Walk EXCEPT !.disk = [p \in {"hda2"} |-> DiskB], !.names = {"..", "bin", "init"},
                      !.short = {}]
Failures ==
    [disk |-> BothAB, names |-> {"..", "bin", "mnt", "init"}, short |-> {}, most |-> 2,
     mounts |-> Partitions \X {Slash, Mnt, InitFile},
     debug |-> FALSE, zeroed |-> FALSE, fails |-> TRUE]
MCWorlds == {Walk, WalkB, Failures}
=============================================================================
