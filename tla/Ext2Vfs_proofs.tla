-------------------------- MODULE Ext2Vfs_proofs --------------------------
(***************************************************************************)
(* Proofs about the directory tree of Ext2Vfs, for every disk, path and    *)
(* build.                                                                  *)
(*                                                                         *)
(* Nodes stay where they are, and a failed mount keeps file systems.  A    *)
(* load replaces the structures it makes.  That it makes none a second     *)
(* time takes an invariant: every directory but the root hangs below one   *)
(* that has entries, and only directories without entries are loaded.      *)
(*                                                                         *)
(* namei names the right inode, in a debug build and on a well-formed disk. *)
(* The driver finds the place of every inode; so the tree mirrors the disk, *)
(* each directory in it standing for another one of the disk and made from *)
(* the one name the disk has for it; and a walk is, after k names, in the  *)
(* only directory that the first k names of the path lead to.              *)
(***************************************************************************)
EXTENDS Ext2Vfs, TLAPS

Fields == {"inode_no", "fs_info", "parent", "entries", "de_inode_no", "payload"}
Record(r) == r = [f \in Fields |-> r[f]]

\* The directory a directory is named in.
Up(d) == SubSeq(d, 1, Len(d) - 1)

Shape(ds) ==
    /\ ds = [d \in DOMAIN ds |-> ds[d]]
    /\ \A d \in DOMAIN ds : Record(ds[d])
    /\ Root \in DOMAIN ds
Named(ds) == \E S : DOMAIN ds \subseteq Seq(S)
Closed(ds) ==
    \A d \in DOMAIN ds :
        /\ ds[d].parent \in DOMAIN ds
        /\ \A e \in ds[d].entries : e.directory \in DOMAIN ds \cup {NoDir}
Grown(ds) ==
    \A d \in DOMAIN ds : d # Root => Up(d) \in DOMAIN ds /\ ds[Up(d)].entries # {}

Tree(ds) == Shape(ds) /\ Named(ds) /\ Closed(ds) /\ Grown(ds)

\* ns has everything that ds has; file systems apart.
Keeps(ds, ns) ==
    \A d \in DOMAIN ds :
        /\ d \in DOMAIN ns
        /\ ds[d].entries # {} => ns[d].entries = ds[d].entries
SameFs(ds, ns) == \A d \in DOMAIN ds : ns[d].fs_info = ds[d].fs_info

\* A call, and a directory it is in; only a mount may have come to a file.
CallFields == {"op", "part", "path", "dir", "rem", "slash"}
Calling(c, ds) ==
    /\ c = [f \in CallFields |-> c[f]]
    /\ c.dir \in DOMAIN ds \cup {NoDir}
    /\ c.op # "mounting" => c.dir # NoDir

TreeInv == Tree(dirs) /\ Calling(call, dirs)

-----------------------------------------------------------------------------
(* Changes of single fields                                                *)

LEMMA NameAppended ==
    ASSUME NEW S, NEW d \in Seq(S), NEW n
    PROVE  /\ Append(d, n) \in Seq(S \cup {n})
           /\ Append(d, n) # Root
           /\ Up(Append(d, n)) = d
BY DEF Up, Root

\* What leaves names, parents and entries alone leaves the tree a tree.
LEMMA FieldChanged ==
    ASSUME NEW ds, Tree(ds), NEW ns, Shape(ns), DOMAIN ns = DOMAIN ds,
           \A d \in DOMAIN ds : ns[d].parent = ds[d].parent /\ ns[d].entries = ds[d].entries
    PROVE  Tree(ns) /\ Keeps(ds, ns)
<1>1. Shape(ds) /\ Named(ds) /\ Closed(ds) /\ Grown(ds)
  BY DEF Tree
<1>2. Named(ns)
  BY <1>1 DEF Named
<1>3. Closed(ns)
  BY <1>1 DEF Closed
<1>4. Grown(ns)
  BY <1>1 DEF Grown
<1>5. Keeps(ds, ns)
  BY DEF Keeps
<1> QED BY <1>2, <1>3, <1>4, <1>5 DEF Tree

\* The cached inode is fetched.
LEMMA PayloadSet ==
    ASSUME NEW ds, Tree(ds), NEW d \in DOMAIN ds, NEW v,
           NEW ns, ns = [ds EXCEPT ![d].payload = v]
    PROVE  Tree(ns) /\ Keeps(ds, ns) /\ SameFs(ds, ns) /\ DOMAIN ns = DOMAIN ds
<1>1. Shape(ds)
  BY DEF Tree
<1>2. /\ DOMAIN ns = DOMAIN ds
      /\ \A c \in DOMAIN ds : ns[c] = IF c = d THEN [ds[d] EXCEPT !.payload = v] ELSE ds[c]
      /\ ns = [c \in DOMAIN ns |-> ns[c]]
  BY <1>1 DEF Shape
<1>3. LET r == [ds[d] EXCEPT !.payload = v]
      IN  /\ Record(r) /\ r.parent = ds[d].parent /\ r.entries = ds[d].entries
          /\ r.fs_info = ds[d].fs_info
  BY <1>1 DEF Shape, Record, Fields
<1>4. Shape(ns)
  BY <1>1, <1>2, <1>3 DEF Shape
<1>5. \A c \in DOMAIN ds : /\ ns[c].parent = ds[c].parent /\ ns[c].entries = ds[c].entries
                           /\ ns[c].fs_info = ds[c].fs_info
  BY <1>2, <1>3
<1> QED BY <1>2, <1>4, <1>5, FieldChanged DEF SameFs

\* The mount point is entered, and the file system restored.
LEMMA MountPointSet ==
    ASSUME NEW ds, Tree(ds), NEW d \in DOMAIN ds, NEW p,
           NEW ns, ns = mount_point(ds, d, p)
    PROVE  /\ Tree(ns) /\ Keeps(ds, ns) /\ DOMAIN ns = DOMAIN ds
           /\ \A c \in DOMAIN ds : c # d => ns[c].fs_info = ds[c].fs_info
<1>1. Shape(ds)
  BY DEF Tree
<1> DEFINE r == [ds[d] EXCEPT !.fs_info = p, !.inode_no = RootInode, !.de_inode_no = RootInode]
<1>2. /\ DOMAIN ns = DOMAIN ds
      /\ \A c \in DOMAIN ds : ns[c] = IF c = d THEN r ELSE ds[c]
      /\ ns = [c \in DOMAIN ns |-> ns[c]]
  BY <1>1 DEF Shape, mount_point
<1>3. Record(r) /\ r.parent = ds[d].parent /\ r.entries = ds[d].entries
  BY <1>1 DEF Shape, Record, Fields
<1> HIDE DEF r
<1>4. Shape(ns)
  BY <1>1, <1>2, <1>3 DEF Shape
<1>5. \A c \in DOMAIN ds : /\ ns[c].parent = ds[c].parent /\ ns[c].entries = ds[c].entries
                           /\ c # d => ns[c].fs_info = ds[c].fs_info
  BY <1>2, <1>3
<1> QED BY <1>2, <1>4, <1>5, FieldChanged

LEMMA FsRestored ==
    ASSUME NEW ds, Tree(ds), NEW d \in DOMAIN ds, NEW fs,
           NEW ns, ns = unmounted(ds, d, fs)
    PROVE  /\ Tree(ns) /\ Keeps(ds, ns) /\ DOMAIN ns = DOMAIN ds
           /\ \A c \in DOMAIN ds : ns[c].fs_info = IF c = d THEN fs ELSE ds[c].fs_info
<1>1. Shape(ds)
  BY DEF Tree
<1> DEFINE r == [ds[d] EXCEPT !.fs_info = fs]
<1>2. /\ DOMAIN ns = DOMAIN ds
      /\ \A c \in DOMAIN ds : ns[c] = IF c = d THEN r ELSE ds[c]
      /\ ns = [c \in DOMAIN ns |-> ns[c]]
  BY <1>1 DEF Shape, unmounted
<1>3. Record(r) /\ r.parent = ds[d].parent /\ r.entries = ds[d].entries /\ r.fs_info = fs
  BY <1>1 DEF Shape, Record, Fields
<1> HIDE DEF r
<1>4. Shape(ns)
  BY <1>1, <1>2, <1>3 DEF Shape
<1>5. \A c \in DOMAIN ds :
         /\ ns[c].parent = ds[c].parent /\ ns[c].entries = ds[c].entries
         /\ ns[c].fs_info = IF c = d THEN fs ELSE ds[c].fs_info
  BY <1>2, <1>3
<1> QED BY <1>2, <1>4, <1>5, FieldChanged

-----------------------------------------------------------------------------
(* Loading a directory                                                     *)

\* The names of the structures that loading d makes.
Made(ds, d) == {Append(d, x.name) : x \in {y \in Content(ds, d) : MadeFor(ds, d, y)}}

LEMMA MadeIsNew ==
    ASSUME NEW ds, Tree(ds), NEW d \in DOMAIN ds, ds[d].entries = {}
    PROVE  Made(ds, d) \cap DOMAIN ds = {}
<1>1. PICK S : DOMAIN ds \subseteq Seq(S)
  BY DEF Tree, Named
<1>2. ASSUME NEW n, Append(d, n) \in DOMAIN ds PROVE FALSE
  <2>1. Append(d, n) # Root /\ Up(Append(d, n)) = d
    BY <1>1, NameAppended
  <2> QED BY <1>2, <2>1 DEF Tree, Grown
<1> QED BY <1>2 DEF Made

\* What loading makes of a directory d, and a structure r it makes.
New(ds, d, c, r) ==
    /\ Record(r) /\ r.parent = d /\ r.entries = {} /\ r.fs_info = ds[d].fs_info
    /\ r.payload \in {"inode", "garbage", "null"} /\ (Debug => r.payload = "inode")
    /\ \E x \in Content(ds, d) : /\ MadeFor(ds, d, x) /\ c = Append(d, x.name)
                                 /\ r.inode_no = x.inode /\ r.de_inode_no = x.inode
Filled(ds, d, r) ==
    /\ Record(r) /\ r.parent = ds[d].parent /\ r.fs_info = ds[d].fs_info
    /\ r.inode_no = ds[d].inode_no /\ r.de_inode_no = ds[d].de_inode_no /\ r.payload = "inode"
    /\ r.entries = {entry_of(ds, d, x) : x \in Content(ds, d)}
Loads(ds, d, ns) ==
    /\ DOMAIN ns = DOMAIN ds \cup Made(ds, d)
    /\ ns = [c \in DOMAIN ns |-> ns[c]]
    /\ \A c \in DOMAIN ds \ {d} : c \notin Made(ds, d) => ns[c] = ds[c]
    /\ \A c \in Made(ds, d) : c # d => New(ds, d, c, ns[c])
    /\ Filled(ds, d, ns[d])

LEMMA LoadedAt ==
    ASSUME NEW ds, NEW d \in DOMAIN ds, NEW dirty, NEW ns, ns = loaded(ds, d, dirty),
           Record(ds[d])
    PROVE  Loads(ds, d, ns)
<1> DEFINE made == {x \in Content(ds, d) : MadeFor(ds, d, x)}
           Picked(c) == CHOOSE y \in made : c = Append(d, y.name)
           Payload(c) == CASE Debug -> "inode"
                           [] ~Debug /\ Picked(c).name \in dirty -> "garbage"
                           [] OTHER -> "null"
           Fresh(c) == Directory(Picked(c).inode, ds[d].fs_info, d, Payload(c))
           new == [c \in {Append(d, x.name) : x \in made} |-> Fresh(c)]
           Self == [ds[d] EXCEPT !.payload = "inode",
                                 !.entries = {entry_of(ds, d, x) : x \in Content(ds, d)}]
<1>1. ns = [c \in DOMAIN ds \cup DOMAIN new |->
               IF c = d THEN Self ELSE IF c \in DOMAIN new THEN new[c] ELSE ds[c]]
  BY Zenon DEF loaded
<1>2. ASSUME NEW c \in Made(ds, d)
      PROVE  /\ Record(Fresh(c)) /\ Fresh(c).parent = d /\ Fresh(c).entries = {}
             /\ Fresh(c).fs_info = ds[d].fs_info
             /\ Fresh(c).inode_no = Picked(c).inode /\ Fresh(c).de_inode_no = Picked(c).inode
             /\ Fresh(c).payload = Payload(c)
  <2> HIDE DEF Picked, Payload
  <2> QED BY DEF Directory, Record, Fields
<1>3. ASSUME NEW c \in Made(ds, d)
      PROVE  /\ Picked(c) \in Content(ds, d) /\ MadeFor(ds, d, Picked(c))
             /\ c = Append(d, Picked(c).name)
  <2>1. \E y \in made : c = Append(d, y.name)
    BY DEF Made
  <2>2. Picked(c) \in made /\ c = Append(d, Picked(c).name)
    <3> HIDE DEF made
    <3> QED BY <2>1
  <2> QED BY <2>2
<1>4. ASSUME NEW c \in Made(ds, d)
      PROVE  /\ Payload(c) \in {"inode", "garbage", "null"}
             /\ Debug => Payload(c) = "inode"
  <2> HIDE DEF Picked
  <2>1. CASE Debug
    <3>1. Payload(c) = "inode"
      BY <2>1, Zenon
    <3> QED BY <3>1
  <2>2. CASE ~Debug /\ Picked(c).name \in dirty
    <3>1. Payload(c) = "garbage"
      BY <2>2, Zenon
    <3> QED BY <2>2, <3>1
  <2>3. CASE ~Debug /\ Picked(c).name \notin dirty
    <3>1. Payload(c) = "null"
      BY <2>3, Zenon
    <3> QED BY <2>3, <3>1
  <2> QED BY <2>1, <2>2, <2>3, Zenon
<1>5. /\ Record(Self) /\ Self.parent = ds[d].parent /\ Self.fs_info = ds[d].fs_info
      /\ Self.inode_no = ds[d].inode_no /\ Self.de_inode_no = ds[d].de_inode_no
      /\ Self.payload = "inode"
      /\ Self.entries = {entry_of(ds, d, x) : x \in Content(ds, d)}
  BY DEF Record, Fields
<1>6. DOMAIN new = Made(ds, d) /\ \A c \in Made(ds, d) : new[c] = Fresh(c)
  <2> HIDE DEF New
  <2> QED BY DEF Made
<1> HIDE DEF Fresh, Self, new, Picked, Payload, made
<1>7. /\ DOMAIN ns = DOMAIN ds \cup Made(ds, d)
      /\ ns = [c \in DOMAIN ns |-> ns[c]]
      /\ \A c \in DOMAIN ds \ {d} : c \notin Made(ds, d) => ns[c] = ds[c]
      /\ \A c \in Made(ds, d) : c # d => ns[c] = Fresh(c)
      /\ ns[d] = Self
  BY <1>1, <1>6
<1>8. ASSUME NEW c \in Made(ds, d) PROVE New(ds, d, c, Fresh(c))
  BY <1>2, <1>3, <1>4 DEF New
<1>9. Filled(ds, d, Self)
  BY <1>5 DEF Filled
<1> QED BY <1>7, <1>8, <1>9 DEF Loads

LEMMA EntryDirectory ==
    ASSUME NEW ds, Tree(ds), NEW d \in DOMAIN ds, NEW x \in Content(ds, d)
    PROVE  entry_of(ds, d, x).directory \in DOMAIN ds \cup Made(ds, d) \cup {NoDir}
<1>1. entry_of(ds, d, x).directory = directory_of(ds, d, x)
  BY DEF entry_of
<1>2. ds[d].parent \in DOMAIN ds
  BY DEF Tree, Closed
<1>3. MadeFor(ds, d, x) => directory_of(ds, d, x) \in Made(ds, d)
  BY DEF MadeFor, Made
<1>4. \/ directory_of(ds, d, x) \in {NoDir, d, ds[d].parent}
      \/ directory_of(ds, d, x) = Append(d, x.name)
  BY DEF directory_of
<1> QED BY <1>1, <1>2, <1>3, <1>4 DEF MadeFor

LEMMA LoadedTree ==
    ASSUME NEW ds, Tree(ds), NEW d \in DOMAIN ds, ds[d].entries = {},
           NEW dirty, NEW ns, ns = loaded(ds, d, dirty)
    PROVE  Tree(ns) /\ Keeps(ds, ns) /\ SameFs(ds, ns)
<1>1. Shape(ds) /\ Named(ds) /\ Closed(ds) /\ Grown(ds)
  BY DEF Tree
<1>2. Record(ds[d])
  BY <1>1 DEF Shape
<1>3. Made(ds, d) \cap DOMAIN ds = {}
  BY MadeIsNew
<1> DEFINE M == Made(ds, d)
<1>4. Loads(ds, d, ns)
  BY <1>2, LoadedAt
<1>5. /\ DOMAIN ns = DOMAIN ds \cup M
      /\ ns = [c \in DOMAIN ns |-> ns[c]]
      /\ \A c \in DOMAIN ds \ {d} : ns[c] = ds[c]
      /\ \A c \in M : Record(ns[c]) /\ ns[c].parent = d /\ ns[c].entries = {}
      /\ Record(ns[d]) /\ ns[d].parent = ds[d].parent /\ ns[d].fs_info = ds[d].fs_info
      /\ ns[d].entries = {entry_of(ds, d, x) : x \in Content(ds, d)}
  BY <1>3, <1>4 DEF Loads, Filled, New
<1>6. \A x \in Content(ds, d) : entry_of(ds, d, x).directory \in DOMAIN ds \cup M \cup {NoDir}
  BY EntryDirectory
<1>7. Shape(ns)
  BY <1>1, <1>5 DEF Shape
<1>8. Named(ns) /\ \A c \in M : c # Root /\ Up(c) = d
  <2>1. PICK S : DOMAIN ds \subseteq Seq(S)
    BY <1>1 DEF Named
  <2> DEFINE T == S \cup {x.name : x \in Content(ds, d)}
  <2>2. \A s \in Seq(S) : s \in Seq(T)
    OBVIOUS
  <2>3. ASSUME NEW c \in M PROVE c \in Seq(T) /\ c # Root /\ Up(c) = d
    <3>1. PICK x \in Content(ds, d) : c = Append(d, x.name)
      BY DEF Made
    <3>2. d \in Seq(T) /\ T \cup {x.name} = T
      BY <2>1, <2>2
    <3> QED BY <3>1, <3>2, NameAppended
  <2>4. DOMAIN ns \subseteq Seq(T)
    BY <1>5, <2>1, <2>2, <2>3
  <2> QED BY <2>3, <2>4 DEF Named
<1>9. Closed(ns)
  BY <1>1, <1>5, <1>6 DEF Closed
<1>10. Grown(ns)
  <2> SUFFICES ASSUME NEW c \in DOMAIN ns, c # Root
               PROVE  Up(c) \in DOMAIN ns /\ ns[Up(c)].entries # {}
    BY DEF Grown
  <2>1. CASE c \in M
    <3>1. PICK x \in Content(ds, d) : c = Append(d, x.name)
      BY <2>1 DEF Made
    <3>2. entry_of(ds, d, x) \in ns[d].entries
      BY <1>5
    <3> QED BY <1>5, <1>8, <2>1, <3>2
  <2>2. CASE c \in DOMAIN ds
    <3>1. Up(c) \in DOMAIN ds /\ ds[Up(c)].entries # {}
      BY <1>1, <2>2 DEF Grown
    <3> QED BY <1>5, <3>1
  <2> QED BY <1>5, <2>1, <2>2
<1>11. Keeps(ds, ns) /\ SameFs(ds, ns)
  BY <1>5 DEF Keeps, SameFs
<1> QED BY <1>7, <1>8, <1>9, <1>10, <1>11 DEF Tree

\* Whatever loading a directory comes to.
LEMMA LoadKeeps ==
    ASSUME NEW ds, Tree(ds), NEW d \in DOMAIN ds, NEW r \in ext2_get_direntries(ds, d)
    PROVE  Tree(r.dirs) /\ Keeps(ds, r.dirs) /\ SameFs(ds, r.dirs)
<1>1. Keeps(ds, ds) /\ SameFs(ds, ds)
  BY DEF Keeps, SameFs
<1>2. \/ r.dirs = ds
      \/ r.dirs = [ds EXCEPT ![d].payload = "inode"]
      \/ ds[d].entries = {} /\ \E dirty : r.dirs = loaded(ds, d, dirty)
  BY DEF ext2_get_direntries
<1> QED BY <1>1, <1>2, PayloadSet, LoadedTree

-----------------------------------------------------------------------------
(* Steps                                                                   *)

\* A step that changes directories keeps them, and their file systems unless
\* a mount succeeds.
Good(ds, ns) == Tree(ns) /\ Keeps(ds, ns)

LEMMA KeepsSame ==
    ASSUME NEW ds, Tree(ds) PROVE Good(ds, ds) /\ SameFs(ds, ds)
BY DEF Good, Keeps, SameFs

LEMMA RootThere ==
    ASSUME NEW ds, Root \in DOMAIN ds PROVE Calling(NoCall, ds)
BY DEF NoCall, Calling, CallFields, Root, NoDir

LEMMA InitTree == Init => TreeInv
<1> SUFFICES ASSUME Init PROVE TreeInv
  OBVIOUS
<1>1. /\ DOMAIN dirs = {Root} /\ dirs = [d \in DOMAIN dirs |-> dirs[d]]
      /\ dirs[Root] = Directory(0, None, Root, "null")
  BY DEF Init
<1>2. LET r == Directory(0, None, Root, "null")
      IN  Record(r) /\ r.parent = Root /\ r.entries = {}
  BY DEF Directory, Record, Fields
<1>3. Shape(dirs)
  BY <1>1, <1>2 DEF Shape
<1>4. Named(dirs)
  BY <1>1 DEF Named, Root
<1>5. Closed(dirs) /\ Grown(dirs)
  BY <1>1, <1>2 DEF Closed, Grown
<1>6. Calling(call, dirs)
  BY <1>1, RootThere DEF Init
<1> QED BY <1>3, <1>4, <1>5, <1>6 DEF TreeInv, Tree

\* The directory an entry of the current one leads to.
LEMMA MatchingLeads ==
    ASSUME TreeInv, call.op # "mounting", NEW e \in Matching
    PROVE  e.directory \in DOMAIN dirs \cup {NoDir}
BY DEF TreeInv, Tree, Closed, Calling, Matching

\* What every step keeps.  Only a mount that succeeds changes file systems, and
\* what the last call answered does not outlive the next one.
Kept ==
    /\ TreeInv'
    /\ Keeps(dirs, dirs')
    /\ answer'.op = "do_mount" /\ answer'.result # "SUCCESS" => SameFs(dirs, dirs')

\* Steps that leave the directories as they are.
LEMMA NothingChanged ==
    ASSUME TreeInv, UNCHANGED dirs, Calling(call', dirs)
    PROVE  Kept
BY KeepsSame DEF TreeInv, Kept, Good

LEMMA NameiBegins ==
    ASSUME TreeInv, NEW op \in {"namei", "do_mount"}, NEW p, NEW path, namei(op, p, path),
           call.op = "none"
    PROVE  Kept
<1>1. Root \in DOMAIN dirs /\ Root # NoDir
  BY DEF TreeInv, Tree, Shape, Root, NoDir
<1>2. UNCHANGED dirs /\ Calling(call', dirs)
  BY <1>1, RootThere DEF namei, Begin, Found, Calling, CallFields
<1> QED BY <1>2, NothingChanged

LEMMA NameiEnds ==
    ASSUME TreeInv, Walking, namei_not_found \/ namei_last \/ namei_not_a_directory \/ namei_strays
    PROVE  Kept
<1>1. call.op # "mounting" /\ Root \in DOMAIN dirs
  BY DEF Walking, TreeInv, Tree, Shape
<1>2. CASE namei_not_found \/ namei_not_a_directory
  BY <1>1, <1>2, RootThere, NothingChanged
     DEF namei_not_found, namei_not_a_directory, Fail
<1>3. CASE namei_strays
  BY <1>3, NothingChanged DEF namei_strays, TreeInv
<1>4. CASE namei_last
  <2>1. UNCHANGED dirs
    BY <1>4 DEF namei_last
  <2>2. PICK e \in Matching :
           \/ Found(call.op, call.part, call.path, e.inode_no, e.directory)
           \/ Fail(call.op, "ENOTDIR")
    BY <1>4 DEF namei_last
  <2>3. e.directory \in DOMAIN dirs \cup {NoDir}
    BY <1>1, MatchingLeads
  <2>4. Calling(call', dirs)
    BY <1>1, <2>2, <2>3, RootThere DEF Found, Fail, Calling, CallFields
  <2> QED BY <2>1, <2>4, NothingChanged
<1> QED BY <1>2, <1>3, <1>4

LEMMA NameiEnters ==
    ASSUME TreeInv, namei_enters PROVE Kept
<1>1. call.op # "mounting"
  BY DEF namei_enters, Walking
<1>2. PICK e \in Matching :
         /\ e.directory # NoDir
         /\ \E r \in ext2_get_direntries(dirs, e.directory) :
               \/ UNCHANGED <<dirs, call>>
               \/ dirs' = r.dirs /\ call' = [call EXCEPT !.dir = e.directory, !.rem = Tail(call.rem)]
  BY DEF namei_enters
<1>3. e.directory \in DOMAIN dirs
  BY <1>1, <1>2, MatchingLeads
<1>4. CASE UNCHANGED <<dirs, call>>
  BY <1>4, NothingChanged DEF TreeInv
<1>5. ASSUME NEW r \in ext2_get_direntries(dirs, e.directory), dirs' = r.dirs,
             call' = [call EXCEPT !.dir = e.directory, !.rem = Tail(call.rem)]
      PROVE  Kept
  <2>1. Tree(dirs') /\ Keeps(dirs, dirs') /\ SameFs(dirs, dirs')
    BY <1>3, <1>5, LoadKeeps DEF TreeInv
  <2>2. call'.dir = e.directory /\ call' = [f \in CallFields |-> call'[f]]
    BY <1>5 DEF TreeInv, Calling, CallFields
  <2>3. Calling(call', dirs')
    BY <1>2, <1>3, <2>1, <2>2 DEF Calling, Keeps
  <2> QED BY <2>1, <2>3 DEF Kept, TreeInv
<1> QED BY <1>2, <1>4, <1>5

LEMMA Mounts ==
    ASSUME TreeInv, ext2_mount PROVE Kept
<1> DEFINE d == call.dir
           m == mount_point(dirs, d, call.part)
<1>1. d \in DOMAIN dirs
  BY DEF ext2_mount, TreeInv, Calling
<1>2. /\ Tree(m) /\ Keeps(dirs, m) /\ DOMAIN m = DOMAIN dirs
      /\ \A c \in DOMAIN dirs : c # d => m[c].fs_info = dirs[c].fs_info
  BY <1>1, MountPointSet DEF TreeInv
<1>3. PICK r \in ext2_get_direntries(m, d) :
         \/ UNCHANGED <<dirs, call, answer>>
         \/ dirs' = unmounted(r.dirs, d, dirs[d].fs_info) /\ Fail("do_mount", "EIO")
         \/ /\ dirs' = r.dirs
            /\ Answer("do_mount", call.path, "SUCCESS", RootInode)
            /\ call' = NoCall
  BY DEF ext2_mount
<1>4. /\ Tree(r.dirs) /\ Keeps(m, r.dirs) /\ Keeps(dirs, r.dirs)
      /\ \A c \in DOMAIN dirs : c \in DOMAIN r.dirs /\ (c # d => r.dirs[c].fs_info = dirs[c].fs_info)
  <2> HIDE DEF m
  <2>1. Tree(r.dirs) /\ Keeps(m, r.dirs) /\ SameFs(m, r.dirs)
    BY <1>1, <1>2, LoadKeeps
  <2> QED BY <1>2, <2>1 DEF Keeps, SameFs
<1> HIDE DEF m, d
<1>5. CASE UNCHANGED <<dirs, call, answer>>
  BY <1>5, NothingChanged DEF TreeInv
<1>6. CASE dirs' = unmounted(r.dirs, d, dirs[d].fs_info) /\ Fail("do_mount", "EIO")
  <2>1. /\ Tree(dirs') /\ Keeps(r.dirs, dirs') /\ DOMAIN dirs' = DOMAIN r.dirs
        /\ \A c \in DOMAIN r.dirs :
              dirs'[c].fs_info = IF c = d THEN dirs[d].fs_info ELSE r.dirs[c].fs_info
    BY <1>1, <1>4, <1>6, FsRestored
  <2>2. Keeps(dirs, dirs') /\ SameFs(dirs, dirs')
    BY <1>4, <2>1 DEF Keeps, SameFs
  <2>3. Calling(call', dirs')
    BY <1>6, <2>1, RootThere DEF Fail, Tree, Shape
  <2> QED BY <2>1, <2>2, <2>3 DEF Kept, TreeInv
<1>7. CASE /\ dirs' = r.dirs
           /\ Answer("do_mount", call.path, "SUCCESS", RootInode)
           /\ call' = NoCall
  <2>1. Calling(call', dirs')
    BY <1>4, <1>7, RootThere DEF Tree, Shape
  <2>2. answer'.result = "SUCCESS"
    BY <1>7 DEF Answer
  <2> QED BY <1>4, <1>7, <2>1, <2>2 DEF Kept, TreeInv
<1> QED BY <1>3, <1>5, <1>6, <1>7

\* Mounts that end before a directory is touched.
LEMMA MountsNot ==
    ASSUME TreeInv, ext2_mount_unreadable \/ ext2_mount_strays PROVE Kept
<1>1. Root \in DOMAIN dirs
  BY DEF TreeInv, Tree, Shape
<1>2. CASE ext2_mount_unreadable
  BY <1>1, <1>2, RootThere, NothingChanged DEF ext2_mount_unreadable, Fail
<1>3. CASE ext2_mount_strays
  BY <1>3, NothingChanged DEF ext2_mount_strays, TreeInv
<1> QED BY <1>2, <1>3

LEMMA StepKeeps == TreeInv /\ [Next]_vars => Kept
<1> SUFFICES ASSUME TreeInv, [Next]_vars PROVE Kept
  OBVIOUS
<1>1. CASE UNCHANGED vars
  BY <1>1, NothingChanged DEF vars, TreeInv
<1>2. ASSUME NEW path \in Paths, call_namei(path) PROVE Kept
  BY <1>2, NameiBegins DEF call_namei, Idle
<1>3. ASSUME NEW m \in world.mounts, do_mount(m[1], m[2]) PROVE Kept
  BY <1>3, NameiBegins DEF do_mount, Idle
<1>4. ASSUME NEW m \in world.mounts, do_mount_refused(m[1], m[2]) PROVE Kept
  BY <1>4, NothingChanged DEF do_mount_refused, TreeInv
<1>5. CASE namei_not_found \/ namei_last \/ namei_not_a_directory \/ namei_strays
  BY <1>5, NameiEnds DEF namei_not_found, namei_last, namei_not_a_directory, namei_strays
<1>6. CASE namei_enters
  BY <1>6, NameiEnters
<1>7. CASE ext2_mount
  BY <1>7, Mounts
<1>8. CASE ext2_mount_unreadable \/ ext2_mount_strays
  BY <1>8, MountsNot
<1> QED BY <1>1, <1>2, <1>3, <1>4, <1>5, <1>6, <1>7, <1>8 DEF Next, Step

-----------------------------------------------------------------------------
(* Types                                                                   *)

Typed(ds) ==
    \A d \in DOMAIN ds :
        /\ ds[d].inode_no \in Nat /\ ds[d].de_inode_no \in Nat
        /\ ds[d].payload \in {"null", "inode", "garbage"}
        /\ ds[d].fs_info \in DOMAIN Disk \cup {None}

\* Without a file system there is only the root, and nothing in it.
Backed(ds) ==
    \A d \in DOMAIN ds : ds[d].fs_info = None => DOMAIN ds = {Root} /\ ds[Root].entries = {}

TypeInv ==
    /\ world \in Worlds
    /\ Typed(dirs) /\ Backed(dirs)
    /\ call.op \in {"none", "namei", "do_mount", "mounting"}
    /\ call.op \in {"do_mount", "mounting"} => call.part \in DOMAIN Disk
    /\ status \in {"ok", "panic", "wild"}

-----------------------------------------------------------------------------
(* The tree and the disk, in a benign world                                *)

\* Nothing is mounted yet.
Bare(ds) ==
    /\ DOMAIN ds = {Root}
    /\ ds[Root].entries = {} /\ ds[Root].parent = Root /\ ds[Root].fs_info = None
    /\ ds[Root].inode_no = 0 /\ ds[Root].de_inode_no = 0 /\ ds[Root].payload # "garbage"

\* An entry leads to the directory of its inode.
Leads(ds, p, e) ==
    /\ e.type \in {"dir", "other"}
    /\ e.type = "dir" <=> e.inode_no \in Directories(Disk[p])
    /\ IF e.type = "dir" THEN e.directory \in DOMAIN ds /\ ds[e.directory].inode_no = e.inode_no
                         ELSE e.directory = NoDir

\* Entries are those of the inode on the disk.
Listed(es, xs) ==
    /\ \A x \in xs : \E e \in es : e.name = x.name /\ e.inode_no = x.inode
    /\ \A e \in es : \E x \in xs : e.name = x.name /\ e.inode_no = x.inode

\* Every directory stands for another directory of the disk, and was made from the
\* one name the disk has for it.
Stands(ds, p, d) ==
    /\ ds[d].fs_info = p
    /\ ds[d].inode_no \in Directories(Disk[p]) /\ ds[d].de_inode_no = ds[d].inode_no
    /\ ds[d].payload # "garbage"
    /\ ds[d].entries # {} =>
          /\ Listed(ds[d].entries, Listing(Disk[p], ds[d].inode_no))
          /\ \A e \in ds[d].entries : Leads(ds, p, e)
Hangs(ds, p, d) ==
    IF d = Root THEN ds[d].parent = Root /\ ds[d].inode_no = RootInode
    ELSE /\ ds[d].parent = Up(d)
         /\ \E x \in Listing(Disk[p], ds[Up(d)].inode_no) : Proper(x) /\ x.inode = ds[d].inode_no
Single(ds) == \A c, d \in DOMAIN ds : ds[c].inode_no = ds[d].inode_no => c = d

Mirrors(ds, p) ==
    /\ NoDir \notin DOMAIN ds
    /\ \A d \in DOMAIN ds : Stands(ds, p, d) /\ Hangs(ds, p, d)
    /\ Single(ds)

\* Callers mount no other disk.
Only(p) == \A m \in world.mounts : m[1] \in DOMAIN Disk => m[1] = p

Mirrored(ds) ==
    \/ Bare(ds)
    \/ \E p \in DOMAIN Disk : Mirrors(ds, p) /\ Only(p) /\ ds[Root].entries # {}

\* Mounts go to the root.
MountsRoot(c) ==
    /\ c.op = "do_mount" => c.dir = Root /\ c.rem = <<".">>
    /\ c.op \in {"do_mount", "mounting"} => \E m \in world.mounts : m[1] = c.part
    /\ c.op = "mounting" => c.dir = Root

-----------------------------------------------------------------------------
(* The walk                                                                *)

\* The first k names of the path have been walked, and lead to the directory
\* the call is in.  A lone "/" is walked as ".".
At(ds, c, k) ==
    /\ Len(c.rem) = Len(c.path.names) - k
    /\ \A n \in 1 .. Len(c.rem) : c.rem[n] = c.path.names[k + n]
    /\ c.slash = c.path.slash
    /\ ds[Root].fs_info # None =>
          Ends(Disk[ds[Root].fs_info], c.path.names, k) = {ds[c.dir].inode_no}
Walks(ds, c) ==
    c.op = "namei" =>
        /\ c.path \in Paths /\ c.rem \in Seq(world.names \cup {"."})
        /\ ds[Root].entries # {} => ds[c.dir].entries # {}
        /\ IF c.path.names = << >>
           THEN c.path = Slash /\ c.rem = <<".">> /\ c.dir = Root
           ELSE \E k \in Nat : k < Len(c.path.names) /\ At(ds, c, k)

\* An answer of namei is right.
NamedOn(p, path) ==
    LET ends == Ends(Disk[p], path.names, Len(path.names))
    IN  IF p = None THEN {} ELSE IF path.slash THEN ends \cap Directories(Disk[p]) ELSE ends
Handed(a) == IF a.result = "SUCCESS" /\ a.inode # 0 THEN {a.inode} ELSE {}
Right(ds, a) ==
    a.op = "namei" /\ world.short \subseteq {"."} => NamedOn(ds[Root].fs_info, a.path) = Handed(a)

Sound(ds, c, a, s) ==
    /\ s = "ok" /\ Mirrored(ds) /\ MountsRoot(c) /\ Walks(ds, c)
    /\ a.op = "namei" => c.op = "none"
    /\ Right(ds, a)
BenignInv == Benign => Sound(dirs, call, answer, status)


-----------------------------------------------------------------------------
(* Where inodes lie                                                        *)

LEMMA DivMod ==
    ASSUME NEW n \in Nat, NEW b \in Nat \ {0}
    PROVE  n \div b \in Nat /\ (n % b) \in 0 .. b - 1 /\ n = b * (n \div b) + (n % b)
OBVIOUS

LEMMA DivSmaller ==
    ASSUME NEW n \in Nat, NEW b \in Nat \ {0}, NEW m \in Nat, n < m * b
    PROVE  n \div b < m
<1> DEFINE q == n \div b
<1>1. q \in Nat /\ (n % b) \in 0 .. b - 1 /\ n = b * q + (n % b)
  BY DivMod
<1> HIDE DEF q
<1> SUFFICES ASSUME m <= q PROVE FALSE
  BY <1>1 DEF q
<1>2. m * b <= q * b
  BY <1>1
<1> QED BY <1>1, <1>2

\* Whole sectors make up a group: which inode of a sector it is does not depend
\* on the group.
LEMMA SameRest ==
    ASSUME NEW i \in Nat, NEW g \in Nat \ {0}, NEW q \in {1, 2, 4}, g % q = 0
    PROVE  i % q = (i % g) % q
<1> DEFINE h == g \div q
           m == h * (i \div g)
<1>1. g = q * h /\ h \in Nat
  OBVIOUS
<1>2. i = g * (i \div g) + (i % g) /\ i \div g \in Nat /\ i % g \in Nat
  OBVIOUS
<1>3. m \in Nat /\ g * (i \div g) = q * m
  <2> DEFINE d == i \div g
  <2>1. d \in Nat
    BY <1>2
  <2> HIDE DEF h, d
  <2>2. (q * h) * d = q * (h * d) /\ h * d \in Nat
    BY <1>1, <2>1
  <2> QED BY <1>1, <2>2 DEF d
<1> DEFINE r == i % g
<1>4. i = q * m + r /\ r \in Nat
  BY <1>2, <1>3
<1> HIDE DEF m, r
<1>5. (q * m + r) % q = r % q
  <2>1. CASE q = 1
    BY <1>3, <1>4, <2>1
  <2>2. CASE q = 2
    BY <1>3, <1>4, <2>2
  <2>3. CASE q = 4
    BY <1>3, <1>4, <2>3
  <2> QED BY <2>1, <2>2, <2>3
<1> QED BY <1>4, <1>5 DEF r

\* ext2_mount has every group's descriptor in memory.
LEMMA DescriptorsRead ==
    ASSUME NEW D, LaidOut(D), NEW n \in 1 .. Len(D.tables)
    PROVE  group_descriptors(D)[n] = D.tables[n]
<1> DEFINE b == block_size(D)
           gd_count == D.sb.total_blocks \div D.sb.blocks_per_group + 1
           gdt_lba == (IF block_size(D) = 1024 THEN 2 ELSE 1) * (block_size(D) \div IO_BLOCK_SIZE)
           size == gd_count * GD_SIZE
           sectors == size \div IO_BLOCK_SIZE + IF size % IO_BLOCK_SIZE # 0 THEN 1 ELSE 0
           last == Lesser(Len(D.tables), sectors * (IO_BLOCK_SIZE \div GD_SIZE))
<1>1. group_descriptors(D) =
         IF hdd_read(D, gdt_lba) * IO_BLOCK_SIZE # DescriptorsAt(D) THEN << >>
         ELSE SubSeq(D.tables, 1, last)
  BY Zenon DEF group_descriptors
<1>2. hdd_read(D, gdt_lba) * IO_BLOCK_SIZE = DescriptorsAt(D)
  <2>1. b \in {1024, 2048, 4096} /\ D.start \in Nat
    BY DEF LaidOut
  <2>2. gdt_lba * 512 = (1024 \div b + 1) * b /\ gdt_lba \in Nat
    <3>1. CASE b = 1024
      BY <3>1 DEF IO_BLOCK_SIZE
    <3>2. CASE b = 2048
      BY <3>2 DEF IO_BLOCK_SIZE
    <3>3. CASE b = 4096
      BY <3>3 DEF IO_BLOCK_SIZE
    <3> QED BY <2>1, <3>1, <3>2, <3>3
  <2> HIDE DEF gdt_lba
  <2>3. DescriptorsAt(D) = D.start * 512 + (1024 \div b + 1) * b
    BY DEF DescriptorsAt, IO_BLOCK_SIZE
  <2>4. hdd_read(D, gdt_lba) * IO_BLOCK_SIZE = D.start * 512 + gdt_lba * 512
    BY <2>1, <2>2 DEF hdd_read, IO_BLOCK_SIZE
  <2> QED BY <2>2, <2>3, <2>4
<1>3. gd_count \in Nat /\ Len(D.tables) <= gd_count /\ Len(D.tables) \in Nat
  <2>1. D.sb.total_blocks \in Nat /\ D.sb.blocks_per_group \in Nat \ {0} /\ D.tables \in Seq(Nat)
    BY DEF LaidOut
  <2>2. D.sb.total_blocks \div D.sb.blocks_per_group \in Nat
    BY <2>1, DivMod
  <2>3. Len(D.tables) <= gd_count
    BY DEF LaidOut
  <2> QED BY <2>1, <2>2, <2>3
<1>4. sectors \in Nat /\ gd_count <= sectors * 16
  <2> HIDE DEF gd_count
  <2> QED BY <1>3 DEF GD_SIZE, IO_BLOCK_SIZE
<1> HIDE DEF gd_count, gdt_lba, sectors
<1>5. last = Len(D.tables)
  BY <1>3, <1>4 DEF Lesser, IO_BLOCK_SIZE, GD_SIZE
<1>6. D.tables \in Seq(Nat)
  BY DEF LaidOut
<1> HIDE DEF last
<1>7. group_descriptors(D) = SubSeq(D.tables, 1, Len(D.tables))
  BY <1>1, <1>2, <1>5
<1> QED BY <1>6, <1>7

\* The driver finds every inode in its place.
LEMMA FetchesRight ==
    ASSUME NEW D, LaidOut(D), NEW i \in DOMAIN D.inode, i \in 1 .. D.sb.total_inodes
    PROVE  fetch_inode(D, i) = i
<1> DEFINE g == D.sb.inodes_per_group
           group == (i - 1) \div g
           per_sector == IO_BLOCK_SIZE \div D.sb.inode_size
           b == block_size(D)
           lba == group_descriptors(D)[group + 1] * (b \div IO_BLOCK_SIZE)
                  + ((i - 1) % g) \div per_sector
           place == hdd_read(D, lba) * IO_BLOCK_SIZE + ((i - 1) % per_sector) * D.sb.inode_size
           found == {j \in DOMAIN D.inode : InodeAt(D, j) = place}
<1>1. fetch_inode(D, i) =
         IF i = 0 \/ i > D.sb.total_inodes \/ found = {} THEN 0 ELSE CHOOSE j \in found : TRUE
  BY Zenon DEF fetch_inode
<1>2. /\ i - 1 \in Nat /\ g \in Nat \ {0} /\ D.sb.inode_size \in {128, 256, 512}
      /\ b \in {1024, 2048, 4096} /\ D.start \in Nat /\ per_sector \in {1, 2, 4}
      /\ g % per_sector = 0 /\ D.tables \in Seq(Nat)
  BY DEF LaidOut, IO_BLOCK_SIZE
<1>3. group \in Nat /\ group + 1 \in 1 .. Len(D.tables)
  <2>1. Len(D.tables) \in Nat /\ D.sb.total_inodes <= Len(D.tables) * g
    BY <1>2 DEF LaidOut
  <2>2. i - 1 < Len(D.tables) * g
    <3> DEFINE m == Len(D.tables) * g
    <3>1. m \in Nat /\ D.sb.total_inodes <= m
      BY <1>2, <2>1
    <3> HIDE DEF m
    <3>2. i - 1 < m
      BY <1>2, <3>1 DEF LaidOut
    <3> QED BY <3>2 DEF m
  <2>3. group \in Nat /\ group < Len(D.tables)
    <3> HIDE DEF g
    <3>1. i - 1 \in Nat /\ g \in Nat \ {0} /\ Len(D.tables) \in Nat
      BY <1>2, <2>1
    <3>2. group \in Nat
      BY <3>1, DivMod, Zenon
    <3>3. group < Len(D.tables)
      BY <2>2, <3>1, DivSmaller, Zenon
    <3> QED BY <3>2, <3>3
  <2> QED BY <2>1, <2>3
<1>4. group_descriptors(D)[group + 1] = D.tables[group + 1] /\ D.tables[group + 1] \in Nat
  BY <1>2, <1>3, DescriptorsRead
<1> DEFINE a == (i - 1) % g
           t == D.tables[group + 1]
<1>5. a \in Nat /\ (i - 1) % per_sector = a % per_sector
  <2> HIDE DEF g, per_sector
  <2>1. i - 1 \in Nat /\ g \in Nat \ {0} /\ per_sector \in {1, 2, 4} /\ g % per_sector = 0
    BY <1>2
  <2>2. a \in 0 .. g - 1
    BY <2>1, DivMod, Zenon
  <2>3. (i - 1) % per_sector = a % per_sector
    BY <2>1, SameRest, Zenon
  <2> QED BY <2>1, <2>2, <2>3
<1>6. InodeAt(D, i) = D.start * 512 + t * b + a * D.sb.inode_size
  BY DEF InodeAt, IO_BLOCK_SIZE
<1>7. place = (t * (b \div 512) + a \div per_sector + D.start) * 512
              + (a % per_sector) * D.sb.inode_size
  <2>1. IO_BLOCK_SIZE = 512 /\ hdd_read(D, lba) = lba + D.start
    BY DEF IO_BLOCK_SIZE, hdd_read
  <2>2. lba = t * (b \div 512) + a \div per_sector
    BY <1>4, <2>1
  <2>3. place = (lba + D.start) * 512 + (a % per_sector) * D.sb.inode_size
    <3> HIDE DEF lba, a, per_sector
    <3> QED BY <1>5, <2>1
  <2> QED BY <2>2, <2>3
<1>8. (a \div per_sector) * 512 + (a % per_sector) * D.sb.inode_size = a * D.sb.inode_size
  <2> DEFINE size == D.sb.inode_size
  <2>1. per_sector = 512 \div size
    BY DEF IO_BLOCK_SIZE
  <2> HIDE DEF a, per_sector
  <2>2. a \in Nat /\ size \in {128, 256, 512}
    BY <1>2, <1>5
  <2> HIDE DEF size
  <2>3. CASE size = 128
    <3>1. per_sector = 4
      BY <2>1, <2>3
    <3> QED BY <2>2, <2>3, <3>1 DEF size
  <2>4. CASE size = 256
    <3>1. per_sector = 2
      BY <2>1, <2>4
    <3> QED BY <2>2, <2>4, <3>1 DEF size
  <2>5. CASE size = 512
    <3>1. per_sector = 1
      BY <2>1, <2>5
    <3> QED BY <2>2, <2>5, <3>1 DEF size
  <2> QED BY <2>2, <2>3, <2>4, <2>5
<1>9. t \in Nat /\ (t * (b \div 512)) * 512 = t * b /\ t * (b \div 512) \in Nat
  <2> HIDE DEF t, b
  <2>1. t \in Nat
    BY <1>4 DEF t
  <2>2. CASE b = 1024
    BY <2>1, <2>2
  <2>3. CASE b = 2048
    BY <2>1, <2>3
  <2>4. CASE b = 4096
    BY <2>1, <2>4
  <2> QED BY <1>2, <2>1, <2>2, <2>3, <2>4
<1>10. place = InodeAt(D, i)
  <2> DEFINE u == a \div per_sector
             v == (a % per_sector) * D.sb.inode_size
             w == t * (b \div 512)
             y == D.start
             z == a * D.sb.inode_size
  <2>1. u \in Nat /\ v \in Nat /\ w \in Nat /\ y \in Nat /\ z \in Nat /\ t * b \in Nat
    <3> HIDE DEF a, per_sector, t, b
    <3>1. per_sector \in Nat \ {0} /\ D.sb.inode_size \in Nat /\ b \in Nat /\ D.start \in Nat
      BY <1>2
    <3>2. a \div per_sector \in Nat /\ a % per_sector \in Nat
      <4>1. a \in Nat
        BY <1>5
      <4>2. a \div per_sector \in Nat /\ (a % per_sector) \in 0 .. per_sector - 1
        BY <3>1, <4>1, DivMod, Zenon
      <4> QED BY <3>1, <4>2
    <3> QED BY <1>5, <1>9, <3>1, <3>2
  <2>2. u * 512 + v = z /\ w * 512 = t * b
    BY <1>8, <1>9
  <2>3. place = (w + u + y) * 512 + v /\ InodeAt(D, i) = y * 512 + t * b + z
    BY <1>6, <1>7
  <2> HIDE DEF u, v, w, y, z, place, a, t, b
  <2> QED BY <2>1, <2>2, <2>3
<1> HIDE DEF place
<1>11. found = {i}
  <2>1. \A j \in DOMAIN D.inode : InodeAt(D, j) = InodeAt(D, i) => j = i
    BY DEF LaidOut
  <2> QED BY <1>10, <2>1
<1> HIDE DEF found
<1>12. (CHOOSE j \in found : TRUE) = i
  BY <1>11
<1>13. ~(i = 0 \/ i > D.sb.total_inodes \/ found = {})
  BY <1>11 DEF LaidOut
<1> QED BY <1>1, <1>12, <1>13, Zenon

-----------------------------------------------------------------------------
(* Types are kept                                                          *)

\* What loading a directory may come to.
Fills(ds, d, r) ==
    /\ r.result = "SUCCESS" /\ ds[d].entries = {}
    /\ completes(ds, d) /\ Loads(ds, d, r.dirs)
Breaks(ds, d, r) == Stops(r) /\ r.dirs = ds /\ (IoFails \/ strays(ds, d))
Misses(ds, d, r) == r.result = "EIO" /\ IoFails /\ r.dirs = [ds EXCEPT ![d].payload = "inode"]

LEMMA LoadCases ==
    ASSUME NEW ds, Tree(ds), NEW d \in DOMAIN ds, NEW r \in ext2_get_direntries(ds, d)
    PROVE  \/ r.result = "SUCCESS" /\ ds[d].entries # {} /\ r.dirs = ds
           \/ Breaks(ds, d, r) \/ Misses(ds, d, r) \/ Fills(ds, d, r)
<1>1. CASE ds[d].entries # {}
  BY <1>1 DEF ext2_get_direntries
<1>2. CASE ds[d].entries = {}
  <2>1. \/ strays(ds, d) /\ r = [result |-> "wild", dirs |-> ds]
        \/ IoFails /\ r = [result |-> "panic", dirs |-> ds]
        \/ IoFails /\ r = [result |-> "EIO", dirs |-> [ds EXCEPT ![d].payload = "inode"]]
        \/ completes(ds, d) /\ \E dirty : r = [result |-> "SUCCESS", dirs |-> loaded(ds, d, dirty)]
    BY <1>2 DEF ext2_get_direntries
  <2>2. CASE completes(ds, d) /\ \E dirty : r = [result |-> "SUCCESS", dirs |-> loaded(ds, d, dirty)]
    <3>1. Record(ds[d])
      BY DEF Tree, Shape
    <3>2. PICK dirty : r = [result |-> "SUCCESS", dirs |-> loaded(ds, d, dirty)]
      BY <2>2
    <3>3. r.result = "SUCCESS" /\ r.dirs = loaded(ds, d, dirty)
      BY <3>2
    <3>4. Loads(ds, d, r.dirs)
      BY <3>1, <3>3, LoadedAt
    <3> QED BY <1>2, <2>2, <3>3, <3>4 DEF Fills
  <2> QED BY <2>1, <2>2 DEF Breaks, Misses, Stops
<1> QED BY <1>1, <1>2

LEMMA PayloadTyped ==
    ASSUME NEW ds, Tree(ds), Typed(ds), NEW d \in DOMAIN ds,
           NEW ns, ns = [ds EXCEPT ![d].payload = "inode"]
    PROVE  Typed(ns) /\ (Backed(ds) => Backed(ns))
<1>1. Record(ds[d])
  BY DEF Tree, Shape
<1>2. LET r == [ds[d] EXCEPT !.payload = "inode"]
      IN  /\ r.payload = "inode" /\ r.inode_no = ds[d].inode_no /\ r.entries = ds[d].entries
          /\ r.de_inode_no = ds[d].de_inode_no /\ r.fs_info = ds[d].fs_info
  BY <1>1 DEF Record, Fields
<1>3. /\ DOMAIN ns = DOMAIN ds
      /\ \A c \in DOMAIN ds : ns[c] = IF c = d THEN [ds[d] EXCEPT !.payload = "inode"] ELSE ds[c]
  OBVIOUS
<1>4. \A c \in DOMAIN ds : /\ ns[c].payload \in {ds[c].payload, "inode"}
                           /\ ns[c].inode_no = ds[c].inode_no /\ ns[c].entries = ds[c].entries
                           /\ ns[c].de_inode_no = ds[c].de_inode_no /\ ns[c].fs_info = ds[c].fs_info
  BY <1>2, <1>3
<1>5. Typed(ns)
  BY <1>3, <1>4 DEF Typed
<1>6. ASSUME Backed(ds) PROVE Backed(ns)
  <2>1. Root \in DOMAIN ds
    BY DEF Tree, Shape
  <2> QED BY <1>3, <1>4, <1>6, <2>1 DEF Backed
<1> QED BY <1>5, <1>6

\* Numbers come from the disk.
LEMMA LoadTyped ==
    ASSUME world \in Worlds, NEW ds, Tree(ds), Typed(ds), Backed(ds), NEW d \in DOMAIN ds,
           ds[d].fs_info # None, NEW r \in ext2_get_direntries(ds, d)
    PROVE  Typed(r.dirs) /\ Backed(r.dirs)
<1>1. CASE r.dirs = ds
  BY <1>1
<1>2. CASE Misses(ds, d, r)
  BY <1>2, PayloadTyped DEF Misses
<1>3. CASE Fills(ds, d, r)
  <2> DEFINE ns == r.dirs
             M == Made(ds, d)
  <2>1. Loads(ds, d, ns) /\ HasBlock(ds, d)
    BY <1>3 DEF Fills, completes
  <2>2. ds[d].fs_info \in DOMAIN Disk
    BY DEF Typed
  <2>3. \A x \in Content(ds, d) : x.inode \in Nat
    BY <2>1, <2>2, DiskAssumption DEF HasBlock, Content, Disk
  <2>4. M \cap DOMAIN ds = {}
    BY <1>3, MadeIsNew DEF Fills
  <2> HIDE DEF ns, M
  <2>5. /\ DOMAIN ns = DOMAIN ds \cup M
        /\ \A c \in DOMAIN ds \ {d} : ns[c] = ds[c]
        /\ \A c \in M : New(ds, d, c, ns[c])
        /\ Filled(ds, d, ns[d])
    BY <2>1, <2>4 DEF Loads, M
  <2>6. \A c \in M : /\ ns[c].inode_no \in Nat /\ ns[c].de_inode_no \in Nat
                     /\ ns[c].payload \in {"null", "inode", "garbage"}
                     /\ ns[c].fs_info = ds[d].fs_info
    BY <2>3, <2>5 DEF New
  <2>7. /\ ns[d].inode_no \in Nat /\ ns[d].de_inode_no \in Nat /\ ns[d].payload = "inode"
        /\ ns[d].fs_info = ds[d].fs_info
    BY <2>5 DEF Filled, Typed
  <2>8. Typed(ns)
    BY <2>2, <2>5, <2>6, <2>7 DEF Typed
  <2>9. \A c \in DOMAIN ns : ns[c].fs_info # None
    <3>1. \A c \in DOMAIN ds : ds[c].fs_info # None
      BY DEF Backed
    <3> QED BY <2>5, <2>6, <2>7, <3>1
  <2> QED BY <2>8, <2>9 DEF Backed, ns
<1> QED BY <1>1, <1>2, <1>3, LoadCases DEF Breaks

LEMMA InitTypes == Init => TypeInv
<1> SUFFICES ASSUME Init PROVE TypeInv
  OBVIOUS
<1>1. DOMAIN dirs = {Root} /\ dirs[Root] = Directory(0, None, Root, "null")
  BY DEF Init
<1>2. LET r == Directory(0, None, Root, "null")
      IN  /\ r.inode_no = 0 /\ r.de_inode_no = 0 /\ r.payload = "null" /\ r.fs_info = None
          /\ r.entries = {}
  BY DEF Directory
<1>3. Typed(dirs) /\ Backed(dirs)
  BY <1>1, <1>2 DEF Typed, Backed
<1>4. call.op = "none"
  BY DEF Init, NoCall
<1> QED BY <1>3, <1>4 DEF TypeInv, Init

\* What a call of namei or do_mount may become.
LEMMA CallTyped ==
    ASSUME TypeInv, UNCHANGED <<world, dirs, status>>,
           call'.op \in {"none", "namei", "do_mount", "mounting"},
           call'.op \in {"do_mount", "mounting"} => call'.part \in DOMAIN Disk
    PROVE  TypeInv'
BY DEF TypeInv, Typed, Backed, Disk

LEMMA NameiTyped ==
    ASSUME TypeInv, UNCHANGED world, NEW op \in {"namei", "do_mount"}, NEW p, NEW path,
           namei(op, p, path), op = "do_mount" => p \in DOMAIN Disk
    PROVE  TypeInv'
<1>1. UNCHANGED <<world, dirs, status>>
  BY DEF namei
<1>2. /\ call'.op \in {"none", "namei", "do_mount", "mounting"}
      /\ call'.op \in {"do_mount", "mounting"} => call'.part \in DOMAIN Disk
  BY DEF namei, Found, Begin, NoCall
<1> QED BY <1>1, <1>2, CallTyped

LEMMA EntersTyped ==
    ASSUME TreeInv, TypeInv, UNCHANGED world, namei_enters PROVE TypeInv'
<1>1. PICK e \in Matching :
         /\ e.directory # NoDir
         /\ \E r \in ext2_get_direntries(dirs, e.directory) :
               \/ status' = r.result /\ Stops(r) /\ UNCHANGED <<dirs, call>>
               \/ /\ dirs' = r.dirs /\ UNCHANGED status
                  /\ call' = [call EXCEPT !.dir = e.directory, !.rem = Tail(call.rem)]
  BY DEF namei_enters
<1>2. PICK r \in ext2_get_direntries(dirs, e.directory) :
               \/ status' = r.result /\ Stops(r) /\ UNCHANGED <<dirs, call>>
               \/ /\ dirs' = r.dirs /\ UNCHANGED status
                  /\ call' = [call EXCEPT !.dir = e.directory, !.rem = Tail(call.rem)]
  BY <1>1
<1>3. e.directory \in DOMAIN dirs /\ call.dir \in DOMAIN dirs /\ e \in dirs[call.dir].entries
  BY <1>1, MatchingLeads DEF namei_enters, Walking, TreeInv, Calling, Matching
<1>4. \A c \in DOMAIN dirs : dirs[c].fs_info # None
  <2>1. Root \in DOMAIN dirs /\ dirs[call.dir].entries # {}
    BY <1>3 DEF TreeInv, Tree, Shape
  <2> QED BY <1>3, <2>1 DEF TypeInv, Backed
<1>5. CASE status' = r.result /\ Stops(r) /\ UNCHANGED <<dirs, call>>
  BY <1>5 DEF TypeInv, Typed, Backed, Disk, Stops
<1>6. CASE /\ dirs' = r.dirs /\ UNCHANGED status
           /\ call' = [call EXCEPT !.dir = e.directory, !.rem = Tail(call.rem)]
  <2>1. Typed(dirs') /\ Backed(dirs')
    BY <1>3, <1>4, <1>6, LoadTyped DEF TreeInv, TypeInv
  <2>2. call'.op = call.op /\ call'.part = call.part
    BY <1>6 DEF TreeInv, Calling, CallFields
  <2> QED BY <1>6, <2>1, <2>2 DEF TypeInv, Typed, Backed, Disk
<1> QED BY <1>2, <1>5, <1>6

LEMMA MountsTyped ==
    ASSUME TreeInv, TypeInv, UNCHANGED world, ext2_mount PROVE TypeInv'
<1> DEFINE d == call.dir
           m == mount_point(dirs, d, call.part)
<1>1. d \in DOMAIN dirs /\ call.part \in DOMAIN Disk /\ call.part # None
  <2>1. call.part \in DOMAIN Disk
    BY DEF ext2_mount, Mounting, TypeInv
  <2>2. DOMAIN Disk \subseteq Partitions
    BY DiskAssumption DEF TypeInv, Disk
  <2> QED BY <2>1, <2>2, DiskAssumption DEF ext2_mount, TreeInv, Calling
<1>2. Tree(m)
  BY <1>1, MountPointSet DEF TreeInv
<1>3. /\ DOMAIN m = DOMAIN dirs
      /\ \A c \in DOMAIN dirs : c # d => m[c] = dirs[c]
      /\ m[d].fs_info = call.part /\ m[d].inode_no = RootInode /\ m[d].de_inode_no = RootInode
      /\ m[d].payload = dirs[d].payload /\ m[d].entries = dirs[d].entries
  <2>1. Record(dirs[d])
    BY <1>1 DEF TreeInv, Tree, Shape
  <2> QED BY <1>1, <2>1 DEF mount_point, Record, Fields
<1> HIDE DEF m
<1>4. Typed(m) /\ Backed(m)
  <2>1. RootInode \in Nat
    BY DEF RootInode
  <2>2. Typed(m)
    BY <1>1, <1>3, <2>1 DEF Typed, TypeInv
  <2>3. \A c \in DOMAIN m : m[c].fs_info # None
    BY <1>1, <1>3 DEF Backed, TypeInv, TreeInv, Tree, Shape
  <2> QED BY <2>2, <2>3 DEF Backed
<1>5. PICK r \in ext2_get_direntries(m, d) :
         \/ status' = r.result /\ Stops(r) /\ UNCHANGED <<dirs, call>>
         \/ r.result = "EIO" /\ dirs' = unmounted(r.dirs, d, dirs[d].fs_info) /\ call' = NoCall
                             /\ UNCHANGED status
         \/ dirs' = r.dirs /\ call' = NoCall /\ UNCHANGED status
  BY DEF ext2_mount, Fail, m
<1>6. CASE status' = r.result /\ Stops(r) /\ UNCHANGED <<dirs, call>>
  BY <1>6 DEF TypeInv, Typed, Backed, Disk, Stops
<1>7. CASE dirs' = r.dirs /\ call' = NoCall /\ UNCHANGED status
  <2>1. Typed(dirs') /\ Backed(dirs')
    BY <1>1, <1>2, <1>3, <1>4, <1>7, LoadTyped DEF TypeInv
  <2>2. call'.op = "none"
    BY <1>7 DEF NoCall
  <2> QED BY <1>7, <2>1, <2>2 DEF TypeInv, Typed, Backed, Disk
<1>8. CASE r.result = "EIO" /\ dirs' = unmounted(r.dirs, d, dirs[d].fs_info) /\ call' = NoCall
                            /\ UNCHANGED status
  <2>1. Misses(m, d, r)
    <3>1. d \in DOMAIN m
      BY <1>1, <1>3
    <3> QED BY <1>2, <1>8, <3>1, LoadCases DEF Breaks, Fills, Stops
  <2>2. Tree(r.dirs) /\ Typed(r.dirs) /\ DOMAIN r.dirs = DOMAIN dirs
        /\ \A c \in DOMAIN dirs : /\ r.dirs[c].entries = dirs[c].entries
                                  /\ c # d => r.dirs[c].fs_info = dirs[c].fs_info
    <3>1. r.dirs = [m EXCEPT ![d].payload = "inode"] /\ d \in DOMAIN m
      BY <1>1, <1>3, <2>1 DEF Misses
    <3>2. Typed(r.dirs)
      BY <1>2, <1>4, <3>1, PayloadTyped
    <3>3. Tree(r.dirs)
      BY <1>2, <3>1, PayloadSet
    <3>4. /\ DOMAIN r.dirs = DOMAIN m /\ \A c \in DOMAIN m : c # d => r.dirs[c] = m[c]
          /\ r.dirs[d] = [m[d] EXCEPT !.payload = "inode"]
      BY <3>1
    <3>5. r.dirs[d].entries = m[d].entries
      <4>1. Record(m[d])
        BY <1>2, <3>1 DEF Tree, Shape
      <4> QED BY <3>4, <4>1 DEF Record, Fields
    <3> QED BY <1>1, <1>3, <3>2, <3>3, <3>4, <3>5
  <2>3. /\ DOMAIN dirs' = DOMAIN dirs
        /\ \A c \in DOMAIN dirs : c # d => dirs'[c] = r.dirs[c]
        /\ dirs'[d] = [r.dirs[d] EXCEPT !.fs_info = dirs[d].fs_info]
    BY <1>1, <1>8, <2>2 DEF unmounted
  <2>4. /\ dirs'[d].fs_info = dirs[d].fs_info /\ dirs'[d].entries = r.dirs[d].entries
        /\ dirs'[d].inode_no = r.dirs[d].inode_no /\ dirs'[d].de_inode_no = r.dirs[d].de_inode_no
        /\ dirs'[d].payload = r.dirs[d].payload
    <3>1. Record(r.dirs[d])
      BY <1>1, <2>2 DEF Tree, Shape
    <3> QED BY <2>3, <3>1 DEF Record, Fields
  <2>5. Typed(dirs')
    BY <1>1, <2>2, <2>3, <2>4 DEF Typed, TypeInv
  <2>6. Backed(dirs')
    <3>1. Root \in DOMAIN dirs
      BY DEF TreeInv, Tree, Shape
    <3>2. \A c \in DOMAIN dirs : dirs'[c].entries = dirs[c].entries /\ dirs'[c].fs_info = dirs[c].fs_info
      BY <2>2, <2>3, <2>4
    <3> QED BY <2>3, <3>1, <3>2 DEF Backed, TypeInv
  <2>7. call'.op = "none"
    BY <1>8 DEF NoCall
  <2> QED BY <1>8, <2>5, <2>6, <2>7 DEF TypeInv, Typed, Backed, Disk
<1> QED BY <1>5, <1>6, <1>7, <1>8

LEMMA StepTypes == TreeInv /\ TypeInv /\ [Next]_vars => TypeInv'
<1> SUFFICES ASSUME TreeInv, TypeInv, [Next]_vars PROVE TypeInv'
  OBVIOUS
<1>1. CASE UNCHANGED vars
  BY <1>1, CallTyped DEF vars, TypeInv
<1> SUFFICES ASSUME Next PROVE TypeInv'
  BY <1>1
<1>2. UNCHANGED world
  BY DEF Next
<1>3. ASSUME NEW path \in Paths, call_namei(path) PROVE TypeInv'
  BY <1>2, <1>3, NameiTyped DEF call_namei
<1>4. ASSUME NEW m \in world.mounts, do_mount(m[1], m[2]) PROVE TypeInv'
  BY <1>2, <1>4, NameiTyped DEF do_mount
<1>5. ASSUME NEW m \in world.mounts, do_mount_refused(m[1], m[2]) PROVE TypeInv'
  BY <1>2, <1>5, CallTyped DEF do_mount_refused, TypeInv
<1>6. CASE namei_not_found \/ namei_not_a_directory \/ ext2_mount_unreadable
  <2>1. UNCHANGED <<dirs, status>> /\ call' = NoCall
    BY <1>6 DEF namei_not_found, namei_not_a_directory, ext2_mount_unreadable, Fail
  <2>2. NoCall.op = "none"
    BY DEF NoCall
  <2> QED BY <1>2, <2>1, <2>2, CallTyped
<1>7. CASE namei_last
  <2>1. PICK e \in Matching :
           \/ Found(call.op, call.part, call.path, e.inode_no, e.directory)
           \/ Fail(call.op, "ENOTDIR")
    BY <1>7 DEF namei_last
  <2>2. UNCHANGED <<dirs, status>> /\ call.op \in {"namei", "do_mount"}
    BY <1>7 DEF namei_last, Walking
  <2>3. /\ call'.op \in {"none", "mounting"}
        /\ call'.op = "mounting" => call.op = "do_mount" /\ call'.part = call.part
    BY <2>1, <2>2 DEF Found, Fail, NoCall
  <2>4. call'.op = "mounting" => call'.part \in DOMAIN Disk
    BY <2>3 DEF TypeInv
  <2> QED BY <1>2, <2>2, <2>3, <2>4, CallTyped
<1>8. CASE namei_strays \/ ext2_mount_strays
  BY <1>2, <1>8 DEF namei_strays, ext2_mount_strays, TypeInv, Typed, Backed, Disk
<1>9. CASE namei_enters
  BY <1>2, <1>9, EntersTyped
<1>10. CASE ext2_mount
  BY <1>2, <1>10, MountsTyped
<1> QED BY <1>3, <1>4, <1>5, <1>6, <1>7, <1>8, <1>9, <1>10 DEF Next, Step

-----------------------------------------------------------------------------
(* Loading keeps the tree a mirror of the disk                             *)

\* What the driver reads of a disk that mke2fs wrote.
Readable(p) ==
    /\ \A i \in DOMAIN Disk[p].inode :
          /\ i \in Nat \ {0} /\ fetch_inode(Disk[p], i) = i
          /\ TypeOn(p, i) \in {"dir", "other"}
          /\ TypeOn(p, i) = "dir" <=> i \in Directories(Disk[p])
    /\ RootInode \in Directories(Disk[p])
    /\ \A i \in Directories(Disk[p]) :
          /\ DirectoryFormed(Disk[p], i)
          /\ Head(Disk[p].blocks[i]) \in DOMAIN Disk[p].data
          /\ Children(Disk[p], i) = Listing(Disk[p], i)

LEMMA BenignFacts ==
    ASSUME Benign
    PROVE  /\ world \in Worlds /\ Debug /\ Zeroed /\ ~IoFails
           /\ \A p \in DOMAIN Disk : Readable(p) /\ p # None
           /\ \A m \in world.mounts : m[2] = Slash /\ (m[1] \in DOMAIN Disk => Only(m[1]))
<1>1. world \in Worlds /\ Debug /\ Zeroed /\ ~IoFails
  BY DEF Benign, BenignWorlds, Debug, Zeroed, IoFails
<1>2. ASSUME NEW p \in DOMAIN Disk PROVE Readable(p) /\ p # None
  <2> DEFINE D == Disk[p]
  <2>1. LaidOut(D) /\ WellFormed(D)
    BY DEF Benign, BenignWorlds, Disk
  <2>2. /\ p # None
        /\ \A i \in DOMAIN D.inode : /\ i \in 1 .. D.sb.total_inodes
                                     /\ D.inode[i] \in {"dir", "other"}
                                     /\ D.inode[i] = "dir" => D.blocks[i] \in Seq(DOMAIN D.data) \ {<< >>}
    BY <1>1, DiskAssumption DEF Disk
  <2>3. RootInode \in Directories(D)
    BY <1>1, DiskAssumption DEF Disk, Directories
  <2>4. ASSUME NEW i \in DOMAIN D.inode
        PROVE  /\ i \in Nat \ {0} /\ fetch_inode(D, i) = i
               /\ TypeOn(p, i) \in {"dir", "other"}
               /\ TypeOn(p, i) = "dir" <=> i \in Directories(D)
    <3>1. fetch_inode(D, i) = i /\ i \in Nat \ {0}
      <4>1. i \in 1 .. D.sb.total_inodes /\ D.sb.total_inodes \in Nat
        BY <2>1, <2>2 DEF LaidOut
      <4>2. fetch_inode(D, i) = i
        BY <2>1, <4>1, FetchesRight
      <4> QED BY <4>1, <4>2
    <3>2. TypeOn(p, i) = D.inode[i]
      BY <3>1 DEF TypeOn
    <3> QED BY <2>2, <3>1, <3>2 DEF Directories
  <2>5. ASSUME NEW i \in Directories(D)
        PROVE  /\ DirectoryFormed(D, i)
               /\ Head(D.blocks[i]) \in DOMAIN D.data
               /\ Children(Disk[p], i) = Listing(D, i)
    <3>1. DirectoryFormed(D, i)
      BY <2>1 DEF WellFormed
    <3>2. D.blocks[i] \in Seq(DOMAIN D.data) \ {<< >>} /\ Len(D.blocks[i]) = 1
      BY <2>2, <3>1 DEF Directories, DirectoryFormed
    <3> DEFINE b == D.blocks[i]
    <3>3. b \in Seq(DOMAIN D.data) /\ b # << >> /\ DOMAIN b = 1 .. 1 /\ Head(b) = b[1]
      <4> HIDE DEF D
      <4>1. b \in Seq(DOMAIN D.data) /\ Len(b) = 1
        BY <3>2
      <4> HIDE DEF b
      <4> QED BY <4>1
    <3>4. Head(b) \in DOMAIN D.data
      BY <3>3
    <3>5. Children(Disk[p], i) = D.data[b[1]]
      <4>1. Children(Disk[p], i) = UNION {D.data[b[n]] : n \in DOMAIN b}
        BY DEF Children
      <4> HIDE DEF b
      <4>2. {D.data[b[n]] : n \in DOMAIN b} = {D.data[b[1]]}
        BY <3>3
      <4> QED BY <4>1, <4>2
    <3> QED BY <3>1, <3>3, <3>4, <3>5 DEF Listing
  <2> QED BY <2>2, <2>3, <2>4, <2>5 DEF Readable
<1>3. \A m \in world.mounts : m[2] = Slash /\ (m[1] \in DOMAIN Disk => Only(m[1]))
  BY DEF Benign, BenignWorlds, Disk, Only
<1> QED BY <1>1, <1>2, <1>3

LEMMA Appended ==
    ASSUME NEW ds, Tree(ds), NEW d \in DOMAIN ds, NEW n
    PROVE  /\ Append(d, n) # Root /\ Up(Append(d, n)) = d
           /\ Append(d, n) = NoDir => n = "/"
           /\ \A m : Append(d, n) = Append(d, m) => n = m
<1>1. PICK S : d \in Seq(S)
  BY DEF Tree, Named
<1>2. Append(d, n) # Root /\ Up(Append(d, n)) = d
  BY <1>1, NameAppended
<1>3. /\ Append(d, n)[Len(d) + 1] = n /\ Len(Append(d, n)) = Len(d) + 1 /\ Len(d) \in Nat
      /\ \A m : Append(d, m)[Len(d) + 1] = m
  BY <1>1
<1>4. Len(NoDir) = 1 /\ NoDir[1] = "/"
  BY DEF NoDir
<1> QED BY <1>2, <1>3, <1>4

\* A directory of a mirror can be read.
LEMMA ContentListed ==
    ASSUME Benign, NEW p \in DOMAIN Disk, NEW ds, Tree(ds), Mirrors(ds, p), NEW d \in DOMAIN ds
    PROVE  Content(ds, d) = Listing(Disk[p], ds[d].inode_no) /\ ~strays(ds, d)
<1> DEFINE i == ds[d].inode_no
<1>1. Readable(p) /\ Debug /\ Zeroed /\ ~IoFails
  BY BenignFacts
<1>2. /\ i \in Directories(Disk[p]) /\ ds[d].de_inode_no = i /\ ds[d].fs_info = p
      /\ ds[d].payload # "garbage"
  BY DEF Mirrors, Stands
<1>3. Parents(ds, d) = p
  BY DEF Mirrors, Stands, Parents, Tree, Closed
<1>4. i \in DOMAIN Disk[p].inode
  BY <1>2 DEF Directories
<1> HIDE DEF i
<1>5. Fetched(ds, d) = i
  BY <1>1, <1>2, <1>3, <1>4 DEF Fetched, Readable
<1>6. DirectoryFormed(Disk[p], i) /\ Head(Disk[p].blocks[i]) \in DOMAIN Disk[p].data
  BY <1>1, <1>2 DEF Readable
<1>7. HasBlock(ds, d) /\ Content(ds, d) = Listing(Disk[p], i)
  BY <1>2, <1>3, <1>5, <1>6 DEF HasBlock, Content, FirstBlock, Listing, DirectoryFormed
<1>8. \A x \in Content(ds, d) : x.inode # 0
  BY <1>1, <1>6, <1>7 DEF Readable, DirectoryFormed
<1> QED BY <1>1, <1>2, <1>7, <1>8 DEF strays, i

\* A structure is only made for a directory that has none, and for its proper
\* name: "." and ".." are recognised.
LEMMA MadeProper ==
    ASSUME Benign, NEW p \in DOMAIN Disk, NEW ds, Tree(ds), Mirrors(ds, p), NEW d \in DOMAIN ds,
           ds[d].entries = {}, NEW x \in Content(ds, d), MadeFor(ds, d, x)
    PROVE  /\ x.inode \in Directories(Disk[p]) /\ Proper(x)
           /\ \A c \in DOMAIN ds : ds[c].inode_no # x.inode
<1> DEFINE i == ds[d].inode_no
           D == Disk[p]
           n == Append(d, x.name)
<1>1. Readable(p)
  BY BenignFacts
<1>2. x \in Listing(D, i) /\ i \in Directories(D) /\ ds[d].fs_info = p
  BY ContentListed DEF Mirrors, Stands
<1>3. DirectoryFormed(D, i)
  BY <1>1, <1>2 DEF Readable
<1>4. x.inode \in DOMAIN D.inode /\ x.name # "/"
  BY <1>2, <1>3 DEF DirectoryFormed
<1>5. n \notin DOMAIN ds /\ n # NoDir
  <2>1. n \in Made(ds, d)
    BY DEF Made
  <2> QED BY <1>4, <2>1, MadeIsNew, Appended
<1>6. ds[d].parent \in DOMAIN ds
  BY DEF Tree, Closed
<1>7. /\ TypeOn(p, x.inode) = "dir"
      /\ x.inode # i /\ x.inode # ds[ds[d].parent].inode_no
  <2> DEFINE t == directory_of(ds, d, x)
  <2> HIDE DEF n, i
  <2>1. t = n
    BY DEF MadeFor, n
  <2>2. TypeOn(p, x.inode) # "dir" => t = NoDir
    BY <1>2 DEF directory_of, i
  <2>3. TypeOn(p, x.inode) = "dir" /\ x.inode = i => t = d
    BY <1>2 DEF directory_of, i
  <2>4. TypeOn(p, x.inode) = "dir" /\ x.inode # i /\ x.inode = ds[ds[d].parent].inode_no
           => t = ds[d].parent
    BY <1>2 DEF directory_of, i
  <2> HIDE DEF t, n
  <2> QED BY <1>5, <1>6, <2>1, <2>2, <2>3, <2>4
<1>8. x.inode \in Directories(D)
  BY <1>1, <1>4, <1>7 DEF Readable
<1>9. x.name # "."
  BY <1>2, <1>3, <1>7 DEF DirectoryFormed
<1> HIDE DEF n
<1>10. x.name # ".."
  <2> SUFFICES ASSUME x.name = ".." PROVE FALSE
    OBVIOUS
  <2>1. /\ x.inode \in Directories(D)
        /\ \E y \in Listing(D, x.inode) : Proper(y) /\ y.inode = i
    BY <1>2, <1>3, <1>7 DEF DirectoryFormed
  <2>2. PICK y \in Listing(D, x.inode) : Proper(y) /\ y.inode = i
    BY <2>1
  <2>3. DirectoryFormed(D, x.inode)
    BY <1>1, <2>1 DEF Readable
  <2>4. i # RootInode
    BY <1>2, <2>2, <2>3 DEF DirectoryFormed
  <2>5. d # Root /\ Hangs(ds, p, d)
    BY <2>4 DEF Mirrors, Hangs
  <2>6. PICK z \in Listing(D, ds[Up(d)].inode_no) : Proper(z) /\ z.inode = i
    BY <2>5 DEF Hangs
  <2>7. ds[Up(d)].inode_no \in Directories(D) /\ ds[d].parent = Up(d)
    BY <2>5 DEF Mirrors, Hangs, Stands, Tree, Grown
  <2>8. x.inode = ds[Up(d)].inode_no
    BY <1>2, <2>2, <2>3, <2>6, <2>7 DEF DirectoryFormed
  <2> QED BY <1>7, <2>7, <2>8
<1>11. Proper(x)
  BY <1>9, <1>10 DEF Proper
<1>12. ASSUME NEW c \in DOMAIN ds, ds[c].inode_no = x.inode PROVE FALSE
  <2>1. x.inode # RootInode
    BY <1>2, <1>3, <1>8, <1>11 DEF DirectoryFormed
  <2>2. c # Root /\ Hangs(ds, p, c)
    BY <1>12, <2>1 DEF Mirrors, Hangs
  <2>3. PICK z \in Listing(D, ds[Up(c)].inode_no) : Proper(z) /\ z.inode = x.inode
    BY <1>12, <2>2 DEF Hangs
  <2>4. Up(c) \in DOMAIN ds /\ ds[Up(c)].entries # {} /\ ds[Up(c)].inode_no \in Directories(D)
    BY <2>2 DEF Tree, Grown, Mirrors, Stands
  <2>5. i = ds[Up(c)].inode_no
    BY <1>2, <1>3, <1>8, <1>11, <2>3, <2>4 DEF DirectoryFormed
  <2>6. Up(c) = d
    BY <2>4, <2>5 DEF Mirrors, Single
  <2> QED BY <2>4, <2>6
<1> QED BY <1>8, <1>11, <1>12

\* The entry that is made for a name on the disk.
LEMMA EntryLeads ==
    ASSUME Benign, NEW p \in DOMAIN Disk, NEW ds, Tree(ds), Mirrors(ds, p), NEW d \in DOMAIN ds,
           ds[d].entries = {}, NEW ns, Loads(ds, d, ns), NEW x \in Content(ds, d),
           NEW e, e = entry_of(ds, d, x)
    PROVE  e.name = x.name /\ e.inode_no = x.inode /\ Leads(ns, p, e)
<1> DEFINE D == Disk[p]
           t == directory_of(ds, d, x)
<1>1. Readable(p) /\ Debug
  BY BenignFacts
<1>2. ds[d].fs_info = p /\ ds[d].inode_no \in Directories(D) /\ x \in Listing(D, ds[d].inode_no)
  BY ContentListed DEF Mirrors, Stands
<1>3. DirectoryFormed(D, ds[d].inode_no)
  BY <1>1, <1>2 DEF Readable
<1>4. x.inode \in DOMAIN D.inode /\ x.name # "/"
  BY <1>2, <1>3 DEF DirectoryFormed
<1>5. e.name = x.name /\ e.inode_no = x.inode /\ e.directory = t /\ e.type = TypeOn(p, x.inode)
  BY <1>1, <1>2 DEF entry_of
<1>6. /\ TypeOn(p, x.inode) \in {"dir", "other"}
      /\ TypeOn(p, x.inode) = "dir" <=> x.inode \in Directories(D)
  BY <1>1, <1>4 DEF Readable
<1>7. TypeOn(p, x.inode) # "dir" => t = NoDir
  BY <1>2 DEF directory_of
<1>8. /\ DOMAIN ns = DOMAIN ds \cup Made(ds, d)
      /\ \A c \in DOMAIN ds : ns[c].inode_no = ds[c].inode_no
  <2>1. Made(ds, d) \cap DOMAIN ds = {}
    BY MadeIsNew
  <2>2. ns[d].inode_no = ds[d].inode_no
    BY DEF Loads, Filled
  <2> QED BY <2>1, <2>2 DEF Loads
<1>9. ASSUME TypeOn(p, x.inode) = "dir" PROVE t \in DOMAIN ns /\ ns[t].inode_no = x.inode
  <2>1. ds[d].parent \in DOMAIN ds
    BY DEF Tree, Closed
  <2>2. \/ t = d /\ x.inode = ds[d].inode_no
        \/ t = ds[d].parent /\ x.inode = ds[ds[d].parent].inode_no
        \/ t = Append(d, x.name)
    BY <1>2, <1>9 DEF directory_of
  <2>3. CASE t = Append(d, x.name)
    <3>1. t \in Made(ds, d) /\ t \notin DOMAIN ds
      BY <2>3, MadeIsNew DEF MadeFor, Made
    <3>2. New(ds, d, t, ns[t])
      BY <3>1 DEF Loads
    <3>3. PICK y \in Content(ds, d) : t = Append(d, y.name) /\ ns[t].inode_no = y.inode
      BY <3>2 DEF New
    <3>4. y.name = x.name
      BY <2>3, <3>3, Appended
    <3>5. y = x
      BY <1>2, <1>3, <3>3, <3>4, ContentListed DEF DirectoryFormed
    <3> QED BY <1>8, <3>1, <3>3, <3>5
  <2> HIDE DEF t
  <2> QED BY <1>8, <2>1, <2>2, <2>3
<1> HIDE DEF t
<1> QED BY <1>5, <1>6, <1>7, <1>9 DEF Leads

LEMMA LoadMirrors ==
    ASSUME Benign, NEW p \in DOMAIN Disk, NEW ds, Tree(ds), Mirrors(ds, p), NEW d \in DOMAIN ds,
           ds[d].entries = {}, NEW ns, Loads(ds, d, ns)
    PROVE  Mirrors(ns, p) /\ ns[d].entries # {}
<1> DEFINE D == Disk[p]
           M == Made(ds, d)
           L == Listing(D, ds[d].inode_no)
<1>1. /\ Debug /\ ds[d].fs_info = p /\ ds[d].inode_no \in Directories(D)
      /\ DirectoryFormed(D, ds[d].inode_no) /\ Content(ds, d) = L
  BY BenignFacts, ContentListed DEF Mirrors, Stands, Readable
<1>2. M \cap DOMAIN ds = {}
  BY MadeIsNew
<1>3. /\ DOMAIN ns = DOMAIN ds \cup M
      /\ \A c \in DOMAIN ds : c # d => ns[c] = ds[c]
      /\ \A c \in M : New(ds, d, c, ns[c])
      /\ Filled(ds, d, ns[d])
  BY <1>2 DEF Loads
<1>4. /\ ns[d].parent = ds[d].parent /\ ns[d].fs_info = p /\ ns[d].inode_no = ds[d].inode_no
      /\ ns[d].de_inode_no = ds[d].de_inode_no /\ ns[d].payload = "inode"
      /\ ns[d].entries = {entry_of(ds, d, x) : x \in L}
  BY <1>1, <1>3 DEF Filled
<1>5. ASSUME NEW c \in M
      PROVE  /\ c # Root /\ Up(c) = d /\ c # NoDir
             /\ ns[c].parent = d /\ ns[c].entries = {} /\ ns[c].fs_info = p
             /\ ns[c].payload # "garbage" /\ ns[c].inode_no \in Directories(D)
             /\ ns[c].de_inode_no = ns[c].inode_no
             /\ \E x \in L : Proper(x) /\ x.inode = ns[c].inode_no /\ c = Append(d, x.name)
             /\ \A b \in DOMAIN ds : ds[b].inode_no # ns[c].inode_no
  <2>1. New(ds, d, c, ns[c])
    BY <1>3
  <2>2. PICK x \in L : /\ MadeFor(ds, d, x) /\ c = Append(d, x.name)
                       /\ ns[c].inode_no = x.inode /\ ns[c].de_inode_no = x.inode
    BY <1>1, <2>1 DEF New
  <2>3. /\ x.inode \in Directories(D) /\ Proper(x)
        /\ \A b \in DOMAIN ds : ds[b].inode_no # x.inode
    BY <1>1, <2>2, MadeProper
  <2>4. x.name # "/"
    BY <1>1 DEF DirectoryFormed
  <2>5. c # Root /\ Up(c) = d /\ c # NoDir
    BY <2>2, <2>4, Appended
  <2>6. /\ ns[c].parent = d /\ ns[c].entries = {} /\ ns[c].fs_info = p
        /\ ns[c].payload # "garbage"
    BY <1>1, <2>1 DEF New
  <2> QED BY <2>2, <2>3, <2>5, <2>6
<1>6. \A x \in L : LET e == entry_of(ds, d, x)
                   IN  e.name = x.name /\ e.inode_no = x.inode /\ Leads(ns, p, e)
  BY <1>1, EntryLeads
<1>7. \A c \in DOMAIN ds : ns[c].inode_no = ds[c].inode_no /\ ns[c].parent = ds[c].parent
  BY <1>3, <1>4
<1>8. Listed(ns[d].entries, L)
  BY <1>4, <1>6 DEF Listed
<1>9. ns[d].entries # {}
  BY <1>1, <1>4 DEF DirectoryFormed
<1> HIDE DEF D, M, L
<1>10. ASSUME NEW c \in DOMAIN ns PROVE Stands(ns, p, c)
  <2>1. CASE c \in M
    BY <1>5, <2>1 DEF Stands, D
  <2>2. CASE c = d
    <3>1. \A e \in ns[d].entries : Leads(ns, p, e)
      BY <1>4, <1>6
    <3>2. ds[d].de_inode_no = ds[d].inode_no
      BY DEF Mirrors, Stands
    <3> QED BY <1>1, <1>4, <1>8, <2>2, <3>1, <3>2 DEF Stands, D, L
  <2>3. CASE c \in DOMAIN ds /\ c # d
    <3>1. Stands(ds, p, c) /\ ns[c] = ds[c]
      BY <1>3, <2>3 DEF Mirrors
    <3>2. \A e \in ds[c].entries : Leads(ds, p, e) => Leads(ns, p, e)
      BY <1>3, <1>7 DEF Leads
    <3> QED BY <3>1, <3>2 DEF Stands
  <2> QED BY <1>3, <2>1, <2>2, <2>3
<1>11. ASSUME NEW c \in DOMAIN ns PROVE Hangs(ns, p, c)
  <2>1. CASE c \in M
    <3>1. ns[Up(c)].inode_no = ds[d].inode_no
      BY <1>5, <1>7, <2>1
    <3> QED BY <1>5, <2>1, <3>1 DEF Hangs, L, D
  <2>2. CASE c \in DOMAIN ds
    <3>1. Hangs(ds, p, c) /\ ns[c].inode_no = ds[c].inode_no /\ ns[c].parent = ds[c].parent
      BY <1>7, <2>2 DEF Mirrors
    <3>2. c # Root => ns[Up(c)].inode_no = ds[Up(c)].inode_no
      BY <1>7, <2>2 DEF Tree, Grown
    <3> QED BY <3>1, <3>2 DEF Hangs
  <2> QED BY <1>3, <2>1, <2>2
<1>12. Single(ns)
  <2> SUFFICES ASSUME NEW b \in DOMAIN ns, NEW c \in DOMAIN ns, ns[b].inode_no = ns[c].inode_no
               PROVE  b = c
    BY DEF Single
  <2>1. CASE b \in DOMAIN ds /\ c \in DOMAIN ds
    BY <1>7, <2>1 DEF Mirrors, Single
  <2>2. CASE b \in M /\ c \in M
    <3>1. PICK x \in L : Proper(x) /\ x.inode = ns[b].inode_no /\ b = Append(d, x.name)
      BY <1>5, <2>2
    <3>2. PICK y \in L : Proper(y) /\ y.inode = ns[c].inode_no /\ c = Append(d, y.name)
      BY <1>5, <2>2
    <3>3. x.inode \in Directories(D)
      BY <1>5, <2>2, <3>1
    <3>4. x = y
      BY <1>1, <3>1, <3>2, <3>3 DEF DirectoryFormed, L
    <3> QED BY <3>1, <3>2, <3>4
  <2>3. CASE b \in DOMAIN ds /\ c \in M
    BY <1>5, <1>7, <2>3
  <2>4. CASE b \in M /\ c \in DOMAIN ds
    BY <1>5, <1>7, <2>4
  <2> QED BY <1>3, <2>1, <2>2, <2>3, <2>4
<1>13. NoDir \notin DOMAIN ns
  BY <1>3, <1>5 DEF Mirrors
<1> QED BY <1>9, <1>10, <1>11, <1>12, <1>13 DEF Mirrors

\* Loading never stops, and leaves a mirror.
LEMMA LoadsRight ==
    ASSUME Benign, NEW p \in DOMAIN Disk, NEW ds, Tree(ds), Mirrors(ds, p), NEW d \in DOMAIN ds,
           NEW r \in ext2_get_direntries(ds, d)
    PROVE  /\ r.result = "SUCCESS" /\ ~Stops(r)
           /\ Mirrors(r.dirs, p) /\ r.dirs[d].entries # {}
           /\ \A c \in DOMAIN ds : c \in DOMAIN r.dirs /\ r.dirs[c].inode_no = ds[c].inode_no
<1>1. ~IoFails /\ ~strays(ds, d)
  BY BenignFacts, ContentListed
<1>2. \/ r.result = "SUCCESS" /\ ds[d].entries # {} /\ r.dirs = ds
      \/ Fills(ds, d, r)
  BY <1>1, LoadCases DEF Breaks, Misses
<1>3. CASE r.result = "SUCCESS" /\ ds[d].entries # {} /\ r.dirs = ds
  BY <1>3 DEF Stops
<1>4. CASE Fills(ds, d, r)
  <2>1. r.result = "SUCCESS" /\ ds[d].entries = {} /\ Loads(ds, d, r.dirs)
    BY <1>4 DEF Fills
  <2>2. Mirrors(r.dirs, p) /\ r.dirs[d].entries # {}
    BY <2>1, LoadMirrors
  <2>3. \A c \in DOMAIN ds : c \in DOMAIN r.dirs /\ r.dirs[c].inode_no = ds[c].inode_no
    <3>1. Made(ds, d) \cap DOMAIN ds = {}
      BY <2>1, MadeIsNew
    <3> QED BY <2>1, <3>1 DEF Loads, Filled
  <2> QED BY <2>1, <2>2, <2>3 DEF Stops
<1> QED BY <1>2, <1>3, <1>4

-----------------------------------------------------------------------------
(* Ways over a disk                                                        *)

\* What a name may lead to from a directory.
Called(D, i, name) == {x.inode : x \in {y \in Children(D, i) : y.name = name}}

\* A way by fewer names is the beginning of one by more.
LEMMA WayBegins ==
    ASSUME NEW D, NEW names, NEW k \in Nat, NEW n \in Nat, k <= n, NEW way \in Ways(D, names, n)
    PROVE  way[k] \in Ends(D, names, k) /\ (k < n => way[k] \in Directories(D))
<1> DEFINE w == [m \in 0 .. k |-> way[m]]
<1>1. /\ way \in [0 .. n -> DOMAIN D.inode] /\ way[0] = RootInode
      /\ \A m \in 1 .. n :
            /\ way[m - 1] \in Directories(D)
            /\ \E x \in Children(D, way[m - 1]) : x.name = Read(names[m]) /\ x.inode = way[m]
  BY DEF Ways
<1>2. w \in [0 .. k -> DOMAIN D.inode] /\ \A m \in 0 .. k : w[m] = way[m]
  <2>1. \A m \in 0 .. k : m \in 0 .. n
    OBVIOUS
  <2>2. \A m \in 0 .. k : way[m] \in DOMAIN D.inode
    BY <1>1, <2>1
  <2> QED BY <2>2
<1> HIDE DEF w
<1>3. ASSUME NEW m \in 1 .. k
      PROVE  /\ w[m - 1] \in Directories(D)
             /\ \E x \in Children(D, w[m - 1]) : x.name = Read(names[m]) /\ x.inode = w[m]
  <2>1. m \in 1 .. n /\ w[m] = way[m] /\ w[m - 1] = way[m - 1]
    BY <1>2
  <2> QED BY <1>1, <2>1
<1>4. w \in Ways(D, names, k)
  <2>1. w[0] = RootInode
    BY <1>1, <1>2
  <2>2. \A m \in 1 .. k :
           /\ w[m - 1] \in Directories(D)
           /\ \E x \in Children(D, w[m - 1]) : x.name = Read(names[m]) /\ x.inode = w[m]
    BY <1>3
  <2> QED BY <1>2, <2>1, <2>2, Zenon DEF Ways
<1>5. way[k] \in Ends(D, names, k)
  BY <1>2, <1>4 DEF Ends
<1>6. k < n => way[k] \in Directories(D)
  <2> SUFFICES ASSUME k < n PROVE way[k] \in Directories(D)
    OBVIOUS
  <2>1. k + 1 \in 1 .. n /\ (k + 1) - 1 = k
    OBVIOUS
  <2> QED BY <1>1, <2>1
<1> QED BY <1>5, <1>6

LEMMA EndsNowhere ==
    ASSUME NEW D, NEW names, NEW k \in Nat, NEW n \in Nat, k <= n, Ends(D, names, k) = {}
    PROVE  Ends(D, names, n) = {}
<1>1. ASSUME NEW way \in Ways(D, names, n) PROVE FALSE
  <2>1. way[k] \in Ends(D, names, k)
    BY WayBegins
  <2> QED BY <2>1
<1> QED BY <1>1 DEF Ends

LEMMA EndsAtFile ==
    ASSUME NEW D, NEW names, NEW k \in Nat, NEW n \in Nat, k < n, NEW i,
           Ends(D, names, k) \subseteq {i}, i \notin Directories(D)
    PROVE  Ends(D, names, n) = {}
<1>1. ASSUME NEW way \in Ways(D, names, n) PROVE FALSE
  <2>1. way[k] \in Ends(D, names, k) /\ way[k] \in Directories(D)
    BY WayBegins
  <2> QED BY <2>1
<1> QED BY <1>1 DEF Ends

LEMMA EndsAtRoot ==
    ASSUME NEW D, NEW names, RootInode \in DOMAIN D.inode
    PROVE  Ends(D, names, 0) = {RootInode}
<1> DEFINE w == [m \in 0 .. 0 |-> RootInode]
<1>1. w \in Ways(D, names, 0) /\ w[0] = RootInode
  BY DEF Ways
<1>2. \A way \in Ways(D, names, 0) : way[0] = RootInode
  BY DEF Ways
<1> QED BY <1>1, <1>2 DEF Ends

\* One name on.
LEMMA EndsOneOn ==
    ASSUME NEW D, NEW names, NEW k \in Nat, NEW i, Ends(D, names, k) = {i},
           i \in Directories(D), \A x \in Children(D, i) : x.inode \in DOMAIN D.inode
    PROVE  Ends(D, names, k + 1) = Called(D, i, Read(names[k + 1]))
<1> DEFINE X == {y \in Children(D, i) : y.name = Read(names[k + 1])}
<1>1. ASSUME NEW way \in Ways(D, names, k + 1) PROVE \E x \in X : way[k + 1] = x.inode
  <2>1. way[k] = i
    <3>1. k + 1 \in Nat /\ k <= k + 1
      OBVIOUS
    <3>2. way[k] \in Ends(D, names, k)
      BY <3>1, WayBegins
    <3> QED BY <3>2
  <2>2. k + 1 \in 1 .. k + 1 /\ (k + 1) - 1 = k
    OBVIOUS
  <2>3. \E x \in Children(D, way[(k + 1) - 1]) : x.name = Read(names[k + 1]) /\ x.inode = way[k + 1]
    BY <2>2 DEF Ways
  <2> QED BY <2>1, <2>2, <2>3
<1>2. ASSUME NEW x \in X PROVE \E way \in Ways(D, names, k + 1) : way[k + 1] = x.inode
  <2>1. PICK v \in Ways(D, names, k) : v[k] = i
    BY DEF Ends
  <2>2. /\ v \in [0 .. k -> DOMAIN D.inode] /\ v[0] = RootInode
        /\ \A n \in 1 .. k :
              /\ v[n - 1] \in Directories(D)
              /\ \E y \in Children(D, v[n - 1]) : y.name = Read(names[n]) /\ y.inode = v[n]
    BY DEF Ways
  <2> DEFINE w == [m \in 0 .. k + 1 |-> IF m = k + 1 THEN x.inode ELSE v[m]]
  <2>3. /\ w \in [0 .. k + 1 -> DOMAIN D.inode] /\ w[k + 1] = x.inode
        /\ \A m \in 0 .. k : w[m] = v[m]
    BY <2>2
  <2> HIDE DEF w
  <2>4. ASSUME NEW n \in 1 .. k + 1
        PROVE  /\ w[n - 1] \in Directories(D)
               /\ \E y \in Children(D, w[n - 1]) : y.name = Read(names[n]) /\ y.inode = w[n]
    <3>1. CASE n = k + 1
      <4>1. w[n - 1] = i /\ w[n] = x.inode
        BY <2>1, <2>3, <3>1
      <4> QED BY <3>1, <4>1
    <3>2. CASE n \in 1 .. k
      <4>1. w[n - 1] = v[n - 1] /\ w[n] = v[n]
        BY <2>3, <3>2
      <4> QED BY <2>2, <3>2, <4>1
    <3> QED BY <3>1, <3>2
  <2>5. w \in Ways(D, names, k + 1)
    <3>1. w[0] = RootInode
      BY <2>2, <2>3
    <3>2. \A n \in 1 .. k + 1 :
             /\ w[n - 1] \in Directories(D)
             /\ \E y \in Children(D, w[n - 1]) : y.name = Read(names[n]) /\ y.inode = w[n]
      BY <2>4
    <3> QED BY <2>3, <3>1, <3>2, Zenon DEF Ways
  <2> QED BY <2>3, <2>5
<1> HIDE DEF X
<1>3. Ends(D, names, k + 1) = {x.inode : x \in X}
  BY <1>1, <1>2 DEF Ends
<1> QED BY <1>3 DEF X, Called

\* A lone name of one character that leads to the root leads there on the disk.
LEMMA DotIsRoot ==
    ASSUME NEW p \in DOMAIN Disk, Readable(p), NEW names, names[1] = "."
    PROVE  Ends(Disk[p], names, 1) = {RootInode}
<1> DEFINE D == Disk[p]
<1>1. RootInode \in Directories(D) /\ RootInode \in DOMAIN D.inode
  BY DEF Readable, Directories
<1>2. DirectoryFormed(D, RootInode) /\ Children(D, RootInode) = Listing(D, RootInode)
  BY <1>1 DEF Readable
<1>3. \A x \in Children(D, RootInode) : x.inode \in DOMAIN D.inode
  BY <1>2 DEF DirectoryFormed
<1>4. Ends(D, names, 0) = {RootInode}
  BY <1>1, EndsAtRoot
<1>5. Ends(D, names, 0 + 1) = Called(D, RootInode, Read(names[0 + 1]))
  <2> HIDE DEF D
  <2> QED BY <1>1, <1>3, <1>4, EndsOneOn
<1>6. Read(names[1]) = "."
  BY Zenon DEF Read
<1>7. Called(D, RootInode, ".") = {RootInode}
  BY <1>2 DEF DirectoryFormed, Called
<1> HIDE DEF D
<1> QED BY <1>5, <1>6, <1>7 DEF D

-----------------------------------------------------------------------------
(* One name of a walk                                                      *)

LEMMA PathShape ==
    ASSUME world \in Worlds, NEW path \in Paths
    PROVE  \/ path = Slash
           \/ path.names # << >> /\ path.names \in Seq(world.names) /\ Len(path.names) >= 1
<1>1. world.most \in Nat
  BY DiskAssumption
<1> SUFFICES ASSUME path # Slash
             PROVE  path.names # << >> /\ path.names \in Seq(world.names) /\ Len(path.names) >= 1
  OBVIOUS
<1>2. PICK n \in 1 .. world.most : path.names \in [1 .. n -> world.names]
  BY DEF Paths
<1>3. n \in Nat /\ n >= 1
  BY <1>1
<1> DEFINE s == path.names
<1>4. s \in [1 .. n -> world.names]
  BY <1>2
<1> HIDE DEF s
<1>5. s \in Seq(world.names) /\ Len(s) = n
  BY <1>3, <1>4
<1> QED BY <1>3, <1>5 DEF s

\* What the root of a mirror is.
LEMMA RootMirrors ==
    ASSUME Benign, NEW p \in DOMAIN Disk, NEW ds, Tree(ds), Mirrors(ds, p)
    PROVE  /\ Root \in DOMAIN ds /\ ds[Root].fs_info = p /\ p # None
           /\ ds[Root].inode_no = RootInode /\ ds[Root].de_inode_no = RootInode
<1>1. Root \in DOMAIN ds
  BY DEF Tree, Shape
<1> QED BY <1>1, BenignFacts DEF Mirrors, Stands, Hangs

\* The entries of a loaded directory are the children of its inode.
Tells(ds, p, d, name) ==
    LET i == ds[d].inode_no
    IN  /\ i \in Directories(Disk[p])
        /\ \A x \in Children(Disk[p], i) : x.inode \in DOMAIN Disk[p].inode
        /\ Called(Disk[p], i, name) # {} => \E e \in ds[d].entries : e.name = name
        /\ \A e \in ds[d].entries : e.name = name =>
              Leads(ds, p, e) /\ Called(Disk[p], i, name) = {e.inode_no}

LEMMA EntriesTell ==
    ASSUME Benign, NEW p \in DOMAIN Disk, NEW ds, Mirrors(ds, p), NEW d \in DOMAIN ds,
           ds[d].entries # {}, NEW name
    PROVE  Tells(ds, p, d, name)
<1> DEFINE i == ds[d].inode_no
           L == Listing(Disk[p], i)
           X == {y \in Children(Disk[p], i) : y.name = name}
<1>1. /\ i \in Directories(Disk[p]) /\ Listed(ds[d].entries, L)
      /\ \A e \in ds[d].entries : Leads(ds, p, e)
  BY DEF Mirrors, Stands
<1>2. Children(Disk[p], i) = L /\ DirectoryFormed(Disk[p], i)
  BY <1>1, BenignFacts DEF Readable
<1>3. /\ \A x \in L : x.inode \in DOMAIN Disk[p].inode
      /\ \A x, y \in L : x.name = y.name => x = y
  BY <1>2 DEF DirectoryFormed
<1> HIDE DEF i, L
<1>4. X # {} => \E e \in ds[d].entries : e.name = name
  BY <1>1, <1>2 DEF Listed
<1>5. Called(Disk[p], i, name) = {x.inode : x \in X}
  BY DEF Called
<1>6. ASSUME NEW e \in ds[d].entries, e.name = name PROVE Called(Disk[p], i, name) = {e.inode_no}
  <2>1. PICK x \in L : e.name = x.name /\ e.inode_no = x.inode
    BY <1>1 DEF Listed
  <2>2. X = {x}
    BY <1>2, <1>3, <1>6, <2>1
  <2> HIDE DEF X
  <2> QED BY <1>5, <2>1, <2>2
<1> HIDE DEF X
<1> QED BY <1>1, <1>2, <1>3, <1>4, <1>6, <1>5 DEF i, L, Tells

\* The entry "." of the root, if it is there, leads to it.
LEMMA DotOfRoot ==
    ASSUME Benign, NEW p \in DOMAIN Disk, NEW ds, Tree(ds), Mirrors(ds, p), ds[Root].entries # {}
    PROVE  /\ \E e \in ds[Root].entries : e.name = "."
           /\ \A e \in ds[Root].entries : e.name = "." =>
                 e.inode_no = RootInode /\ e.directory = Root /\ e.type = "dir"
<1> DEFINE D == Disk[p]
<1>1. Root \in DOMAIN ds /\ ds[Root].inode_no = RootInode
  BY RootMirrors
<1>2. RootInode \in Directories(D) /\ DirectoryFormed(D, RootInode)
      /\ Children(D, RootInode) = Listing(D, RootInode)
  BY BenignFacts DEF Readable
<1>3. Called(D, RootInode, ".") = {RootInode}
  BY <1>2 DEF DirectoryFormed, Called
<1>4. Tells(ds, p, Root, ".")
  BY <1>1, EntriesTell
<1>5. ASSUME NEW e \in ds[Root].entries, e.name = "."
      PROVE  e.inode_no = RootInode /\ e.directory = Root /\ e.type = "dir"
  <2>1. e.inode_no = RootInode /\ Leads(ds, p, e)
    BY <1>1, <1>3, <1>4, <1>5 DEF Tells
  <2>2. e.type = "dir" /\ e.directory \in DOMAIN ds /\ ds[e.directory].inode_no = RootInode
    BY <1>2, <2>1 DEF Leads
  <2> QED BY <1>1, <2>1, <2>2 DEF Mirrors, Single
<1> QED BY <1>1, <1>3, <1>4, <1>5 DEF Tells

\* One more name of the path.
LEMMA WalksOn ==
    ASSUME Benign, NEW p \in DOMAIN Disk, Tree(dirs), Mirrors(dirs, p), call.dir \in DOMAIN dirs,
           dirs[call.dir].entries # {}, call.rem \in Seq(world.names \cup {"."}),
           NEW k \in Nat, k < Len(call.path.names), call.path.names \in Seq(world.names),
           At(dirs, call, k)
    PROVE  LET next == Ends(Disk[p], call.path.names, k + 1)
           IN  /\ Matching = {} => next = {}
               /\ \A e \in Matching : Leads(dirs, p, e) /\ next = {e.inode_no}
<1> DEFINE names == call.path.names
           i == dirs[call.dir].inode_no
           D == Disk[p]
           name == Read(names[k + 1])
<1>1. Ends(D, names, k) = {i}
  BY RootMirrors DEF At
<1>2. CurrentName = name
  <2>1. Len(call.rem) = Len(names) - k /\ \A n \in 1 .. Len(call.rem) : call.rem[n] = names[k + n]
    BY DEF At
  <2>2. Len(names) \in Nat /\ Len(call.rem) >= 1 /\ 1 \in 1 .. Len(call.rem)
    BY <2>1
  <2>3. Head(call.rem) = call.rem[1] /\ call.rem[1] = names[k + 1]
    BY <2>1, <2>2
  <2> QED BY <2>3 DEF CurrentName
<1> HIDE DEF name
<1>3. Tells(dirs, p, call.dir, name)
  BY EntriesTell
<1>4. Ends(D, names, k + 1) = Called(D, i, name)
  <2>1. i \in Directories(D) /\ \A x \in Children(D, i) : x.inode \in DOMAIN D.inode
    BY <1>3 DEF Tells
  <2> HIDE DEF i, D, names
  <2> QED BY <1>1, <2>1, EndsOneOn DEF name
<1>5. Matching = {e \in dirs[call.dir].entries : e.name = name}
  BY <1>2 DEF Matching
<1>6. /\ Matching = {} => Called(D, i, name) = {}
      /\ \A e \in Matching : Leads(dirs, p, e) /\ Called(D, i, name) = {e.inode_no}
  BY <1>3, <1>5 DEF Tells
<1> HIDE DEF i
<1> QED BY <1>4, <1>6

-----------------------------------------------------------------------------
(* Steps in a benign world                                                 *)

LEMMA NoneRuns == NoCall.op = "none" /\ NoAnswer.op = "none"
BY DEF NoCall, NoAnswer

\* What a step leaves is looked at with the world it had.
LEMMA SoundAfter ==
    ASSUME UNCHANGED world, Sound(dirs', call', answer', status')
    PROVE  BenignInv'
<1>1. Mirrored(dirs') => Mirrored(dirs)'
  BY DEF Mirrored, Bare, Mirrors, Stands, Hangs, Single, Listed, Leads, Only, Disk
<1>2. MountsRoot(call') => MountsRoot(call)'
  BY DEF MountsRoot
<1>3. Walks(dirs', call') => Walks(dirs, call)'
  <2>1. Paths' = Paths
    BY Zenon DEF Paths
  <2> QED BY <2>1 DEF Walks, At, Disk
<1>4. Right(dirs', answer') => Right(dirs, answer)'
  BY DEF Right, NamedOn, Handed, Disk
<1> QED BY <1>1, <1>2, <1>3, <1>4 DEF Sound, BenignInv

\* Calls that end, or that run for a mount, say nothing of paths.
LEMMA SoundEnds ==
    ASSUME Sound(dirs, call, answer, status), UNCHANGED <<world, dirs, status>>,
           call' = NoCall, Right(dirs, answer')
    PROVE  BenignInv'
<1>1. Sound(dirs', call', answer', status')
  BY NoneRuns DEF Sound, MountsRoot, Walks
<1> QED BY <1>1, SoundAfter

LEMMA SoundMounts ==
    ASSUME Sound(dirs, call, answer, status), UNCHANGED <<world, dirs, status>>,
           call'.op \in {"do_mount", "mounting"}, MountsRoot(call'), answer' = NoAnswer
    PROVE  BenignInv'
<1>1. Sound(dirs', call', answer', status')
  BY NoneRuns DEF Sound, Walks, Right
<1> QED BY <1>1, SoundAfter

LEMMA NothingNamed ==
    ASSUME NEW ds, ds[Root].fs_info = None, NEW a, Handed(a) = {}
    PROVE  Right(ds, a)
BY DEF Right, NamedOn

LEMMA PathNamed ==
    ASSUME NEW ds, NEW p \in DOMAIN Disk, ds[Root].fs_info = p, p # None, NEW a, NEW names,
           a.path.names = names,
           LET ends == Ends(Disk[p], names, Len(names))
           IN  IF a.path.slash THEN Handed(a) = ends \cap Directories(Disk[p]) ELSE Handed(a) = ends
    PROVE  Right(ds, a)
BY DEF Right, NamedOn

LEMMA InitBenign == Init => BenignInv
<1> SUFFICES ASSUME Init, Benign PROVE Sound(dirs, call, answer, status)
  BY DEF BenignInv
<1>1. DOMAIN dirs = {Root} /\ dirs[Root] = Directory(0, None, Root, "null")
  BY DEF Init
<1>2. LET r == Directory(0, None, Root, "null")
      IN  /\ r.inode_no = 0 /\ r.de_inode_no = 0 /\ r.payload = "null" /\ r.fs_info = None
          /\ r.entries = {} /\ r.parent = Root
  BY DEF Directory
<1>3. Bare(dirs)
  BY <1>1, <1>2 DEF Bare
<1> QED BY <1>3, NoneRuns DEF Init, Sound, Mirrored, MountsRoot, Walks, Right

\* The answer that names the root.
LEMMA RootNamed ==
    ASSUME Benign, Tree(dirs), Mirrored(dirs), NEW a, a.op = "namei", a.path \in Paths,
           returns_root(a.path), a.result = "SUCCESS", a.inode = dirs[Root].de_inode_no
    PROVE  Right(dirs, a)
<1> SUFFICES ASSUME world.short \subseteq {"."} PROVE Right(dirs, a)
  BY DEF Right
<1>1. CASE Bare(dirs)
  BY <1>1, NothingNamed DEF Bare, Handed
<1>2. ASSUME NEW p \in DOMAIN Disk, Mirrors(dirs, p) PROVE Right(dirs, a)
  <2> DEFINE names == a.path.names
  <2>1. /\ dirs[Root].fs_info = p /\ p # None /\ dirs[Root].de_inode_no = RootInode
        /\ Readable(p) /\ world \in Worlds
    BY <1>2, RootMirrors, BenignFacts
  <2>2. Handed(a) = {RootInode}
    BY <2>1 DEF Handed, RootInode
  <2>3. CASE names = << >>
    <3>1. a.path = Slash /\ ~a.path.slash
      <4>1. a.path = Slash
        BY <2>1, <2>3, PathShape
      <4> QED BY <4>1 DEF Slash
    <3>2. Ends(Disk[p], names, 0) = {RootInode} /\ Len(names) = 0
      BY <2>1, <2>3, EndsAtRoot DEF Readable, Directories
    <3> HIDE DEF names
    <3> QED BY <2>1, <2>2, <3>1, <3>2, PathNamed DEF names
  <2>4. CASE names # << >>
    <3>1. Len(names) = 1 /\ names[1] = "." /\ ~a.path.slash
      BY <2>4 DEF returns_root
    <3>2. Ends(Disk[p], names, 1) = {RootInode}
      BY <2>1, <3>1, DotIsRoot
    <3> HIDE DEF names
    <3> QED BY <2>1, <2>2, <3>1, <3>2, PathNamed DEF names
  <2> QED BY <2>3, <2>4
<1> QED BY <1>1, <1>2 DEF Mirrored

\* namei begins, or hands out the root.
LEMMA CallsNamei ==
    ASSUME Benign, Tree(dirs), Sound(dirs, call, answer, status), UNCHANGED world,
           NEW path \in Paths, namei("namei", None, path)
    PROVE  BenignInv'
<1>1. UNCHANGED <<dirs, status>> /\ world \in Worlds
  BY BenignFacts DEF namei
<1>2. CASE returns_root(path) /\ Found("namei", None, path, dirs[Root].de_inode_no, Root)
  <2>1. call' = NoCall /\ Answer("namei", path, "SUCCESS", dirs[Root].de_inode_no)
    BY <1>2 DEF Found
  <2>2. /\ answer'.op = "namei" /\ answer'.path = path /\ answer'.result = "SUCCESS"
        /\ answer'.inode = dirs[Root].de_inode_no
    BY <2>1 DEF Answer
  <2>3. Right(dirs, answer')
    BY <1>2, <2>2, RootNamed DEF Sound
  <2> QED BY <1>1, <2>1, <2>3, SoundEnds
<1>3. CASE IF path.names = << >> THEN Begin("namei", None, path, <<".">>, TRUE)
                                 ELSE Begin("namei", None, path, path.names, path.slash)
  <2>1. /\ call'.op = "namei" /\ call'.path = path /\ call'.dir = Root
        /\ IF path.names = << >> THEN call'.rem = <<".">>
                                 ELSE call'.rem = path.names /\ call'.slash = path.slash
        /\ answer' = NoAnswer
    BY <1>3 DEF Begin
  <2>2. Walks(dirs, call')
    <3>1. CASE path.names = << >>
      <4>1. path = Slash
        BY <1>1, <3>1, PathShape
      <4>2. <<".">> \in Seq(world.names \cup {"."})
        OBVIOUS
      <4> QED BY <2>1, <3>1, <4>1, <4>2 DEF Walks
    <3>2. CASE path.names # << >>
      <4>1. path.names \in Seq(world.names) /\ Len(path.names) >= 1
        BY <1>1, <3>2, PathShape DEF Slash
      <4>2. At(dirs, call', 0)
        <5>1. dirs[Root].fs_info # None =>
                 Ends(Disk[dirs[Root].fs_info], path.names, 0) = {dirs[Root].inode_no}
          <6> SUFFICES ASSUME NEW p \in DOMAIN Disk, Mirrors(dirs, p)
                       PROVE  Ends(Disk[dirs[Root].fs_info], path.names, 0) = {dirs[Root].inode_no}
            BY DEF Sound, Mirrored, Bare
          <6>1. dirs[Root].fs_info = p /\ dirs[Root].inode_no = RootInode /\ Readable(p)
            BY RootMirrors, BenignFacts
          <6>2. Ends(Disk[p], path.names, 0) = {RootInode}
            BY <6>1, EndsAtRoot DEF Readable, Directories
          <6> QED BY <6>1, <6>2
        <5>2. /\ Len(path.names) = Len(path.names) - 0
              /\ \A n \in 1 .. Len(path.names) : path.names[n] = path.names[0 + n]
          BY <4>1
        <5> QED BY <2>1, <3>2, <5>1, <5>2 DEF At
      <4>3. path.names \in Seq(world.names \cup {"."}) /\ 0 < Len(path.names)
        BY <4>1
      <4> QED BY <2>1, <3>2, <4>2, <4>3 DEF Walks
    <3> QED BY <3>1, <3>2
  <2>3. Sound(dirs', call', answer', status')
    BY <1>1, <2>1, <2>2, NoneRuns DEF Sound, MountsRoot, Right
  <2> QED BY <2>3, SoundAfter
<1> QED BY <1>2, <1>3 DEF namei

LEMMA CallsMount ==
    ASSUME Benign, Sound(dirs, call, answer, status), UNCHANGED world,
           NEW m \in world.mounts, namei("do_mount", m[1], m[2])
    PROVE  BenignInv'
<1>1. UNCHANGED <<dirs, status>> /\ m[2] = Slash /\ m[2].names = << >>
  <2>1. m[2] = Slash
    BY BenignFacts
  <2>2. UNCHANGED <<dirs, status>>
    BY DEF namei
  <2>3. Slash.names = << >>
    BY DEF Slash
  <2> QED BY <2>1, <2>2, <2>3
<1>2. \/ Found("do_mount", m[1], m[2], dirs[Root].de_inode_no, Root)
      \/ Begin("do_mount", m[1], m[2], <<".">>, TRUE)
  BY <1>1 DEF namei
<1>3. /\ call'.op \in {"do_mount", "mounting"} /\ call'.part = m[1] /\ call'.dir = Root
      /\ call'.op = "do_mount" => call'.rem = <<".">>
      /\ answer' = NoAnswer
  BY <1>2 DEF Found, Begin
<1>4. MountsRoot(call')
  BY <1>3 DEF MountsRoot
<1> QED BY <1>1, <1>3, <1>4, SoundMounts

\* Nothing is found before something is mounted.
LEMMA BareMatches ==
    ASSUME TreeInv, Bare(dirs), call.op # "mounting" PROVE Matching = {}
<1>1. call.dir = Root
  BY DEF TreeInv, Calling, Bare
<1> QED BY <1>1 DEF Bare, Matching

\* Where the walk of namei is, once something is mounted: in a directory that
\* is loaded, at the "." of a lone "/" or k names into the path.
Stage(p, k) ==
    /\ Mirrors(dirs, p) /\ Only(p) /\ dirs[Root].entries # {}
    /\ call.dir \in DOMAIN dirs /\ dirs[call.dir].entries # {}
    /\ call.path \in Paths /\ call.rem \in Seq(world.names \cup {"."})
    /\ \/ call.path = Slash /\ call.rem = <<".">> /\ call.dir = Root
       \/ /\ call.path.names \in Seq(world.names) /\ k < Len(call.path.names)
          /\ At(dirs, call, k)

LEMMA Stages ==
    ASSUME Benign, TreeInv, Sound(dirs, call, answer, status), call.op = "namei", ~Bare(dirs)
    PROVE  \E p \in DOMAIN Disk, k \in Nat : Stage(p, k)
<1>1. call.dir \in DOMAIN dirs /\ Root \in DOMAIN dirs /\ world \in Worlds
  BY BenignFacts DEF TreeInv, Calling, Tree, Shape
<1>2. PICK p \in DOMAIN Disk : Mirrors(dirs, p) /\ Only(p) /\ dirs[Root].entries # {}
  BY DEF Sound, Mirrored
<1>3. /\ call.path \in Paths /\ call.rem \in Seq(world.names \cup {"."})
      /\ dirs[call.dir].entries # {}
      /\ IF call.path.names = << >>
         THEN call.path = Slash /\ call.rem = <<".">> /\ call.dir = Root
         ELSE \E k \in Nat : k < Len(call.path.names) /\ At(dirs, call, k)
  BY <1>2 DEF Sound, Walks
<1>4. CASE call.path.names = << >>
  <2>1. Stage(p, 0)
    BY <1>1, <1>2, <1>3, <1>4 DEF Stage
  <2> QED BY <2>1
<1>5. CASE call.path.names # << >>
  <2>1. call.path.names \in Seq(world.names)
    <3>1. Slash.names = << >>
      BY DEF Slash
    <3> QED BY <1>1, <1>3, <1>5, <3>1, PathShape
  <2>2. PICK k \in Nat : k < Len(call.path.names) /\ At(dirs, call, k)
    BY <1>3, <1>5
  <2>3. Stage(p, k)
    BY <1>1, <1>2, <1>3, <2>1, <2>2 DEF Stage
  <2> QED BY <2>3
<1> QED BY <1>4, <1>5

\* What the entries that match say of the path: rest is where it leads after
\* the current name.
Points(p, rest, e) ==
    /\ Leads(dirs, p, e) /\ rest = {e.inode_no}
    /\ e.inode_no \in DOMAIN Disk[p].inode /\ e.inode_no # 0

LEMMA DotPoints ==
    ASSUME Benign, TreeInv, NEW p \in DOMAIN Disk, NEW k \in Nat, Stage(p, k),
           call.path.names = << >>
    PROVE  /\ ~(Len(call.rem) > 1) /\ Matching # {} /\ call.path.slash = FALSE
           /\ Ends(Disk[p], call.path.names, Len(call.path.names)) = {RootInode}
           /\ \A e \in Matching : e.inode_no = RootInode /\ e.type = "dir"
<1>1. call.path = Slash /\ call.rem = <<".">> /\ call.dir = Root
  BY DEF Stage, At
<1>2. CurrentName = "."
  <2>1. Head(call.rem) = "."
    BY <1>1
  <2>2. Read(".") = "."
    BY Zenon DEF Read
  <2> QED BY <2>1, <2>2 DEF CurrentName
<1>3. /\ \E e \in dirs[Root].entries : e.name = "."
      /\ \A e \in dirs[Root].entries : e.name = "." =>
            e.inode_no = RootInode /\ e.directory = Root /\ e.type = "dir"
  BY DotOfRoot DEF Stage, TreeInv
<1>4. Ends(Disk[p], << >>, 0) = {RootInode}
  BY BenignFacts, EndsAtRoot DEF Readable, Directories
<1>5. ~(Len(call.rem) > 1) /\ call.path.slash = FALSE /\ Len(<< >>) = 0
  BY <1>1 DEF Slash
<1> QED BY <1>1, <1>2, <1>3, <1>4, <1>5 DEF Matching

LEMMA NamePoints ==
    ASSUME Benign, TreeInv, NEW p \in DOMAIN Disk, NEW k \in Nat, Stage(p, k),
           call.path.names # << >>
    PROVE  LET rest == Ends(Disk[p], call.path.names, k + 1)
           IN  /\ At(dirs, call, k) /\ k < Len(call.path.names)
               /\ call.path.names \in Seq(world.names)
               /\ Matching = {} => rest = {}
               /\ \A e \in Matching : Points(p, rest, e)
<1> DEFINE rest == Ends(Disk[p], call.path.names, k + 1)
<1>1. /\ call.path.names \in Seq(world.names) /\ k < Len(call.path.names)
      /\ At(dirs, call, k)
  <2>1. Slash.names = << >>
    BY DEF Slash
  <2> QED BY <2>1 DEF Stage
<1>2. /\ Matching = {} => rest = {}
      /\ \A e \in Matching : Leads(dirs, p, e) /\ rest = {e.inode_no}
  BY <1>1, WalksOn DEF Stage, TreeInv
<1>3. Readable(p)
  BY BenignFacts
<1>4. ASSUME NEW e \in Matching PROVE e.inode_no \in DOMAIN Disk[p].inode
  <2>1. rest = {e.inode_no}
    BY <1>2
  <2>2. rest = {way[k + 1] : way \in Ways(Disk[p], call.path.names, k + 1)}
    BY DEF Ends
  <2>3. \A way \in Ways(Disk[p], call.path.names, k + 1) : way[k + 1] \in DOMAIN Disk[p].inode
    <3>1. k + 1 \in 0 .. k + 1
      OBVIOUS
    <3> QED BY <3>1 DEF Ways
  <2> HIDE DEF rest
  <2> QED BY <2>1, <2>2, <2>3
<1>5. \A e \in Matching : e.inode_no # 0
  BY <1>3, <1>4 DEF Readable
<1> QED BY <1>1, <1>2, <1>4, <1>5 DEF Points

\* What a walk of namei answers is right.
LEMMA NotFoundRight ==
    ASSUME Benign, TreeInv, Sound(dirs, call, answer, status), UNCHANGED world,
           call.op = "namei", namei_not_found
    PROVE  BenignInv'
<1>1. /\ Matching = {} /\ UNCHANGED <<dirs, status>> /\ call' = NoCall
      /\ answer' = [op |-> "namei", path |-> call.path, result |-> "ENOENT", inode |-> 0]
  BY DEF namei_not_found, Fail, Answer
<1>2. Handed(answer') = {} /\ answer'.path = call.path
  BY <1>1 DEF Handed
<1>3. Right(dirs, answer')
  <2>1. CASE Bare(dirs)
    BY <1>2, <2>1, NothingNamed DEF Bare
  <2>2. CASE ~Bare(dirs)
    <3>1. PICK p \in DOMAIN Disk, k \in Nat : Stage(p, k)
      BY <2>2, Stages
    <3> DEFINE names == call.path.names
    <3>2. dirs[Root].fs_info = p /\ p # None
      BY <3>1, RootMirrors DEF Stage, TreeInv
    <3>3. names # << >>
      BY <1>1, <3>1, DotPoints
    <3>4. Ends(Disk[p], names, k + 1) = {} /\ k < Len(names) /\ names \in Seq(world.names)
      BY <1>1, <3>1, <3>3, NamePoints
    <3> HIDE DEF names
    <3>5. Ends(Disk[p], names, Len(names)) = {}
      <4>1. k + 1 \in Nat /\ Len(names) \in Nat /\ k + 1 <= Len(names)
        BY <3>4
      <4> QED BY <3>4, <4>1, EndsNowhere
    <3> QED BY <1>2, <3>2, <3>5, PathNamed DEF names
  <2> QED BY <2>1, <2>2
<1> QED BY <1>1, <1>3, SoundEnds

LEMMA NotADirectoryRight ==
    ASSUME Benign, TreeInv, Sound(dirs, call, answer, status), UNCHANGED world,
           call.op = "namei", namei_not_a_directory
    PROVE  BenignInv'
<1>1. /\ Len(call.rem) > 1 /\ UNCHANGED <<dirs, status>> /\ call' = NoCall
      /\ answer' = [op |-> "namei", path |-> call.path, result |-> "ENOENT", inode |-> 0]
  BY DEF namei_not_a_directory, Fail, Answer
<1>2. PICK e \in Matching : is_dir(e, FALSE)
  BY DEF namei_not_a_directory
<1>3. Handed(answer') = {} /\ answer'.path = call.path
  BY <1>1 DEF Handed
<1>4. ~Bare(dirs)
  BY <1>2, BareMatches
<1>5. PICK p \in DOMAIN Disk, k \in Nat : Stage(p, k)
  BY <1>4, Stages
<1> DEFINE names == call.path.names
<1>6. dirs[Root].fs_info = p /\ p # None
  BY <1>5, RootMirrors DEF Stage, TreeInv
<1>7. names # << >>
  BY <1>1, <1>5, DotPoints
<1>8. /\ At(dirs, call, k) /\ k < Len(names) /\ names \in Seq(world.names)
      /\ Points(p, Ends(Disk[p], names, k + 1), e)
  BY <1>2, <1>5, <1>7, NamePoints
<1>9. e.inode_no \notin Directories(Disk[p]) /\ Ends(Disk[p], names, k + 1) = {e.inode_no}
  BY <1>2, <1>8 DEF Points, Leads, is_dir
<1>10. k + 1 \in Nat /\ Len(names) \in Nat /\ k + 1 < Len(names)
  BY <1>1, <1>8 DEF At
<1> HIDE DEF names
<1>11. Ends(Disk[p], names, Len(names)) = {}
  BY <1>9, <1>10, EndsAtFile
<1>12. Right(dirs, answer')
  BY <1>3, <1>6, <1>11, PathNamed DEF names
<1> QED BY <1>1, <1>12, SoundEnds

LEMMA LastRight ==
    ASSUME Benign, TreeInv, Sound(dirs, call, answer, status), UNCHANGED world,
           call.op = "namei", namei_last
    PROVE  BenignInv'
<1>1. Len(call.rem) = 1 /\ UNCHANGED <<dirs, status>>
  BY DEF namei_last
<1>2. PICK e \in Matching :
         \/ /\ ~call.slash \/ is_dir(e, TRUE)
            /\ Found(call.op, call.part, call.path, e.inode_no, e.directory)
         \/ /\ call.slash /\ is_dir(e, FALSE)
            /\ Fail(call.op, "ENOTDIR")
  BY DEF namei_last
<1>3. /\ call' = NoCall
      /\ answer'.path = call.path
      /\ \/ /\ ~call.slash \/ e.type \in {"dir", "unset"}
            /\ answer'.result = "SUCCESS" /\ answer'.inode = e.inode_no
         \/ call.slash /\ e.type # "dir" /\ answer'.result = "ENOTDIR"
  BY <1>2 DEF Found, Fail, Answer, is_dir
<1>4. ~Bare(dirs)
  BY <1>2, BareMatches
<1>5. PICK p \in DOMAIN Disk, k \in Nat : Stage(p, k)
  BY <1>4, Stages
<1> DEFINE names == call.path.names
           ends == Ends(Disk[p], names, Len(names))
<1>6. dirs[Root].fs_info = p /\ p # None
  BY <1>5, RootMirrors DEF Stage, TreeInv
<1>7. LET n == Len(call.rem)
      IN  n = 1 /\ \A m \in Nat : At(dirs, call, m) => n = Len(call.path.names) - m
  BY <1>1 DEF At
<1>8. IF call.path.slash THEN Handed(answer') = ends \cap Directories(Disk[p])
                         ELSE Handed(answer') = ends
  <2>1. CASE names = << >>
    <3>1. call.path.slash = FALSE /\ ends = {RootInode} /\ e.inode_no = RootInode /\ e.type = "dir"
      BY <1>2, <1>5, <2>1, DotPoints
    <3> HIDE DEF ends, names
    <3>2. Handed(answer') = {RootInode}
      BY <1>3, <3>1 DEF Handed, RootInode
    <3> QED BY <3>1, <3>2
  <2>2. CASE names # << >>
    <3>1. /\ At(dirs, call, k) /\ k < Len(names) /\ names \in Seq(world.names)
          /\ Points(p, Ends(Disk[p], names, k + 1), e)
      BY <1>2, <1>5, <2>2, NamePoints
    <3>2. k + 1 = Len(names) /\ call.slash = call.path.slash
      <4>1. Len(names) - k = 1 /\ Len(names) \in Nat
        BY <1>7, <3>1
      <4> HIDE DEF names
      <4> QED BY <3>1, <4>1 DEF At
    <3> HIDE DEF names
    <3>3. ends = {e.inode_no} /\ e.inode_no # 0
          /\ e.type \in {"dir", "other"} /\ (e.type = "dir" <=> e.inode_no \in Directories(Disk[p]))
      BY <3>1, <3>2 DEF Points, Leads
    <3> HIDE DEF ends
    <3>4. CASE answer'.result = "SUCCESS"
      <4>1. Handed(answer') = {e.inode_no}
        BY <1>3, <3>3, <3>4 DEF Handed
      <4>2. ~call.slash \/ e.inode_no \in Directories(Disk[p])
        BY <1>3, <3>3, <3>4
      <4> QED BY <3>2, <3>3, <4>1, <4>2
    <3>5. CASE answer'.result # "SUCCESS"
      <4>1. Handed(answer') = {} /\ call.slash
        BY <1>3, <3>5 DEF Handed
      <4>2. e.inode_no \notin Directories(Disk[p])
        BY <1>3, <3>3, <3>5
      <4> QED BY <3>2, <3>3, <4>1, <4>2
    <3> QED BY <3>4, <3>5
  <2> QED BY <2>1, <2>2
<1>9. Right(dirs, answer')
  <2> HIDE DEF names
  <2> QED BY <1>3, <1>6, <1>8, PathNamed DEF names
<1> QED BY <1>1, <1>3, <1>9, SoundEnds

\* The next directory is there, and filled.
LEMMA EntersRight ==
    ASSUME Benign, TreeInv, Sound(dirs, call, answer, status), UNCHANGED world,
           call.op = "namei", namei_enters
    PROVE  BenignInv'
<1>1. /\ Len(call.rem) > 1 /\ UNCHANGED answer /\ answer.op # "namei" /\ status = "ok"
  BY DEF namei_enters, Sound
<1>2. PICK e \in Matching :
         /\ is_dir(e, TRUE) /\ e.directory # NoDir
         /\ \E r \in ext2_get_direntries(dirs, e.directory) :
               IF Stops(r)
               THEN status' = r.result /\ UNCHANGED <<dirs, call>>
               ELSE /\ dirs' = r.dirs
                    /\ call' = [call EXCEPT !.dir = e.directory, !.rem = Tail(call.rem)]
                    /\ UNCHANGED status
  BY DEF namei_enters
<1>3. PICK r \in ext2_get_direntries(dirs, e.directory) :
               IF Stops(r)
               THEN status' = r.result /\ UNCHANGED <<dirs, call>>
               ELSE /\ dirs' = r.dirs
                    /\ call' = [call EXCEPT !.dir = e.directory, !.rem = Tail(call.rem)]
                    /\ UNCHANGED status
  BY <1>2
<1>4. ~Bare(dirs)
  BY <1>2, BareMatches
<1>5. PICK p \in DOMAIN Disk, k \in Nat : Stage(p, k)
  BY <1>4, Stages
<1> DEFINE names == call.path.names
           next == Ends(Disk[p], names, k + 1)
<1>6. names # << >>
  BY <1>1, <1>5, DotPoints
<1>7. /\ At(dirs, call, k) /\ k < Len(names) /\ names \in Seq(world.names) /\ Points(p, next, e)
  BY <1>2, <1>5, <1>6, NamePoints
<1>8. e.directory \in DOMAIN dirs /\ dirs[e.directory].inode_no = e.inode_no /\ next = {e.inode_no}
  BY <1>2, <1>7 DEF Points, Leads
<1>9. /\ Mirrors(dirs, p) /\ Only(p) /\ Tree(dirs) /\ dirs[Root].entries # {}
      /\ call.path \in Paths /\ call.rem \in Seq(world.names \cup {"."})
  BY <1>5 DEF Stage, TreeInv
<1>10. /\ ~Stops(r) /\ Mirrors(r.dirs, p) /\ r.dirs[e.directory].entries # {}
       /\ \A c \in DOMAIN dirs : c \in DOMAIN r.dirs /\ r.dirs[c].inode_no = dirs[c].inode_no
  BY <1>8, <1>9, LoadsRight
<1>11. Tree(r.dirs) /\ Keeps(dirs, r.dirs)
  BY <1>8, <1>9, LoadKeeps
<1>12. /\ dirs' = r.dirs /\ UNCHANGED status
       /\ call'.dir = e.directory /\ call'.rem = Tail(call.rem) /\ call'.op = "namei"
       /\ call'.path = call.path /\ call'.slash = call.slash
  <2>1. call' = [call EXCEPT !.dir = e.directory, !.rem = Tail(call.rem)]
    BY <1>3, <1>10
  <2>2. call = [f \in CallFields |-> call[f]]
    BY DEF TreeInv, Calling
  <2> QED BY <1>3, <1>10, <2>1, <2>2 DEF CallFields
<1>13. Mirrored(dirs') /\ dirs'[Root].entries # {} /\ dirs'[Root].fs_info = p
  <2>1. Root \in DOMAIN dirs /\ r.dirs[Root].fs_info = p
    BY <1>9, <1>10, <1>11, RootMirrors
  <2>2. r.dirs[Root].entries # {}
    BY <1>9, <1>11, <2>1 DEF Keeps
  <2> QED BY <1>9, <1>10, <1>12, <2>1, <2>2 DEF Mirrored
<1>14. At(dirs', call', k + 1) /\ k + 1 < Len(names)
  <2> DEFINE rem == call.rem
             S == world.names \cup {"."}
  <2>1. /\ rem \in Seq(S) /\ Len(rem) > 1 /\ Len(rem) = Len(names) - k
        /\ \A n \in 1 .. Len(rem) : rem[n] = names[k + n]
        /\ call.slash = call.path.slash
    BY <1>1, <1>7, <1>9 DEF At
  <2>2. Len(names) \in Nat
    BY <1>7
  <2> HIDE DEF rem, S, names
  <2>3. Len(Tail(rem)) = Len(rem) - 1 /\ Len(rem) \in Nat
    BY <2>1
  <2>4. \A n \in 1 .. Len(Tail(rem)) : Tail(rem)[n] = rem[n + 1] /\ n + 1 \in 1 .. Len(rem)
    BY <2>1, <2>3
  <2>5. \A n \in 1 .. Len(Tail(rem)) : Tail(rem)[n] = names[(k + 1) + n]
    BY <2>1, <2>4
  <2>6. Len(Tail(rem)) = Len(names) - (k + 1) /\ k + 1 < Len(names)
    BY <2>1, <2>2, <2>3
  <2>7. next = {dirs'[call'.dir].inode_no}
    BY <1>8, <1>10, <1>12
  <2> HIDE DEF next
  <2> QED BY <1>12, <1>13, <2>1, <2>5, <2>6, <2>7 DEF At, names, next, rem
<1>15. Tail(call.rem) \in Seq(world.names \cup {"."})
  <2> DEFINE rem == call.rem
             S == world.names \cup {"."}
  <2>1. rem \in Seq(S) /\ Len(rem) > 1
    BY <1>1, <1>9
  <2> HIDE DEF rem, S
  <2>2. Tail(rem) \in Seq(S)
    BY <2>1
  <2> QED BY <2>2 DEF rem, S
<1>16. Walks(dirs', call')
  <2>1. k + 1 \in Nat
    OBVIOUS
  <2> QED BY <1>6, <1>9, <1>10, <1>12, <1>14, <1>15, <2>1 DEF Walks
<1>17. Sound(dirs', call', answer', status')
  BY <1>1, <1>12, <1>13, <1>16 DEF Sound, MountsRoot, Right
<1> QED BY <1>17, SoundAfter

LEMMA StraysNot ==
    ASSUME Benign, TreeInv, Sound(dirs, call, answer, status), call.op = "namei", namei_strays
    PROVE  FALSE
<1>1. PICK e \in Matching : is_dir(e, TRUE) /\ e.directory = NoDir
  BY DEF namei_strays
<1>2. Len(call.rem) > 1
  BY DEF namei_strays
<1>3. ~Bare(dirs)
  BY <1>1, BareMatches
<1>4. PICK p \in DOMAIN Disk, k \in Nat : Stage(p, k)
  BY <1>3, Stages
<1>5. call.path.names # << >>
  BY <1>2, <1>4, DotPoints
<1>6. Leads(dirs, p, e)
  BY <1>1, <1>4, <1>5, NamePoints DEF Points
<1>7. e.directory \in DOMAIN dirs
  BY <1>1, <1>6 DEF Leads, is_dir
<1> QED BY <1>1, <1>4, <1>7 DEF Stage, Mirrors

\* do_mount walks from the root to the root.
LEMMA MountWalks ==
    ASSUME Benign, TreeInv, Sound(dirs, call, answer, status), UNCHANGED world,
           Walking, call.op = "do_mount",
           namei_not_found \/ namei_last \/ namei_not_a_directory \/ namei_enters \/ namei_strays
    PROVE  BenignInv'
<1>1. call.dir = Root /\ call.rem = <<".">> /\ \E m \in world.mounts : m[1] = call.part
  BY DEF Sound, MountsRoot
<1>2. ~(Len(call.rem) > 1)
  BY <1>1
<1>3. namei_not_found \/ namei_last
  BY <1>2 DEF namei_not_a_directory, namei_enters, namei_strays
<1>4. CASE /\ UNCHANGED <<dirs, status>> /\ call' = NoCall
           /\ \E result : Answer("do_mount", call.path, result, 0)
  <2>1. answer'.op = "do_mount"
    BY <1>4 DEF Answer
  <2>2. Right(dirs, answer')
    BY <2>1 DEF Right
  <2> QED BY <1>4, <2>2, SoundEnds
<1>5. CASE namei_not_found
  BY <1>4, <1>5 DEF namei_not_found, Fail
<1>6. CASE namei_last
  <2>1. UNCHANGED <<dirs, status>>
    BY <1>6 DEF namei_last
  <2>2. PICK e \in Matching :
           \/ Found("do_mount", call.part, call.path, e.inode_no, e.directory)
           \/ Fail("do_mount", "ENOTDIR")
    BY <1>6 DEF namei_last
  <2>3. CASE Fail("do_mount", "ENOTDIR")
    BY <1>4, <2>1, <2>3 DEF Fail
  <2>4. CASE Found("do_mount", call.part, call.path, e.inode_no, e.directory)
    <3>1. /\ call'.op = "mounting" /\ call'.part = call.part /\ call'.dir = e.directory
          /\ answer' = NoAnswer
      BY <2>4 DEF Found
    <3>2. ~Bare(dirs)
      BY <2>2, BareMatches
    <3>3. PICK p \in DOMAIN Disk : Mirrors(dirs, p) /\ dirs[Root].entries # {}
      BY <3>2 DEF Sound, Mirrored
    <3>4. CurrentName = "." /\ Matching = {x \in dirs[Root].entries : x.name = "."}
      <4>1. Head(call.rem) = "."
        BY <1>1
      <4>2. Read(".") = "."
        BY Zenon DEF Read
      <4>3. CurrentName = "."
        BY <4>1, <4>2 DEF CurrentName
      <4> QED BY <1>1, <4>3 DEF Matching
    <3>5. e.directory = Root
      BY <3>3, <3>4, DotOfRoot DEF TreeInv
    <3>6. MountsRoot(call')
      BY <1>1, <3>1, <3>5 DEF MountsRoot
    <3> QED BY <2>1, <3>1, <3>6, SoundMounts
  <2> QED BY <2>2, <2>3, <2>4
<1> QED BY <1>3, <1>5, <1>6

\* Fields of the root that a mount sets again to what they are.
LEMMA MirrorsSame ==
    ASSUME NEW p, NEW ds, Tree(ds), Mirrors(ds, p), NEW ns, DOMAIN ns = DOMAIN ds,
           \A c \in DOMAIN ds :
              /\ ns[c].fs_info = ds[c].fs_info /\ ns[c].inode_no = ds[c].inode_no
              /\ ns[c].de_inode_no = ds[c].de_inode_no /\ ns[c].payload = ds[c].payload
              /\ ns[c].parent = ds[c].parent /\ ns[c].entries = ds[c].entries
    PROVE  Mirrors(ns, p)
<1>1. ASSUME NEW c \in DOMAIN ds PROVE Stands(ns, p, c)
  <2>1. Stands(ds, p, c)
    BY DEF Mirrors
  <2>2. \A e \in ds[c].entries : Leads(ds, p, e) => Leads(ns, p, e)
    BY DEF Leads
  <2> QED BY <2>1, <2>2 DEF Stands
<1>2. ASSUME NEW c \in DOMAIN ds PROVE Hangs(ns, p, c)
  <2>1. Hangs(ds, p, c) /\ (c # Root => Up(c) \in DOMAIN ds)
    BY DEF Mirrors, Tree, Grown
  <2> QED BY <2>1 DEF Hangs
<1>3. Single(ns) /\ NoDir \notin DOMAIN ns
  BY DEF Mirrors, Single
<1> QED BY <1>1, <1>2, <1>3 DEF Mirrors

\* The root with the disk mounted on it.
LEMMA MountMirrors ==
    ASSUME Benign, Tree(dirs), Mirrored(dirs), NEW p \in DOMAIN Disk,
           \E m \in world.mounts : m[1] = p, NEW ns, ns = mount_point(dirs, Root, p)
    PROVE  Tree(ns) /\ Mirrors(ns, p) /\ Only(p)
<1>1. Root \in DOMAIN dirs /\ Record(dirs[Root]) /\ Only(p) /\ Readable(p)
  BY BenignFacts DEF Tree, Shape
<1>2. Tree(ns) /\ DOMAIN ns = DOMAIN dirs
  BY <1>1, MountPointSet
<1>3. /\ \A c \in DOMAIN dirs : c # Root => ns[c] = dirs[c]
      /\ ns[Root].fs_info = p /\ ns[Root].inode_no = RootInode /\ ns[Root].de_inode_no = RootInode
      /\ ns[Root].payload = dirs[Root].payload /\ ns[Root].entries = dirs[Root].entries
      /\ ns[Root].parent = dirs[Root].parent
  BY <1>1 DEF mount_point, Record, Fields
<1>4. CASE Bare(dirs)
  <2>1. DOMAIN ns = {Root} /\ ns[Root].entries = {} /\ ns[Root].parent = Root
        /\ ns[Root].payload # "garbage"
    BY <1>2, <1>3, <1>4 DEF Bare
  <2>2. RootInode \in Directories(Disk[p])
    BY <1>1 DEF Readable
  <2>3. Stands(ns, p, Root) /\ Hangs(ns, p, Root)
    BY <1>3, <2>1, <2>2 DEF Stands, Hangs
  <2>4. Root # NoDir
    BY DEF Root, NoDir
  <2> QED BY <1>1, <1>2, <2>1, <2>3, <2>4 DEF Mirrors, Single
<1>5. ASSUME NEW q \in DOMAIN Disk, Mirrors(dirs, q), Only(q) PROVE Mirrors(ns, p)
  <2>1. q = p
    BY <1>5 DEF Only
  <2>2. dirs[Root].fs_info = p /\ dirs[Root].inode_no = RootInode /\ dirs[Root].de_inode_no = RootInode
    BY <1>5, <2>1, RootMirrors
  <2> QED BY <1>2, <1>3, <1>5, <2>1, <2>2, MirrorsSame
<1> QED BY <1>1, <1>2, <1>4, <1>5 DEF Mirrored

LEMMA MountsRight ==
    ASSUME Benign, TreeInv, TypeInv, Sound(dirs, call, answer, status), UNCHANGED world, ext2_mount
    PROVE  BenignInv'
<1> DEFINE p == call.part
           m == mount_point(dirs, Root, p)
<1>1. /\ call.dir = Root /\ p \in DOMAIN Disk /\ (\E x \in world.mounts : x[1] = p)
      /\ call.op = "mounting" /\ Mirrored(dirs) /\ status = "ok"
  BY DEF ext2_mount, Mounting, Sound, MountsRoot, TypeInv
<1>2. Tree(m) /\ Mirrors(m, p) /\ Only(p)
  BY <1>1, MountMirrors DEF TreeInv
<1>3. PICK r \in ext2_get_direntries(m, Root) :
         \/ Stops(r)
         \/ r.result = "EIO"
         \/ /\ dirs' = r.dirs
            /\ Answer("do_mount", call.path, "SUCCESS", RootInode)
            /\ call' = NoCall
            /\ UNCHANGED status
  BY <1>1 DEF ext2_mount
<1> HIDE DEF m, p
<1>4. Root \in DOMAIN m
  BY <1>2 DEF Tree, Shape
<1>5. r.result = "SUCCESS" /\ ~Stops(r) /\ Mirrors(r.dirs, p) /\ r.dirs[Root].entries # {}
  BY <1>1, <1>2, <1>4, LoadsRight
<1>6. /\ dirs' = r.dirs /\ call' = NoCall /\ UNCHANGED status
      /\ answer'.op = "do_mount"
  BY <1>3, <1>5 DEF Answer
<1>7. Sound(dirs', call', answer', status')
  <2>1. Mirrored(dirs')
    BY <1>1, <1>2, <1>5, <1>6 DEF Mirrored
  <2> QED BY <1>1, <1>6, <2>1, NoneRuns DEF Sound, MountsRoot, Walks, Right
<1> QED BY <1>7, SoundAfter

LEMMA StepBenign == TreeInv /\ TypeInv /\ BenignInv /\ [Next]_vars => BenignInv'
<1> SUFFICES ASSUME TreeInv, TypeInv, BenignInv, [Next]_vars PROVE BenignInv'
  OBVIOUS
<1>1. UNCHANGED world
  BY DEF Next, vars
<1>2. Benign' <=> Benign
  BY <1>1 DEF Benign
<1> SUFFICES ASSUME Benign PROVE BenignInv'
  BY <1>2 DEF BenignInv
<1>3. Sound(dirs, call, answer, status) /\ Tree(dirs)
  BY DEF BenignInv, TreeInv
<1>4. CASE UNCHANGED vars
  <2>1. UNCHANGED <<world, dirs, call, answer, status>>
    BY <1>4 DEF vars
  <2>2. Sound(dirs', call', answer', status')
    BY <1>3, <2>1
  <2> QED BY <1>1, <2>2, SoundAfter
<1> SUFFICES ASSUME Step PROVE BenignInv'
  BY <1>4 DEF Next
<1>5. ASSUME NEW path \in Paths, call_namei(path) PROVE BenignInv'
  BY <1>1, <1>3, <1>5, CallsNamei DEF call_namei
<1>6. ASSUME NEW m \in world.mounts, do_mount(m[1], m[2]) PROVE BenignInv'
  BY <1>1, <1>3, <1>6, CallsMount DEF do_mount
<1>7. ASSUME NEW m \in world.mounts, do_mount_refused(m[1], m[2]) PROVE BenignInv'
  <2>1. UNCHANGED <<world, dirs, call, status>> /\ answer'.op = "do_mount"
    BY <1>1, <1>7 DEF do_mount_refused, Answer
  <2>2. Sound(dirs', call', answer', status')
    BY <1>3, <2>1 DEF Sound, Right
  <2> QED BY <1>1, <2>2, SoundAfter
<1>8. CASE namei_not_found \/ namei_last \/ namei_not_a_directory \/ namei_enters \/ namei_strays
  <2>1. Walking /\ call.op \in {"namei", "do_mount"}
    BY <1>8 DEF namei_not_found, namei_last, namei_not_a_directory, namei_enters, namei_strays, Walking
  <2>2. CASE call.op = "do_mount"
    BY <1>1, <1>3, <1>8, <2>1, <2>2, MountWalks
  <2>3. CASE call.op = "namei"
    BY <1>1, <1>3, <1>8, <2>3, NotFoundRight, LastRight, NotADirectoryRight, EntersRight, StraysNot
  <2> QED BY <2>1, <2>2, <2>3
<1>9. CASE ext2_mount
  BY <1>1, <1>3, <1>9, MountsRight
<1>10. CASE ext2_mount_unreadable
  BY <1>10, BenignFacts DEF ext2_mount_unreadable
<1>11. CASE ext2_mount_strays
  BY <1>3, <1>11 DEF ext2_mount_strays, Mounting, Sound, MountsRoot, Root, NoDir
<1> QED BY <1>5, <1>6, <1>7, <1>8, <1>9, <1>10, <1>11 DEF Step

\* What holds of every state in every world, and what follows from it.
Everything == TreeInv /\ TypeInv /\ BenignInv

LEMMA TypesFollow == Everything => TypeOK
<1> SUFFICES ASSUME Everything PROVE TypeOK
  OBVIOUS
<1>1. Tree(dirs) /\ Calling(call, dirs) /\ TypeInv
  BY DEF Everything, TreeInv
<1> QED BY <1>1 DEF TypeOK, Tree, Shape, Closed, Calling, TypeInv, Typed

LEMMA TreeFollows == Everything => TreeExact
<1> SUFFICES ASSUME Everything, Benign
             PROVE  /\ \A d \in DOMAIN dirs : dirs[d].entries # {} =>
                          {<<e.name, e.inode_no>> : e \in dirs[d].entries}
                              = {<<x.name, x.inode>> :
                                    x \in Children(Disk[dirs[d].fs_info], dirs[d].inode_no)}
                    /\ \A c, d \in DOMAIN dirs :
                          dirs[c].fs_info = dirs[d].fs_info /\ dirs[c].inode_no = dirs[d].inode_no
                              => c = d
  BY TypesFollow DEF TreeExact
<1>1. Mirrored(dirs)
  BY DEF Everything, BenignInv, Sound
<1>2. CASE Bare(dirs)
  BY <1>2 DEF Bare
<1>3. ASSUME NEW p \in DOMAIN Disk, Mirrors(dirs, p)
      PROVE  /\ \A d \in DOMAIN dirs : dirs[d].entries # {} =>
                   {<<e.name, e.inode_no>> : e \in dirs[d].entries}
                       = {<<x.name, x.inode>> :
                             x \in Children(Disk[dirs[d].fs_info], dirs[d].inode_no)}
             /\ \A c, d \in DOMAIN dirs :
                   dirs[c].fs_info = dirs[d].fs_info /\ dirs[c].inode_no = dirs[d].inode_no
                       => c = d
  <2>1. ASSUME NEW d \in DOMAIN dirs, dirs[d].entries # {}
        PROVE  {<<e.name, e.inode_no>> : e \in dirs[d].entries}
                   = {<<x.name, x.inode>> :
                         x \in Children(Disk[dirs[d].fs_info], dirs[d].inode_no)}
    <3> DEFINE i == dirs[d].inode_no
               xs == Children(Disk[p], i)
    <3>1. /\ dirs[d].fs_info = p /\ i \in Directories(Disk[p])
          /\ Listed(dirs[d].entries, Listing(Disk[p], i))
      BY <1>3, <2>1 DEF Mirrors, Stands
    <3>2. xs = Listing(Disk[p], i)
      BY <3>1, BenignFacts DEF Readable
    <3> HIDE DEF i, xs
    <3>3. {<<e.name, e.inode_no>> : e \in dirs[d].entries} = {<<x.name, x.inode>> : x \in xs}
      BY <3>1, <3>2 DEF Listed
    <3> QED BY <3>1, <3>3 DEF i, xs
  <2>2. \A c, d \in DOMAIN dirs : dirs[c].inode_no = dirs[d].inode_no => c = d
    BY <1>3 DEF Mirrors, Single
  <2> QED BY <2>1, <2>2
<1> QED BY <1>1, <1>2, <1>3 DEF Mirrored

LEMMA NameiFollows == Everything => NameiExact
<1> SUFFICES ASSUME Everything, Benign
             PROVE  /\ status = "ok"
                    /\ answer.op = "namei" /\ world.short \subseteq {"."} =>
                          NamedBy(answer.path) =
                             IF answer.result = "SUCCESS" /\ answer.inode # 0
                             THEN {answer.inode} ELSE {}
  BY DEF NameiExact
<1>1. status = "ok" /\ Right(dirs, answer)
  BY DEF Everything, BenignInv, Sound
<1> QED BY <1>1 DEF Right, NamedOn, Handed, NamedBy

-----------------------------------------------------------------------------
(* Theorems                                                                *)

\* The tree hangs together in every build and on every disk, whatever reads fail.
THEOREM TreeStands == Spec => []TreeInv
<1>1. TreeInv /\ [Next]_vars => TreeInv'
  BY StepKeeps DEF Kept
<1> QED BY InitTree, <1>1, PTL DEF Spec

\* Nodes that namei has handed out stay where they are: ext2_get_direntries
\* fills a directory once, and mounting takes none away.
THEOREM NodesNeverMove == Spec => NodesStay
<1>1. TreeInv /\ [Next]_vars => [NodesStep]_vars
  BY StepKeeps DEF Kept, Keeps, NodesStep
<1> QED BY TreeStands, <1>1, PTL DEF Spec, NodesStay

\* A mount that returns an error leaves every directory on its file system
\* (the label no_mount_unmount of ext2_mount).
THEOREM FailedMountsRestoreFs == Spec => FailedMountKeepsFs
<1>1. TreeInv /\ [Next]_vars => [FailedMountStep]_vars
  BY StepKeeps DEF Kept, SameFs, FailedMountStep
<1> QED BY TreeStands, <1>1, PTL DEF Spec, FailedMountKeepsFs

\* In every world: types, and what a debug build makes of a well-formed disk.
THEOREM EverythingHolds == Spec => []Everything
<1>1. Init => Everything
  BY InitTree, InitTypes, InitBenign DEF Everything
<1>2. Everything /\ [Next]_vars => Everything'
  BY StepKeeps, StepTypes, StepBenign DEF Everything, Kept
<1> QED BY <1>1, <1>2, PTL DEF Spec

\* The variables have their types, whatever fails; and in a debug build that
\* mounts a well-formed disk on the root, the entries of every directory are all
\* immediate children of its inode (vfs.h:47-51), and no directory has two
\* structures, because "." and ".." are recognised by ext2_get_direntries.
THEOREM TreeRight == Spec => []TreeExact
BY EverythingHolds, TreeFollows, PTL

\* There, namei returns the node that the path names on the disk, whatever has
\* been loaded before, and fails only for paths that name nothing: for every
\* disk, path and order of calls.
THEOREM NameiRight == Spec => []NameiExact
BY EverythingHolds, NameiFollows, PTL
=============================================================================
