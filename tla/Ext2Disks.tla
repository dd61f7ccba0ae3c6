----------------------------- MODULE Ext2Disks ------------------------------
(***************************************************************************)
(* What the proofs about Ext2 say of a disk, as operators on a record of   *)
(* its structures: when a disk is sound, what a path leads to on it and    *)
(* which tree it holds, and how one operation may change it.               *)
(***************************************************************************)
EXTENDS Ext2

(***************************************************************************)
(* Sound disks                                                             *)
(***************************************************************************)
BlockLists == {s \in Seq(DataBlocks) : Len(s) <= MaxBlocks}
InodeRecs == [mode : {"none", "dir", "file"}, blks : BlockLists]
EntryRecs == [name : Names, ino : Inodes]
BlockValues == Data \cup Seq(EntryRecs)
SuperRecs == [magic : BOOLEAN, blocks : Int, inodes : Int]
GroupRecs == [blocks : Int, inodes : Int, dirs : Int]

DiskType(T) ==
    /\ T.super \in SuperRecs /\ T.group \in GroupRecs
    /\ T.bb \subseteq 0 .. (NBlocks - 1) /\ T.ib \subseteq Inodes
    /\ T.inode \in [Inodes -> InodeRecs]
    /\ T.content \in [DataBlocks -> BlockValues]

OwnedIn(T, i) == Range(T.inode[i].blks)
IsDirIn(T, d) == d \in Inodes /\ T.inode[d].mode = "dir"
EntriesIn(T, d) == T.content[T.inode[d].blks[1]]

\* Each block has one owner, and the bitmaps say which are owned.
BlocksSound(T) ==
    /\ \A i \in Inodes : T.inode[i].mode = "none" => T.inode[i].blks = <<>>
    /\ \A i \in Inodes : IsInjective(T.inode[i].blks)
    /\ \A i, j \in Inodes : i # j => OwnedIn(T, i) \cap OwnedIn(T, j) = {}
    /\ T.bb = (0 .. (FIRST_DATA_BLOCK - 1)) \cup UNION {OwnedIn(T, i) : i \in Inodes}
    /\ T.ib = (1 .. LostFoundIno) \cup {i \in Inodes : T.inode[i].mode # "none"}

CountsSound(T) ==
    /\ T.super.magic
    /\ T.super.blocks = NBlocks - Cardinality(T.bb) /\ T.group.blocks = T.super.blocks
    /\ T.super.inodes = NInodes - Cardinality(T.ib) /\ T.group.inodes = T.super.inodes

\* A directory is one block of entries, and the root is one.
DirsSound(T) ==
    /\ T.inode[RootIno].mode = "dir"
    /\ \A d \in Inodes : T.inode[d].mode = "dir" =>
          /\ Len(T.inode[d].blks) = 1
          /\ EntriesIn(T, d) \in Seq(EntryRecs) /\ Len(EntriesIn(T, d)) <= DirSlots

\* An entry names an inode in use, which no other entry names, and no name
\* occurs twice in a directory.
NamesSound(T) ==
    \A d, e \in Inodes : IsDirIn(T, d) /\ IsDirIn(T, e) =>
      \A k \in DOMAIN EntriesIn(T, d), l \in DOMAIN EntriesIn(T, e) :
        /\ EntriesIn(T, d)[k].ino # RootIno
        /\ T.inode[EntriesIn(T, d)[k].ino].mode # "none"
        /\ EntriesIn(T, d)[k].ino = EntriesIn(T, e)[l].ino => d = e /\ k = l
        /\ d = e /\ EntriesIn(T, d)[k].name = EntriesIn(T, e)[l].name => k = l

SoundDisk(T) ==
    DiskType(T) /\ BlocksSound(T) /\ CountsSound(T) /\ DirsSound(T) /\ NamesSound(T)

\* The disk as a record, and the tree on a disk.
Disk == [super |-> super, group |-> group, bb |-> bb, ib |-> ib, inode |-> inode, content |-> content]

IsDisk(T) ==
    /\ T = [super |-> T.super, group |-> T.group, bb |-> T.bb, ib |-> T.ib,
            inode |-> T.inode, content |-> T.content]
    /\ DiskType(T)

(***************************************************************************)
(* Lookups and trees                                                       *)
(***************************************************************************)
\* One step of a lookup, and the inodes it passes on the disk D.
WalkStep(D, d, nm) ==
    IF d # 0 /\ D.inode[d].mode = "dir" /\ Has(EntriesIn(D, d), nm)
      THEN find_in_root(EntriesIn(D, d), nm) ELSE 0

IsWalk(D, path, m, f) ==
    f = [k \in 0 .. m |-> IF k = 0 THEN RootIno ELSE WalkStep(D, f[k - 1], path[k])]

Lookup(D, path) == (CHOOSE f : IsWalk(D, path, Len(path), f))[Len(path)]

NodeOf(D, i) ==
    IF D.inode[i].mode = "dir" THEN [kind |-> "dir", data |-> <<>>]
    ELSE [kind |-> "file", data |-> [j \in DOMAIN D.inode[i].blks |-> D.content[D.inode[i].blks[j]]]]

TreeOf(D) == [p \in {q \in Paths : Lookup(D, q) # 0} |-> NodeOf(D, Lookup(D, p))]

\* q is a path below p.
Under(q, p) == Len(q) > Len(p) /\ SubSeq(q, 1, Len(p)) = p

\* The tree t with node at p, and nothing below p.
Effect(t, p, node) ==
    [q \in {r \in DOMAIN t : ~Under(r, p)} \cup {p} |-> IF q = p THEN node ELSE t[q]]

(***************************************************************************)
(* An operation on one path                                                *)
(***************************************************************************)
\* An operation on the path pa/nm of the disk B is about the inode ino: one that
\* no path leads to and that is to be entered into dir, or, when dir is 0, the
\* one that the path leads to.
Concerns(B, pa, nm, ino, dir) ==
    /\ pa \in Seq(Names) /\ nm \in Names /\ ino \in Inodes
    /\ \A r \in Seq(Names) : Lookup(B, r) = ino => r = Append(pa, nm)
    /\ IF dir = 0 THEN Lookup(B, Append(pa, nm)) = ino
       ELSE /\ IsDirIn(B, dir) /\ dir # ino /\ Lookup(B, pa) = dir
            /\ ~Has(EntriesIn(B, dir), nm)

Entered(B, nm, ino, dir) == Append(EntriesIn(B, dir), [name |-> nm, ino |-> ino])

\* D differs from B only in that inode, in blocks of no other inode, and
\* perhaps by the entry.
Near(B, D, nm, ino, dir) ==
    /\ \A i \in Inodes : i # ino => D.inode[i] = B.inode[i]
    /\ \A i \in Inodes : i # ino /\ i # dir => \A b \in OwnedIn(B, i) : D.content[b] = B.content[b]
    /\ dir # 0 => EntriesIn(D, dir) \in {EntriesIn(B, dir), Entered(B, nm, ino, dir)}

(***************************************************************************)
(* Changes of a disk                                                       *)
(***************************************************************************)
\* U is T after inode ino got the record rec, with blocks that nobody else owns.
SetsInode(T, U, ino, rec) ==
    /\ ino \in Inodes /\ ino # RootIno
    /\ rec \in InodeRecs /\ rec.mode # "none" /\ IsInjective(rec.blks)
    /\ Range(rec.blks) \cap (T.bb \ OwnedIn(T, ino)) = {}
    /\ rec.mode = "dir" => Len(rec.blks) = 1 /\ U.content[rec.blks[1]] = <<>>
    /\ U.super \in SuperRecs /\ U.group \in GroupRecs /\ U.super.magic
    /\ U.super.blocks = T.super.blocks + Cardinality(OwnedIn(T, ino)) - Len(rec.blks)
    /\ U.super.inodes = T.super.inodes - (IF ino \in T.ib THEN 0 ELSE 1)
    /\ U.group.blocks = U.super.blocks /\ U.group.inodes = U.super.inodes
    /\ U.bb = (T.bb \ OwnedIn(T, ino)) \cup Range(rec.blks)
    /\ U.ib = T.ib \cup {ino}
    /\ U.inode = [T.inode EXCEPT ![ino] = rec]
    /\ U.content \in [DataBlocks -> BlockValues]
    /\ \A b \in DataBlocks \ Range(rec.blks) : U.content[b] = T.content[b]

\* U is T with one more entry in the directory dir, for an inode that had none.
AddsEntry(T, U, dir, name, ino) ==
    /\ IsDirIn(T, dir) /\ name \in Names
    /\ ino \in Inodes /\ ino # RootIno /\ T.inode[ino].mode # "none"
    /\ Len(EntriesIn(T, dir)) < DirSlots /\ ~Has(EntriesIn(T, dir), name)
    /\ \A d \in Inodes : IsDirIn(T, d) =>
          \A k \in DOMAIN EntriesIn(T, d) : EntriesIn(T, d)[k].ino # ino
    /\ U.super = T.super /\ U.group = T.group /\ U.bb = T.bb /\ U.ib = T.ib /\ U.inode = T.inode
    /\ U.content = [T.content EXCEPT ![T.inode[dir].blks[1]] =
                       Append(EntriesIn(T, dir), [name |-> name, ino |-> ino])]

\* The different blocks bs that nobody else owns are for the data d of the file in
\* inode ino, which needs n blocks.
TakesBlocks(ino, bs, d, n) ==
    /\ ino \in Inodes /\ ino # RootIno /\ d \in Data /\ n \in Nat
    /\ bs \in Seq(DataBlocks) /\ Len(bs) <= n /\ IsInjective(bs)
    /\ FileInode(bs) \in InodeRecs
    /\ Range(bs) \cap (bb \ Range(inode[ino].blks)) = {}
=============================================================================
