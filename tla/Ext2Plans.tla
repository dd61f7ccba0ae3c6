----------------------------- MODULE Ext2Plans ------------------------------
(***************************************************************************)
(* The operations: when ext2_write_file or ext2_mkdir has begun, its plan  *)
(* leads from a sound disk to a sound disk with the tree asked for, or to  *)
(* the tree there was when it refuses, by way of disks that hold the same  *)
(* tree outside the path that it was given.                                *)
(***************************************************************************)
EXTENDS Ext2Lemmas

\* A leaf that does not name the SMT solver is left to Zenon.
USE ZenonT(20)

(***************************************************************************)
(* write_file                                                              *)
(***************************************************************************)
\* It holds the root and lost+found.
LEMMA FreshTreeIs ==
    ASSUME NEW D, DiskType(D), Formatted(10, D)
    PROVE  TreeOf(D) = [p \in {<<>>, <<LostFound>>} |-> [kind |-> "dir", data |-> <<>>]]
<1>1. /\ D.inode[2] = DirInode(21) /\ D.inode[11] = DirInode(22)
      /\ D.content[21] = FreshRoot /\ D.content[22] = <<>>
  BY SMT DEF Formatted
<1>2. /\ D.inode[2].mode = "dir" /\ D.inode[2].blks[1] = 21
      /\ D.inode[11].mode = "dir" /\ D.inode[11].blks[1] = 22
  BY <1>1, SMT DEF DirInode
<1>3. EntriesIn(D, 2) = FreshRoot /\ EntriesIn(D, 11) = <<>>
  BY <1>1, <1>2 DEF EntriesIn
<1>4. LostFound \in Names /\ LostFoundIno = 11 /\ RootIno = 2
  BY Ext2Assumption DEF LostFoundIno, RootIno
<1>5. /\ FreshRoot \in Seq(EntryRecs) /\ DOMAIN FreshRoot = {1}
      /\ FreshRoot[1].name = LostFound /\ FreshRoot[1].ino = 11
  <2>1. LostFoundIno \in Inodes
    BY Ext2Assumption, SMT DEF LostFoundIno, Inodes, FirstIno
  <2>2. [name |-> LostFound, ino |-> LostFoundIno] \in EntryRecs
    BY <1>4, <2>1 DEF EntryRecs
  <2>3. QED
    BY <1>4, <2>2, SMT DEF FreshRoot
<1>6. \A nm \in Names : WalkStep(D, 2, nm) = IF nm = LostFound THEN 11 ELSE 0
  <2>1. ASSUME NEW nm \in Names, nm = LostFound PROVE WalkStep(D, 2, nm) = 11
    <3>1. Has(FreshRoot, nm)
      BY <1>5, <2>1 DEF Has
    <3>2. find_in_root(FreshRoot, nm) = 11
      BY <1>5, <2>1, FindIs, SMT
    <3>3. QED
      BY <1>2, <1>3, <3>1, <3>2, SMT DEF WalkStep
  <2>2. ASSUME NEW nm \in Names, nm # LostFound PROVE WalkStep(D, 2, nm) = 0
    <3>1. ~Has(FreshRoot, nm)
      BY <1>5, <2>2 DEF Has
    <3>2. QED
      BY <1>2, <1>3, <3>1 DEF WalkStep
  <2>3. QED
    BY <2>1, <2>2
<1>7. \A nm \in Names : WalkStep(D, 11, nm) = 0 /\ WalkStep(D, 0, nm) = 0
  <2>1. \A nm : ~Has(<<>>, nm)
    BY SMT DEF Has
  <2>2. QED
    BY <1>3, <2>1 DEF WalkStep
<1> DEFINE Where(p) == IF p = <<>> THEN 2 ELSE IF p = <<LostFound>> THEN 11 ELSE 0
           S == {p \in Seq(Names) : Lookup(D, p) = Where(p)}
<1>8. Seq(Names) \subseteq S
  <2>1. <<>> \in S
    BY <1>4, LookupSteps, SMT
  <2>2. ASSUME NEW p \in S \cap Seq(Names), NEW nm \in Names PROVE Append(p, nm) \in S
    <3>1. Append(p, nm) \in Seq(Names) /\ Append(p, nm) # <<>> /\ p \in Seq(Names)
      BY SMT
    <3>2. Lookup(D, p) = Where(p)
      OBVIOUS
    <3>3. Lookup(D, Append(p, nm)) = WalkStep(D, Where(p), nm)
      BY <3>1, <3>2, LookupSteps
    <3>4. Append(p, nm) = <<LostFound>> <=> p = <<>> /\ nm = LostFound
      BY <1>4, <3>1, OneName
    <3>5. WalkStep(D, Where(p), nm) = Where(Append(p, nm))
      <4>1. CASE p = <<>>
        BY <1>6, <3>1, <3>4, <4>1
      <4>2. CASE p # <<>>
        BY <1>7, <3>1, <3>4, <4>2
      <4>3. QED
        BY <4>1, <4>2
    <3>6. QED
      BY <3>1, <3>3, <3>5, SMT
  <2> HIDE DEF S
  <2>3. QED
    BY <2>1, <2>2, PathInduction
<1>9. \A q \in Paths : Lookup(D, q) = Where(q)
  BY <1>8, PathsAre
<1>10. <<>> \in Paths /\ <<LostFound>> \in Paths
  <2>1. <<LostFound>> \in Seq(Names) /\ Len(<<LostFound>>) = 1 /\ 1 <= MaxDepth
    BY <1>4, Ext2Assumption, SMT
  <2>2. QED
    BY <2>1, PathsAre
<1>11. {q \in Paths : Lookup(D, q) # 0} = {<<>>, <<LostFound>>}
  BY <1>9, <1>10, SMT
<1>12. \A p \in {<<>>, <<LostFound>>} : NodeOf(D, Lookup(D, p)) = [kind |-> "dir", data |-> <<>>]
  BY <1>2, <1>9, <1>10 DEF NodeOf
<1>13. QED
  BY <1>11, <1>12 DEF TreeOf

\* The directory block with the new entry is a block.
LEMMA EnteredType ==
    ASSUME NEW pa, NEW nm, NEW ino, NEW dir, FreeTarget(pa, nm, ino, dir)
    PROVE  /\ Entered(Disk, nm, ino, dir) \in BlockValues
           /\ W("block", inode[dir].blks[1], Entered(Disk, nm, ino, dir)) \in Writes
<1>1. ino \in Inodes /\ IsDirIn(Disk, dir) /\ inode[dir].blks[1] \in DataBlocks
  BY FreeTargetIs
<1>2. SoundDisk(Disk) /\ nm \in Names
  BY DEF FreeTarget, Target
<1>3. EntriesIn(Disk, dir) \in Seq(EntryRecs)
  BY <1>1, <1>2, DirBlock DEF IsDirIn
<1>4. [name |-> nm, ino |-> ino] \in EntryRecs
  BY <1>1, <1>2 DEF EntryRecs
<1>5. Entered(Disk, nm, ino, dir) \in Seq(EntryRecs)
  BY <1>3, <1>4, SMT DEF Entered
<1>6. QED
  BY <1>1, <1>5, WritesAre DEF BlockValues

\* What the entry shows: the node at the end of the path, in the one block that is written.
EntryShows(T, M, pa, nm, ino, dir, rec) ==
    /\ TreeOf(T) = Effect(TreeOf(Disk), Append(pa, nm), NodeOf(T, ino))
    /\ inode[dir].blks[1] \notin Range(rec.blks)
    /\ T.content[inode[dir].blks[1]] = Entered(Disk, nm, ino, dir)
    /\ \A b \in DataBlocks : b # inode[dir].blks[1] => T.content[b] = M.content[b]

\* The free inode set up and then entered is the tree asked for.
LEMMA NewEntry ==
    ASSUME NEW pa, NEW nm, NEW ino, NEW dir, NEW M, NEW rec, Enters(pa, nm, ino, dir, M, rec)
    PROVE  LET T == WithEntry(M, nm, ino, dir)
           IN  AddsEntry(M, T, dir, nm, ino) /\ EntryShows(T, M, pa, nm, ino, dir, rec)
<1> DEFINE T == WithEntry(M, nm, ino, dir)
           blk == inode[dir].blks[1]
<1>0. /\ FreeTarget(pa, nm, ino, dir) /\ Len(EntriesIn(Disk, dir)) < DirSlots
      /\ SetsInode(Disk, M, ino, rec) /\ SoundDisk(M)
  BY DEF Enters
<1>1. /\ ino \in Inodes /\ ino # RootIno
      /\ inode[ino].mode = "none" /\ OwnedIn(Disk, ino) = {}
      /\ IsDirIn(Disk, dir) /\ dir \in Inodes /\ dir # ino /\ dir # 0
      /\ blk \in DataBlocks /\ blk \in OwnedIn(Disk, dir)
      /\ Concerns(Disk, pa, nm, ino, dir)
  BY <1>0, FreeTargetIs
<1>2. /\ SoundDisk(Disk) /\ ~Has(EntriesIn(Disk, dir), nm) /\ nm \in Names /\ Append(pa, nm) \in Paths
  BY <1>0 DEF FreeTarget, Target
<1>3. Disk.inode = inode /\ Disk.bb = bb /\ Disk.content = content
  BY DEF Disk
<1>4. /\ rec.mode # "none" /\ Range(rec.blks) \cap (bb \ OwnedIn(Disk, ino)) = {}
      /\ M.inode = [inode EXCEPT ![ino] = rec]
      /\ \A b \in DataBlocks \ Range(rec.blks) : M.content[b] = content[b]
      /\ rec.mode = "dir" => M.content[rec.blks[1]] = <<>>
  BY <1>0, <1>3 DEF SetsInode
<1>5. inode \in [Inodes -> InodeRecs] /\ M.content \in [DataBlocks -> BlockValues]
  BY <1>0, <1>2, <1>3 DEF SoundDisk, DiskType
<1>6. M.inode[ino] = rec /\ \A i \in Inodes : i # ino => M.inode[i] = inode[i]
  BY <1>1, <1>4, <1>5
<1>7. ASSUME NEW i \in Inodes, NEW b \in OwnedIn(Disk, i)
      PROVE  b \in DataBlocks /\ b \notin Range(rec.blks) /\ M.content[b] = content[b]
  <2>1. b \in bb
    BY <1>2, <1>3, <1>7 DEF SoundDisk, BlocksSound
  <2>2. inode[i].blks \in BlockLists
    BY <1>5 DEF InodeRecs
  <2>3. b \in DataBlocks
    BY <1>3, <2>2, BlockListsAreSeqs DEF OwnedIn
  <2>4. QED
    BY <1>1, <1>4, <2>1, <2>3
<1>8. ASSUME NEW d \in Inodes, d # ino, inode[d].mode = "dir"
      PROVE  /\ EntriesIn(M, d) = EntriesIn(Disk, d)
             /\ inode[d].blks[1] \in OwnedIn(Disk, d)
  <2>1. inode[d].blks[1] \in OwnedIn(Disk, d)
    BY <1>2, <1>3, <1>8, DirBlock DEF IsDirIn
  <2>2. QED
    BY <1>3, <1>6, <1>7, <1>8, <2>1 DEF EntriesIn
<1>9. ASSUME NEW d \in Inodes, IsDirIn(M, d), NEW k \in DOMAIN EntriesIn(M, d)
      PROVE  EntriesIn(M, d)[k].ino # ino
  <2>1. CASE d = ino
    <3>1. EntriesIn(M, d) = <<>>
      BY <1>4, <1>6, <1>9, <2>1 DEF EntriesIn, IsDirIn
    <3>2. QED
      BY <1>9, <3>1, SMT
  <2>2. CASE d # ino
    <3>1. inode[d].mode = "dir" /\ IsDirIn(Disk, d)
      BY <1>3, <1>6, <1>9, <2>2 DEF IsDirIn
    <3>2. EntriesIn(M, d) = EntriesIn(Disk, d)
      BY <1>8, <2>2, <3>1
    <3>3. inode[EntriesIn(Disk, d)[k].ino].mode # "none"
      BY <1>2, <1>3, <1>9, <3>1, <3>2 DEF SoundDisk, NamesSound
    <3>4. QED
      BY <1>1, <3>2, <3>3
  <2>3. QED
    BY <2>1, <2>2
<1>10. EntriesIn(M, dir) = EntriesIn(Disk, dir) /\ IsDirIn(M, dir) /\ M.inode[dir].blks[1] = blk
  <2>1. inode[dir].mode = "dir"
    BY <1>1, <1>3 DEF IsDirIn
  <2>2. QED
    BY <1>1, <1>6, <1>8, <2>1 DEF IsDirIn
<1>11. /\ T.super = M.super /\ T.group = M.group /\ T.bb = M.bb /\ T.ib = M.ib /\ T.inode = M.inode
       /\ T.content = [M.content EXCEPT ![blk] = Entered(Disk, nm, ino, dir)]
       /\ T = [super |-> T.super, group |-> T.group, bb |-> T.bb, ib |-> T.ib,
               inode |-> T.inode, content |-> T.content]
  BY DEF WithEntry
<1> HIDE DEF T
<1>12. AddsEntry(M, T, dir, nm, ino)
  <2>1. M.inode[ino].mode # "none"
    BY <1>4, <1>6
  <2>2. Entered(Disk, nm, ino, dir) = Append(EntriesIn(M, dir), [name |-> nm, ino |-> ino])
    BY <1>10 DEF Entered
  <2> HIDE DEF blk
  <2>3. QED
    BY <1>0, <1>1, <1>2, <1>9, <1>10, <1>11, <2>1, <2>2 DEF AddsEntry
<1>15. /\ T.content[blk] = Entered(Disk, nm, ino, dir)
       /\ \A b \in DataBlocks : b # blk => T.content[b] = M.content[b]
  BY <1>1, <1>5, <1>11
<1>16. EntriesIn(T, dir) = Entered(Disk, nm, ino, dir)
  BY <1>10, <1>11, <1>15 DEF EntriesIn
<1>17. Near(Disk, T, nm, ino, dir)
  <2>1. \A i \in Inodes : i # ino => T.inode[i] = inode[i]
    BY <1>6, <1>11
  <2>2. ASSUME NEW i \in Inodes, i # ino, i # dir, NEW b \in OwnedIn(Disk, i)
        PROVE  T.content[b] = content[b]
    <3>1. b # blk
      BY <1>1, <1>2, <2>2 DEF SoundDisk, BlocksSound
    <3>2. QED
      BY <1>7, <1>15, <3>1
  <2>3. QED
    BY <1>3, <1>16, <2>1, <2>2 DEF Near
<1>18. Arrived(Disk, T, nm, ino, dir)
  <2>1. ASSUME T.inode[ino].mode = "dir" PROVE EntriesIn(T, ino) = <<>>
    <3>1. rec.mode = "dir" /\ M.content[rec.blks[1]] = <<>>
      BY <1>4, <1>6, <1>11, <2>1
    <3>2. rec.blks[1] \in OwnedIn(M, ino) /\ rec.blks[1] \in DataBlocks
      BY <1>0, <1>1, <1>6, <3>1, DirBlock DEF IsDirIn
    <3>3. rec.blks[1] \in Range(rec.blks)
      BY <1>6, <3>2 DEF OwnedIn
    <3>4. rec.blks[1] # blk
      BY <1>1, <1>7, <3>3
    <3>5. QED
      BY <1>6, <1>11, <1>15, <3>1, <3>2, <3>4 DEF EntriesIn
  <2>2. QED
    BY <1>16, <2>1 DEF Arrived
<1>19. TreeOf(T) = Effect(TreeOf(Disk), Append(pa, nm), NodeOf(T, ino))
  BY <1>1, <1>2, <1>17, <1>18, FinalTree, SMT
<1>20. blk \notin Range(rec.blks)
  BY <1>1, <1>7
<1>21. QED
  BY <1>12, <1>15, <1>19, <1>20 DEF EntryShows, T

\* The disk with a new file in it is sound.
LEMMA FreshFileSound ==
    ASSUME SoundDisk(Disk), NEW ino, NEW bs, NEW d, NEW n \in Nat, TakesBlocks(ino, bs, d, n),
           Len(bs) = n, Cardinality(Range(inode[ino].blks)) = 0, ino \notin ib
    PROVE  /\ SetsInode(Disk, FileDisk(ino, bs, d, -n, -1), ino, FileInode(bs))
           /\ SoundDisk(FileDisk(ino, bs, d, -n, -1))
<1>1. Cardinality(Range(inode[ino].blks)) - n = -n /\ (IF ino \in ib THEN 0 ELSE -1) = -1
  BY SMT
<1>2. QED
  BY <1>1, FileDiskSound

\* The disk with the entry is sound.
LEMMA NewDisk ==
    ASSUME NEW pa, NEW nm, NEW ino, NEW dir, NEW M, NEW rec, Enters(pa, nm, ino, dir, M, rec)
    PROVE  SoundDisk(WithEntry(M, nm, ino, dir)) /\ IsDisk(WithEntry(M, nm, ino, dir))
<1> DEFINE T == WithEntry(M, nm, ino, dir)
<1>1. SoundDisk(M) /\ AddsEntry(M, T, dir, nm, ino)
  BY NewEntry DEF Enters
<1>2. T = [super |-> T.super, group |-> T.group, bb |-> T.bb, ib |-> T.ib,
           inode |-> T.inode, content |-> T.content]
  BY DEF WithEntry
<1> HIDE DEF T
<1>3. SoundDisk(T)
  BY <1>1, AddEntrySound
<1>4. QED
  BY <1>2, <1>3 DEF IsDisk, SoundDisk, T

\* write_file on a name that exists: its writes are harmless, and end in the promised tree
\* when there are blocks enough.
LEMMA OverwriteBegins ==
    ASSUME NEW pa, NEW nm, Target(pa, nm), NEW d \in Data, NEW n \in 0 .. MaxBlocks,
           Has(EntriesIn(Disk, Lookup(Disk, pa)), nm),
           Overwrite(find_in_root(EntriesIn(Disk, Lookup(Disk, pa)), nm), d, n),
           super.magic, ~dirty,
           NEW r, r.op = "file", r.path = Append(pa, nm), r.data = [i \in 1 .. n |-> d]
    PROVE  /\ plan' \in Seq(Writes) /\ plan' # <<>> /\ ending' \in {"done", "full"}
           /\ InFlight(plan', Disk, ending', r, before')
<1> DEFINE ino == find_in_root(EntriesIn(Disk, Lookup(Disk, pa)), nm)
           old == Range(inode[ino].blks)
           bs == alloc_block(bb \ old, n)
           db == Cardinality(old) - n
           T == FileDisk(ino, bs, d, db, 0)
           a == W("bb", 0, bb \ old)
           P == FilePlan(a, ino, bs, d, n, db, 0)
<1>1. ino # RootIno /\ ino \in ib /\ Concerns(Disk, pa, nm, ino, 0)
  BY TargetExists
<1>2. SoundDisk(Disk) /\ Append(pa, nm) \in Paths /\ ino \in Inodes
  BY <1>1 DEF Target, Concerns
<1>3. ib \cup {ino} = ib
  BY <1>1
<1>4. /\ plan' = P /\ before' = Tree
      /\ ending' = IF Len(bs) < n THEN "full" ELSE "done"
  BY <1>3 DEF Overwrite, Begin, FilePlan
<1>5. before' = TreeOf(Disk)
  BY <1>4, TreeNow
<1> HIDE DEF ino
<1>6. TakesBlocks(ino, bs, d, n)
  BY <1>1, <1>2, TakenBlocks
<1> HIDE DEF bs
<1>7. db \in Int /\ 0 \in Int
  BY <1>2, <1>6, OldCount, SMT DEF TakesBlocks
<1>8. a \in Writes
  <2>1. bb \ old \in SUBSET (0 .. (NBlocks - 1))
    BY <1>2 DEF SoundDisk, DiskType, Disk
  <2>2. QED
    BY <2>1, WritesAre
<1> HIDE DEF a, db
<1>9. /\ P \in Seq(Writes) /\ P # <<>> /\ Head(P) = a
      /\ Range(P) = {a} \cup Range(Tail(P))
      /\ Range(Tail(P)) \subseteq FileWrites(ino, bs, d, db, 0)
      /\ ~(Len(bs) < n) => Range(Tail(P)) = FileWrites(ino, bs, d, db, 0)
  BY <1>2, <1>6, <1>7, <1>8, FilePlanIs
<1> HIDE DEF P
<1>10. Underway(P, Disk, Disk, pa, nm, ino, 0)
  <2>1. Harmless(Disk, a, nm, ino, 0)
    BY DEF Harmless, a, W
  <2>2. \A x \in FileWrites(ino, bs, d, db, 0) : Harmless(Disk, x, nm, ino, 0)
    BY <1>2, <1>6, FileHarmless
  <2>3. QED
    BY <1>1, <1>2, <1>9, <2>1, <2>2, NearItself DEF Underway
<1>11. ASSUME ~(Len(bs) < n)
       PROVE  \E U : Reaches(P, Disk, U) /\ TreeOf(U) = Outcome("done", r, TreeOf(Disk))
  <2>1. Len(bs) = n
    BY <1>6, <1>11, SMT DEF TakesBlocks
  <2>2. SetsInode(Disk, T, ino, FileInode(bs)) /\ IsDisk(T) /\ SoundDisk(T)
    BY <1>1, <1>2, <1>6, <2>1, FileDiskSound DEF db
  <2> HIDE DEF T
  <2>3. Ends(Tail(P), {}, T, ino, bs, d, db, 0)
    BY <1>9, <1>11 DEF Ends, T
  <2>4. /\ Leads(Tail(P), Disk, T) /\ Pending(Tail(P), "bb", 0)
        /\ T.inode[ino] = FileInode(bs) /\ \A b \in Range(bs) : T.content[b] = d
    BY <1>2, <1>6, <2>3, FileLeads, SMT
  <2>5. Reaches(P, Disk, T)
    <3>1. Head(P).at = "bb"
      BY <1>9, SMT DEF a, W
    <3>2. QED
      BY <1>9, <2>2, <2>4, <3>1 DEF Reaches, Detour
  <2>6. TreeOf(T) = Effect(TreeOf(Disk), Append(pa, nm), NodeOf(T, ino))
    <3>1. FileInode(bs).mode = "file"
      BY DEF FileInode
    <3>2. QED
      BY <1>1, <1>2, <2>2, <3>1, FileTree, SMT
  <2>7. NodeOf(T, ino) = Asked(r)
    <3>1. HoldsFile(T, ino, bs, d, r)
      BY <1>6, <2>1, <2>4 DEF HoldsFile, TakesBlocks
    <3>2. QED
      BY <3>1, FileNode
  <2>8. QED
    BY <2>5, <2>6, <2>7 DEF Outcome
<1>12. QED
  BY <1>1, <1>4, <1>5, <1>9, <1>10, <1>11 DEF InFlight

\* write_file on a new name: its writes are harmless, and end in the promised tree when
\* there are blocks enough.
LEMMA CreateBegins ==
    ASSUME NEW pa, NEW nm, Target(pa, nm), NEW d \in Data, NEW n \in 0 .. MaxBlocks,
           ~Has(EntriesIn(Disk, Lookup(Disk, pa)), nm),
           Create(Lookup(Disk, pa), nm, d, n),
           super.magic, ~dirty,
           NEW r, r.op = "file", r.path = Append(pa, nm), r.data = [i \in 1 .. n |-> d]
    PROVE  /\ plan' \in Seq(Writes) /\ plan' # <<>> /\ ending' \in {"done", "full"}
           /\ InFlight(plan', Disk, ending', r, before')
<1> DEFINE dir == Lookup(Disk, pa)
           ino == alloc_inode
           blk == inode[dir].blks[1]
           bs == alloc_block(bb, n)
           M == FileDisk(ino, bs, d, -n, -1)
           T == WithEntry(M, nm, ino, dir)
           a == W("block", blk, Entered(Disk, nm, ino, dir))
           P == FilePlan(a, ino, bs, d, n, -n, -1)
<1>1. ino # 0 /\ Len(EntriesIn(Disk, dir)) < DirSlots
  BY DEF Create, Entries, EntriesIn, Disk
<1>2. FreeTarget(pa, nm, ino, dir)
  BY <1>1, AllocInode DEF FreeTarget
<1>3. /\ ino \in Inodes /\ ino # RootIno /\ ino \notin ib /\ inode[ino].blks = <<>>
      /\ dir \in Inodes /\ dir # ino /\ dir # 0
      /\ blk \in DataBlocks /\ blk \in OwnedIn(Disk, dir)
      /\ Concerns(Disk, pa, nm, ino, dir)
  BY <1>2, FreeTargetIs
<1>4. SoundDisk(Disk) /\ Append(pa, nm) \in Paths /\ a \in Writes
  BY <1>2, EnteredType DEF Target
<1>5. /\ Range(inode[ino].blks) = {} /\ Cardinality(Range(inode[ino].blks)) = 0
      /\ bb \ Range(inode[ino].blks) = bb
  <2>1. Range(inode[ino].blks) = {}
    BY <1>3, SMT DEF Range
  <2>2. QED
    BY <2>1, FS_EmptySet
<1>6. /\ plan' = P /\ before' = Tree
      /\ ending' = IF Len(bs) < n THEN "full" ELSE "done"
  BY <1>5 DEF Create, Begin, Entered, FilePlan, Entries, EntriesIn, Disk
<1>7. before' = TreeOf(Disk)
  BY <1>6, TreeNow
<1>8. TakesBlocks(ino, bs, d, n)
  BY <1>3, <1>5, TakenBlocks
<1> HIDE DEF ino, dir, bs, a
<1>9. -n \in Int /\ -1 \in Int /\ 0 - n = -n
  BY <1>8, SMT DEF TakesBlocks
<1>10. /\ P \in Seq(Writes) /\ P # <<>>
       /\ Range(P) = {a} \cup Range(Tail(P))
       /\ Range(Tail(P)) \subseteq FileWrites(ino, bs, d, -n, -1)
       /\ ~(Len(bs) < n) => Range(Tail(P)) = FileWrites(ino, bs, d, -n, -1)
  BY <1>4, <1>8, <1>9, FilePlanIs, SMT
<1> HIDE DEF P
<1>11. Underway(P, Disk, Disk, pa, nm, ino, dir)
  <2>1. Harmless(Disk, a, nm, ino, dir)
    BY <1>3 DEF Harmless, a, W, Disk
  <2>2. \A x \in FileWrites(ino, bs, d, -n, -1) : Harmless(Disk, x, nm, ino, dir)
    BY <1>3, <1>4, <1>8, FileHarmless
  <2>3. QED
    BY <1>3, <1>4, <1>10, <2>1, <2>2, NearItself DEF Underway
<1>12. ASSUME ~(Len(bs) < n)
       PROVE  \E U : Reaches(P, Disk, U) /\ TreeOf(U) = Outcome("done", r, TreeOf(Disk))
  <2>1. Len(bs) = n
    BY <1>8, <1>12, SMT DEF TakesBlocks
  <2>2. SetsInode(Disk, M, ino, FileInode(bs)) /\ SoundDisk(M)
    <3>1. n \in Nat
      BY SMT
    <3> HIDE DEF ino, bs
    <3>2. QED
      BY <1>3, <1>4, <1>5, <1>8, <2>1, <3>1, FreshFileSound
  <2> HIDE DEF M
  <2>3. Enters(pa, nm, ino, dir, M, FileInode(bs))
    BY <1>1, <1>2, <2>2 DEF Enters, dir
  <2>4. SoundDisk(T) /\ IsDisk(T)
    BY <2>3, NewDisk
  <2>5. /\ TreeOf(T) = Effect(TreeOf(Disk), Append(pa, nm), NodeOf(T, ino))
        /\ blk \notin Range(FileInode(bs).blks)
        /\ T.content[blk] = Entered(Disk, nm, ino, dir)
        /\ \A b \in DataBlocks : b # blk => T.content[b] = M.content[b]
    <3> HIDE DEF dir, ino, bs
    <3>1. EntryShows(T, M, pa, nm, ino, dir, FileInode(bs))
      BY <2>3, NewEntry
    <3>2. QED
      BY <3>1 DEF EntryShows
  <2>6. T.super = M.super /\ T.group = M.group /\ T.bb = M.bb /\ T.ib = M.ib /\ T.inode = M.inode
    BY DEF WithEntry
  <2> HIDE DEF T
  <2>7. Ends(P, {a}, T, ino, bs, d, -n, -1)
    <3>1. FileInode(bs).blks = bs
      BY DEF FileInode
    <3>2. a.at = "block" /\ a.k = blk /\ a.v = Entered(Disk, nm, ino, dir)
      BY DEF a, W
    <3> HIDE DEF blk
    <3>3. QED
      BY <1>10, <1>12, <2>5, <2>6, <3>1, <3>2 DEF Ends, M
  <2>8. Leads(P, Disk, T) /\ T.inode[ino] = FileInode(bs) /\ \A b \in Range(bs) : T.content[b] = d
    BY <1>4, <1>8, <2>7, FileLeads, SMT
  <2>9. NodeOf(T, ino) = Asked(r)
    <3>1. HoldsFile(T, ino, bs, d, r)
      BY <1>8, <2>1, <2>8 DEF HoldsFile, TakesBlocks
    <3>2. QED
      BY <3>1, FileNode
  <2>10. QED
    BY <2>4, <2>5, <2>8, <2>9 DEF Outcome, Reaches
<1>13. QED
  BY <1>6, <1>7, <1>10, <1>11, <1>12 DEF InFlight

(***************************************************************************)
(* mkdir                                                                   *)
(***************************************************************************)
\* The writes of ext2_mkdir for inode ino in block u.
MkdirWrites(dir, name, ino, u) ==
    <<W("block", u, <<>>)>>
      \o (IF ~(Len(Entries(dir)) < DirSlots) THEN <<>>
          ELSE <<W("block", inode[dir].blks[1],
                   Append(Entries(dir), [name |-> name, ino |-> ino]))>>
                 \o Counts(Plus(super, -1, -1),
                           [Plus(group, -1, -1) EXCEPT !.dirs = @ + 1])
                 \o << W("bb", 0, bb \cup {u}), W("ib", 0, ib \cup {ino}),
                       W("inode", dir, inode[dir]),
                       W("inode", ino, DirInode(u)) >>)

\* What ext2_mkdir has found.
MkdirFinds(pa, nm, dir, ino, u, r) ==
    /\ FreeTarget(pa, nm, ino, dir) /\ u \in DataBlocks /\ u \notin bb
    /\ r.op = "dir" /\ r.path = Append(pa, nm) /\ r.data = <<>>

\* Then its first write, to a free block, is harmless.
LEMMA MkdirFound ==
    ASSUME NEW pa, NEW nm, NEW dir, NEW ino, NEW u, NEW r, MkdirFinds(pa, nm, dir, ino, u, r)
    PROVE  /\ FreeTarget(pa, nm, ino, dir) /\ u \in DataBlocks /\ u \notin bb
           /\ SoundDisk(Disk) /\ Append(pa, nm) \in Paths
           /\ ino \in Inodes /\ ino # RootIno /\ ino \notin ib /\ OwnedIn(Disk, ino) = {}
           /\ dir \in Inodes /\ dir # ino /\ dir # 0
           /\ inode[dir].blks[1] \in DataBlocks /\ inode[dir].blks[1] # u
           /\ Concerns(Disk, pa, nm, ino, dir)
           /\ \A i \in Inodes : u \notin OwnedIn(Disk, i)
           /\ Entries(dir) = EntriesIn(Disk, dir)
           /\ Harmless(Disk, W("block", u, <<>>), nm, ino, dir)
           /\ W("block", u, <<>>) \in Writes
<1>1. FreeTarget(pa, nm, ino, dir) /\ u \in DataBlocks /\ u \notin bb
  BY DEF MkdirFinds
<1>2. SoundDisk(Disk) /\ Append(pa, nm) \in Paths
  BY <1>1 DEF FreeTarget, Target
<1>3. /\ ino \in Inodes /\ ino # RootIno /\ ino \notin ib /\ OwnedIn(Disk, ino) = {}
      /\ dir \in Inodes /\ dir # ino /\ dir # 0
      /\ inode[dir].blks[1] \in DataBlocks /\ inode[dir].blks[1] \in OwnedIn(Disk, dir)
      /\ Concerns(Disk, pa, nm, ino, dir)
  BY <1>1, FreeTargetIs
<1>4. Disk.bb = bb /\ Disk.inode = inode
  BY DEF Disk
<1>5. \A i \in Inodes : u \notin OwnedIn(Disk, i)
  BY <1>1, <1>2, <1>4 DEF SoundDisk, BlocksSound
<1>6. Entries(dir) = EntriesIn(Disk, dir)
  BY DEF Entries, EntriesIn, Disk
<1>7. inode[dir].blks[1] # u
  BY <1>3, <1>5
<1>8. Harmless(Disk, W("block", u, <<>>), nm, ino, dir)
  BY <1>4, <1>5, <1>7 DEF Harmless, W
<1>9. W("block", u, <<>>) \in Writes
  <2>1. <<>> \in BlockValues
    BY SMT DEF BlockValues
  <2>2. QED
    BY <1>1, <2>1, WritesAre
<1>10. QED
  BY <1>1, <1>2, <1>3, <1>5, <1>6, <1>7, <1>8, <1>9

\* A full directory: only the block for the new one has been written.
LEMMA MkdirRefused ==
    ASSUME NEW pa, NEW nm, NEW dir, NEW ino, NEW u, NEW r, MkdirFinds(pa, nm, dir, ino, u, r),
           ~(Len(Entries(dir)) < DirSlots)
    PROVE  LET P == MkdirWrites(dir, nm, ino, u)
           IN  P \in Seq(Writes) /\ P # <<>> /\ InFlight(P, Disk, "refused", r, TreeOf(Disk))
<1> DEFINE P == MkdirWrites(dir, nm, ino, u)
           a == W("block", u, <<>>)
           T == [super |-> super, group |-> group, bb |-> bb, ib |-> ib, inode |-> inode,
                 content |-> [content EXCEPT ![u] = <<>>]]
<1>1. /\ u \in DataBlocks /\ u \notin bb /\ SoundDisk(Disk) /\ Append(pa, nm) \in Paths
      /\ Concerns(Disk, pa, nm, ino, dir) /\ Harmless(Disk, a, nm, ino, dir) /\ a \in Writes
  BY MkdirFound
<1>2. P = <<a>> \o <<>>
  BY DEF MkdirWrites
<1>3. P \in Seq(Writes) /\ P # <<>> /\ Range(P) = {a}
  BY <1>1, <1>2, Led, Lists
<1> HIDE DEF P
<1>4. Underway(P, Disk, Disk, pa, nm, ino, dir)
  <2> HIDE DEF a
  <2>1. QED
    BY <1>1, <1>3, NearItself DEF Underway
<1>5. /\ Disk.super = super /\ Disk.group = group /\ Disk.bb = bb /\ Disk.ib = ib
      /\ Disk.inode = inode /\ Disk.content = content
  BY DEF Disk
<1>6. content \in [DataBlocks -> BlockValues]
  BY <1>1, <1>5 DEF SoundDisk, DiskType
<1>7. /\ T.super = super /\ T.group = group /\ T.bb = bb /\ T.ib = ib /\ T.inode = inode
      /\ T.content \in [DataBlocks -> BlockValues] /\ T.content[u] = <<>>
      /\ \A b \in DataBlocks : b # u => T.content[b] = content[b]
      /\ T = [super |-> T.super, group |-> T.group, bb |-> T.bb, ib |-> T.ib,
              inode |-> T.inode, content |-> T.content]
  BY <1>1, <1>6, SMT DEF BlockValues
<1> HIDE DEF T
<1>8. WritesUnowned(Disk, T, u)
  BY <1>1, <1>5, <1>7 DEF WritesUnowned
<1>9. SoundDisk(T) /\ TreeOf(T) = TreeOf(Disk)
  BY <1>1, <1>8, UnownedBlock
<1>10. Leads(P, Disk, T)
  <2>1. WritesTo(P, T)
    BY <1>3, <1>7, SMT DEF WritesTo, W
  <2>2. Pending(P, "block", u)
    BY <1>3, PendingIn
  <2>3. QED
    BY <1>5, <1>7, <2>1, <2>2 DEF Leads
<1>11. Reaches(P, Disk, T)
  BY <1>7, <1>9, <1>10 DEF Reaches, IsDisk, SoundDisk
<1>12. r.path = Append(pa, nm)
  BY DEF MkdirFinds
<1>13. InFlight(P, Disk, "refused", r, TreeOf(Disk))
  BY <1>4, <1>9, <1>11, <1>12 DEF InFlight, Outcome
<1>14. QED
  BY <1>3, <1>13 DEF P

\* Room for the name: the tree gets the empty directory.
LEMMA MkdirDone ==
    ASSUME NEW pa, NEW nm, NEW dir, NEW ino, NEW u, NEW r, MkdirFinds(pa, nm, dir, ino, u, r),
           Len(Entries(dir)) < DirSlots
    PROVE  LET P == MkdirWrites(dir, nm, ino, u)
           IN  P \in Seq(Writes) /\ P # <<>> /\ InFlight(P, Disk, "done", r, TreeOf(Disk))
<1> DEFINE P == MkdirWrites(dir, nm, ino, u)
           blk == inode[dir].blks[1]
           M == DirDisk(ino, u)
           T == WithEntry(M, nm, ino, dir)
           a == W("block", u, <<>>)
           e == W("block", blk, Entered(Disk, nm, ino, dir))
           ws == W("super", 0, M.super)
           wg == W("group", 0, M.group)
           wb == W("bb", 0, M.bb)
           wi == W("ib", 0, M.ib)
           wd == W("inode", dir, inode[dir])
           wn == W("inode", ino, DirInode(u))
<1>1. /\ FreeTarget(pa, nm, ino, dir) /\ u \in DataBlocks /\ u \notin bb
      /\ SoundDisk(Disk) /\ Append(pa, nm) \in Paths
      /\ ino \in Inodes /\ ino # RootIno /\ ino \notin ib /\ OwnedIn(Disk, ino) = {}
      /\ dir \in Inodes /\ dir # ino /\ dir # 0
      /\ blk \in DataBlocks /\ blk # u
      /\ Concerns(Disk, pa, nm, ino, dir)
      /\ Entries(dir) = EntriesIn(Disk, dir)
      /\ Harmless(Disk, a, nm, ino, dir) /\ a \in Writes
  BY MkdirFound
<1>2. /\ SetsInode(Disk, M, ino, DirInode(u)) /\ SoundDisk(M)
      /\ M.super \in SuperRecs /\ M.group \in GroupRecs /\ DirInode(u) \in InodeRecs
  BY <1>1, DirDiskSound
<1>3. /\ M.super = Plus(super, -1, -1) /\ M.group = [Plus(group, -1, -1) EXCEPT !.dirs = @ + 1]
      /\ M.bb = bb \cup {u} /\ M.ib = ib \cup {ino}
      /\ M.inode = [inode EXCEPT ![ino] = DirInode(u)]
      /\ M.content = [content EXCEPT ![u] = <<>>]
  BY DEF DirDisk
<1> HIDE DEF M
<1>4. P = <<a>> \o (<<e>> \o <<ws, wg>> \o <<wb, wi, wd, wn>>)
  <2>1. Append(Entries(dir), [name |-> nm, ino |-> ino]) = Entered(Disk, nm, ino, dir)
    BY <1>1 DEF Entered
  <2>2. QED
    BY <1>3, <2>1 DEF MkdirWrites, Counts
<1>5. /\ Disk.super = super /\ Disk.group = group /\ Disk.bb = bb /\ Disk.ib = ib
      /\ Disk.inode = inode /\ Disk.content = content
  BY DEF Disk
<1>6. inode \in [Inodes -> InodeRecs] /\ content \in [DataBlocks -> BlockValues]
  BY <1>1, <1>5 DEF SoundDisk, DiskType
<1>7. M.bb \in SUBSET (0 .. (NBlocks - 1)) /\ M.ib \in SUBSET Inodes
  BY <1>2 DEF SoundDisk, DiskType
<1>8. e \in Writes
  BY <1>1, EnteredType
<1>9. ws \in Writes /\ wg \in Writes /\ wb \in Writes /\ wi \in Writes
  BY <1>2, <1>7, WritesAre
<1>10. wd \in Writes /\ wn \in Writes
  BY <1>1, <1>2, <1>6, WritesAre
<1>11. /\ Harmless(Disk, e, nm, ino, dir) /\ Harmless(Disk, ws, nm, ino, dir)
       /\ Harmless(Disk, wg, nm, ino, dir) /\ Harmless(Disk, wb, nm, ino, dir)
       /\ Harmless(Disk, wi, nm, ino, dir) /\ Harmless(Disk, wd, nm, ino, dir)
       /\ Harmless(Disk, wn, nm, ino, dir)
  BY <1>1, <1>5 DEF Harmless, W
<1> HIDE DEF P, a, e, ws, wg, wb, wi, wd, wn
<1>12. P \in Seq(Writes) /\ P # <<>> /\ Range(P) = {a, e, ws, wg, wb, wi, wd, wn}
  <2> DEFINE s == <<ws, wg>>
             t == <<wb, wi, wd, wn>>
             q == <<e>> \o s \o t
  <2>1. /\ s \in Seq(Writes) /\ Range(s) = {ws, wg}
        /\ t \in Seq(Writes) /\ Range(t) = {wb, wi, wd, wn}
    BY <1>9, <1>10, Lists, SMT
  <2> HIDE DEF s, t
  <2> DEFINE g == s \o t
  <2>2. q = <<e>> \o g /\ g \in Seq(Writes) /\ Range(g) = Range(s) \cup Range(t)
    BY <1>8, <2>1, Leading
  <2> HIDE DEF g
  <2>3. q \in Seq(Writes) /\ Range(q) = {e} \cup Range(g)
    BY <1>8, <2>2, Led
  <2>4. P = <<a>> \o q
    BY <1>4 DEF s, t
  <2> HIDE DEF q
  <2>5. P \in Seq(Writes) /\ P # <<>> /\ Range(P) = {a} \cup Range(q)
    BY <1>1, <2>3, <2>4, Led
  <2>6. QED
    BY <2>1, <2>2, <2>3, <2>5
<1>13. Underway(P, Disk, Disk, pa, nm, ino, dir)
  BY <1>1, <1>11, <1>12, NearItself DEF Underway
<1>14. T.super = M.super /\ T.group = M.group /\ T.bb = M.bb /\ T.ib = M.ib /\ T.inode = M.inode
  BY DEF WithEntry
<1>15. Len(EntriesIn(Disk, dir)) < DirSlots
  BY <1>1
<1>e. Enters(pa, nm, ino, dir, M, DirInode(u))
  BY <1>1, <1>2, <1>15 DEF Enters
<1>16. SoundDisk(T) /\ IsDisk(T)
  BY <1>e, NewDisk
<1>17. /\ TreeOf(T) = Effect(TreeOf(Disk), Append(pa, nm), NodeOf(T, ino))
       /\ T.content[blk] = Entered(Disk, nm, ino, dir)
       /\ \A b \in DataBlocks : b # blk => T.content[b] = M.content[b]
  <2> HIDE DEF M
  <2>1. EntryShows(T, M, pa, nm, ino, dir, DirInode(u))
    BY <1>e, NewEntry
  <2>2. QED
    BY <2>1 DEF EntryShows
<1> HIDE DEF T
<1>20. /\ T.inode[ino] = DirInode(u) /\ \A i \in Inodes : i # ino => T.inode[i] = inode[i]
       /\ T.content[u] = <<>>
       /\ \A b \in DataBlocks : b # blk /\ b # u => T.content[b] = content[b]
  BY <1>1, <1>3, <1>6, <1>14, <1>17, SMT
<1>21. WritesTo(P, T)
  <2> DEFINE Agrees(w) == /\ w.at \notin {"wipe", "table"}
                          /\ w.at = "super" => w.v = T.super
                          /\ w.at = "group" => w.v = T.group
                          /\ w.at = "bb" => w.v = T.bb
                          /\ w.at = "ib" => w.v = T.ib
                          /\ w.at = "inode" => w.v = T.inode[w.k]
                          /\ w.at = "block" => w.v = T.content[w.k]
  <2> HIDE DEF blk, M
  <2>1. Agrees(a) /\ Agrees(e)
    BY <1>17, <1>20 DEF W, a, e
  <2>2. Agrees(ws) /\ Agrees(wg) /\ Agrees(wb) /\ Agrees(wi)
    BY <1>14 DEF W, ws, wg, wb, wi
  <2>3. Agrees(wd) /\ Agrees(wn)
    BY <1>1, <1>20 DEF W, wd, wn
  <2>4. QED
    <3> HIDE DEF Agrees
    <3>1. \A w \in Range(P) : Agrees(w)
      BY <1>12, <2>1, <2>2, <2>3
    <3>2. QED
      BY <3>1 DEF WritesTo, Agrees
<1>22. /\ Pending(P, "super", 0) /\ Pending(P, "group", 0) /\ Pending(P, "bb", 0)
       /\ Pending(P, "ib", 0) /\ Pending(P, "inode", ino) /\ Pending(P, "block", blk)
       /\ Pending(P, "block", u)
  BY <1>12, PendingIn DEF a, e, ws, wg, wb, wi, wn
<1>23. Leads(P, Disk, T)
  BY <1>5, <1>20, <1>21, <1>22 DEF Leads
<1>24. Reaches(P, Disk, T)
  BY <1>16, <1>23 DEF Reaches
<1>25. NodeOf(T, ino) = Asked(r)
  <2>1. r.op = "dir" /\ r.data = <<>>
    BY DEF MkdirFinds
  <2>2. T.inode[ino].mode = "dir"
    BY <1>20, SMT DEF DirInode
  <2>3. QED
    BY <2>1, <2>2 DEF NodeOf, Asked
<1>26. r.path = Append(pa, nm)
  BY DEF MkdirFinds
<1>27. TreeOf(T) = Outcome("done", r, TreeOf(Disk))
  BY <1>17, <1>25, <1>26 DEF Outcome
<1>28. InFlight(P, Disk, "done", r, TreeOf(Disk))
  BY <1>13, <1>24, <1>26, <1>27 DEF InFlight
<1>29. QED
  BY <1>12, <1>28 DEF P

(***************************************************************************)
(* The invariant                                                           *)
(***************************************************************************)
\* What Writable says of the disk.
LEMMA WritableTarget ==
    ASSUME Ext2Inv, NEW path \in Paths, Writable(path)
    PROVE  LET pa == path_split_parent(path)[1]
               nm == path_split_parent(path)[2]
           IN  /\ Target(pa, nm) /\ Append(pa, nm) = path
               /\ lookup_final(pa) = Lookup(Disk, pa)
               /\ Entries(Lookup(Disk, pa)) = EntriesIn(Disk, Lookup(Disk, pa))
               /\ plan = <<>> /\ super.magic /\ ~dirty /\ path # <<>> /\ AtRest
               /\ pa = SubSeq(path, 1, Len(path) - 1) /\ pa \in Paths
<1> DEFINE pa == path_split_parent(path)[1]
           nm == path_split_parent(path)[2]
<1>1. /\ plan = <<>> /\ super.magic /\ ~dirty /\ path # <<>>
      /\ lookup_final(pa) # 0 /\ inode[lookup_final(pa)].mode = "dir"
  BY DEF Writable
<1>2. /\ pa \in Seq(Names) /\ nm \in Names /\ Append(pa, nm) = path /\ pa \in Paths
      /\ pa = SubSeq(path, 1, Len(path) - 1)
  BY <1>1, SplitPath
<1>3. AtRest
  BY <1>1 DEF Ext2Inv
<1>4. SoundDisk(Disk)
  BY <1>1, <1>3 DEF AtRest
<1> HIDE DEF pa, nm
<1>5. lookup_final(pa) = Lookup(Disk, pa)
  BY <1>2, LookupNow
<1>6. Disk.inode = inode
  BY DEF Disk
<1>7. IsDirIn(Disk, Lookup(Disk, pa))
  BY <1>1, <1>2, <1>4, <1>5, <1>6, LookupInUse DEF IsDirIn
<1>8. Target(pa, nm)
  BY <1>2, <1>4, <1>7 DEF Target
<1>9. Entries(Lookup(Disk, pa)) = EntriesIn(Disk, Lookup(Disk, pa))
  BY DEF Entries, EntriesIn, Disk
<1>10. QED
  BY <1>1, <1>2, <1>3, <1>5, <1>8, <1>9 DEF pa, nm

\* The first step of an operation writes nothing.
LEMMA BeginKeeps ==
    ASSUME NEW P, NEW e, Begin(P, e)
    PROVE  /\ Disk' = Disk /\ is_ram' = is_ram /\ dirty' = dirty /\ plan' = P /\ ending' = e
           /\ super' = super
  BY DEF Begin, disk, Disk

\* ext2_write_file is in flight once it has begun.
LEMMA WriteFileStep ==
    ASSUME Ext2Inv, NEW path \in Paths, NEW d \in Data, NEW n \in 0 .. MaxBlocks,
           ext2_write_file(path, d, n)
    PROVE  /\ plan' \in Seq(Writes) /\ plan' # <<>> /\ ending' \in {"done", "full"}
           /\ InFlight(plan', Disk, ending', req', before')
           /\ Disk' = Disk /\ is_ram' = is_ram /\ dirty' = dirty
<1> DEFINE pa == path_split_parent(path)[1]
           nm == path_split_parent(path)[2]
           dir == Lookup(Disk, pa)
<1>1. Writable(path) /\ req' = Req("file", path, [i \in 1 .. n |-> d])
  BY DEF ext2_write_file
<1>2. /\ Target(pa, nm) /\ Append(pa, nm) = path /\ lookup_final(pa) = dir
      /\ Entries(dir) = EntriesIn(Disk, dir) /\ super.magic /\ ~dirty
  BY <1>1, WritableTarget
<1>3. req'.op = "file" /\ req'.path = Append(pa, nm) /\ req'.data = [i \in 1 .. n |-> d]
  BY <1>1, <1>2 DEF Req
<1>4. IF Has(EntriesIn(Disk, dir), nm) THEN Overwrite(find_in_root(EntriesIn(Disk, dir), nm), d, n)
      ELSE Create(dir, nm, d, n)
  BY <1>2 DEF ext2_write_file
<1> HIDE DEF pa, nm
<1>5. CASE Has(EntriesIn(Disk, dir), nm)
  <2>1. /\ plan' \in Seq(Writes) /\ plan' # <<>> /\ ending' \in {"done", "full"}
        /\ InFlight(plan', Disk, ending', req', before')
    BY <1>2, <1>3, <1>4, <1>5, OverwriteBegins
  <2>2. Disk' = Disk /\ is_ram' = is_ram /\ dirty' = dirty
    BY <1>4, <1>5 DEF Overwrite, Begin, disk, Disk
  <2>3. QED
    BY <2>1, <2>2
<1>6. CASE ~Has(EntriesIn(Disk, dir), nm)
  <2>1. /\ plan' \in Seq(Writes) /\ plan' # <<>> /\ ending' \in {"done", "full"}
        /\ InFlight(plan', Disk, ending', req', before')
    BY <1>2, <1>3, <1>4, <1>6, CreateBegins
  <2>2. Disk' = Disk /\ is_ram' = is_ram /\ dirty' = dirty
    BY <1>4, <1>6 DEF Create, Begin, disk, Disk
  <2>3. QED
    BY <2>1, <2>2
<1>7. QED
  BY <1>5, <1>6

\* ext2_mkdir is in flight once it has begun.
LEMMA MkDirStep ==
    ASSUME Ext2Inv, NEW path \in Paths, ext2_mkdir(path)
    PROVE  /\ plan' \in Seq(Writes) /\ plan' # <<>> /\ ending' \in {"done", "refused"}
           /\ InFlight(plan', Disk, ending', req', before')
           /\ Disk' = Disk /\ is_ram' = is_ram /\ dirty' = dirty
<1> DEFINE pa == path_split_parent(path)[1]
           nm == path_split_parent(path)[2]
           dir == Lookup(Disk, pa)
           ino == alloc_inode
           bs == alloc_block(bb, 1)
           u == bs[1]
           P == MkdirWrites(dir, nm, ino, u)
<1>1. Writable(path) /\ req' = Req("dir", path, <<>>)
  BY DEF ext2_mkdir
<1>2. /\ Target(pa, nm) /\ Append(pa, nm) = path /\ lookup_final(pa) = dir
      /\ Entries(dir) = EntriesIn(Disk, dir) /\ super.magic /\ ~dirty
  BY <1>1, WritableTarget
<1>3. /\ ~Has(Entries(dir), nm) /\ ino # 0 /\ bs # <<>>
      /\ Begin(P, IF Len(Entries(dir)) < DirSlots THEN "done" ELSE "refused")
  BY <1>2 DEF ext2_mkdir, MkdirWrites
<1> HIDE DEF pa, nm
<1>4. /\ plan' = P /\ ending' = (IF Len(Entries(dir)) < DirSlots THEN "done" ELSE "refused")
      /\ before' = TreeOf(Disk) /\ Disk' = Disk /\ is_ram' = is_ram /\ dirty' = dirty
  BY <1>2, <1>3, TreeNow DEF Begin, disk, Disk
<1>5. FreeTarget(pa, nm, ino, dir)
  BY <1>2, <1>3, AllocInode DEF FreeTarget
<1>6. u \in DataBlocks /\ u \notin bb
  <2>1. Len(bs) \in 0 .. 1 /\ bs \in [1 .. Len(bs) -> FreeBlocks(bb)]
    BY AllocBlocks
  <2> HIDE DEF bs
  <2>2. Len(bs) # 0
    <3>1. bs \in Seq(FreeBlocks(bb))
      BY <2>1, SMT
    <3>2. QED
      BY <1>3, <3>1, SMT
  <2>3. u \in FreeBlocks(bb)
    BY <2>1, <2>2, SMT
  <2>4. QED
    BY <2>3 DEF FreeBlocks
<1>7. MkdirFinds(pa, nm, dir, ino, u, req')
  BY <1>1, <1>2, <1>5, <1>6 DEF MkdirFinds, Req
<1> HIDE DEF dir, ino, u
<1>8. CASE Len(Entries(dir)) < DirSlots
  BY <1>4, <1>7, <1>8, MkdirDone
<1>9. CASE ~(Len(Entries(dir)) < DirSlots)
  BY <1>4, <1>7, <1>9, MkdirRefused
<1>10. QED
  BY <1>8, <1>9
=============================================================================
