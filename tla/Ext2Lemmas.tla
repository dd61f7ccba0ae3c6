---------------------------- MODULE Ext2Lemmas ------------------------------
(***************************************************************************)
(* What the proofs about Ext2 rest on.                                     *)
(*                                                                         *)
(* Writes and plans: the disks that the operations set out for are sound,  *)
(* and each write of a plan brings the disk nearer to the one it is for.   *)
(* A plan leads to a disk T if each of its writes is what T has there, and *)
(* every structure on which the disk and T differ has a write to come.     *)
(*                                                                         *)
(* Paths, lookups and trees: a path on a sound disk leads to at most one   *)
(* inode and an inode is found under at most one path, so a disk that      *)
(* differs from another only in one inode, in blocks that no other inode   *)
(* owns and by at most one entry holds the same tree elsewhere; and what   *)
(* the allocators find on a sound disk.                                    *)
(***************************************************************************)
EXTENDS Ext2Disks, WellFoundedInduction, NaturalsInduction, FiniteSetTheorems, TLAPS

\* A leaf that does not name the SMT solver is left to Zenon.
USE ZenonT(20)

(***************************************************************************)
(* Sound disks                                                             *)
(***************************************************************************)
\* A sequence without repetition has as many elements as it is long.
LEMMA InjectiveCount ==
    ASSUME NEW n \in Nat, NEW S, NEW s \in [1 .. n -> S], IsInjective(s)
    PROVE  /\ IsFiniteSet(Range(s)) /\ Cardinality(Range(s)) = n
           /\ Len(s) = n /\ Range(s) \subseteq S
<1>1. s \in Bijection(1 .. n, Range(s))
  BY DEF Bijection, Injection, Surjection, Range
<1>2. ExistsBijection(1 .. n, Range(s))
  BY <1>1 DEF ExistsBijection
<1>3. IsFiniteSet(Range(s)) /\ Cardinality(Range(s)) = n
  BY <1>2, FS_NatBijection, FS_CountingElements
<1>4. Len(s) = n /\ Range(s) \subseteq S
  BY SMT DEF Range
<1>5. QED
  BY <1>3, <1>4

\* Putting some elements in the place of others.
Replaceable(B, old, new) ==
    /\ IsFiniteSet(B) /\ IsFiniteSet(new)
    /\ old \subseteq B /\ new \cap (B \ old) = {}

\* Then the size changes by the difference.
LEMMA ReplaceCount ==
    ASSUME NEW B, NEW old, NEW new, Replaceable(B, old, new)
    PROVE  /\ Cardinality((B \ old) \cup new) = Cardinality(B) - Cardinality(old) + Cardinality(new)
           /\ Cardinality(B) \in Nat /\ Cardinality(old) \in Nat /\ Cardinality(new) \in Nat
<1>1. B \cap old = old /\ (B \ old) \cap new = {} /\ old \subseteq B
  BY DEF Replaceable
<1>f. IsFiniteSet(B) /\ IsFiniteSet(new)
  BY DEF Replaceable
<1>2. /\ IsFiniteSet(B \ old)
      /\ Cardinality(B \ old) = Cardinality(B) - Cardinality(old)
  <2>1. /\ IsFiniteSet(B \ old)
        /\ Cardinality(B \ old) = Cardinality(B) - Cardinality(B \cap old)
    BY <1>f, FS_Difference
  <2>2. QED
    BY <2>1, <1>1
<1>3. IsFiniteSet(old)
  BY <1>1, <1>f, FS_Subset
<1>4. /\ Cardinality(B) \in Nat /\ Cardinality(old) \in Nat /\ Cardinality(new) \in Nat
      /\ Cardinality(B \ old) \in Nat
  BY <1>2, <1>3, <1>f, FS_CardinalityType
<1>5. Cardinality((B \ old) \cup new)
        = Cardinality(B \ old) + Cardinality(new) - Cardinality({})
  BY <1>1, <1>2, <1>f, FS_Union, SMT
<1>6. Cardinality({}) = 0
  BY FS_EmptySet
<1>7. QED
  BY <1>2, <1>4, <1>5, <1>6, SMT

\* What an inode owns are data blocks.
LEMMA OwnBlocks ==
    ASSUME NEW T, DiskType(T), NEW i \in Inodes
    PROVE  /\ T.inode[i].blks \in Seq(DataBlocks) /\ OwnedIn(T, i) \subseteq DataBlocks
           /\ Len(T.inode[i].blks) = 1 => T.inode[i].blks[1] \in OwnedIn(T, i)
<1> DEFINE s == T.inode[i].blks
<1>1. s \in Seq(DataBlocks)
  BY DEF DiskType, InodeRecs, BlockLists
<1>2. Range(s) \subseteq DataBlocks /\ (Len(s) = 1 => s[1] \in Range(s))
  BY <1>1, SMT DEF Range
<1>3. QED
  BY <1>1, <1>2 DEF OwnedIn

\* It is sound if T is.
LEMMA SetInodeSound ==
    ASSUME NEW T, NEW U, NEW ino, NEW rec, SoundDisk(T), SetsInode(T, U, ino, rec)
    PROVE  SoundDisk(U)
<1> DEFINE old == OwnedIn(T, ino)
           new == Range(rec.blks)
<1>0. /\ ino \in Inodes /\ ino # RootIno
      /\ rec \in InodeRecs /\ rec.mode # "none" /\ IsInjective(rec.blks)
      /\ new \cap (T.bb \ old) = {}
  BY DEF SetsInode
<1>u. /\ U.bb = (T.bb \ old) \cup new /\ U.ib = T.ib \cup {ino}
      /\ U.inode = [T.inode EXCEPT ![ino] = rec]
  BY DEF SetsInode
<1>c. /\ U.content \in [DataBlocks -> BlockValues]
      /\ \A b \in DataBlocks \ new : U.content[b] = T.content[b]
      /\ rec.mode = "dir" => Len(rec.blks) = 1 /\ U.content[rec.blks[1]] = <<>>
  BY DEF SetsInode
<1>1. DiskType(T) /\ BlocksSound(T) /\ CountsSound(T) /\ DirsSound(T) /\ NamesSound(T)
  BY DEF SoundDisk
<1>2. /\ rec.blks \in BlockLists /\ new \subseteq DataBlocks
      /\ Len(rec.blks) \in Nat /\ rec.blks \in [1 .. Len(rec.blks) -> DataBlocks]
      /\ DOMAIN rec.blks = 1 .. Len(rec.blks)
  <2>1. rec.blks \in BlockLists
    BY <1>0 DEF InodeRecs
  <2>2. QED
    BY <2>1, SMT DEF BlockLists, Range
<1>3. DataBlocks \subseteq 0 .. (NBlocks - 1) /\ (0 .. (FIRST_DATA_BLOCK - 1)) \cap DataBlocks = {}
  BY Ext2Assumption, SMT DEF DataBlocks, FIRST_DATA_BLOCK
<1>4. /\ T.inode \in [Inodes -> InodeRecs]
      /\ \A i \in Inodes : T.inode[i].blks \in BlockLists /\ OwnedIn(T, i) \subseteq DataBlocks
  <2>1. T.inode \in [Inodes -> InodeRecs]
    BY <1>1 DEF DiskType
  <2>2. \A i \in Inodes : T.inode[i].blks \in BlockLists
    BY <2>1 DEF InodeRecs
  <2>3. QED
    BY <1>1, <2>1, <2>2, OwnBlocks
<1>5. /\ U.inode[ino] = rec /\ U.inode \in [Inodes -> InodeRecs]
      /\ \A i \in Inodes : i # ino => U.inode[i] = T.inode[i]
  BY <1>0, <1>4, <1>u
<1>6. OwnedIn(U, ino) = new /\ \A i \in Inodes : i # ino => OwnedIn(U, i) = OwnedIn(T, i)
  BY <1>5 DEF OwnedIn
<1>7. DiskType(U)
  <2>1. U.super \in SuperRecs /\ U.group \in GroupRecs
    BY DEF SetsInode
  <2>2. U.bb \subseteq 0 .. (NBlocks - 1) /\ U.ib \subseteq Inodes
    BY <1>0, <1>1, <1>2, <1>3, <1>u DEF DiskType
  <2>3. QED
    BY <2>1, <2>2, <1>5, <1>c DEF DiskType
<1>8. \A i \in Inodes : OwnedIn(T, i) \subseteq T.bb
  BY <1>1 DEF BlocksSound
<1>9. \A i \in Inodes : i # ino => OwnedIn(T, i) \cap new = {} /\ OwnedIn(T, i) \cap old = {}
  BY <1>0, <1>1, <1>8 DEF BlocksSound
<1>10. BlocksSound(U)
  <2>1. \A i \in Inodes : U.inode[i].mode = "none" => U.inode[i].blks = <<>>
    BY <1>0, <1>1, <1>5 DEF BlocksSound
  <2>2. \A i \in Inodes : IsInjective(U.inode[i].blks)
    BY <1>0, <1>1, <1>5 DEF BlocksSound
  <2>3. \A i, j \in Inodes : i # j => OwnedIn(U, i) \cap OwnedIn(U, j) = {}
    BY <1>1, <1>6, <1>9, SMT DEF BlocksSound
  <2>4. U.bb = (0 .. (FIRST_DATA_BLOCK - 1)) \cup UNION {OwnedIn(U, i) : i \in Inodes}
    <3>1. T.bb = (0 .. (FIRST_DATA_BLOCK - 1)) \cup UNION {OwnedIn(T, i) : i \in Inodes}
      BY <1>1 DEF BlocksSound
    <3>2. (0 .. (FIRST_DATA_BLOCK - 1)) \cap old = {}
      BY <1>0, <1>3, <1>4
    <3>3. ASSUME NEW b \in U.bb
          PROVE  b \in (0 .. (FIRST_DATA_BLOCK - 1)) \cup UNION {OwnedIn(U, i) : i \in Inodes}
      <4>1. CASE b \in new
        BY <4>1, <1>0, <1>6
      <4>2. CASE b \in T.bb \ old
        BY <4>2, <3>1, <1>6
      <4>3. QED
        BY <3>3, <4>1, <4>2, <1>u
    <3>4. ASSUME NEW b \in (0 .. (FIRST_DATA_BLOCK - 1)) \cup UNION {OwnedIn(U, i) : i \in Inodes}
          PROVE  b \in U.bb
      <4>1. CASE b \in 0 .. (FIRST_DATA_BLOCK - 1)
        BY <4>1, <3>1, <3>2, <1>u
      <4>2. CASE \E i \in Inodes : b \in OwnedIn(U, i)
        <5>1. PICK i \in Inodes : b \in OwnedIn(U, i)
          BY <4>2
        <5>2. CASE i = ino
          BY <5>1, <5>2, <1>6, <1>u
        <5>3. CASE i # ino
          BY <5>1, <5>3, <1>6, <1>8, <1>9, <1>u
        <5>4. QED
          BY <5>2, <5>3
      <4>3. QED
        BY <3>4, <4>1, <4>2
    <3>5. QED
      BY <3>3, <3>4
  <2>5. U.ib = (1 .. LostFoundIno) \cup {i \in Inodes : U.inode[i].mode # "none"}
    <3>1. T.ib = (1 .. LostFoundIno) \cup {i \in Inodes : T.inode[i].mode # "none"}
      BY <1>1 DEF BlocksSound
    <3>2. QED
      BY <3>1, <1>0, <1>5, <1>u
  <2>6. QED
    BY <2>1, <2>2, <2>3, <2>4, <2>5 DEF BlocksSound
<1>11. CountsSound(U)
  <2>1. /\ T.super.blocks = NBlocks - Cardinality(T.bb)
        /\ T.super.inodes = NInodes - Cardinality(T.ib)
    BY <1>1 DEF CountsSound
  <2>2. IsFiniteSet(T.bb) /\ IsFiniteSet(T.ib)
    <3>1. IsFiniteSet(0 .. (NBlocks - 1)) /\ IsFiniteSet(Inodes)
      BY Ext2Assumption, FS_Interval, SMT DEF Inodes
    <3>2. QED
      BY <1>1, <3>1, FS_Subset DEF DiskType
  <2>3. IsFiniteSet(new) /\ Cardinality(new) = Len(rec.blks)
    BY <1>0, <1>2, InjectiveCount
  <2>4. old \subseteq T.bb /\ new \cap (T.bb \ old) = {}
    BY <1>0, <1>8
  <2> HIDE DEF old, new
  <2>5. /\ Cardinality((T.bb \ old) \cup new)
             = Cardinality(T.bb) - Cardinality(old) + Cardinality(new)
        /\ Cardinality(T.bb) \in Nat /\ Cardinality(old) \in Nat
    <3>1. Replaceable(T.bb, old, new)
      BY <2>2, <2>3, <2>4 DEF Replaceable
    <3>2. QED
      BY <3>1, ReplaceCount, SMT
  <2>6. U.super.blocks = NBlocks - Cardinality(U.bb)
    <3>1. /\ U.super.blocks = T.super.blocks + Cardinality(old) - Len(rec.blks)
          /\ U.bb = (T.bb \ old) \cup new
      BY DEF old, new, SetsInode
    <3>2. QED
      BY <2>1, <2>3, <2>5, <3>1, <1>2, Ext2Assumption, SMT
  <2>7. U.super.inodes = NInodes - Cardinality(U.ib)
    <3>1. Cardinality(T.ib) \in Nat
      BY <2>2, FS_CardinalityType
    <3>i. U.super.inodes = T.super.inodes - (IF ino \in T.ib THEN 0 ELSE 1)
      BY DEF SetsInode
    <3>2. CASE ino \in T.ib
      <4>1. U.ib = T.ib
        BY <3>2, <1>u
      <4>2. QED
        BY <2>1, <3>1, <3>i, <3>2, <4>1, Ext2Assumption, SMT
    <3>3. CASE ino \notin T.ib
      <4>1. Cardinality(T.ib \cup {ino}) = Cardinality(T.ib) + 1
        BY <2>2, <3>3, FS_AddElement
      <4>2. QED
        BY <2>1, <3>1, <3>i, <3>3, <4>1, <1>u, Ext2Assumption, SMT
    <3>4. QED
      BY <3>2, <3>3
  <2>8. QED
    BY <2>6, <2>7 DEF CountsSound, SetsInode
<1>12. \A d \in Inodes : (U.inode[d].mode = "dir" /\ d # ino) =>
          IsDirIn(T, d) /\ EntriesIn(U, d) = EntriesIn(T, d)
  <2>1. SUFFICES ASSUME NEW d \in Inodes, U.inode[d].mode = "dir", d # ino
                 PROVE  IsDirIn(T, d) /\ EntriesIn(U, d) = EntriesIn(T, d)
    OBVIOUS
  <2>2. U.inode[d] = T.inode[d] /\ T.inode[d].mode = "dir"
    BY <1>5, <2>1
  <2>3. T.inode[d].blks[1] \in DataBlocks /\ T.inode[d].blks[1] \in OwnedIn(T, d)
    BY <1>1, <2>2, OwnBlocks DEF DirsSound
  <2>4. T.inode[d].blks[1] \notin new
    BY <2>1, <2>3, <1>9
  <2>5. QED
    BY <2>2, <2>3, <2>4, <1>c DEF EntriesIn, IsDirIn
<1>13. rec.mode = "dir" => EntriesIn(U, ino) = <<>>
  BY <1>5, <1>c DEF EntriesIn
<1>14. DirsSound(U)
  <2>1. U.inode[RootIno].mode = "dir"
    <3>1. RootIno \in Inodes
      BY Ext2Assumption, SMT DEF RootIno, Inodes, FirstIno
    <3>2. QED
      BY <3>1, <1>0, <1>1, <1>5 DEF DirsSound
  <2>2. ASSUME NEW d \in Inodes, U.inode[d].mode = "dir"
        PROVE  /\ Len(U.inode[d].blks) = 1
               /\ EntriesIn(U, d) \in Seq(EntryRecs) /\ Len(EntriesIn(U, d)) <= DirSlots
    <3>1. CASE d = ino
      <4>1. rec.mode = "dir" /\ U.inode[d] = rec
        BY <2>2, <3>1, <1>5
      <4>2. EntriesIn(U, d) = <<>> /\ Len(U.inode[d].blks) = 1
        BY <4>1, <3>1, <1>13, <1>c
      <4>3. 0 <= DirSlots
        BY Ext2Assumption, SMT
      <4>4. QED
        BY <4>2, <4>3, SMT
    <3>2. CASE d # ino
      BY <2>2, <3>2, <1>1, <1>5, <1>12 DEF DirsSound, IsDirIn
    <3>3. QED
      BY <3>1, <3>2
  <2>3. QED
    BY <2>1, <2>2 DEF DirsSound
<1>15. NamesSound(U)
  <2>1. SUFFICES ASSUME NEW d \in Inodes, NEW e \in Inodes, IsDirIn(U, d), IsDirIn(U, e),
                        NEW k \in DOMAIN EntriesIn(U, d), NEW l \in DOMAIN EntriesIn(U, e)
                 PROVE  /\ EntriesIn(U, d)[k].ino # RootIno
                        /\ U.inode[EntriesIn(U, d)[k].ino].mode # "none"
                        /\ EntriesIn(U, d)[k].ino = EntriesIn(U, e)[l].ino => d = e /\ k = l
                        /\ d = e /\ EntriesIn(U, d)[k].name = EntriesIn(U, e)[l].name => k = l
    BY SMT DEF NamesSound
  <2>2. d # ino /\ e # ino
    BY <2>1, <1>5, <1>13, <1>c, SMT DEF IsDirIn
  <2>3. /\ IsDirIn(T, d) /\ EntriesIn(U, d) = EntriesIn(T, d)
        /\ IsDirIn(T, e) /\ EntriesIn(U, e) = EntriesIn(T, e)
    BY <2>1, <2>2, <1>12 DEF IsDirIn
  <2>4. EntriesIn(T, d)[k].ino \in Inodes
    <3>1. EntriesIn(T, d) \in Seq(EntryRecs) /\ k \in DOMAIN EntriesIn(T, d)
      BY <1>1, <2>1, <2>3 DEF IsDirIn, DirsSound
    <3>2. EntriesIn(T, d)[k] \in EntryRecs
      BY <3>1, SMT
    <3>3. QED
      BY <3>2 DEF EntryRecs
  <2>5. /\ EntriesIn(T, d)[k].ino # RootIno
        /\ T.inode[EntriesIn(T, d)[k].ino].mode # "none"
        /\ EntriesIn(T, d)[k].ino = EntriesIn(T, e)[l].ino => d = e /\ k = l
        /\ d = e /\ EntriesIn(T, d)[k].name = EntriesIn(T, e)[l].name => k = l
    BY <2>1, <2>3, <1>1, SMT DEF NamesSound
  <2>6. U.inode[EntriesIn(T, d)[k].ino].mode # "none"
    BY <2>4, <2>5, <1>0, <1>5
  <2>7. QED
    BY <2>3, <2>5, <2>6
<1>16. QED
  BY <1>7, <1>10, <1>11, <1>14, <1>15 DEF SoundDisk

\* What the directories then hold.
LEMMA AddedEntries ==
    ASSUME NEW T, NEW U, NEW dir, NEW name, NEW ino, SoundDisk(T), AddsEntry(T, U, dir, name, ino)
    PROVE  LET new == [name |-> name, ino |-> ino]
               s == EntriesIn(T, dir)
           IN  /\ EntriesIn(U, dir) = Append(s, new) /\ Append(s, new) \in Seq(EntryRecs)
               /\ s \in Seq(EntryRecs) /\ new \in EntryRecs
               /\ \A d \in Inodes : T.inode[d].mode = "dir" /\ d # dir => EntriesIn(U, d) = EntriesIn(T, d)
<1> DEFINE new == [name |-> name, ino |-> ino]
           s == EntriesIn(T, dir)
<1>1. dir \in Inodes /\ T.inode[dir].mode = "dir" /\ name \in Names /\ ino \in Inodes
  BY DEF AddsEntry, IsDirIn
<1>2. /\ U.inode = T.inode
      /\ U.content = [T.content EXCEPT ![T.inode[dir].blks[1]] = Append(s, new)]
  BY DEF AddsEntry
<1>3. DOMAIN T.content = DataBlocks
  BY DEF SoundDisk, DiskType
<1>4. new \in EntryRecs
  BY <1>1 DEF EntryRecs
<1>5. s \in Seq(EntryRecs) /\ T.inode[dir].blks[1] \in DataBlocks
  BY <1>1, OwnBlocks DEF SoundDisk, DirsSound
<1>6. EntriesIn(U, dir) = Append(s, new)
  BY <1>2, <1>3, <1>5 DEF EntriesIn
<1>7. ASSUME NEW d \in Inodes, T.inode[d].mode = "dir", d # dir
      PROVE  EntriesIn(U, d) = EntriesIn(T, d)
  <2>1. T.inode[d].blks[1] \in OwnedIn(T, d) /\ T.inode[dir].blks[1] \in OwnedIn(T, dir)
    BY <1>1, <1>7, OwnBlocks DEF SoundDisk, DirsSound
  <2>2. T.inode[d].blks[1] # T.inode[dir].blks[1]
    BY <1>1, <1>7, <2>1 DEF SoundDisk, BlocksSound
  <2>3. T.inode[d].blks[1] \in DataBlocks
    BY <1>7, OwnBlocks DEF SoundDisk, DirsSound
  <2>4. QED
    BY <1>2, <1>3, <2>2, <2>3 DEF EntriesIn
<1> HIDE DEF new, s
<1>8. Append(s, new) \in Seq(EntryRecs)
  BY <1>4, <1>5, SMT
<1>9. QED
  BY <1>4, <1>5, <1>6, <1>7, <1>8 DEF new, s

\* It is sound if T is.
LEMMA AddEntrySound ==
    ASSUME NEW T, NEW U, NEW dir, NEW name, NEW ino, SoundDisk(T), AddsEntry(T, U, dir, name, ino)
    PROVE  SoundDisk(U)
<1> DEFINE new == [name |-> name, ino |-> ino]
           s == EntriesIn(T, dir)
<1>1. /\ DiskType(T) /\ BlocksSound(T) /\ CountsSound(T) /\ DirsSound(T) /\ NamesSound(T)
  BY DEF SoundDisk
<1>2. /\ U.super = T.super /\ U.group = T.group /\ U.bb = T.bb /\ U.ib = T.ib /\ U.inode = T.inode
      /\ U.content = [T.content EXCEPT ![T.inode[dir].blks[1]] = Append(s, new)]
  BY DEF AddsEntry
<1>3. /\ EntriesIn(U, dir) = Append(s, new) /\ Append(s, new) \in Seq(EntryRecs)
      /\ s \in Seq(EntryRecs) /\ new \in EntryRecs
      /\ \A d \in Inodes : T.inode[d].mode = "dir" /\ d # dir => EntriesIn(U, d) = EntriesIn(T, d)
  BY AddedEntries, SMT
<1>4. /\ dir \in Inodes /\ T.inode[dir].mode = "dir" /\ ino # RootIno /\ T.inode[ino].mode # "none"
      /\ Len(s) < DirSlots /\ ~Has(s, name) /\ new.ino = ino /\ new.name = name
      /\ \A d \in Inodes : T.inode[d].mode = "dir" =>
            \A k \in DOMAIN EntriesIn(T, d) : EntriesIn(T, d)[k].ino # ino
  BY DEF AddsEntry, IsDirIn
<1> HIDE DEF new
<1>5. DiskType(U)
  <2>1. T.content \in [DataBlocks -> BlockValues] /\ Append(s, new) \in BlockValues
    BY <1>1, <1>3 DEF DiskType, BlockValues
  <2>2. U.content \in [DataBlocks -> BlockValues]
    BY <1>2, <2>1
  <2>3. QED
    BY <1>1, <1>2, <2>2 DEF DiskType
<1>6. BlocksSound(U) /\ CountsSound(U)
  <2>1. \A i \in Inodes : OwnedIn(U, i) = OwnedIn(T, i)
    BY <1>2 DEF OwnedIn
  <2>2. UNION {OwnedIn(U, i) : i \in Inodes} = UNION {OwnedIn(T, i) : i \in Inodes}
    BY <2>1
  <2>3. BlocksSound(U)
    BY <1>1, <1>2, <2>1, <2>2 DEF BlocksSound
  <2>4. CountsSound(U)
    BY <1>1, <1>2 DEF CountsSound
  <2>5. QED
    BY <2>3, <2>4
<1>7. /\ Len(Append(s, new)) = Len(s) + 1 /\ Len(s) \in Nat /\ DOMAIN s = 1 .. Len(s)
      /\ DOMAIN Append(s, new) = 1 .. (Len(s) + 1)
      /\ Append(s, new)[Len(s) + 1] = new
      /\ \A k \in 1 .. Len(s) : Append(s, new)[k] = s[k]
  BY <1>3, SMT
<1>8. DirsSound(U)
  <2>1. Len(Append(s, new)) <= DirSlots
    BY <1>4, <1>7, Ext2Assumption, SMT
  <2>2. ASSUME NEW d \in Inodes, U.inode[d].mode = "dir"
        PROVE  /\ Len(U.inode[d].blks) = 1
               /\ EntriesIn(U, d) \in Seq(EntryRecs) /\ Len(EntriesIn(U, d)) <= DirSlots
    <3>1. /\ Len(T.inode[d].blks) = 1
          /\ EntriesIn(T, d) \in Seq(EntryRecs) /\ Len(EntriesIn(T, d)) <= DirSlots
      BY <1>1, <1>2, <2>2 DEF DirsSound
    <3>2. CASE d = dir
      BY <1>2, <1>3, <2>1, <3>1, <3>2
    <3>3. CASE d # dir
      BY <1>2, <1>3, <2>2, <3>1, <3>3
    <3>4. QED
      BY <3>2, <3>3
  <2>3. U.inode[RootIno].mode = "dir"
    BY <1>1, <1>2 DEF DirsSound
  <2>4. QED
    BY <2>2, <2>3 DEF DirsSound
\* An entry of U is new, or was there already.
<1>9. ASSUME NEW d \in Inodes, T.inode[d].mode = "dir", NEW k \in DOMAIN EntriesIn(U, d)
      PROVE  \/ d = dir /\ k = Len(s) + 1 /\ EntriesIn(U, d)[k] = new
             \/ k \in DOMAIN EntriesIn(T, d) /\ EntriesIn(U, d)[k] = EntriesIn(T, d)[k]
  <2>1. CASE d # dir
    BY <1>3, <1>9, <2>1
  <2>2. CASE d = dir /\ k = Len(s) + 1
    BY <1>3, <1>7, <2>2
  <2>3. CASE d = dir /\ k # Len(s) + 1
    <3>1. k \in 1 .. (Len(s) + 1)
      BY <1>3, <1>7, <1>9, <2>3
    <3>2. k \in 1 .. Len(s)
      BY <2>3, <3>1, <1>7, SMT
    <3>3. QED
      BY <1>3, <1>7, <2>3, <3>2
  <2>4. QED
    BY <2>1, <2>2, <2>3
<1>10. NamesSound(U)
  <2>1. SUFFICES ASSUME NEW d \in Inodes, NEW e \in Inodes, T.inode[d].mode = "dir", T.inode[e].mode = "dir",
                        NEW k \in DOMAIN EntriesIn(U, d), NEW l \in DOMAIN EntriesIn(U, e)
                 PROVE  /\ EntriesIn(U, d)[k].ino # RootIno
                        /\ T.inode[EntriesIn(U, d)[k].ino].mode # "none"
                        /\ EntriesIn(U, d)[k].ino = EntriesIn(U, e)[l].ino => d = e /\ k = l
                        /\ d = e /\ EntriesIn(U, d)[k].name = EntriesIn(U, e)[l].name => k = l
    BY <1>2, SMT DEF NamesSound, IsDirIn
  <2> DEFINE Old(x, j) == j \in DOMAIN EntriesIn(T, x) /\ EntriesIn(U, x)[j] = EntriesIn(T, x)[j]
             New(x, j) == x = dir /\ j = Len(s) + 1 /\ EntriesIn(U, x)[j] = new
  <2>2. (New(d, k) \/ Old(d, k)) /\ (New(e, l) \/ Old(e, l))
    BY <1>9, <2>1
  <2>3. CASE Old(d, k) /\ Old(e, l)
    BY <1>1, <2>1, <2>3, SMT DEF NamesSound, IsDirIn
  <2>4. CASE New(d, k) /\ New(e, l)
    BY <1>4, <2>4
  <2>5. CASE New(d, k) /\ Old(e, l)
    <3>1. EntriesIn(T, e)[l].ino # ino
      BY <1>4, <2>1, <2>5
    <3>2. e = dir => EntriesIn(T, e)[l].name # name
      BY <1>4, <2>5 DEF Has
    <3>3. QED
      BY <1>4, <2>5, <3>1, <3>2
  <2>6. CASE Old(d, k) /\ New(e, l)
    <3>1. /\ EntriesIn(T, d)[k].ino # ino /\ EntriesIn(T, d)[k].ino # RootIno
          /\ T.inode[EntriesIn(T, d)[k].ino].mode # "none"
      BY <1>1, <1>4, <2>1, <2>6 DEF NamesSound, IsDirIn
    <3>2. d = dir => EntriesIn(T, d)[k].name # name
      BY <1>4, <2>6 DEF Has
    <3>3. QED
      BY <1>4, <2>6, <3>1, <3>2
  <2>7. QED
    BY <2>2, <2>3, <2>4, <2>5, <2>6
<1>11. QED
  BY <1>5, <1>6, <1>8, <1>10 DEF SoundDisk

FreshSuper == [magic |-> TRUE, blocks |-> NBlocks - 23, inodes |-> NInodes - 11]
FreshGroup == [blocks |-> NBlocks - 23, inodes |-> NInodes - 11, dirs |-> 2]
FreshRoot == <<[name |-> LostFound, ino |-> LostFoundIno]>>

\* The first k - 1 of them have reached the disk D.
Formatted(k, D) ==
    /\ k > 1 => D.super = FreshSuper
    /\ k > 2 => D.group = FreshGroup
    /\ k > 3 => D.bb = 0 .. 22
    /\ k > 4 => D.ib = 1 .. 11
    /\ k > 5 => \A i \in Inodes : i # 2 /\ i # 11 => D.inode[i] = NoInode
    /\ k > 6 => D.inode[2] = DirInode(21)
    /\ k > 7 => D.inode[11] = DirInode(22)
    /\ k > 8 => D.content[21] = FreshRoot
    /\ k > 9 => D.content[22] = <<>>

\* A formatted disk is sound.
LEMMA FreshSound ==
    ASSUME NEW D, DiskType(D), Formatted(10, D)
    PROVE  SoundDisk(D)
<1>1. /\ D.super = FreshSuper /\ D.group = FreshGroup /\ D.bb = 0 .. 22 /\ D.ib = 1 .. 11
      /\ \A i \in Inodes : i # 2 /\ i # 11 => D.inode[i] = NoInode
      /\ D.inode[2] = DirInode(21) /\ D.inode[11] = DirInode(22)
      /\ D.content[21] = FreshRoot /\ D.content[22] = <<>>
  BY SMT DEF Formatted
<1>2. 2 \in Inodes /\ 11 \in Inodes /\ RootIno = 2 /\ LostFoundIno = 11 /\ FIRST_DATA_BLOCK = 21
  BY Ext2Assumption, SMT DEF Inodes, FirstIno, RootIno, LostFoundIno, FIRST_DATA_BLOCK
<1>3. /\ D.inode[2].mode = "dir" /\ D.inode[2].blks = <<21>>
      /\ D.inode[11].mode = "dir" /\ D.inode[11].blks = <<22>>
      /\ \A i \in Inodes : i # 2 /\ i # 11 => D.inode[i].mode = "none" /\ D.inode[i].blks = <<>>
  BY <1>1, SMT DEF DirInode, NoInode
<1>4. /\ OwnedIn(D, 2) = {21} /\ OwnedIn(D, 11) = {22}
      /\ \A i \in Inodes : i # 2 /\ i # 11 => OwnedIn(D, i) = {}
  <2>1. DOMAIN <<21>> = {1} /\ <<21>>[1] = 21 /\ DOMAIN <<22>> = {1} /\ <<22>>[1] = 22
    BY SMT
  <2>2. Range(<<21>>) = {21} /\ Range(<<22>>) = {22} /\ Range(<<>>) = {}
    BY <2>1, SMT DEF Range
  <2>3. QED
    BY <1>3, <2>2 DEF OwnedIn
<1>5. BlocksSound(D)
  <2>1. IsInjective(<<21>>) /\ IsInjective(<<22>>) /\ IsInjective(<<>>)
    BY SMT DEF IsInjective
  <2>2. \A i \in Inodes : IsInjective(D.inode[i].blks)
    BY <1>3, <2>1
  <2>3. \A i, j \in Inodes : i # j => OwnedIn(D, i) \cap OwnedIn(D, j) = {}
    BY <1>4, SMT
  <2>4. UNION {OwnedIn(D, i) : i \in Inodes} = {21, 22}
    BY <1>2, <1>4, SMT
  <2>5. D.bb = (0 .. (FIRST_DATA_BLOCK - 1)) \cup UNION {OwnedIn(D, i) : i \in Inodes}
    <3>1. 0 .. 22 = (0 .. (21 - 1)) \cup {21, 22}
      BY SMT
    <3>2. QED
      BY <1>1, <1>2, <2>4, <3>1
  <2>6. D.ib = (1 .. LostFoundIno) \cup {i \in Inodes : D.inode[i].mode # "none"}
    BY <1>1, <1>2, <1>3, SMT
  <2>7. QED
    BY <1>3, <2>2, <2>3, <2>5, <2>6 DEF BlocksSound
<1>6. CountsSound(D)
  <2>1. Cardinality(0 .. 22) = 23 /\ Cardinality(1 .. 11) = 11
    <3>1. ASSUME NEW b \in Int, b > 21, b < 23 PROVE Cardinality(0 .. b) = 23
      BY <3>1, FS_Interval, SMT
    <3>2. ASSUME NEW b \in Int, b > 10, b < 12 PROVE Cardinality(1 .. b) = 11
      BY <3>2, FS_Interval, SMT
    <3>3. /\ 22 \in Int /\ 22 > 21 /\ 22 < 23
          /\ 11 \in Int /\ 11 > 10 /\ 11 < 12
      BY SMT
    <3>4. QED
      BY <3>1, <3>2, <3>3
  <2>2. QED
    BY <1>1, <2>1, Ext2Assumption, SMT DEF CountsSound, FreshSuper, FreshGroup
<1>7. EntriesIn(D, 2) = FreshRoot /\ EntriesIn(D, 11) = <<>>
  BY <1>1, <1>3, SMT DEF EntriesIn
<1>8. /\ FreshRoot \in Seq(EntryRecs) /\ Len(FreshRoot) = 1 /\ DOMAIN FreshRoot = {1}
      /\ FreshRoot[1].name = LostFound /\ FreshRoot[1].ino = 11
  <2>1. [name |-> LostFound, ino |-> LostFoundIno] \in EntryRecs
    BY <1>2, Ext2Assumption DEF EntryRecs
  <2>2. QED
    BY <1>2, <2>1, SMT DEF FreshRoot
<1>9. DirsSound(D)
  <2>1. Len(<<21>>) = 1 /\ Len(<<22>>) = 1 /\ Len(<<>>) = 0 /\ <<>> \in Seq(EntryRecs)
    BY SMT
  <2>2. \A d \in Inodes : D.inode[d].mode = "dir" => d = 2 \/ d = 11
    BY <1>3
  <2>3. 1 <= DirSlots /\ 0 <= DirSlots
    BY Ext2Assumption, SMT
  <2>4. QED
    BY <1>2, <1>3, <1>7, <1>8, <2>1, <2>2, <2>3 DEF DirsSound
<1>10. NamesSound(D)
  <2>1. \A d \in Inodes : IsDirIn(D, d) => d = 2 \/ d = 11
    BY <1>3 DEF IsDirIn
  <2>2. \A d \in Inodes : IsDirIn(D, d) => \A k \in DOMAIN EntriesIn(D, d) : d = 2 /\ k = 1
    BY <1>7, <1>8, <2>1, SMT
  <2>3. QED
    BY <1>2, <1>3, <1>7, <1>8, <2>2, SMT DEF NamesSound
<1>11. QED
  BY <1>5, <1>6, <1>9, <1>10 DEF SoundDisk

\* The counts after b more blocks and i more inodes are free.
LEMMA PlusIs ==
    ASSUME NEW b \in Int, NEW i \in Int
    PROVE  /\ \A s \in SuperRecs :
                /\ Plus(s, b, i) \in SuperRecs /\ Plus(s, b, i).magic = s.magic
                /\ Plus(s, b, i).blocks = s.blocks + b /\ Plus(s, b, i).inodes = s.inodes + i
           /\ \A g \in GroupRecs :
                /\ Plus(g, b, i) \in GroupRecs /\ Plus(g, b, i).dirs = g.dirs
                /\ Plus(g, b, i).blocks = g.blocks + b /\ Plus(g, b, i).inodes = g.inodes + i
<1>1. ASSUME NEW s \in SuperRecs
      PROVE  /\ Plus(s, b, i) \in SuperRecs /\ Plus(s, b, i).magic = s.magic
             /\ Plus(s, b, i).blocks = s.blocks + b /\ Plus(s, b, i).inodes = s.inodes + i
  <2>1. s.blocks + b \in Int /\ s.inodes + i \in Int
    BY SMT DEF SuperRecs
  <2>2. ASSUME NEW x \in Int, NEW y \in Int
        PROVE  LET t == [s EXCEPT !.blocks = x, !.inodes = y]
               IN  t \in SuperRecs /\ t.magic = s.magic /\ t.blocks = x /\ t.inodes = y
    BY DEF SuperRecs
  <2>3. QED
    BY <2>1, <2>2 DEF Plus
<1>2. ASSUME NEW g \in GroupRecs
      PROVE  /\ Plus(g, b, i) \in GroupRecs /\ Plus(g, b, i).dirs = g.dirs
             /\ Plus(g, b, i).blocks = g.blocks + b /\ Plus(g, b, i).inodes = g.inodes + i
  <2>1. g.blocks + b \in Int /\ g.inodes + i \in Int
    BY SMT DEF GroupRecs
  <2>2. ASSUME NEW x \in Int, NEW y \in Int
        PROVE  LET t == [g EXCEPT !.blocks = x, !.inodes = y]
               IN  t \in GroupRecs /\ t.dirs = g.dirs /\ t.blocks = x /\ t.inodes = y
    BY DEF GroupRecs
  <2>3. QED
    BY <2>1, <2>2 DEF Plus
<1>3. QED
  BY <1>1, <1>2

\* The disk once inode ino is an empty directory in block u.
DirDisk(ino, u) ==
    [super |-> Plus(super, -1, -1), group |-> [Plus(group, -1, -1) EXCEPT !.dirs = @ + 1],
     bb |-> bb \cup {u}, ib |-> ib \cup {ino},
     inode |-> [inode EXCEPT ![ino] = DirInode(u)],
     content |-> [content EXCEPT ![u] = <<>>]]

\* The disk with the inode of the new directory, before the entry, is sound.
LEMMA DirDiskSound ==
    ASSUME SoundDisk(Disk), NEW ino \in Inodes, ino # RootIno, ino \notin ib, OwnedIn(Disk, ino) = {},
           NEW u \in DataBlocks, u \notin bb
    PROVE  LET M == DirDisk(ino, u)
           IN  /\ SetsInode(Disk, M, ino, DirInode(u)) /\ SoundDisk(M)
               /\ M.super \in SuperRecs /\ M.group \in GroupRecs /\ DirInode(u) \in InodeRecs
<1> DEFINE M == DirDisk(ino, u)
<1>1. /\ Disk.super = super /\ Disk.group = group /\ Disk.bb = bb /\ Disk.ib = ib
      /\ Disk.inode = inode /\ Disk.content = content
  BY DEF Disk
<1>2. super \in SuperRecs /\ group \in GroupRecs /\ content \in [DataBlocks -> BlockValues]
  BY <1>1 DEF SoundDisk, DiskType
<1>m. super.magic /\ group.blocks = super.blocks /\ group.inodes = super.inodes
  BY <1>1 DEF SoundDisk, CountsSound
<1>3. /\ M.super = Plus(super, -1, -1) /\ M.group = [Plus(group, -1, -1) EXCEPT !.dirs = @ + 1]
      /\ M.bb = bb \cup {u} /\ M.ib = ib \cup {ino}
      /\ M.inode = [inode EXCEPT ![ino] = DirInode(u)]
      /\ M.content = [content EXCEPT ![u] = <<>>]
  BY DEF DirDisk
<1> HIDE DEF M
<1>4. /\ M.super \in SuperRecs /\ M.super.magic = super.magic
      /\ M.super.blocks = super.blocks + (-1) /\ M.super.inodes = super.inodes + (-1)
  <2>1. /\ Plus(super, -1, -1) \in SuperRecs /\ Plus(super, -1, -1).magic = super.magic
        /\ Plus(super, -1, -1).blocks = super.blocks + (-1)
        /\ Plus(super, -1, -1).inodes = super.inodes + (-1)
    BY <1>2, PlusIs, SMT
  <2>2. QED
    BY <1>3, <2>1
<1>5. /\ Plus(group, -1, -1) \in GroupRecs /\ Plus(group, -1, -1).blocks = group.blocks + (-1)
      /\ Plus(group, -1, -1).inodes = group.inodes + (-1)
  BY <1>2, PlusIs, SMT
<1>6. /\ M.group \in GroupRecs /\ M.group.blocks = group.blocks + (-1)
      /\ M.group.inodes = group.inodes + (-1)
  <2> DEFINE g == Plus(group, -1, -1)
  <2>1. g \in GroupRecs /\ g.dirs + 1 \in Int
    BY <1>5, SMT DEF GroupRecs
  <2> HIDE DEF g
  <2>2. ASSUME NEW x \in Int
        PROVE  LET t == [g EXCEPT !.dirs = x]
               IN  t \in GroupRecs /\ t.blocks = g.blocks /\ t.inodes = g.inodes
    BY <2>1 DEF GroupRecs
  <2>3. M.group = [g EXCEPT !.dirs = g.dirs + 1]
    BY <1>3 DEF g
  <2>4. M.group \in GroupRecs /\ M.group.blocks = g.blocks /\ M.group.inodes = g.inodes
    BY <2>1, <2>2, <2>3
  <2>5. QED
    BY <1>5, <2>4 DEF g
<1> DEFINE rec == DirInode(u)
<1>7. /\ rec.mode = "dir" /\ rec.blks = <<u>> /\ Len(rec.blks) = 1 /\ rec.blks[1] = u
      /\ Range(rec.blks) = {u} /\ IsInjective(rec.blks) /\ rec \in InodeRecs
  <2>1. rec.mode = "dir" /\ rec.blks = <<u>>
    BY DEF DirInode
  <2>2. <<u>> \in Seq(DataBlocks) /\ Len(<<u>>) = 1 /\ <<u>>[1] = u /\ DOMAIN <<u>> = {1}
    BY SMT
  <2>3. 1 <= MaxBlocks
    BY Ext2Assumption, SMT
  <2>4. <<u>> \in BlockLists
    BY <2>2, <2>3 DEF BlockLists
  <2>5. rec \in InodeRecs
    BY <2>4 DEF DirInode, InodeRecs
  <2>6. Range(<<u>>) = {u} /\ IsInjective(<<u>>)
    BY <2>2 DEF Range, IsInjective
  <2>7. QED
    BY <2>1, <2>2, <2>5, <2>6
<1> HIDE DEF rec
<1>8. /\ M.content \in [DataBlocks -> BlockValues] /\ M.content[u] = <<>>
      /\ \A b \in DataBlocks \ {u} : M.content[b] = content[b]
  BY <1>2, <1>3, SMT DEF BlockValues
<1>9. Cardinality(OwnedIn(Disk, ino)) = 0 /\ super.blocks \in Int /\ super.inodes \in Int
  BY <1>2, FS_EmptySet DEF SuperRecs
<1>10. /\ M.super.blocks = super.blocks + Cardinality(OwnedIn(Disk, ino)) - Len(rec.blks)
       /\ M.super.inodes = super.inodes - (IF ino \in ib THEN 0 ELSE 1)
       /\ M.group.blocks = M.super.blocks /\ M.group.inodes = M.super.inodes
  BY <1>m, <1>4, <1>6, <1>7, <1>9, SMT
<1>11. M.bb = (bb \ OwnedIn(Disk, ino)) \cup Range(rec.blks) /\ Range(rec.blks) \cap (bb \ OwnedIn(Disk, ino)) = {}
  BY <1>3, <1>7
<1>12. M.inode = [inode EXCEPT ![ino] = rec]
  BY <1>3 DEF rec
<1>13. SetsInode(Disk, M, ino, rec)
  BY <1>1, <1>m, <1>3, <1>4, <1>6, <1>7, <1>8, <1>10, <1>11, <1>12 DEF SetsInode
<1>14. SoundDisk(M)
  BY <1>13, SetInodeSound
<1>15. QED
  BY <1>4, <1>6, <1>7, <1>13, <1>14 DEF M, rec

\* An inode owns finitely many blocks.
LEMMA OldCount ==
    ASSUME SoundDisk(Disk), NEW i \in Inodes
    PROVE  Cardinality(Range(inode[i].blks)) \in Nat
<1>1. bb \subseteq 0 .. (NBlocks - 1) /\ Range(inode[i].blks) \subseteq bb
  BY SMT DEF SoundDisk, DiskType, BlocksSound, OwnedIn, Disk
<1>2. IsFiniteSet(0 .. (NBlocks - 1))
  BY Ext2Assumption, FS_Interval, SMT
<1>3. QED
  BY <1>1, <1>2, FS_Subset, FS_CardinalityType

\* The disk once inode ino is the file with data d in blocks bs.
FileDisk(ino, bs, d, db, di) ==
    [super |-> Plus(super, db, di), group |-> Plus(group, db, di),
     bb |-> (bb \ Range(inode[ino].blks)) \cup Range(bs), ib |-> ib \cup {ino},
     inode |-> [inode EXCEPT ![ino] = FileInode(bs)],
     content |-> [b \in DataBlocks |-> IF b \in Range(bs) THEN d ELSE content[b]]]

\* That disk is sound.
LEMMA FileDiskSound ==
    ASSUME SoundDisk(Disk), NEW ino, NEW bs, NEW d, NEW n, TakesBlocks(ino, bs, d, n), Len(bs) = n
    PROVE  LET db == Cardinality(Range(inode[ino].blks)) - n
               di == IF ino \in ib THEN 0 ELSE -1
               T == FileDisk(ino, bs, d, db, di)
           IN  /\ SetsInode(Disk, T, ino, FileInode(bs)) /\ IsDisk(T) /\ SoundDisk(T)
               /\ db \in Int /\ di \in Int
<1> DEFINE db == Cardinality(Range(inode[ino].blks)) - n
           di == IF ino \in ib THEN 0 ELSE -1
           T == FileDisk(ino, bs, d, db, di)
<1>1. ino \in Inodes /\ ino # RootIno /\ d \in Data
  BY DEF TakesBlocks
<1>2. /\ bs \in Seq(DataBlocks) /\ Len(bs) \in Nat /\ n \in Int
      /\ FileInode(bs) \in InodeRecs /\ IsInjective(bs)
      /\ Range(bs) \cap (bb \ Range(inode[ino].blks)) = {}
  BY SMT DEF TakesBlocks
<1>3. /\ Disk.super = super /\ Disk.group = group /\ Disk.bb = bb /\ Disk.ib = ib
      /\ Disk.inode = inode /\ Disk.content = content /\ OwnedIn(Disk, ino) = Range(inode[ino].blks)
  BY DEF Disk, OwnedIn
<1>4. DiskType(Disk) /\ BlocksSound(Disk) /\ CountsSound(Disk)
  BY DEF SoundDisk
<1>5. /\ super \in SuperRecs /\ group \in GroupRecs /\ bb \subseteq 0 .. (NBlocks - 1)
      /\ ib \subseteq Inodes /\ inode \in [Inodes -> InodeRecs] /\ content \in [DataBlocks -> BlockValues]
  BY <1>3, <1>4 DEF DiskType
<1>6. Cardinality(Range(inode[ino].blks)) \in Nat
  BY <1>1, OldCount
<1>7. db \in Int /\ di \in Int
  BY <1>2, <1>6, SMT
<1> HIDE DEF db, di
<1>8. /\ T.super = Plus(super, db, di) /\ T.group = Plus(group, db, di)
      /\ T.bb = (bb \ Range(inode[ino].blks)) \cup Range(bs) /\ T.ib = ib \cup {ino}
      /\ T.inode = [inode EXCEPT ![ino] = FileInode(bs)]
      /\ T.content = [b \in DataBlocks |-> IF b \in Range(bs) THEN d ELSE content[b]]
  BY DEF FileDisk
<1>9. T = [super |-> T.super, group |-> T.group, bb |-> T.bb, ib |-> T.ib,
           inode |-> T.inode, content |-> T.content]
  BY DEF FileDisk
<1> HIDE DEF T
<1>10. /\ T.super \in SuperRecs /\ T.super.magic = super.magic
       /\ T.super.blocks = super.blocks + db /\ T.super.inodes = super.inodes + di
       /\ T.group \in GroupRecs
       /\ T.group.blocks = group.blocks + db /\ T.group.inodes = group.inodes + di
  <2>1. /\ Plus(super, db, di) \in SuperRecs /\ Plus(super, db, di).magic = super.magic
        /\ Plus(super, db, di).blocks = super.blocks + db
        /\ Plus(super, db, di).inodes = super.inodes + di
    BY <1>5, <1>7, PlusIs
  <2>2. /\ Plus(group, db, di) \in GroupRecs
        /\ Plus(group, db, di).blocks = group.blocks + db
        /\ Plus(group, db, di).inodes = group.inodes + di
    BY <1>5, <1>7, PlusIs
  <2>3. QED
    BY <1>8, <2>1, <2>2
<1>11. /\ super.magic /\ group.blocks = super.blocks /\ group.inodes = super.inodes
       /\ super.blocks \in Int /\ super.inodes \in Int
  <2>1. super.magic /\ group.blocks = super.blocks /\ group.inodes = super.inodes
    BY <1>3, <1>4 DEF CountsSound
  <2>2. super.blocks \in Int /\ super.inodes \in Int
    BY <1>5 DEF SuperRecs
  <2>3. QED
    BY <2>1, <2>2
<1>12. /\ T.super.blocks = super.blocks + Cardinality(Range(inode[ino].blks)) - Len(FileInode(bs).blks)
       /\ T.super.inodes = super.inodes - (IF ino \in ib THEN 0 ELSE 1)
  <2>1. FileInode(bs).blks = bs
    BY DEF FileInode
  <2>2. QED
    BY <1>2, <1>6, <1>10, <1>11, <2>1, SMT DEF db, di
<1>13. FileInode(bs).mode = "file" /\ FileInode(bs).blks = bs
  BY DEF FileInode
<1>14. /\ T.content \in [DataBlocks -> BlockValues]
       /\ \A b \in DataBlocks \ Range(bs) : T.content[b] = content[b]
  BY <1>1, <1>5, <1>8 DEF BlockValues
<1>15. SetsInode(Disk, T, ino, FileInode(bs))
  <2>1. /\ FileInode(bs).mode # "none" /\ FileInode(bs).mode # "dir"
        /\ IsInjective(FileInode(bs).blks) /\ FileInode(bs) \in InodeRecs
    BY <1>2, <1>13
  <2>2. /\ Range(FileInode(bs).blks) \cap (Disk.bb \ OwnedIn(Disk, ino)) = {}
        /\ T.bb = (Disk.bb \ OwnedIn(Disk, ino)) \cup Range(FileInode(bs).blks)
        /\ T.ib = Disk.ib \cup {ino} /\ T.inode = [Disk.inode EXCEPT ![ino] = FileInode(bs)]
    BY <1>2, <1>3, <1>8, <1>13
  <2>3. /\ T.super \in SuperRecs /\ T.group \in GroupRecs /\ T.super.magic
        /\ T.group.blocks = T.super.blocks /\ T.group.inodes = T.super.inodes
    BY <1>10, <1>11
  <2>4. /\ T.super.blocks = Disk.super.blocks + Cardinality(OwnedIn(Disk, ino)) - Len(FileInode(bs).blks)
        /\ T.super.inodes = Disk.super.inodes - (IF ino \in Disk.ib THEN 0 ELSE 1)
    BY <1>3, <1>12
  <2>5. /\ T.content \in [DataBlocks -> BlockValues]
        /\ \A b \in DataBlocks \ Range(FileInode(bs).blks) : T.content[b] = Disk.content[b]
    BY <1>3, <1>13, <1>14
  <2>6. QED
    BY <1>1, <2>1, <2>2, <2>3, <2>4, <2>5 DEF SetsInode
<1>16. SoundDisk(T)
  BY <1>15, SetInodeSound
<1>17. IsDisk(T)
  BY <1>9, <1>16 DEF IsDisk, SoundDisk
<1>18. QED
  BY <1>7, <1>15, <1>16, <1>17 DEF T, db, di

(***************************************************************************)
(* Writes                                                                  *)
(***************************************************************************)
Writes ==
    [at : {"wipe", "table"}, k : {0}, v : {<<>>}]
      \cup [at : {"super"}, k : {0}, v : SuperRecs]
      \cup [at : {"group"}, k : {0}, v : GroupRecs]
      \cup [at : {"bb"}, k : {0}, v : SUBSET (0 .. (NBlocks - 1))]
      \cup [at : {"ib"}, k : {0}, v : SUBSET Inodes]
      \cup [at : {"inode"}, k : Inodes, v : InodeRecs]
      \cup [at : {"block"}, k : DataBlocks, v : BlockValues]

\* Each write is one of seven kinds.
LEMMA WriteKinds ==
    ASSUME NEW w \in Writes
    PROVE  /\ w.at \in {"wipe", "table", "super", "group", "bb", "ib", "inode", "block"}
           /\ w.at = "super" => w.v \in SuperRecs
           /\ w.at = "group" => w.v \in GroupRecs
           /\ w.at = "bb" => w.v \subseteq 0 .. (NBlocks - 1)
           /\ w.at = "ib" => w.v \subseteq Inodes
           /\ w.at = "inode" => w.k \in Inodes /\ w.v \in InodeRecs
           /\ w.at = "block" => w.k \in DataBlocks /\ w.v \in BlockValues
  BY DEF Writes

\* The writes that the operations put into their plans are writes.
LEMMA WritesAre ==
    /\ \A v \in SuperRecs : W("super", 0, v) \in Writes
    /\ \A v \in GroupRecs : W("group", 0, v) \in Writes
    /\ \A v \in SUBSET (0 .. (NBlocks - 1)) : W("bb", 0, v) \in Writes
    /\ \A v \in SUBSET Inodes : W("ib", 0, v) \in Writes
    /\ \A k \in Inodes, v \in InodeRecs : W("inode", k, v) \in Writes
    /\ \A k \in DataBlocks, v \in BlockValues : W("block", k, v) \in Writes
    /\ W("wipe", 0, <<>>) \in Writes /\ W("table", 0, <<>>) \in Writes
  BY DEF Writes, W

\* What a write does to each structure.
LEMMA ApplyIs ==
    ASSUME NEW w \in Writes, DiskType(Disk), Apply(w), w.at \notin {"wipe", "table"}
    PROVE  /\ super' = IF w.at = "super" THEN w.v ELSE super
           /\ group' = IF w.at = "group" THEN w.v ELSE group
           /\ bb' = IF w.at = "bb" THEN w.v ELSE bb
           /\ ib' = IF w.at = "ib" THEN w.v ELSE ib
           /\ \A i \in Inodes : inode'[i] = IF w.at = "inode" /\ w.k = i THEN w.v ELSE inode[i]
           /\ \A b \in DataBlocks : content'[b] = IF w.at = "block" /\ w.k = b THEN w.v ELSE content[b]
           /\ is_ram' = is_ram
<1>1. DOMAIN inode = Inodes /\ DOMAIN content = DataBlocks
  BY DEF DiskType, Disk
<1>2. w.at \in {"super", "group", "bb", "ib", "inode", "block"}
  BY WriteKinds
<1>3. /\ super' = Put(w, "super", super) /\ group' = Put(w, "group", group)
      /\ bb' = Put(w, "bb", bb) /\ ib' = Put(w, "ib", ib) /\ is_ram' = is_ram
      /\ inode' = IF w.at = "inode" THEN [inode EXCEPT ![w.k] = w.v]
                  ELSE IF w.at = "table" THEN Zeroed.inode ELSE Put(w, "inode", inode)
      /\ content' = IF w.at = "block" THEN [content EXCEPT ![w.k] = w.v] ELSE Put(w, "content", content)
  BY DEF Apply
<1>4. \A a, old : Put(w, a, old) = IF w.at = a THEN w.v ELSE old
  BY <1>2 DEF Put
<1>5. /\ super' = IF w.at = "super" THEN w.v ELSE super
      /\ group' = IF w.at = "group" THEN w.v ELSE group
      /\ bb' = IF w.at = "bb" THEN w.v ELSE bb
      /\ ib' = IF w.at = "ib" THEN w.v ELSE ib
  BY <1>3, <1>4
<1>6. inode' = IF w.at = "inode" THEN [inode EXCEPT ![w.k] = w.v] ELSE inode
  BY <1>2, <1>3, <1>4
<1>7. content' = IF w.at = "block" THEN [content EXCEPT ![w.k] = w.v] ELSE content
  BY <1>2, <1>3, <1>4
<1>8. \A i \in Inodes : inode'[i] = IF w.at = "inode" /\ w.k = i THEN w.v ELSE inode[i]
  BY <1>1, <1>6
<1>9. \A b \in DataBlocks : content'[b] = IF w.at = "block" /\ w.k = b THEN w.v ELSE content[b]
  BY <1>1, <1>7
<1>10. QED
  BY <1>3, <1>5, <1>8, <1>9

\* A disk after format's wipe.
LEMMA ZeroedType ==
    /\ DiskType(Zeroed) /\ Zeroed.super.magic = FALSE
    /\ \A a \in {"super", "group", "bb", "ib", "inode", "content"} : a \in DOMAIN Zeroed
<1>1. NoInode \in InodeRecs
  <2>1. <<>> \in [1 .. 0 -> DataBlocks] /\ 0 \in 0 .. MaxBlocks
    BY Ext2Assumption, SMT
  <2>2. <<>> \in BlockLists
    BY <2>1, SMT DEF BlockLists
  <2>3. QED
    BY <2>2 DEF NoInode, InodeRecs
<1>2. <<>> \in BlockValues
  BY SMT DEF BlockValues
<1>3. Zeroed.inode \in [Inodes -> InodeRecs] /\ Zeroed.content \in [DataBlocks -> BlockValues]
  BY <1>1, <1>2 DEF Zeroed
<1>4. /\ Zeroed.super \in SuperRecs /\ Zeroed.group \in GroupRecs /\ Zeroed.super.magic = FALSE
      /\ Zeroed.bb = {} /\ Zeroed.ib = {}
  BY SMT DEF Zeroed, SuperRecs, GroupRecs
<1>5. \A a \in {"super", "group", "bb", "ib", "inode", "content"} : a \in DOMAIN Zeroed
  BY DEF Zeroed
<1>6. QED
  BY <1>3, <1>4, <1>5 DEF DiskType

\* A write keeps the types of what is on the disk.
LEMMA ApplyTypes ==
    ASSUME NEW w \in Writes, DiskType(Disk), Apply(w)
    PROVE  DiskType(Disk')
<1>0. /\ super \in SuperRecs /\ group \in GroupRecs
      /\ bb \subseteq 0 .. (NBlocks - 1) /\ ib \subseteq Inodes
      /\ inode \in [Inodes -> InodeRecs] /\ content \in [DataBlocks -> BlockValues]
  BY DEF DiskType, Disk
<1>d. /\ Disk'.super = super' /\ Disk'.group = group' /\ Disk'.bb = bb' /\ Disk'.ib = ib'
      /\ Disk'.inode = inode' /\ Disk'.content = content'
  BY DEF Disk
<1>1. /\ super' = Put(w, "super", super) /\ group' = Put(w, "group", group)
      /\ bb' = Put(w, "bb", bb) /\ ib' = Put(w, "ib", ib)
      /\ inode' = IF w.at = "inode" THEN [inode EXCEPT ![w.k] = w.v]
                  ELSE IF w.at = "table" THEN Zeroed.inode ELSE Put(w, "inode", inode)
      /\ content' = IF w.at = "block" THEN [content EXCEPT ![w.k] = w.v] ELSE Put(w, "content", content)
  BY DEF Apply
<1>2. \A a \in {"super", "group", "bb", "ib", "inode", "content"} : \A old :
         Put(w, a, old) = IF w.at = a THEN w.v ELSE IF w.at = "wipe" THEN Zeroed[a] ELSE old
  BY DEF Put
<1>3. /\ Zeroed.super \in SuperRecs /\ Zeroed.group \in GroupRecs
      /\ Zeroed.bb \subseteq 0 .. (NBlocks - 1) /\ Zeroed.ib \subseteq Inodes
      /\ Zeroed.inode \in [Inodes -> InodeRecs] /\ Zeroed.content \in [DataBlocks -> BlockValues]
      /\ Zeroed["super"] = Zeroed.super /\ Zeroed["group"] = Zeroed.group
      /\ Zeroed["bb"] = Zeroed.bb /\ Zeroed["ib"] = Zeroed.ib
      /\ Zeroed["inode"] = Zeroed.inode /\ Zeroed["content"] = Zeroed.content
  BY ZeroedType DEF DiskType
<1>4. super' \in SuperRecs /\ group' \in GroupRecs
  <2>1. /\ super' = IF w.at = "super" THEN w.v ELSE IF w.at = "wipe" THEN Zeroed.super ELSE super
        /\ group' = IF w.at = "group" THEN w.v ELSE IF w.at = "wipe" THEN Zeroed.group ELSE group
    BY <1>1, <1>2, <1>3
  <2>2. (w.at = "super" => w.v \in SuperRecs) /\ (w.at = "group" => w.v \in GroupRecs)
    BY WriteKinds
  <2>3. QED
    BY <1>0, <1>3, <2>1, <2>2
<1>5. bb' \subseteq 0 .. (NBlocks - 1) /\ ib' \subseteq Inodes
  <2>1. /\ bb' = IF w.at = "bb" THEN w.v ELSE IF w.at = "wipe" THEN Zeroed.bb ELSE bb
        /\ ib' = IF w.at = "ib" THEN w.v ELSE IF w.at = "wipe" THEN Zeroed.ib ELSE ib
    BY <1>1, <1>2, <1>3
  <2>2. bb' \subseteq 0 .. (NBlocks - 1)
    BY <1>0, <1>3, <2>1, WriteKinds
  <2>3. ib' \subseteq Inodes
    BY <1>0, <1>3, <2>1, WriteKinds
  <2>4. QED
    BY <2>2, <2>3
<1>6. inode' \in [Inodes -> InodeRecs]
  <2>1. CASE w.at = "inode"
    <3>1. inode' = [inode EXCEPT ![w.k] = w.v] /\ w.v \in InodeRecs
      BY <1>1, <2>1, WriteKinds
    <3>2. QED
      BY <1>0, <3>1
  <2>2. CASE w.at # "inode"
    BY <1>0, <1>1, <1>2, <1>3, <2>2
  <2>3. QED
    BY <2>1, <2>2
<1>7. content' \in [DataBlocks -> BlockValues]
  <2>1. CASE w.at = "block"
    <3>1. content' = [content EXCEPT ![w.k] = w.v] /\ w.v \in BlockValues
      BY <1>1, <2>1, WriteKinds
    <3>2. QED
      BY <1>0, <3>1
  <2>2. CASE w.at # "block"
    <3>1. w.at # "content"
      BY WriteKinds
    <3>2. QED
      BY <1>0, <1>1, <1>2, <1>3, <2>2, <3>1
  <2>3. QED
    BY <2>1, <2>2
<1>8. QED
  BY <1>d, <1>4, <1>5, <1>6, <1>7 DEF DiskType

\* The first write of a plan and the others.
LEMMA FirstWrite ==
    ASSUME NEW S, NEW s \in Seq(S), s # <<>>
    PROVE  /\ Head(s) \in S /\ Tail(s) \in Seq(S) /\ Head(s) \in Range(s)
           /\ Range(s) = {Head(s)} \cup Range(Tail(s))
           /\ Len(s) \in Nat /\ Len(s) >= 1 /\ (Len(s) > 1 <=> Tail(s) # <<>>)
           /\ Tail(s) = <<>> => Range(Tail(s)) = {}
<1> DEFINE t == Tail(s)
<1>0. Len(s) \in Nat /\ Len(s) # 0 /\ DOMAIN s = 1 .. Len(s)
  BY SMT
<1>1. /\ Head(s) \in S /\ t \in Seq(S) /\ Len(t) = Len(s) - 1
      /\ \A i \in 1 .. Len(t) : t[i] = s[i + 1]
  BY SMT
<1>2. Head(s) = s[1]
  BY <1>0, SMT
<1>3. DOMAIN t = 1 .. Len(t)
  BY <1>1, SMT
<1> HIDE DEF t
<1>4. \A x \in Range(s) : x \in {Head(s)} \cup Range(t)
  <2>1. ASSUME NEW k \in DOMAIN s PROVE s[k] \in {Head(s)} \cup Range(t)
    <3>1. CASE k = 1
      BY <1>2, <3>1
    <3>2. CASE k # 1
      <4>1. k - 1 \in 1 .. Len(t) /\ (k - 1) + 1 = k
        BY <1>0, <1>1, <3>2, SMT
      <4>2. s[k] = t[k - 1]
        BY <1>1, <4>1
      <4>3. QED
        BY <1>3, <4>1, <4>2 DEF Range
    <3>3. QED
      BY <3>1, <3>2
  <2>2. QED
    BY <2>1 DEF Range
<1>5. Head(s) \in Range(s)
  BY <1>0, <1>2, SMT DEF Range
<1>6. \A x \in Range(t) : x \in Range(s)
  <2>1. ASSUME NEW k \in DOMAIN t PROVE t[k] \in Range(s)
    <3>1. k + 1 \in DOMAIN s /\ t[k] = s[k + 1]
      BY <1>0, <1>1, <1>3, SMT
    <3>2. QED
      BY <3>1 DEF Range
  <2>2. QED
    BY <2>1 DEF Range
<1>7. Range(s) = {Head(s)} \cup Range(t)
  BY <1>4, <1>5, <1>6
<1>8. Len(s) > 1 <=> t # <<>>
  BY <1>0, <1>1, SMT
<1>9. t = <<>> => Range(t) = {}
  BY SMT DEF Range
<1>10. QED
  BY <1>0, <1>1, <1>5, <1>7, <1>8, <1>9, SMT DEF t

\* Short lists of writes.
LEMMA Lists ==
    /\ <<>> \in Seq(Writes) /\ Range(<<>>) = {}
    /\ \A a \in Writes : <<a>> \in Seq(Writes) /\ Range(<<a>>) = {a}
    /\ \A a, b \in Writes : <<a, b>> \in Seq(Writes) /\ Range(<<a, b>>) = {a, b}
    /\ \A a, b, c, d \in Writes : <<a, b, c, d>> \in Seq(Writes) /\ Range(<<a, b, c, d>>) = {a, b, c, d}
<1>1. <<>> \in Seq(Writes) /\ Range(<<>>) = {}
  BY SMT DEF Range
<1>2. ASSUME NEW a \in Writes PROVE <<a>> \in Seq(Writes) /\ Range(<<a>>) = {a}
  <2>1. DOMAIN <<a>> = {1} /\ <<a>>[1] = a
    BY SMT
  <2>2. QED
    BY <2>1, SMT DEF Range
<1>3. ASSUME NEW a \in Writes, NEW b \in Writes
      PROVE  <<a, b>> \in Seq(Writes) /\ Range(<<a, b>>) = {a, b}
  <2>1. DOMAIN <<a, b>> = {1, 2} /\ <<a, b>>[1] = a /\ <<a, b>>[2] = b
    BY SMT
  <2>2. QED
    BY <2>1, SMT DEF Range
<1>4. ASSUME NEW a \in Writes, NEW b \in Writes, NEW c \in Writes, NEW d \in Writes
      PROVE  <<a, b, c, d>> \in Seq(Writes) /\ Range(<<a, b, c, d>>) = {a, b, c, d}
  <2> DEFINE s == <<a, b, c, d>>
  <2>1. DOMAIN s = {1, 2, 3, 4} /\ s[1] = a /\ s[2] = b /\ s[3] = c /\ s[4] = d
    BY SMT
  <2>2. s \in Seq(Writes)
    BY SMT
  <2> HIDE DEF s
  <2>3. Range(s) = {a, b, c, d}
    BY <2>1 DEF Range
  <2>4. QED
    BY <2>2, <2>3 DEF s
<1>5. QED
  BY <1>1, <1>2, <1>3, <1>4

\* Two lists, one after the other.
LEMMA Joined ==
    ASSUME NEW s \in Seq(Writes), NEW t \in Seq(Writes)
    PROVE  s \o t \in Seq(Writes) /\ Range(s \o t) = Range(s) \cup Range(t)
<1> DEFINE w == s \o t
<1>1. /\ w \in Seq(Writes) /\ Len(w) = Len(s) + Len(t) /\ DOMAIN w = 1 .. Len(w)
      /\ \A i \in 1 .. Len(s) : w[i] = s[i]
      /\ \A i \in 1 .. Len(t) : w[Len(s) + i] = t[i]
  BY SMT
<1>2. /\ DOMAIN s = 1 .. Len(s) /\ DOMAIN t = 1 .. Len(t) /\ Len(s) \in Nat /\ Len(t) \in Nat
  BY SMT
<1> HIDE DEF w
<1>3. \A i \in 1 .. Len(w) : i \in 1 .. Len(s) \/ (i - Len(s) \in 1 .. Len(t) /\ i = Len(s) + (i - Len(s)))
  BY <1>1, <1>2, SMT
<1>4. \A i \in DOMAIN w : w[i] \in Range(s) \cup Range(t)
  <2> TAKE i \in DOMAIN w
  <2>1. CASE i \in 1 .. Len(s)
    BY <2>1, <1>1, <1>2 DEF Range
  <2>2. CASE i - Len(s) \in 1 .. Len(t) /\ i = Len(s) + (i - Len(s))
    <3>1. w[i] = t[i - Len(s)]
      BY <2>2, <1>1
    <3>2. QED
      BY <3>1, <2>2, <1>2 DEF Range
  <2>3. QED
    BY <2>1, <2>2, <1>1, <1>3
<1>5. \A i \in DOMAIN s : i \in DOMAIN w /\ w[i] = s[i]
  BY <1>1, <1>2, SMT
<1>6. \A i \in DOMAIN t : Len(s) + i \in DOMAIN w /\ w[Len(s) + i] = t[i]
  BY <1>1, <1>2, SMT
<1>7. Range(w) \subseteq Range(s) \cup Range(t)
  BY <1>4 DEF Range
<1>8. Range(s) \subseteq Range(w)
  BY <1>5 DEF Range
<1>9. Range(t) \subseteq Range(w)
  BY <1>6 DEF Range
<1>10. QED
  BY <1>1, <1>7, <1>8, <1>9 DEF w

\* A plan with one more write in front.
LEMMA Led ==
    ASSUME NEW a \in Writes, NEW s \in Seq(Writes)
    PROVE  /\ <<a>> \o s \in Seq(Writes) /\ <<a>> \o s # <<>>
           /\ Range(<<a>> \o s) = {a} \cup Range(s)
           /\ Head(<<a>> \o s) = a /\ Tail(<<a>> \o s) = s /\ Len(<<a>> \o s) = Len(s) + 1
<1>1. <<a>> \in Seq(Writes) /\ Range(<<a>>) = {a}
  BY Lists
<1>2. <<a>> \o s \in Seq(Writes) /\ Range(<<a>> \o s) = {a} \cup Range(s)
  BY <1>1, Joined
<1>3. a \in Range(<<a>> \o s) /\ Range(<<>>) = {}
  BY <1>2, Lists
<1>4. Head(<<a>> \o s) = a /\ Tail(<<a>> \o s) = s
  BY SMT
<1>5. Len(<<a>> \o s) = Len(s) + 1
  <2>1. Len(<<a>> \o s) = Len(<<a>>) + Len(s) /\ Len(<<a>>) = 1 /\ Len(s) \in Nat
    BY <1>1, SMT
  <2>2. QED
    BY <2>1, SMT
<1>6. QED
  BY <1>2, <1>3, <1>4, <1>5

\* Nine writes, and what is left of them.
LEMMA Parts ==
    ASSUME NEW s \in Seq(Writes), Len(s) = 9
    PROVE  /\ \A i \in 1 .. 9 : s[i] \in Writes
           /\ SubSeq(s, 1, 9) = s /\ s # <<>>
           /\ \A k \in 1 .. 9 : SubSeq(s, k, 9) \in Seq(Writes) /\ Len(SubSeq(s, k, 9)) = 10 - k
<1>1. \A i \in 1 .. 9 : s[i] \in Writes
  <2>1. ASSUME NEW S, NEW q \in Seq(S), NEW i \in 1 .. Len(q) PROVE q[i] \in S
    BY SMT
  <2>2. QED
    BY <2>1
<1>2. SubSeq(s, 1, Len(s)) = s
  BY SMT
<1>3. s # <<>>
  <2>1. Len(<<>>) = 0
    OBVIOUS
  <2>2. QED
    BY <2>1, SMT
<1>4. ASSUME NEW k \in 1 .. 9
      PROVE  SubSeq(s, k, 9) \in Seq(Writes) /\ Len(SubSeq(s, k, 9)) = 10 - k
  <2>1. \A i \in k .. 9 : s[i] \in Writes
    BY <1>1, SMT
  <2>2. SubSeq(s, k, 9) \in Seq(Writes) /\ Len(SubSeq(s, k, 9)) = IF k <= 9 THEN 9 - k + 1 ELSE 0
    BY <2>1, SMT
  <2>3. QED
    BY <2>2, SMT
<1>5. QED
  BY <1>1, <1>2, <1>3, <1>4

(***************************************************************************)
(* Formatting                                                              *)
(***************************************************************************)
\* The writes of ext2_format after the wipe.
FormatWrites ==
    << W("super", 0, FreshSuper), W("group", 0, FreshGroup),
       W("bb", 0, 0 .. 22), W("ib", 0, 1 .. 11), W("table", 0, <<>>),
       W("inode", 2, DirInode(21)), W("inode", 11, DirInode(22)),
       W("block", 21, FreshRoot), W("block", 22, <<>>) >>

\* The nine writes of a format.
LEMMA FormatWritesAre ==
    /\ FormatWrites \in Seq(Writes) /\ Len(FormatWrites) = 9
    /\ FormatWrites[1] = W("super", 0, FreshSuper) /\ FormatWrites[2] = W("group", 0, FreshGroup)
    /\ FormatWrites[3] = W("bb", 0, 0 .. 22) /\ FormatWrites[4] = W("ib", 0, 1 .. 11)
    /\ FormatWrites[5] = W("table", 0, <<>>)
    /\ FormatWrites[6] = W("inode", 2, DirInode(21)) /\ FormatWrites[7] = W("inode", 11, DirInode(22))
    /\ FormatWrites[8] = W("block", 21, FreshRoot) /\ FormatWrites[9] = W("block", 22, <<>>)
<1> DEFINE a == W("super", 0, FreshSuper)
           b == W("group", 0, FreshGroup)
           c == W("bb", 0, 0 .. 22)
           d == W("ib", 0, 1 .. 11)
           e == W("table", 0, <<>>)
           f == W("inode", 2, DirInode(21))
           g == W("inode", 11, DirInode(22))
           h == W("block", 21, FreshRoot)
           i == W("block", 22, <<>>)
<1>1. 21 \in DataBlocks /\ 22 \in DataBlocks /\ 2 \in Inodes /\ 11 \in Inodes
  BY Ext2Assumption, SMT DEF DataBlocks, Inodes, FIRST_DATA_BLOCK, FirstIno
<1>2. FreshSuper \in SuperRecs /\ FreshGroup \in GroupRecs
  BY Ext2Assumption, SMT DEF FreshSuper, FreshGroup, SuperRecs, GroupRecs
<1>3. 0 .. 22 \in SUBSET (0 .. (NBlocks - 1)) /\ 1 .. 11 \in SUBSET Inodes
  BY Ext2Assumption, SMT DEF Inodes, FIRST_DATA_BLOCK, FirstIno
<1>4. ASSUME NEW u \in DataBlocks PROVE DirInode(u) \in InodeRecs
  <2>1. <<u>> \in [1 .. 1 -> DataBlocks]
    BY SMT
  <2>2. 1 \in 0 .. MaxBlocks
    BY Ext2Assumption, SMT
  <2>3. <<u>> \in BlockLists
    BY <2>1, <2>2, SMT DEF BlockLists
  <2>4. QED
    BY <2>3 DEF DirInode, InodeRecs
<1>5. FreshRoot \in BlockValues /\ <<>> \in BlockValues
  <2>1. [name |-> LostFound, ino |-> LostFoundIno] \in EntryRecs
    BY <1>1, Ext2Assumption DEF EntryRecs, LostFoundIno
  <2>2. QED
    BY <2>1, SMT DEF FreshRoot, BlockValues
<1>6. a \in Writes /\ b \in Writes /\ c \in Writes /\ d \in Writes /\ e \in Writes
  BY <1>2, <1>3, WritesAre
<1>7. f \in Writes /\ g \in Writes /\ h \in Writes /\ i \in Writes
  BY <1>1, <1>4, <1>5, WritesAre
<1>8. FormatWrites = <<a, b, c, d, e, f, g, h, i>>
  BY DEF FormatWrites
<1> HIDE DEF a, b, c, d, e, f, g, h, i
<1>9. /\ FormatWrites \in Seq(Writes) /\ Len(FormatWrites) = 9
      /\ FormatWrites[1] = a /\ FormatWrites[2] = b /\ FormatWrites[3] = c
      /\ FormatWrites[4] = d /\ FormatWrites[5] = e /\ FormatWrites[6] = f
      /\ FormatWrites[7] = g /\ FormatWrites[8] = h /\ FormatWrites[9] = i
  BY <1>6, <1>7, <1>8, SMT
<1>10. QED
  BY <1>9 DEF a, b, c, d, e, f, g, h, i

\* Each brings the format one write further.
LEMMA FormatStep ==
    ASSUME NEW k \in 1 .. 9, DiskType(Disk), Formatted(k, Disk), Apply(FormatWrites[k])
    PROVE  Formatted(k + 1, Disk')
<1> DEFINE w == FormatWrites[k]
<1>1. w \in Writes
  <2>1. FormatWrites \in Seq(Writes) /\ Len(FormatWrites) = 9
    BY FormatWritesAre
  <2>2. QED
    BY <2>1, Parts
<1>2. /\ Disk.super = super /\ Disk.group = group /\ Disk.bb = bb /\ Disk.ib = ib
      /\ Disk.inode = inode /\ Disk.content = content
      /\ Disk'.super = super' /\ Disk'.group = group' /\ Disk'.bb = bb' /\ Disk'.ib = ib'
      /\ Disk'.inode = inode' /\ Disk'.content = content'
  BY DEF Disk
<1>3. 21 \in DataBlocks /\ 22 \in DataBlocks /\ 2 \in Inodes /\ 11 \in Inodes
  BY Ext2Assumption, SMT DEF DataBlocks, Inodes, FIRST_DATA_BLOCK, FirstIno
<1>4. /\ k = 1 => w = W("super", 0, FreshSuper)
      /\ k = 2 => w = W("group", 0, FreshGroup)
      /\ k = 3 => w = W("bb", 0, 0 .. 22)
      /\ k = 4 => w = W("ib", 0, 1 .. 11)
      /\ k = 5 => w = W("table", 0, <<>>)
      /\ k = 6 => w = W("inode", 2, DirInode(21))
      /\ k = 7 => w = W("inode", 11, DirInode(22))
      /\ k = 8 => w = W("block", 21, FreshRoot)
      /\ k = 9 => w = W("block", 22, <<>>)
  BY FormatWritesAre
<1> HIDE DEF w
<1>5. /\ k = 1 => w.at = "super" /\ w.v = FreshSuper
      /\ k = 2 => w.at = "group" /\ w.v = FreshGroup
      /\ k = 3 => w.at = "bb" /\ w.v = 0 .. 22
      /\ k = 4 => w.at = "ib" /\ w.v = 1 .. 11
      /\ k = 5 => w.at = "table"
      /\ k = 6 => w.at = "inode" /\ w.k = 2 /\ w.v = DirInode(21)
      /\ k = 7 => w.at = "inode" /\ w.k = 11 /\ w.v = DirInode(22)
      /\ k = 8 => w.at = "block" /\ w.k = 21 /\ w.v = FreshRoot
      /\ k = 9 => w.at = "block" /\ w.k = 22 /\ w.v = <<>>
  BY <1>4, SMT DEF W
<1>6. CASE k = 5
  <2>1. /\ super' = super /\ group' = group /\ bb' = bb /\ ib' = ib
        /\ inode' = [i \in Inodes |-> NoInode]
    BY <1>5, <1>6 DEF Apply, Put, Zeroed, w
  <2>2. QED
    BY <1>2, <1>6, <2>1, SMT DEF Formatted
<1>7. CASE k # 5
  <2>1. w.at \notin {"wipe", "table"}
    BY <1>5, <1>7, SMT
  <2>2. /\ super' = IF w.at = "super" THEN w.v ELSE super
        /\ group' = IF w.at = "group" THEN w.v ELSE group
        /\ bb' = IF w.at = "bb" THEN w.v ELSE bb
        /\ ib' = IF w.at = "ib" THEN w.v ELSE ib
        /\ \A i \in Inodes : inode'[i] = IF w.at = "inode" /\ w.k = i THEN w.v ELSE inode[i]
        /\ \A b \in DataBlocks : content'[b] = IF w.at = "block" /\ w.k = b THEN w.v ELSE content[b]
    BY <1>1, <2>1, ApplyIs DEF w
  <2>3. /\ k > 1 => super = FreshSuper
        /\ k > 2 => group = FreshGroup
        /\ k > 3 => bb = 0 .. 22
        /\ k > 4 => ib = 1 .. 11
    BY <1>2 DEF Formatted
  <2>4. /\ k > 5 => \A i \in Inodes : i # 2 /\ i # 11 => inode[i] = NoInode
        /\ k > 6 => inode[2] = DirInode(21)
        /\ k > 7 => inode[11] = DirInode(22)
    BY <1>2 DEF Formatted
  <2>5. k > 8 => content[21] = FreshRoot
    BY <1>2 DEF Formatted
  <2>6. /\ k + 1 > 1 => super' = FreshSuper
        /\ k + 1 > 2 => group' = FreshGroup
    BY <1>5, <2>2, <2>3, SMT
  <2>7. /\ k + 1 > 3 => bb' = 0 .. 22
        /\ k + 1 > 4 => ib' = 1 .. 11
    BY <1>5, <2>2, <2>3, SMTT(20)
  <2>8. k + 1 > 5 => \A i \in Inodes : i # 2 /\ i # 11 => inode'[i] = NoInode
    BY <1>5, <1>7, <2>2, <2>4, SMT
  <2>9. /\ k + 1 > 6 => inode'[2] = DirInode(21)
        /\ k + 1 > 7 => inode'[11] = DirInode(22)
    BY <1>3, <1>5, <1>7, <2>2, <2>4, SMT
  <2>10. k + 1 > 8 => content'[21] = FreshRoot
    BY <1>3, <1>5, <2>2, <2>5, SMT
  <2>11. k + 1 > 9 => content'[22] = <<>>
    BY <1>3, <1>5, <2>2, SMT
  <2>12. QED
    BY <1>2, <2>6, <2>7, <2>8, <2>9, <2>10, <2>11 DEF Formatted
<1>8. QED
  BY <1>6, <1>7

Formatting(P, D) ==
    \/ P = <<W("wipe", 0, <<>>)>> \o FormatWrites
    \/ \E k \in 1 .. 9 : P = SubSeq(FormatWrites, k, 9) /\ Formatted(k, D)

\* What is left of the plan after a write, and the fresh disk at the end.
LEMMA FormattingStep ==
    ASSUME DiskType(Disk), Formatting(plan, Disk), Apply(Head(plan))
    PROVE  /\ plan \in Seq(Writes) /\ plan # <<>>
           /\ Len(plan) > 1 => Formatting(Tail(plan), Disk')
           /\ Len(plan) <= 1 => Formatted(10, Disk')
<1>1. FormatWrites \in Seq(Writes) /\ Len(FormatWrites) = 9 /\ W("wipe", 0, <<>>) \in Writes
  BY FormatWritesAre, WritesAre
<1>2. CASE plan = <<W("wipe", 0, <<>>)>> \o FormatWrites
  <2> DEFINE a == W("wipe", 0, <<>>)
  <2> HIDE DEF a
  <2>1. plan = <<a>> \o FormatWrites /\ a \in Writes
    BY <1>1, <1>2 DEF a
  <2>2. plan \in Seq(Writes) /\ plan # <<>>
    BY <1>1, <2>1, Led
  <2>3. Tail(plan) = FormatWrites /\ Len(plan) = 10
    <3>1. Tail(<<a>> \o FormatWrites) = FormatWrites
      BY <1>1, <2>1, Led
    <3>2. Len(<<a>> \o FormatWrites) = Len(FormatWrites) + 1
      BY <1>1, <2>1, Led
    <3>3. QED
      BY <1>1, <2>1, <3>1, <3>2, SMT
  <2>4. FormatWrites = SubSeq(FormatWrites, 1, 9)
    BY <1>1, Parts
  <2>5. Formatted(1, Disk')
    BY SMT DEF Formatted
  <2>6. 1 \in 1 .. 9
    BY SMT
  <2>7. Formatting(Tail(plan), Disk')
    BY <2>3, <2>4, <2>5, <2>6 DEF Formatting
  <2>8. QED
    BY <2>2, <2>3, <2>7, SMT
<1>3. CASE \E k \in 1 .. 9 : plan = SubSeq(FormatWrites, k, 9) /\ Formatted(k, Disk)
  <2>1. PICK k \in 1 .. 9 : plan = SubSeq(FormatWrites, k, 9) /\ Formatted(k, Disk)
    BY <1>3
  <2>2. k \in 1 .. Len(FormatWrites) /\ 9 \in k .. Len(FormatWrites)
    BY <1>1, SMT
  <2>3. Head(plan) = FormatWrites[k] /\ Tail(plan) = SubSeq(FormatWrites, k + 1, 9)
    BY <1>1, <2>1, <2>2, SMT
  <2>4. plan \in Seq(Writes) /\ Len(plan) = 10 - k
    BY <1>1, <2>1, Parts
  <2>5. plan # <<>>
    BY <2>4, SMT
  <2>6. Formatted(k + 1, Disk')
    BY <2>1, <2>3, FormatStep
  <2>7. ASSUME Len(plan) > 1 PROVE Formatting(Tail(plan), Disk')
    <3>1. k + 1 \in 1 .. 9
      BY <2>4, <2>7, SMT
    <3>2. QED
      BY <2>3, <2>6, <3>1 DEF Formatting
  <2>8. ASSUME Len(plan) <= 1 PROVE Formatted(10, Disk')
    <3>1. k + 1 = 10
      BY <2>4, <2>8, SMT
    <3>2. QED
      BY <2>6, <3>1
  <2>9. QED
    BY <2>4, <2>5, <2>7, <2>8
<1>4. QED
  BY <1>2, <1>3 DEF Formatting

\* ext2_format sets out to do them all.
LEMMA FormatBegins ==
    ASSUME ext2_format
    PROVE  plan' \in Seq(Writes) /\ plan' # <<>> /\ Formatting(plan', Disk) /\ ending' = "format"
<1>1. FormatWrites \in Seq(Writes) /\ Len(FormatWrites) = 9 /\ W("wipe", 0, <<>>) \in Writes
  BY FormatWritesAre, WritesAre
<1> DEFINE sb == [magic |-> TRUE, blocks |-> NBlocks - 23, inodes |-> NInodes - 11]
           gd == [blocks |-> NBlocks - 23, inodes |-> NInodes - 11, dirs |-> 2]
           s == <<W("super", 0, FreshSuper), W("group", 0, FreshGroup)>>
           t == << W("bb", 0, 0 .. 22), W("ib", 0, 1 .. 11), W("table", 0, <<>>),
                   W("inode", 2, DirInode(21)), W("inode", 11, DirInode(22)),
                   W("block", 21, FreshRoot), W("block", 22, <<>>) >>
           o == IF is_ram THEN <<W("wipe", 0, <<>>)>> ELSE <<>>
<1>2. plan' = o \o s \o t /\ ending' = "format"
  <2>1. FIRST_DATA_BLOCK + 2 = 23 /\ 23 - 1 = 22 /\ FIRST_DATA_BLOCK = 21 /\ FIRST_DATA_BLOCK + 1 = 22
        /\ LostFoundIno = 11 /\ RootIno = 2
    BY SMT DEF FIRST_DATA_BLOCK, LostFoundIno, RootIno
  <2>2. QED
    BY <2>1 DEF ext2_format, Begin, Counts, FreshSuper, FreshGroup, FreshRoot
<1>3. s = SubSeq(FormatWrites, 1, 2) /\ t = SubSeq(FormatWrites, 3, 9)
  BY SMT DEF FormatWrites
<1>4. s \in Seq(Writes) /\ t \in Seq(Writes) /\ o \in Seq(Writes)
  <2>1. \A i \in 1 .. 9 : FormatWrites[i] \in Writes
    BY <1>1, Parts
  <2>2. SubSeq(FormatWrites, 1, 2) \in Seq(Writes) /\ SubSeq(FormatWrites, 3, 9) \in Seq(Writes)
    BY <2>1, SMT
  <2>3. o \in Seq(Writes)
    BY <1>1, Lists
  <2> HIDE DEF s, t, o
  <2>4. QED
    BY <1>3, <2>2, <2>3
<1>5. plan' = o \o FormatWrites
  <2> HIDE DEF s, t, o
  <2>1. (o \o s) \o t = o \o (s \o t)
    BY <1>4, SMT
  <2>2. SubSeq(FormatWrites, 1, 2) \o SubSeq(FormatWrites, 2 + 1, 9) = SubSeq(FormatWrites, 1, 9)
    BY <1>1, SMT
  <2>3. SubSeq(FormatWrites, 1, 9) = FormatWrites
    BY <1>1, SMT
  <2>4. s \o t = FormatWrites
    BY <1>3, <2>2, <2>3, SMT
  <2>5. QED
    BY <1>2, <2>1, <2>4
<1>6. CASE is_ram
  <2> DEFINE a == W("wipe", 0, <<>>)
  <2>1. plan' = <<a>> \o FormatWrites
    BY <1>5, <1>6
  <2>2. Formatting(plan', Disk)
    BY <2>1 DEF Formatting
  <2> HIDE DEF a
  <2>3. a \in Writes
    BY <1>1 DEF a
  <2>4. QED
    BY <1>1, <1>2, <2>1, <2>2, <2>3, Led
<1>7. CASE ~is_ram
  <2>1. plan' = FormatWrites
    BY <1>1, <1>5, <1>7, SMT
  <2>2. FormatWrites = SubSeq(FormatWrites, 1, 9) /\ FormatWrites # <<>>
    BY <1>1, Parts
  <2>3. Formatted(1, Disk) /\ 1 \in 1 .. 9
    BY SMT DEF Formatted
  <2>4. QED
    BY <1>1, <1>2, <2>1, <2>2, <2>3 DEF Formatting
<1>8. QED
  BY <1>6, <1>7

(***************************************************************************)
(* Where a plan leads                                                      *)
(***************************************************************************)
\* The writes P turn the disk D into T: no place is written twice with different
\* values, and what they do not write is there already.
WritesTo(P, T) ==
    \A w \in Range(P) :
      /\ w.at \notin {"wipe", "table"}
      /\ w.at = "super" => w.v = T.super
      /\ w.at = "group" => w.v = T.group
      /\ w.at = "bb" => w.v = T.bb
      /\ w.at = "ib" => w.v = T.ib
      /\ w.at = "inode" => w.v = T.inode[w.k]
      /\ w.at = "block" => w.v = T.content[w.k]

Pending(P, at, k) == \E w \in Range(P) : w.at = at /\ w.k = k

Leads(P, D, T) ==
    /\ WritesTo(P, T)
    /\ D.super = T.super \/ Pending(P, "super", 0)
    /\ D.group = T.group \/ Pending(P, "group", 0)
    /\ D.bb = T.bb \/ Pending(P, "bb", 0)
    /\ D.ib = T.ib \/ Pending(P, "ib", 0)
    /\ \A i \in Inodes : D.inode[i] = T.inode[i] \/ Pending(P, "inode", i)
    /\ \A b \in DataBlocks : D.content[b] = T.content[b] \/ Pending(P, "block", b)

\* The first of them brings the disk nearer to T.
LEMMA LeadsStep ==
    ASSUME NEW T, plan \in Seq(Writes), plan # <<>>, DiskType(Disk),
           Leads(plan, Disk, T), Apply(Head(plan))
    PROVE  Leads(Tail(plan), Disk', T)
<1> DEFINE w == Head(plan)
           P == Tail(plan)
<1>1. w \in Writes /\ Range(plan) = {w} \cup Range(P)
  BY FirstWrite
<1>2. WritesTo(plan, T)
  BY DEF Leads
<1> HIDE DEF w, P
<1>3. WritesTo(P, T)
  BY <1>1, <1>2 DEF WritesTo
<1>4. /\ w.at \notin {"wipe", "table"}
      /\ w.at = "super" => w.v = T.super
      /\ w.at = "group" => w.v = T.group
      /\ w.at = "bb" => w.v = T.bb
      /\ w.at = "ib" => w.v = T.ib
      /\ w.at = "inode" => w.v = T.inode[w.k]
      /\ w.at = "block" => w.v = T.content[w.k]
  BY <1>1, <1>2 DEF WritesTo
<1>5. \A at, k : Pending(plan, at, k) => Pending(P, at, k) \/ (w.at = at /\ w.k = k)
  BY <1>1 DEF Pending
<1>6. /\ super' = IF w.at = "super" THEN w.v ELSE super
      /\ group' = IF w.at = "group" THEN w.v ELSE group
      /\ bb' = IF w.at = "bb" THEN w.v ELSE bb
      /\ ib' = IF w.at = "ib" THEN w.v ELSE ib
      /\ \A i \in Inodes : inode'[i] = IF w.at = "inode" /\ w.k = i THEN w.v ELSE inode[i]
      /\ \A b \in DataBlocks : content'[b] = IF w.at = "block" /\ w.k = b THEN w.v ELSE content[b]
  BY <1>1, <1>4, ApplyIs DEF w
<1>7. /\ Disk.super = super /\ Disk.group = group /\ Disk.bb = bb /\ Disk.ib = ib
      /\ Disk.inode = inode /\ Disk.content = content
      /\ Disk'.super = super' /\ Disk'.group = group' /\ Disk'.bb = bb' /\ Disk'.ib = ib'
      /\ Disk'.inode = inode' /\ Disk'.content = content'
  BY DEF Disk
<1>8. /\ super = T.super \/ Pending(plan, "super", 0)
      /\ group = T.group \/ Pending(plan, "group", 0)
      /\ bb = T.bb \/ Pending(plan, "bb", 0)
      /\ ib = T.ib \/ Pending(plan, "ib", 0)
      /\ \A i \in Inodes : inode[i] = T.inode[i] \/ Pending(plan, "inode", i)
      /\ \A b \in DataBlocks : content[b] = T.content[b] \/ Pending(plan, "block", b)
  BY <1>7 DEF Leads
<1>9. /\ super' = T.super \/ Pending(P, "super", 0)
      /\ group' = T.group \/ Pending(P, "group", 0)
      /\ bb' = T.bb \/ Pending(P, "bb", 0)
      /\ ib' = T.ib \/ Pending(P, "ib", 0)
  BY <1>4, <1>5, <1>6, <1>8
<1>10. \A i \in Inodes : inode'[i] = T.inode[i] \/ Pending(P, "inode", i)
  BY <1>4, <1>5, <1>6, <1>8
<1>11. \A b \in DataBlocks : content'[b] = T.content[b] \/ Pending(P, "block", b)
  BY <1>4, <1>5, <1>6, <1>8
<1>12. Leads(P, Disk', T)
  BY <1>3, <1>7, <1>9, <1>10, <1>11 DEF Leads
<1>13. QED
  BY <1>12 DEF P

\* With nothing left to write the disk is T.
LEMMA LeadsEnd ==
    ASSUME NEW D, NEW T, IsDisk(D), IsDisk(T), Leads(<<>>, D, T)
    PROVE  D = T
<1>1. \A at, k : ~Pending(<<>>, at, k)
  BY SMT DEF Pending, Range
<1>2. /\ D.super = T.super /\ D.group = T.group /\ D.bb = T.bb /\ D.ib = T.ib
      /\ \A i \in Inodes : D.inode[i] = T.inode[i]
      /\ \A b \in DataBlocks : D.content[b] = T.content[b]
  BY <1>1 DEF Leads
<1>3. /\ D.inode \in [Inodes -> InodeRecs] /\ T.inode \in [Inodes -> InodeRecs]
      /\ D.content \in [DataBlocks -> BlockValues] /\ T.content \in [DataBlocks -> BlockValues]
  BY DEF IsDisk, DiskType
<1>4. D.inode = T.inode
  BY <1>2, <1>3, SMT
<1>5. D.content = T.content
  <2>1. \A b \in DataBlocks : D.content[b] = T.content[b]
    BY <1>2
  <2>2. D.content \in [DataBlocks -> BlockValues] /\ T.content \in [DataBlocks -> BlockValues]
    BY <1>3
  <2>3. QED
    BY <2>1, <2>2, SMT
<1>6. QED
  BY <1>2, <1>4, <1>5 DEF IsDisk

\* A write that leaves all but the inode concerned and its entry alone.
Harmless(B, w, nm, ino, dir) ==
    /\ w.at \notin {"wipe", "table"}
    /\ w.at = "inode" => w.k = ino \/ w.v = B.inode[w.k]
    /\ w.at = "block" =>
         IF dir # 0 /\ w.k = B.inode[dir].blks[1] THEN w.v = Entered(B, nm, ino, dir)
         ELSE \A i \in Inodes : i # ino => w.k \notin OwnedIn(B, i)

\* A harmless write leaves the disk near what it was.
LEMMA HarmlessStep ==
    ASSUME NEW B, NEW pa, NEW nm, NEW ino, NEW dir, SoundDisk(B), Concerns(B, pa, nm, ino, dir),
           Near(B, Disk, nm, ino, dir), DiskType(Disk),
           NEW w \in Writes, Harmless(B, w, nm, ino, dir), Apply(w)
    PROVE  Near(B, Disk', nm, ino, dir)
<1>1. /\ \A i \in Inodes : inode'[i] = IF w.at = "inode" /\ w.k = i THEN w.v ELSE inode[i]
      /\ \A b \in DataBlocks : content'[b] = IF w.at = "block" /\ w.k = b THEN w.v ELSE content[b]
  BY ApplyIs DEF Harmless
<1>2. /\ Disk.inode = inode /\ Disk.content = content
      /\ Disk'.inode = inode' /\ Disk'.content = content'
  BY DEF Disk
<1>3. \A i \in Inodes : i # ino => inode[i] = B.inode[i] /\ inode'[i] = B.inode[i]
  BY <1>1, <1>2 DEF Near, Harmless
<1>4. ASSUME NEW i \in Inodes, i # ino, i # dir, NEW b \in OwnedIn(B, i)
      PROVE  content'[b] = B.content[b]
  <2>1. b \in DataBlocks
    BY <1>4, OwnBlocks DEF SoundDisk
  <2>2. content[b] = B.content[b]
    BY <1>2, <1>4 DEF Near
  <2>3. dir # 0 => b # B.inode[dir].blks[1]
    <3>1. ASSUME dir # 0 PROVE dir \in Inodes /\ B.inode[dir].blks[1] \in OwnedIn(B, dir)
      BY <3>1, OwnBlocks DEF Concerns, IsDirIn, SoundDisk, DirsSound
    <3>2. QED
      BY <1>4, <3>1 DEF SoundDisk, BlocksSound
  <2>4. ~(w.at = "block" /\ w.k = b)
    BY <1>4, <2>3 DEF Harmless
  <2>5. QED
    BY <1>1, <2>1, <2>2, <2>4
<1>5. ASSUME dir # 0 PROVE EntriesIn(Disk', dir) \in {EntriesIn(B, dir), Entered(B, nm, ino, dir)}
  <2>1. dir \in Inodes /\ B.inode[dir].mode = "dir" /\ dir # ino
    BY <1>5 DEF Concerns, IsDirIn
  <2>2. B.inode[dir].blks[1] \in DataBlocks /\ B.inode[dir].blks[1] \in OwnedIn(B, dir)
    BY <2>1, OwnBlocks DEF SoundDisk, DirsSound
  <2> DEFINE b == B.inode[dir].blks[1]
  <2>3. EntriesIn(Disk', dir) = content'[b] /\ EntriesIn(Disk, dir) = content[b]
    BY <1>2, <1>3, <2>1 DEF EntriesIn
  <2>4. content[b] \in {EntriesIn(B, dir), Entered(B, nm, ino, dir)}
    BY <1>5, <2>3 DEF Near
  <2>5. content'[b] = content[b] \/ content'[b] = Entered(B, nm, ino, dir)
    BY <1>1, <1>5, <2>2 DEF Harmless
  <2>6. QED
    BY <2>3, <2>4, <2>5
<1>6. QED
  BY <1>2, <1>3, <1>4, <1>5 DEF Near

\* The first bb write of Overwrite gives way to a later one.
LEMMA DetourStep ==
    ASSUME NEW T, plan \in Seq(Writes), plan # <<>>, DiskType(Disk), Head(plan).at = "bb",
           Pending(Tail(plan), "bb", 0), Leads(Tail(plan), Disk, T), Apply(Head(plan))
    PROVE  Leads(Tail(plan), Disk', T)
<1>1. Head(plan) \in Writes
  BY FirstWrite
<1>2. /\ super' = super /\ group' = group /\ ib' = ib
      /\ \A i \in Inodes : inode'[i] = inode[i]
      /\ \A b \in DataBlocks : content'[b] = content[b]
  BY <1>1, ApplyIs
<1>3. /\ Disk.super = super /\ Disk.group = group /\ Disk.bb = bb /\ Disk.ib = ib
      /\ Disk.inode = inode /\ Disk.content = content
      /\ Disk'.super = super' /\ Disk'.group = group' /\ Disk'.bb = bb' /\ Disk'.ib = ib'
      /\ Disk'.inode = inode' /\ Disk'.content = content'
  BY DEF Disk
<1>4. QED
  BY <1>2, <1>3 DEF Leads

\* A disk that has not been written is near itself.
LEMMA NearItself ==
    ASSUME NEW B, NEW nm, NEW ino, NEW dir
    PROVE  Near(B, B, nm, ino, dir)
  BY DEF Near

(***************************************************************************)
(* A file                                                                  *)
(***************************************************************************)
\* A write in a plan is pending.
LEMMA PendingIn ==
    ASSUME NEW P
    PROVE  \A at, k, v : W(at, k, v) \in Range(P) => Pending(P, at, k)
<1>1. ASSUME NEW at, NEW k, NEW v PROVE W(at, k, v).at = at /\ W(at, k, v).k = k
  BY DEF W
<1>2. QED
  BY <1>1, SMT DEF Pending

\* Two lists after a write.
LEMMA Leading ==
    ASSUME NEW a \in Writes, NEW s \in Seq(Writes), NEW t \in Seq(Writes)
    PROVE  /\ <<a>> \o s \o t = <<a>> \o (s \o t)
           /\ s \o t \in Seq(Writes) /\ Range(s \o t) = Range(s) \cup Range(t)
<1>1. <<a>> \in Seq(Writes)
  BY Lists
<1>2. <<a>> \o s \o t = <<a>> \o (s \o t)
  BY <1>1, SMT
<1>3. QED
  BY <1>2, Joined

\* The writes of a file's data.
LEMMA FileDataIs ==
    ASSUME NEW bs \in Seq(DataBlocks), NEW d \in Data
    PROVE  /\ FileData(bs, d) \in Seq(Writes)
           /\ Range(FileData(bs, d)) = {W("block", b, d) : b \in Range(bs)}
<1>1. DOMAIN bs = 1 .. Len(bs) /\ Len(bs) \in Nat /\ \A i \in 1 .. Len(bs) : bs[i] \in DataBlocks
  BY SMT
<1>2. \A b \in DataBlocks : W("block", b, d) \in Writes
  BY WritesAre DEF BlockValues
<1>3. FileData(bs, d) = [i \in 1 .. Len(bs) |-> W("block", bs[i], d)]
  BY <1>1 DEF FileData
<1>4. FileData(bs, d) \in Seq(Writes)
  BY <1>1, <1>2, <1>3, SMT
<1>5. Range(FileData(bs, d)) = {W("block", b, d) : b \in Range(bs)}
  BY <1>1, <1>3 DEF Range
<1>6. QED
  BY <1>4, <1>5

\* The counts and the bitmaps.
CommitWrites(db, di, bmap, imap) ==
    {W("super", 0, Plus(super, db, di)), W("group", 0, Plus(group, db, di)),
     W("bb", 0, bmap), W("ib", 0, imap)}

\* The common end of an operation: four writes.
LEMMA CommitIs ==
    ASSUME DiskType(Disk), NEW db \in Int, NEW di \in Int,
           NEW bmap \in SUBSET (0 .. (NBlocks - 1)), NEW imap \in SUBSET Inodes
    PROVE  /\ Commit(db, di, bmap, imap) \in Seq(Writes)
           /\ Range(Commit(db, di, bmap, imap)) = CommitWrites(db, di, bmap, imap)
           /\ Plus(super, db, di) \in SuperRecs /\ Plus(group, db, di) \in GroupRecs
<1>1. super \in SuperRecs /\ group \in GroupRecs
  BY DEF DiskType, Disk
<1>2. Plus(super, db, di) \in SuperRecs /\ Plus(group, db, di) \in GroupRecs
  BY <1>1, PlusIs
<1> DEFINE a == W("super", 0, Plus(super, db, di))
           b == W("group", 0, Plus(group, db, di))
           c == W("bb", 0, bmap)
           d == W("ib", 0, imap)
<1>3. a \in Writes /\ b \in Writes /\ c \in Writes /\ d \in Writes
  BY <1>2, WritesAre
<1>4. Commit(db, di, bmap, imap) = <<a, b>> \o <<c, d>>
  BY DEF Commit, Counts
<1> HIDE DEF a, b, c, d
<1>5. /\ <<a, b>> \in Seq(Writes) /\ Range(<<a, b>>) = {a, b}
      /\ <<c, d>> \in Seq(Writes) /\ Range(<<c, d>>) = {c, d}
  BY <1>3, Lists
<1>6. /\ <<a, b>> \o <<c, d>> \in Seq(Writes)
      /\ Range(<<a, b>> \o <<c, d>>) = Range(<<a, b>>) \cup Range(<<c, d>>)
  BY <1>5, Joined
<1>8. Range(Commit(db, di, bmap, imap)) = {a, b, c, d}
  BY <1>4, <1>5, <1>6
<1>7. QED
  BY <1>2, <1>4, <1>6, <1>8 DEF a, b, c, d, CommitWrites

\* The writes of a file: its data, the counts and bitmaps, its inode.
FileWrites(ino, bs, d, db, di) ==
    {W("block", b, d) : b \in Range(bs)}
      \cup CommitWrites(db, di, (bb \ Range(inode[ino].blks)) \cup Range(bs), ib \cup {ino})
      \cup {W("inode", ino, FileInode(bs))}

\* The plan with these writes after a first one, when there are blocks enough.
FilePlan(a, ino, bs, d, n, db, di) ==
    <<a>> \o FileData(bs, d)
      \o (IF Len(bs) < n THEN <<>>
          ELSE Commit(db, di, (bb \ Range(inode[ino].blks)) \cup Range(bs), ib \cup {ino})
                 \o <<W("inode", ino, FileInode(bs))>>)

\* Those are the writes in it.
LEMMA FilePlanIs ==
    ASSUME SoundDisk(Disk), NEW ino, NEW bs, NEW d, NEW n, TakesBlocks(ino, bs, d, n),
           NEW a \in Writes, NEW db \in Int, NEW di \in Int
    PROVE  LET P == FilePlan(a, ino, bs, d, n, db, di)
           IN  /\ P \in Seq(Writes) /\ P # <<>> /\ Head(P) = a
               /\ Range(P) = {a} \cup Range(Tail(P))
               /\ Range(Tail(P)) \subseteq FileWrites(ino, bs, d, db, di)
               /\ ~(Len(bs) < n) => Range(Tail(P)) = FileWrites(ino, bs, d, db, di)
<1> DEFINE map == (bb \ Range(inode[ino].blks)) \cup Range(bs)
           imap == ib \cup {ino}
           F == FileData(bs, d)
           C == Commit(db, di, map, imap)
           w == W("inode", ino, FileInode(bs))
           X == IF Len(bs) < n THEN <<>> ELSE C \o <<w>>
           P == FilePlan(a, ino, bs, d, n, db, di)
<1>1. /\ ino \in Inodes /\ d \in Data /\ bs \in Seq(DataBlocks) /\ FileInode(bs) \in InodeRecs
  BY DEF TakesBlocks
<1>2. /\ bb \subseteq 0 .. (NBlocks - 1) /\ ib \subseteq Inodes /\ DiskType(Disk)
  BY DEF SoundDisk, DiskType, Disk
<1>3. DataBlocks \subseteq 0 .. (NBlocks - 1) /\ Range(bs) \subseteq DataBlocks
  BY <1>1, Ext2Assumption, SMT DEF DataBlocks, FIRST_DATA_BLOCK, Range
<1>4. map \in SUBSET (0 .. (NBlocks - 1)) /\ imap \in SUBSET Inodes
  BY <1>1, <1>2, <1>3
<1>5. F \in Seq(Writes) /\ Range(F) = {W("block", b, d) : b \in Range(bs)}
  BY <1>1, FileDataIs
<1> HIDE DEF map, imap, F
<1>6. C \in Seq(Writes) /\ Range(C) = CommitWrites(db, di, map, imap)
  BY <1>2, <1>4, CommitIs
<1>7. w \in Writes
  BY <1>1, WritesAre
<1> HIDE DEF C, w
<1>8. <<w>> \in Seq(Writes) /\ Range(<<w>>) = {w} /\ <<>> \in Seq(Writes) /\ Range(<<>>) = {}
  BY <1>7, Lists
<1>9. C \o <<w>> \in Seq(Writes) /\ Range(C \o <<w>>) = Range(C) \cup {w}
  BY <1>6, <1>8, Joined
<1>10. X \in Seq(Writes) /\ Range(X) = IF Len(bs) < n THEN {} ELSE Range(C) \cup {w}
  BY <1>8, <1>9
<1> HIDE DEF X
<1>s. F \in Seq(Writes) /\ X \in Seq(Writes)
  BY <1>5, <1>10
<1> DEFINE G == F \o X
<1>11. <<a>> \o F \o X = <<a>> \o G /\ G \in Seq(Writes) /\ Range(G) = Range(F) \cup Range(X)
  BY <1>s, Leading
<1> HIDE DEF G
<1>12. P = <<a>> \o F \o X
  BY DEF FilePlan, F, X, C, w, map, imap
<1>13. FileWrites(ino, bs, d, db, di) = Range(F) \cup Range(C) \cup {w}
  BY <1>5, <1>6 DEF FileWrites, map, imap, w
<1> HIDE DEF P
<1>14. /\ P \in Seq(Writes) /\ P # <<>> /\ Head(P) = a /\ Tail(P) = G
       /\ Range(P) = {a} \cup Range(G)
  BY <1>11, <1>12, Led
<1>15. QED
  BY <1>10, <1>11, <1>13, <1>14 DEF P

\* The blocks for a file are nobody else's.
LEMMA TakenIsHarmless ==
    ASSUME SoundDisk(Disk), NEW ino, NEW bs, NEW d, NEW n, TakesBlocks(ino, bs, d, n)
    PROVE  \A b \in Range(bs), i \in Inodes : i # ino => b \notin OwnedIn(Disk, i)
<1>1. Range(bs) \cap (bb \ Range(inode[ino].blks)) = {}
  BY DEF TakesBlocks
<1>2. ASSUME NEW i \in Inodes, i # ino, NEW b \in OwnedIn(Disk, i) PROVE b \in bb /\ b \notin OwnedIn(Disk, ino)
  <2>1. ino \in Inodes /\ Disk.bb = bb
    BY DEF TakesBlocks, Disk
  <2>2. QED
    BY <1>2, <2>1 DEF SoundDisk, BlocksSound
<1>3. OwnedIn(Disk, ino) = Range(inode[ino].blks)
  BY DEF OwnedIn, Disk
<1>4. QED
  BY <1>1, <1>2, <1>3

\* They are harmless.
LEMMA FileHarmless ==
    ASSUME SoundDisk(Disk), NEW ino, NEW bs, NEW d, NEW n, TakesBlocks(ino, bs, d, n),
           NEW nm, NEW dir,
           dir # 0 => dir \in Inodes /\ dir # ino /\ inode[dir].blks[1] \in OwnedIn(Disk, dir),
           NEW db, NEW di
    PROVE  \A x \in FileWrites(ino, bs, d, db, di) : Harmless(Disk, x, nm, ino, dir)
<1>1. ASSUME NEW b \in Range(bs) PROVE Harmless(Disk, W("block", b, d), nm, ino, dir)
  <2>1. \A i \in Inodes : i # ino => b \notin OwnedIn(Disk, i)
    BY <1>1, TakenIsHarmless
  <2>2. dir # 0 => b # Disk.inode[dir].blks[1]
    BY <2>1 DEF Disk
  <2>3. QED
    BY <2>1, <2>2 DEF Harmless, W
<1>2. ASSUME NEW bmap, NEW imap, NEW x \in CommitWrites(db, di, bmap, imap)
      PROVE  Harmless(Disk, x, nm, ino, dir)
  <2>1. x.at \in {"super", "group", "bb", "ib"}
    BY <1>2, SMT DEF CommitWrites, W
  <2>2. QED
    BY <2>1 DEF Harmless
<1>3. Harmless(Disk, W("inode", ino, FileInode(bs)), nm, ino, dir)
  BY DEF Harmless, W
<1>4. QED
  BY <1>1, <1>2, <1>3 DEF FileWrites

\* The list Q is those writes and some of other blocks, and T the disk they make.
Ends(Q, S, T, ino, bs, d, db, di) ==
    LET M == FileDisk(ino, bs, d, db, di)
    IN  /\ Range(Q) = S \cup FileWrites(ino, bs, d, db, di)
        /\ T.super = M.super /\ T.group = M.group /\ T.bb = M.bb /\ T.ib = M.ib /\ T.inode = M.inode
        /\ \A x \in S : x.at = "block" /\ x.k \notin Range(bs) /\ x.v = T.content[x.k]
        /\ \A b \in DataBlocks : (\A x \in S : x.k # b) => T.content[b] = M.content[b]

\* They lead there, and the file is as written.
LEMMA FileLeads ==
    ASSUME SoundDisk(Disk), NEW ino, NEW bs, NEW d, NEW n, TakesBlocks(ino, bs, d, n),
           NEW Q, NEW S, NEW T, NEW db, NEW di, Ends(Q, S, T, ino, bs, d, db, di)
    PROVE  /\ Leads(Q, Disk, T) /\ Pending(Q, "bb", 0)
           /\ T.inode[ino] = FileInode(bs) /\ \A b \in Range(bs) : T.content[b] = d
<1> DEFINE M == FileDisk(ino, bs, d, db, di)
           w == W("inode", ino, FileInode(bs))
<1>1. /\ Range(Q) = S \cup FileWrites(ino, bs, d, db, di)
      /\ T.super = M.super /\ T.group = M.group /\ T.bb = M.bb /\ T.ib = M.ib /\ T.inode = M.inode
      /\ \A x \in S : x.at = "block" /\ x.k \notin Range(bs) /\ x.v = T.content[x.k]
      /\ \A b \in DataBlocks : (\A x \in S : x.k # b) => T.content[b] = M.content[b]
  BY DEF Ends
<1>2. /\ M.super = Plus(super, db, di) /\ M.group = Plus(group, db, di)
      /\ M.bb = (bb \ Range(inode[ino].blks)) \cup Range(bs) /\ M.ib = ib \cup {ino}
      /\ M.inode = [inode EXCEPT ![ino] = FileInode(bs)]
      /\ M.content = [b \in DataBlocks |-> IF b \in Range(bs) THEN d ELSE content[b]]
  BY DEF FileDisk
<1> HIDE DEF M
<1>3. /\ Disk.super = super /\ Disk.group = group /\ Disk.bb = bb /\ Disk.ib = ib
      /\ Disk.inode = inode /\ Disk.content = content
  BY DEF Disk
<1>4. ino \in Inodes /\ Range(bs) \subseteq DataBlocks /\ inode \in [Inodes -> InodeRecs]
  <2>1. ino \in Inodes /\ bs \in Seq(DataBlocks)
    BY DEF TakesBlocks
  <2>2. Range(bs) \subseteq DataBlocks
    BY <2>1, SMT DEF Range
  <2>3. inode \in [Inodes -> InodeRecs]
    BY <1>3 DEF SoundDisk, DiskType
  <2>4. QED
    BY <2>1, <2>2, <2>3
<1>5. T.inode[ino] = FileInode(bs) /\ \A i \in Inodes : i # ino => T.inode[i] = inode[i]
  BY <1>1, <1>2, <1>4, SMT
<1>6. /\ \A b \in Range(bs) : T.content[b] = d
      /\ \A b \in DataBlocks : b \notin Range(bs) /\ (\A x \in S : x.k # b) => T.content[b] = content[b]
  BY <1>1, <1>2, <1>4, SMT
<1>7. /\ W("super", 0, T.super) \in Range(Q) /\ W("group", 0, T.group) \in Range(Q)
      /\ W("bb", 0, T.bb) \in Range(Q) /\ W("ib", 0, T.ib) \in Range(Q) /\ w \in Range(Q)
      /\ \A b \in Range(bs) : W("block", b, d) \in Range(Q)
      /\ \A x \in Range(Q) :
            \/ x \in S
            \/ x \in {W("super", 0, T.super), W("group", 0, T.group), W("bb", 0, T.bb), W("ib", 0, T.ib), w}
            \/ \E b \in Range(bs) : x = W("block", b, d)
  BY <1>1, <1>2 DEF FileWrites, CommitWrites
<1>8. /\ Pending(Q, "super", 0) /\ Pending(Q, "group", 0) /\ Pending(Q, "bb", 0)
      /\ Pending(Q, "ib", 0) /\ Pending(Q, "inode", ino)
      /\ \A b \in Range(bs) : Pending(Q, "block", b)
  BY <1>7, PendingIn
<1>9. \A x \in S : Pending(Q, "block", x.k)
  BY <1>1 DEF Pending
<1>10. WritesTo(Q, T)
  <2>1. ASSUME NEW x \in S
        PROVE  x.at = "block" /\ x.v = T.content[x.k]
    BY <1>1
  <2>2. QED
    BY <1>5, <1>6, <1>7, <2>1, SMT DEF WritesTo, W
<1>11. Leads(Q, Disk, T)
  BY <1>3, <1>5, <1>6, <1>8, <1>9, <1>10 DEF Leads
<1>12. QED
  BY <1>5, <1>6, <1>8, <1>11

(***************************************************************************)
(* An operation in flight                                                  *)
(***************************************************************************)
\* The operation at Append(pa, nm) found the sound disk B; the disk D and the
\* writes P still to come leave the rest of B as it was.
Underway(P, D, B, pa, nm, ino, dir) ==
    /\ SoundDisk(B) /\ Concerns(B, pa, nm, ino, dir) /\ Append(pa, nm) \in Paths
    /\ Near(B, D, nm, ino, dir)
    /\ \A w \in Range(P) : Harmless(B, w, nm, ino, dir)

\* The writes P end with the sound disk T; a first write of the block bitmap
\* may be superseded by a later one.
Detour(P, D, T) ==
    P # <<>> /\ Head(P).at = "bb" /\ Pending(Tail(P), "bb", 0) /\ Leads(Tail(P), D, T)

Reaches(P, D, T) == IsDisk(T) /\ SoundDisk(T) /\ (Leads(P, D, T) \/ Detour(P, D, T))
Asked(r) == [kind |-> r.op, data |-> r.data]
Outcome(e, r, t) == IF e = "done" THEN Effect(t, r.path, Asked(r)) ELSE t

InFlight(P, D, e, r, t) ==
    \E B, pa, nm, ino, dir :
      /\ Underway(P, D, B, pa, nm, ino, dir)
      /\ t = TreeOf(B) /\ r.path = Append(pa, nm)
      /\ e \in {"done", "refused"} => \E T : Reaches(P, D, T) /\ TreeOf(T) = Outcome(e, r, t)

\* What the file then holds.
HoldsFile(T, ino, bs, d, r) ==
    /\ bs \in Seq(DataBlocks) /\ T.inode[ino] = FileInode(bs)
    /\ \A b \in Range(bs) : T.content[b] = d
    /\ r.op = "file" /\ r.data = [i \in 1 .. Len(bs) |-> d]

\* So the file is the node that was asked for.
LEMMA FileNode ==
    ASSUME NEW T, NEW ino, NEW bs, NEW d, NEW r, HoldsFile(T, ino, bs, d, r)
    PROVE  NodeOf(T, ino) = Asked(r)
<1>0. /\ bs \in Seq(DataBlocks) /\ T.inode[ino] = FileInode(bs)
      /\ \A b \in Range(bs) : T.content[b] = d
      /\ r.op = "file" /\ r.data = [i \in 1 .. Len(bs) |-> d]
  BY DEF HoldsFile
<1>1. T.inode[ino].mode # "dir" /\ T.inode[ino].blks = bs
  BY <1>0, SMT DEF FileInode
<1>2. DOMAIN bs = 1 .. Len(bs) /\ \A j \in DOMAIN bs : bs[j] \in Range(bs)
  BY <1>0, SMT DEF Range
<1>3. [j \in DOMAIN bs |-> T.content[bs[j]]] = r.data
  BY <1>0, <1>2
<1>4. QED
  BY <1>0, <1>1, <1>3 DEF NodeOf, Asked

\* Between operations a disk that nothing has failed on is sound; during one,
\* either a format is on its way or the operation is in flight.
AtRest ==
    /\ req = NoReq /\ before = <<>> /\ ending = "done"
    /\ super.magic /\ ~dirty => SoundDisk(Disk)

InFormat == req = Req("format", <<>>, <<>>) /\ ending = "format" /\ Formatting(plan, Disk)

InOperation ==
    /\ dirty = FALSE /\ req.op \in {"file", "dir"} /\ (req.op = "dir" => req.data = <<>>)
    /\ ending \in {"done", "full", "refused"} /\ (ending = "refused" => req.op = "dir")
    /\ InFlight(plan, Disk, ending, req, before)

Ext2Inv ==
    /\ is_ram \in BOOLEAN /\ dirty \in BOOLEAN
    /\ DiskType(Disk) /\ plan \in Seq(Writes)
    /\ plan = <<>> => AtRest
    /\ plan # <<>> => InFormat \/ InOperation

(***************************************************************************)
(* Natural numbers and sequences                                           *)
(***************************************************************************)
\* A set of natural numbers has a least element.
LEMMA LeastNatural ==
    ASSUME NEW T, T \subseteq Nat, T # {}
    PROVE  \E m \in T : \A k \in T : m <= k
<1> DEFINE R == OpToRel(<, Nat)
<1>1. IsWellFoundedOn(R, Nat)
  BY NatLessThanWellFounded
<1>2. \A x, y \in Nat : y < x => <<y, x>> \in R
  BY DEF OpToRel
<1> HIDE DEF R
<1>3. PICK m \in T : \A y \in T : ~ (<<y, m>> \in R)
  BY <1>1, WFMin
<1>4. \A k \in T : ~ (k < m)
  BY <1>2, <1>3
<1>5. QED
  BY <1>4, SMT

\* Induction over the natural numbers, with a set in the place of a predicate.
LEMMA SetInduction ==
    ASSUME NEW S, S \subseteq Nat, 0 \in S, \A n \in S : n + 1 \in S
    PROVE  S = Nat
<1> DEFINE T == Nat \ S
<1>1. ASSUME T # {} PROVE FALSE
  <2>1. T \subseteq Nat
    OBVIOUS
  <2> HIDE DEF T
  <2>2. PICK m \in T : \A k \in T : m <= k
    BY <1>1, <2>1, LeastNatural
  <2> USE DEF T
  <2>3. m # 0 /\ m - 1 \in Nat /\ m - 1 \in S
    BY <2>2, SMT
  <2>4. QED
    BY <2>2, <2>3, SMT
<1>2. QED
  BY <1>1

\* Of a set that some number bounds, every rank below its size is taken.
LEMMA NthExists ==
    ASSUME NEW S, NEW m \in Nat, S \subseteq 0 .. (m - 1), NEW i \in 1 .. Cardinality(S)
    PROVE  \E x \in S : Cardinality({y \in S : y < x}) = i - 1
<1> DEFINE Below(x) == {y \in S : y < x}
           T == {x \in Nat : Cardinality(Below(x)) >= i}
<1>0. IsFiniteSet(S) /\ Cardinality(S) \in Nat
  <2>1. S \in SUBSET Nat /\ \A s \in S : s <= m
    BY SMT
  <2>2. IsFiniteSet(S)
    BY <2>1, FS_BoundedSetOfNaturals
  <2>3. QED
    BY <2>2, FS_CardinalityType
<1>1. \A x \in Nat : IsFiniteSet(Below(x)) /\ Cardinality(Below(x)) \in Nat
  <2>1. \A x \in Nat : Below(x) \in SUBSET S
    OBVIOUS
  <2> HIDE DEF Below
  <2>2. QED
    BY <1>0, <2>1, FS_Subset, FS_CardinalityType
<1>2. T \subseteq Nat /\ T # {}
  <2>0. \A y \in S : y < m
    BY SMT
  <2>1. Below(m) = S
    BY <2>0
  <2> HIDE DEF Below
  <2>2. m \in T
    BY <1>0, <2>1, SMT
  <2>3. QED
    BY <2>2
<1> HIDE DEF T
<1>3. PICK t \in T : \A k \in T : t <= k
  BY <1>2, LeastNatural
<1>s. S \subseteq Nat
  BY SMT
<1>4. Below(0) = {}
  <2>1. \A y \in S : ~ (y < 0)
    BY <1>s, SMT
  <2>2. QED
    BY <2>1
<1> USE DEF T
<1> HIDE DEF Below
<1>5. t \in Nat /\ t # 0 /\ Cardinality(Below(t)) >= i
  BY <1>3, <1>4, FS_EmptySet, SMT
<1>6. t - 1 \in Nat /\ t - 1 \notin T /\ Cardinality(Below(t - 1)) < i
  BY <1>1, <1>3, <1>5, SMT
<1>7. Below(t) = IF t - 1 \in S THEN Below(t - 1) \cup {t - 1} ELSE Below(t - 1)
  <2>1. \A y \in S : y < t <=> (y < t - 1 \/ y = t - 1)
    BY <1>5, <1>s, SMT
  <2>2. QED
    BY <2>1 DEF Below
<1>8. t - 1 \notin Below(t - 1)
  BY <1>5, SMT DEF Below
<1>9. t - 1 \in S /\ Cardinality(Below(t)) = Cardinality(Below(t - 1)) + 1
  <2>1. t - 1 \in S
    BY <1>5, <1>6, <1>7
  <2>2. Below(t) = Below(t - 1) \cup {t - 1}
    BY <1>7, <2>1
  <2>3. QED
    BY <1>1, <1>6, <1>8, <2>1, <2>2, FS_AddElement
<1>10. Cardinality(Below(t - 1)) = i - 1
  BY <1>1, <1>5, <1>6, <1>9, SMT
<1>11. QED
  BY <1>9, <1>10 DEF Below

\* Nth picks elements of the set, a different one for each rank.
LEMMA NthIsInjective ==
    ASSUME NEW S, NEW m \in Nat, S \subseteq 0 .. (m - 1)
    PROVE  /\ \A i \in 1 .. Cardinality(S) : Nth(S, i) \in S
           /\ \A i, j \in 1 .. Cardinality(S) : Nth(S, i) = Nth(S, j) => i = j
<1>1. \A i \in 1 .. Cardinality(S) :
         Nth(S, i) \in S /\ Cardinality({y \in S : y < Nth(S, i)}) = i - 1
  <2> TAKE i \in 1 .. Cardinality(S)
  <2>1. \E x \in S : Cardinality({y \in S : y < x}) = i - 1
    BY NthExists
  <2>2. QED
    BY <2>1 DEF Nth
<1>2. ASSUME NEW i \in 1 .. Cardinality(S), NEW j \in 1 .. Cardinality(S), Nth(S, i) = Nth(S, j)
      PROVE  i = j
  <2>1. i - 1 = j - 1
    BY <1>1, <1>2
  <2>2. QED
    BY <2>1, SMT
<1>3. QED
  BY <1>1, <1>2

(***************************************************************************)
(* Sound disks                                                             *)
(***************************************************************************)
\* A list of blocks is a sequence.
LEMMA BlockListsAreSeqs ==
    ASSUME NEW s \in BlockLists
    PROVE  /\ Len(s) \in 0 .. MaxBlocks /\ s \in [1 .. Len(s) -> DataBlocks]
           /\ DOMAIN s = 1 .. Len(s) /\ Range(s) \subseteq DataBlocks
<1>1. s \in Seq(DataBlocks) /\ Len(s) <= MaxBlocks /\ MaxBlocks \in Nat
  BY Ext2Assumption DEF BlockLists
<1>2. QED
  BY <1>1, SMT DEF Range

\* The block of a directory is its own.
LEMMA DirBlock ==
    ASSUME NEW T, SoundDisk(T), NEW d \in Inodes, T.inode[d].mode = "dir"
    PROVE  /\ T.inode[d].blks[1] \in DataBlocks /\ T.inode[d].blks[1] \in OwnedIn(T, d)
           /\ OwnedIn(T, d) = {T.inode[d].blks[1]}
           /\ EntriesIn(T, d) \in Seq(EntryRecs) /\ Len(EntriesIn(T, d)) <= DirSlots
           /\ DOMAIN EntriesIn(T, d) = 1 .. Len(EntriesIn(T, d))
           /\ Len(EntriesIn(T, d)) \in Nat
<1> DEFINE s == T.inode[d].blks
<1>1. s \in BlockLists
  BY DEF SoundDisk, DiskType, InodeRecs
<1>2. Len(s) = 1 /\ EntriesIn(T, d) \in Seq(EntryRecs) /\ Len(EntriesIn(T, d)) <= DirSlots
  BY DEF SoundDisk, DirsSound
<1> HIDE DEF s
<1>3. s \in [1 .. 1 -> DataBlocks]
  BY <1>1, <1>2, BlockListsAreSeqs
<1>4. Range(s) = {s[1]} /\ s[1] \in DataBlocks
  BY <1>3, SMT DEF Range
<1>5. QED
  BY <1>2, <1>4, SMT DEF s, OwnedIn

\* So is each of its entries.
LEMMA DirEntry ==
    ASSUME NEW T, SoundDisk(T), NEW d \in Inodes, T.inode[d].mode = "dir",
           NEW k \in DOMAIN EntriesIn(T, d)
    PROVE  /\ EntriesIn(T, d)[k].ino \in Inodes /\ EntriesIn(T, d)[k].name \in Names
           /\ EntriesIn(T, d)[k].ino # RootIno /\ k \in 1 .. DirSlots
           /\ T.inode[EntriesIn(T, d)[k].ino].mode # "none"
<1>1. /\ EntriesIn(T, d) \in Seq(EntryRecs) /\ k \in 1 .. Len(EntriesIn(T, d))
      /\ Len(EntriesIn(T, d)) \in Nat /\ Len(EntriesIn(T, d)) <= DirSlots
  BY DirBlock
<1>2. EntriesIn(T, d)[k] \in EntryRecs
  BY <1>1, SMT
<1>3. k \in 1 .. DirSlots
  BY <1>1, Ext2Assumption, SMT
<1>4. /\ EntriesIn(T, d)[k].ino # RootIno
      /\ T.inode[EntriesIn(T, d)[k].ino].mode # "none"
  BY DEF SoundDisk, NamesSound, IsDirIn
<1>5. QED
  BY <1>2, <1>3, <1>4 DEF EntryRecs

\* Names are sound on a disk with the inodes and the entries of another where they are.
LEMMA SameNames ==
    ASSUME NEW B, NEW T, NamesSound(B), T.inode = B.inode,
           \A d \in Inodes : IsDirIn(T, d) => IsDirIn(B, d) /\ EntriesIn(T, d) = EntriesIn(B, d)
    PROVE  NamesSound(T)
<1> SUFFICES ASSUME NEW d \in Inodes, NEW e \in Inodes, IsDirIn(T, d), IsDirIn(T, e),
                    NEW k \in DOMAIN EntriesIn(T, d), NEW l \in DOMAIN EntriesIn(T, e)
             PROVE  /\ EntriesIn(T, d)[k].ino # RootIno
                    /\ T.inode[EntriesIn(T, d)[k].ino].mode # "none"
                    /\ EntriesIn(T, d)[k].ino = EntriesIn(T, e)[l].ino => d = e /\ k = l
                    /\ d = e /\ EntriesIn(T, d)[k].name = EntriesIn(T, e)[l].name => k = l
  BY DEF NamesSound
<1>1. /\ IsDirIn(B, d) /\ EntriesIn(T, d) = EntriesIn(B, d)
      /\ IsDirIn(B, e) /\ EntriesIn(T, e) = EntriesIn(B, e)
  OBVIOUS
<1>2. QED
  BY <1>1, SMT DEF NamesSound

(***************************************************************************)
(* Lookups                                                                 *)
(***************************************************************************)
\* A set of paths with the root, and with each path those one name longer,
\* holds every path.
LEMMA PathInduction ==
    ASSUME NEW S, <<>> \in S, \A p \in S \cap Seq(Names) : \A nm \in Names : Append(p, nm) \in S
    PROVE  Seq(Names) \subseteq S
<1> DEFINE L == {m \in Nat : \A p \in Seq(Names) : Len(p) = m => p \in S}
<1>1. 0 \in L
  <2>1. \A p \in Seq(Names) : Len(p) = 0 => p = <<>>
    BY SMT
  <2>2. QED
    BY <2>1
<1>2. ASSUME NEW m \in L PROVE m + 1 \in L
  <2>1. m \in Nat /\ \A p \in Seq(Names) : Len(p) = m => p \in S
    OBVIOUS
  <2>2. ASSUME NEW p \in Seq(Names), Len(p) = m + 1 PROVE p \in S
    <3> DEFINE q == SubSeq(p, 1, m)
    <3>1. q \in Seq(Names) /\ Len(q) = m /\ p[m + 1] \in Names
      BY <2>1, <2>2, SMT
    <3>2. p = Append(q, p[m + 1])
      BY <2>1, <2>2, SMT
    <3> HIDE DEF q
    <3>3. q \in S
      BY <2>1, <3>1
    <3>4. QED
      BY <3>1, <3>2, <3>3
  <2>3. QED
    BY <2>1, <2>2, SMT
<1> HIDE DEF L
<1>3. L = Nat
  <2>1. L \subseteq Nat
    BY DEF L
  <2>2. QED
    BY <1>1, <1>2, <2>1, SetInduction
<1>4. QED
  <2>1. ASSUME NEW p \in Seq(Names) PROVE p \in S
    <3>1. Len(p) \in L
      BY <1>3, SMT
    <3>2. QED
      BY <3>1 DEF L
  <2>2. QED
    BY <2>1

\* A walk of any length exists: the recursive function of lookup_final is one.
LEMMA WalkExists ==
    ASSUME NEW D, NEW path, NEW m \in Nat
    PROVE  \E f : IsWalk(D, path, m, f)
<1> DEFINE S == {j \in Nat : \E f : IsWalk(D, path, j, f)}
<1>1. 0 \in S
  <2>1. IsWalk(D, path, 0, [k \in 0 .. 0 |-> RootIno])
    BY SMT DEF IsWalk
  <2>2. QED
    BY <2>1
<1>2. ASSUME NEW j \in S PROVE j + 1 \in S
  <2>1. PICK f : IsWalk(D, path, j, f)
    OBVIOUS
  <2>2. j \in Nat
    OBVIOUS
  <2> DEFINE v == WalkStep(D, f[j], path[j + 1])
             g == [k \in 0 .. (j + 1) |-> IF k = j + 1 THEN v ELSE f[k]]
  <2> HIDE DEF v
  <2>3. \A k \in 0 .. j : f[k] = IF k = 0 THEN RootIno ELSE WalkStep(D, f[k - 1], path[k])
    BY <2>1 DEF IsWalk
  <2>4. \A k \in 0 .. j : g[k] = f[k]
    BY <2>2, SMT
  <2>5. g[j + 1] = v /\ j + 1 # 0 /\ j \in 0 .. j
    BY <2>2, SMT
  <2>6. DOMAIN g = 0 .. (j + 1) /\ g = [k \in DOMAIN g |-> g[k]]
    OBVIOUS
  <2> HIDE DEF g
  <2>7. ASSUME NEW k \in 0 .. (j + 1)
        PROVE  g[k] = IF k = 0 THEN RootIno ELSE WalkStep(D, g[k - 1], path[k])
    <3>1. CASE k = j + 1
      <4>1. k - 1 = j /\ g[j] = f[j]
        BY <2>2, <2>4, <2>5, <3>1, SMT
      <4>2. QED
        BY <2>5, <3>1, <4>1 DEF v
    <3>2. CASE k # j + 1
      <4>1. k \in 0 .. j /\ (k # 0 => k - 1 \in 0 .. j)
        BY <2>2, <3>2, SMT
      <4>2. QED
        BY <2>3, <2>4, <4>1
    <3>3. QED
      BY <3>1, <3>2
  <2>8. g = [k \in 0 .. (j + 1) |-> IF k = 0 THEN RootIno ELSE WalkStep(D, g[k - 1], path[k])]
    BY <2>6, <2>7
  <2>9. IsWalk(D, path, j + 1, g)
    BY <2>8 DEF IsWalk
  <2>10. QED
    BY <2>2, <2>9, SMT
<1> HIDE DEF S
<1>3. S = Nat
  <2>1. S \subseteq Nat
    BY DEF S
  <2>2. QED
    BY <1>1, <1>2, <2>1, SetInduction
<1>4. QED
  BY <1>3 DEF S

\* Two walks go the same way as far as the names are the same.
LEMMA WalksAgree ==
    ASSUME NEW D, NEW p, NEW q, NEW m \in Nat, NEW n \in Nat, NEW M \in Nat, M <= m, M <= n,
           \A k \in 1 .. M : p[k] = q[k],
           NEW f, IsWalk(D, p, m, f), NEW g, IsWalk(D, q, n, g)
    PROVE  f[M] = g[M]
<1> DEFINE S == {j \in Nat : j <= M => f[j] = g[j]}
<1>1. /\ \A k \in 0 .. m : f[k] = IF k = 0 THEN RootIno ELSE WalkStep(D, f[k - 1], p[k])
      /\ \A k \in 0 .. n : g[k] = IF k = 0 THEN RootIno ELSE WalkStep(D, g[k - 1], q[k])
  BY DEF IsWalk
<1>2. 0 \in S
  BY <1>1, SMT
<1>3. ASSUME NEW j \in S PROVE j + 1 \in S
  <2>1. j \in Nat /\ (j <= M => f[j] = g[j])
    OBVIOUS
  <2>2. CASE j + 1 <= M
    <3>1. /\ j + 1 \in 0 .. m /\ j + 1 \in 0 .. n /\ j + 1 # 0 /\ (j + 1) - 1 = j
          /\ p[j + 1] = q[j + 1] /\ f[j] = g[j]
      BY <2>1, <2>2, SMT
    <3>2. f[j + 1] = WalkStep(D, f[j], p[j + 1])
      BY <1>1, <3>1
    <3>3. g[j + 1] = WalkStep(D, g[j], q[j + 1])
      BY <1>1, <3>1
    <3>4. QED
      BY <2>1, <3>1, <3>2, <3>3, SMT
  <2>3. QED
    BY <2>1, <2>2, SMT
<1> HIDE DEF S
<1>4. S = Nat
  <2>1. S \subseteq Nat
    BY DEF S
  <2>2. QED
    BY <1>2, <1>3, <2>1, SetInduction
<1>5. QED
  BY <1>4, SMT DEF S

\* The result of a lookup is the end of any walk.
LEMMA LookupIs ==
    ASSUME NEW D, NEW path \in Seq(Names), NEW f, IsWalk(D, path, Len(path), f)
    PROVE  Lookup(D, path) = f[Len(path)]
<1> DEFINE g == CHOOSE x : IsWalk(D, path, Len(path), x)
<1>1. IsWalk(D, path, Len(path), g)
  OBVIOUS
<1>2. Lookup(D, path) = g[Len(path)]
  BY DEF Lookup
<1> HIDE DEF g
<1>3. Len(path) \in Nat
  BY SMT
<1>4. QED
  BY <1>1, <1>2, <1>3, WalksAgree, SMT

\* A lookup starts at the root and takes one step for each name.
LEMMA LookupSteps ==
    ASSUME NEW D
    PROVE  /\ Lookup(D, <<>>) = RootIno
           /\ \A p \in Seq(Names) : \A nm \in Names :
                 Lookup(D, Append(p, nm)) = WalkStep(D, Lookup(D, p), nm)
<1>1. Lookup(D, <<>>) = RootIno
  <2>1. PICK f : IsWalk(D, <<>>, 0, f)
    BY WalkExists
  <2>2. Len(<<>>) = 0 /\ <<>> \in Seq(Names)
    BY SMT
  <2>3. f[0] = RootIno
    BY <2>1, SMT DEF IsWalk
  <2>4. QED
    BY <2>1, <2>2, <2>3, LookupIs
<1>2. ASSUME NEW p \in Seq(Names), NEW nm \in Names
      PROVE  Lookup(D, Append(p, nm)) = WalkStep(D, Lookup(D, p), nm)
  <2> DEFINE q == Append(p, nm)
             m == Len(p)
  <2>1. /\ q \in Seq(Names) /\ Len(q) = m + 1 /\ m \in Nat /\ q[m + 1] = nm
        /\ \A k \in 1 .. m : p[k] = q[k]
    BY SMT
  <2> HIDE DEF q
  <2>2. PICK f : IsWalk(D, p, m, f)
    BY <2>1, WalkExists
  <2>3. PICK g : IsWalk(D, q, m + 1, g)
    BY <2>1, WalkExists, SMT
  <2>4. f[m] = g[m]
    <3> HIDE DEF m
    <3>1. m <= m /\ m <= m + 1 /\ m + 1 \in Nat
      BY <2>1, SMT
    <3>2. QED
      BY <2>1, <2>2, <2>3, <3>1, WalksAgree, SMT
  <2>5. g[m + 1] = WalkStep(D, g[m], q[m + 1])
    <3>1. m + 1 \in 0 .. (m + 1) /\ m + 1 # 0 /\ (m + 1) - 1 = m
      BY <2>1, SMT
    <3>2. QED
      BY <2>3, <3>1 DEF IsWalk
  <2>6. Lookup(D, p) = f[m]
    BY <2>2, LookupIs
  <2>7. Lookup(D, q) = g[m + 1]
    BY <2>1, <2>3, LookupIs
  <2>8. QED
    BY <2>1, <2>4, <2>5, <2>6, <2>7 DEF q
<1>3. QED
  BY <1>1, <1>2

\* Paths are sequences of names, up to a length.
LEMMA PathsAre ==
    /\ \A p : p \in Paths <=> p \in Seq(Names) /\ Len(p) <= MaxDepth
    /\ <<>> \in Paths
<1>1. ASSUME NEW p \in Paths PROVE p \in Seq(Names) /\ Len(p) <= MaxDepth
  <2>1. PICK n \in 0 .. MaxDepth : p \in [1 .. n -> Names]
    BY DEF Paths
  <2>2. n \in Nat /\ n <= MaxDepth
    BY Ext2Assumption, SMT
  <2>3. QED
    BY <2>1, <2>2, SMT
<1>2. ASSUME NEW p \in Seq(Names), Len(p) <= MaxDepth PROVE p \in Paths
  <2>1. Len(p) \in 0 .. MaxDepth /\ p \in [1 .. Len(p) -> Names]
    BY <1>2, Ext2Assumption, SMT
  <2>2. QED
    BY <2>1 DEF Paths
<1>3. <<>> \in Paths
  <2>1. <<>> \in Seq(Names) /\ Len(<<>>) = 0 /\ 0 <= MaxDepth
    BY Ext2Assumption, SMT
  <2>2. QED
    BY <1>2, <2>1
<1>4. QED
  BY <1>1, <1>2, <1>3

\* lookup_final is a lookup on the disk as it is, and Tree the tree on it.
LEMMA LookupNow ==
    ASSUME NEW path \in Seq(Names)
    PROVE  lookup_final(path) = Lookup(Disk, path)
<1> DEFINE IsCur(f) ==
        f = [k \in 0 .. Len(path) |->
               IF k = 0 THEN RootIno
               ELSE IF f[k - 1] # 0 /\ inode[f[k - 1]].mode = "dir" /\ Has(Entries(f[k - 1]), path[k])
                      THEN find_in_root(Entries(f[k - 1]), path[k]) ELSE 0]
           cur == CHOOSE f : IsCur(f)
<1>1. lookup_final(path) = cur[Len(path)]
  BY DEF lookup_final
<1>2. \A d : EntriesIn(Disk, d) = Entries(d) /\ Disk.inode[d] = inode[d]
  BY DEF EntriesIn, Entries, Disk
<1>3. \A d, nm : WalkStep(Disk, d, nm) =
           IF d # 0 /\ inode[d].mode = "dir" /\ Has(Entries(d), nm)
             THEN find_in_root(Entries(d), nm) ELSE 0
  BY <1>2, SMT DEF WalkStep
<1>4. \A f : IsWalk(Disk, path, Len(path), f) <=> IsCur(f)
  BY <1>3 DEF IsWalk
<1>5. PICK f : IsCur(f)
  <2>1. Len(path) \in Nat
    BY SMT
  <2>2. QED
    BY <1>4, <2>1, WalkExists
<1>6. IsCur(cur)
  BY <1>5
<1> HIDE DEF cur, IsCur
<1>7. IsWalk(Disk, path, Len(path), cur)
  BY <1>4, <1>6
<1>8. QED
  BY <1>1, <1>7, LookupIs

\* The tree of the current disk.
LEMMA TreeNow == Tree = TreeOf(Disk)
<1>1. \A p \in Paths : lookup_final(p) = Lookup(Disk, p)
  BY PathsAre, LookupNow
<1>2. {q \in Paths : lookup_final(q) # 0} = {q \in Paths : Lookup(Disk, q) # 0}
  BY <1>1
<1>3. Disk.inode = inode /\ Disk.content = content
  BY DEF Disk
<1>4. \A i : NodeOf(Disk, i) =
           IF inode[i].mode = "dir" THEN [kind |-> "dir", data |-> <<>>]
           ELSE [kind |-> "file", data |-> [j \in DOMAIN inode[i].blks |-> content[inode[i].blks[j]]]]
  BY <1>3 DEF NodeOf
<1>5. QED
  BY <1>1, <1>2, <1>4 DEF Tree, TreeOf

\* So it is after a step.
LEMMA TreeNext == Tree' = TreeOf(Disk')
<1>1. (Tree = TreeOf(Disk))'
  BY TreeNow, PTL
<1>2. QED
  BY <1>1

\* A tree has a root.
LEMMA TreeHasRoot ==
    ASSUME NEW D
    PROVE  <<>> \in DOMAIN TreeOf(D) /\ TreeOf(D) # <<>>
<1>1. Lookup(D, <<>>) = RootIno /\ RootIno # 0
  BY LookupSteps, SMT DEF RootIno
<1>2. <<>> \in DOMAIN TreeOf(D)
  BY <1>1, PathsAre DEF TreeOf
<1>3. DOMAIN <<>> = {}
  BY SMT
<1>4. QED
  BY <1>2, <1>3

\* A path is its parent's and a name.
LEMMA SplitPath ==
    ASSUME NEW path \in Paths, path # <<>>
    PROVE  LET pa == path_split_parent(path)[1]
               nm == path_split_parent(path)[2]
           IN  /\ pa \in Seq(Names) /\ nm \in Names /\ Append(pa, nm) = path
               /\ pa \in Paths /\ pa = SubSeq(path, 1, Len(path) - 1)
<1> DEFINE pa == SubSeq(path, 1, Len(path) - 1)
           nm == path[Len(path)]
<1>1. path \in Seq(Names) /\ Len(path) <= MaxDepth
  BY PathsAre
<1>2. Len(path) \in Nat /\ Len(path) # 0
  BY <1>1, SMT
<1>3. nm \in Names
  BY <1>1, <1>2, SMT
<1>4. pa \in Seq(Names) /\ Len(pa) = Len(path) - 1
  <2>1. \A i \in 1 .. (Len(path) - 1) : path[i] \in Names
    BY <1>1, <1>2, SMT
  <2>2. Len(path) - 1 \in Int /\ 1 \in Int
    BY <1>2, SMT
  <2> DEFINE n == Len(path) - 1
  <2> HIDE DEF n
  <2>3. SubSeq(path, 1, n) \in Seq(Names) /\ Len(SubSeq(path, 1, n)) = IF 1 <= n THEN n - 1 + 1 ELSE 0
    BY <2>1, <2>2, SMT DEF n
  <2>4. n \in Nat
    BY <1>2, SMT DEF n
  <2>5. SubSeq(path, 1, n) \in Seq(Names) /\ Len(SubSeq(path, 1, n)) = n
    BY <2>3, <2>4, SMT
  <2>6. QED
    BY <2>5 DEF n
<1>5. Append(pa, nm) = path
  BY <1>1, <1>2, SMT
<1>6. pa \in Paths
  <2>1. Len(pa) <= MaxDepth
    BY <1>1, <1>2, <1>4, Ext2Assumption, SMT
  <2> HIDE DEF pa
  <2>2. QED
    BY <1>4, <2>1, PathsAre
<1>7. path_split_parent(path)[1] = pa /\ path_split_parent(path)[2] = nm
  BY DEF path_split_parent
<1>8. QED
  BY <1>3, <1>4, <1>5, <1>6, <1>7

\* find_in_root takes the first entry of that name.
LEMMA FindIs ==
    ASSUME NEW ents \in Seq(EntryRecs), NEW nm, NEW j \in DOMAIN ents, ents[j].name = nm,
           \A k \in 1 .. (j - 1) : ents[k].name # nm
    PROVE  find_in_root(ents, nm) = ents[j].ino
<1> DEFINE First(x) == ents[x].name = nm /\ \A k \in 1 .. (x - 1) : ents[k].name # nm
           c == CHOOSE x \in DOMAIN ents : First(x)
<1>1. DOMAIN ents = 1 .. Len(ents) /\ Len(ents) \in Nat
  BY SMT
<1>2. c \in DOMAIN ents /\ First(c)
  OBVIOUS
<1>3. find_in_root(ents, nm) = ents[c].ino
  BY DEF find_in_root
<1> HIDE DEF c
<1>4. j \in Nat /\ c \in Nat /\ j >= 1 /\ c >= 1
  BY <1>1, <1>2, SMT
<1>5. ~(j < c) /\ ~(c < j)
  <2>1. j < c => j \in 1 .. (c - 1)
    BY <1>4, SMT
  <2>2. c < j => c \in 1 .. (j - 1)
    BY <1>4, SMT
  <2>3. QED
    BY <1>2, <2>1, <2>2
<1>6. j = c
  BY <1>4, <1>5, SMT
<1>7. QED
  BY <1>3, <1>6

\* When a path has one name.
LEMMA OneName ==
    ASSUME NEW p \in Seq(Names), NEW nm \in Names, NEW x \in Names
    PROVE  Append(p, nm) = <<x>> <=> p = <<>> /\ nm = x
<1>1. <<x>> = Append(<<>>, x) /\ <<>> \in Seq(Names)
  BY SMT
<1>2. ASSUME NEW q \in Seq(Names)
      PROVE  Append(p, nm) = Append(q, x) <=> p = q /\ nm = x
  BY SMT
<1>3. Append(p, nm) = Append(<<>>, x) <=> p = <<>> /\ nm = x
  BY <1>1, <1>2
<1>4. QED
  BY <1>1, <1>3

\* find_in_root finds the first entry with the name.
LEMMA FindEntry ==
    ASSUME NEW ents \in Seq(EntryRecs), NEW nm, Has(ents, nm)
    PROVE  \E j \in DOMAIN ents :
              /\ ents[j].name = nm /\ find_in_root(ents, nm) = ents[j].ino
              /\ \A k \in 1 .. (j - 1) : ents[k].name # nm
<1> DEFINE S == {k \in DOMAIN ents : ents[k].name = nm}
<1>1. DOMAIN ents = 1 .. Len(ents) /\ Len(ents) \in Nat
  BY SMT
<1>2. S \subseteq Nat /\ S # {}
  BY <1>1, SMT DEF Has
<1> HIDE DEF S
<1>3. PICK j \in S : \A k \in S : j <= k
  BY <1>2, LeastNatural
<1>4. j \in DOMAIN ents /\ ents[j].name = nm /\ j \in 1 .. Len(ents)
  BY <1>1, <1>3 DEF S
<1>5. ASSUME NEW k \in 1 .. (j - 1) PROVE ents[k].name # nm
  <2>1. k \in 1 .. Len(ents) /\ ~(j <= k)
    BY <1>1, <1>4, SMT
  <2>2. k \notin S
    BY <1>3, <2>1
  <2>3. QED
    BY <1>1, <2>1, <2>2 DEF S
<1>6. find_in_root(ents, nm) = ents[j].ino
  BY <1>4, <1>5, FindIs
<1>7. QED
  BY <1>4, <1>5, <1>6

\* With one more entry, the names that were there are found where they were.
LEMMA FindInAppend ==
    ASSUME NEW s \in Seq(EntryRecs), NEW new \in EntryRecs, NEW nm
    PROVE  /\ Has(s, nm) => Has(Append(s, new), nm) /\ find_in_root(Append(s, new), nm) = find_in_root(s, nm)
           /\ ~Has(s, nm) /\ new.name = nm =>
                 Has(Append(s, new), nm) /\ find_in_root(Append(s, new), nm) = new.ino
           /\ ~Has(s, nm) /\ new.name # nm => ~Has(Append(s, new), nm)
<1> DEFINE t == Append(s, new)
<1>1. /\ t \in Seq(EntryRecs) /\ Len(s) \in Nat /\ DOMAIN s = 1 .. Len(s)
      /\ DOMAIN t = 1 .. (Len(s) + 1) /\ t[Len(s) + 1] = new
      /\ \A k \in 1 .. Len(s) : t[k] = s[k]
  BY SMT
<1> HIDE DEF t
<1>2. ASSUME Has(s, nm) PROVE Has(t, nm) /\ find_in_root(t, nm) = find_in_root(s, nm)
  <2>1. PICK j \in DOMAIN s : /\ s[j].name = nm /\ find_in_root(s, nm) = s[j].ino
                              /\ \A k \in 1 .. (j - 1) : s[k].name # nm
    BY <1>2, FindEntry
  <2>2. j \in 1 .. Len(s) /\ j \in DOMAIN t /\ t[j] = s[j] /\ \A k \in 1 .. (j - 1) : k \in 1 .. Len(s)
    BY <1>1, SMT
  <2>3. \A k \in 1 .. (j - 1) : t[k].name # nm
    BY <1>1, <2>1, <2>2
  <2>4. find_in_root(t, nm) = t[j].ino
    BY <1>1, <2>1, <2>2, <2>3, FindIs
  <2>5. QED
    BY <2>1, <2>2, <2>4 DEF Has
<1>3. ASSUME ~Has(s, nm), new.name = nm PROVE Has(t, nm) /\ find_in_root(t, nm) = new.ino
  <2>1. Len(s) + 1 \in DOMAIN t /\ (Len(s) + 1) - 1 = Len(s)
    BY <1>1, SMT
  <2>2. \A k \in 1 .. Len(s) : t[k].name # nm
    BY <1>1, <1>3 DEF Has
  <2>3. find_in_root(t, nm) = t[Len(s) + 1].ino
    BY <1>1, <1>3, <2>1, <2>2, FindIs, SMT
  <2>4. QED
    BY <1>1, <1>3, <2>1, <2>3 DEF Has
<1>4. ASSUME ~Has(s, nm), new.name # nm PROVE ~Has(t, nm)
  <2>1. ASSUME NEW k \in DOMAIN t PROVE t[k].name # nm
    <3>1. CASE k = Len(s) + 1
      BY <1>1, <1>4, <3>1
    <3>2. CASE k # Len(s) + 1
      <4>1. k \in 1 .. Len(s)
        BY <1>1, <3>2, SMT
      <4>2. QED
        BY <1>1, <1>4, <4>1 DEF Has
    <3>3. QED
      BY <3>1, <3>2
  <2>2. QED
    BY <2>1 DEF Has
<1>5. QED
  BY <1>2, <1>3, <1>4 DEF t

\* On a sound disk a step that finds something follows an entry.
LEMMA StepEntry ==
    ASSUME NEW T, SoundDisk(T), NEW d, NEW nm, WalkStep(T, d, nm) # 0, d # 0 => d \in Inodes
    PROVE  /\ d \in Inodes /\ T.inode[d].mode = "dir"
           /\ \E k \in DOMAIN EntriesIn(T, d) :
                 EntriesIn(T, d)[k].name = nm /\ EntriesIn(T, d)[k].ino = WalkStep(T, d, nm)
<1>1. d \in Inodes /\ T.inode[d].mode = "dir" /\ Has(EntriesIn(T, d), nm)
  BY DEF WalkStep
<1>2. WalkStep(T, d, nm) = find_in_root(EntriesIn(T, d), nm)
  BY <1>1 DEF WalkStep
<1>3. EntriesIn(T, d) \in Seq(EntryRecs)
  BY <1>1, DirBlock
<1>4. PICK j \in DOMAIN EntriesIn(T, d) :
         EntriesIn(T, d)[j].name = nm /\ find_in_root(EntriesIn(T, d), nm) = EntriesIn(T, d)[j].ino
  BY <1>1, <1>3, FindEntry, SMT
<1>5. QED
  BY <1>1, <1>2, <1>4

\* A lookup ends at no inode or at one in use.
LEMMA LookupInUse ==
    ASSUME NEW T, SoundDisk(T), NEW p \in Seq(Names), Lookup(T, p) # 0
    PROVE  Lookup(T, p) \in Inodes /\ T.inode[Lookup(T, p)].mode # "none"
<1> DEFINE S == {q \in Seq(Names) : Lookup(T, q) # 0 =>
                    Lookup(T, q) \in Inodes /\ T.inode[Lookup(T, q)].mode # "none"}
<1>1. <<>> \in S
  <2>1. <<>> \in Seq(Names) /\ RootIno \in Inodes
    BY Ext2Assumption, SMT DEF Inodes, RootIno, FirstIno
  <2>2. T.inode[RootIno].mode = "dir"
    BY DEF SoundDisk, DirsSound
  <2>3. QED
    BY <2>1, <2>2, LookupSteps
<1>2. ASSUME NEW q \in S \cap Seq(Names), NEW nm \in Names PROVE Append(q, nm) \in S
  <2>1. Append(q, nm) \in Seq(Names)
    BY SMT
  <2>2. Lookup(T, Append(q, nm)) = WalkStep(T, Lookup(T, q), nm)
    BY LookupSteps
  <2>3. ASSUME WalkStep(T, Lookup(T, q), nm) # 0
        PROVE  /\ WalkStep(T, Lookup(T, q), nm) \in Inodes
               /\ T.inode[WalkStep(T, Lookup(T, q), nm)].mode # "none"
    <3>1. Lookup(T, q) # 0 => Lookup(T, q) \in Inodes
      OBVIOUS
    <3> DEFINE d == Lookup(T, q)
    <3> HIDE DEF d
    <3>2. /\ d \in Inodes /\ T.inode[d].mode = "dir"
          /\ \E k \in DOMAIN EntriesIn(T, d) :
                 EntriesIn(T, d)[k].name = nm /\ EntriesIn(T, d)[k].ino = WalkStep(T, d, nm)
      BY <2>3, <3>1, StepEntry, SMT DEF d
    <3>3. WalkStep(T, d, nm) \in Inodes /\ T.inode[WalkStep(T, d, nm)].mode # "none"
      BY <3>2, DirEntry
    <3>4. QED
      BY <3>3 DEF d
  <2>4. QED
    BY <2>1, <2>2, <2>3
<1> HIDE DEF S
<1>3. Seq(Names) \subseteq S
  BY <1>1, <1>2, PathInduction
<1>4. p \in S
  BY <1>3
<1>5. QED
  BY <1>4 DEF S

\* No inode is found under two paths.
LEMMA OnePath ==
    ASSUME NEW T, SoundDisk(T), NEW p \in Seq(Names), NEW q \in Seq(Names),
           Lookup(T, p) # 0, Lookup(T, p) = Lookup(T, q)
    PROVE  p = q
<1> DEFINE S == {r \in Seq(Names) : \A s \in Seq(Names) :
                    Lookup(T, r) # 0 /\ Lookup(T, r) = Lookup(T, s) => r = s}
<1>0. \A r \in Seq(Names) : r # <<>> =>
         \E r0 \in Seq(Names), nm \in Names : r = Append(r0, nm)
  <2>1. ASSUME NEW r \in Seq(Names), r # <<>>
        PROVE  \E r0 \in Seq(Names), nm \in Names : r = Append(r0, nm)
    <3>1. Len(r) \in Nat /\ Len(r) # 0
      BY <2>1, SMT
    <3>2. /\ SubSeq(r, 1, Len(r) - 1) \in Seq(Names) /\ r[Len(r)] \in Names
          /\ r = Append(SubSeq(r, 1, Len(r) - 1), r[Len(r)])
      BY <3>1, SMT
    <3>3. QED
      BY <3>2
  <2>2. QED
    BY <2>1
\* What the last step of a path to an inode looks like.
<1>e. ASSUME NEW r \in Seq(Names), NEW nm \in Names, Lookup(T, Append(r, nm)) # 0
      PROVE  /\ Lookup(T, r) # 0 /\ IsDirIn(T, Lookup(T, r))
             /\ \E k \in DOMAIN EntriesIn(T, Lookup(T, r)) :
                   /\ EntriesIn(T, Lookup(T, r))[k].name = nm
                   /\ EntriesIn(T, Lookup(T, r))[k].ino = Lookup(T, Append(r, nm))
                   /\ EntriesIn(T, Lookup(T, r))[k].ino # RootIno
  <2>1. Lookup(T, Append(r, nm)) = WalkStep(T, Lookup(T, r), nm)
    BY LookupSteps
  <2>2. Lookup(T, r) # 0
    BY <1>e, <2>1 DEF WalkStep
  <2>3. Lookup(T, r) \in Inodes
    BY <2>2, LookupInUse
  <2> DEFINE d == Lookup(T, r)
             i == Lookup(T, Append(r, nm))
  <2> HIDE DEF d, i
  <2>4. PICK k \in DOMAIN EntriesIn(T, d) : EntriesIn(T, d)[k].name = nm /\ EntriesIn(T, d)[k].ino = i
    BY <1>e, <2>1, <2>3, StepEntry, SMT DEF d, i
  <2>5. T.inode[d].mode = "dir"
    BY <1>e, <2>1, <2>3, StepEntry, SMT DEF d
  <2>6. EntriesIn(T, d)[k].ino # RootIno
    BY <2>3, <2>5, DirEntry DEF d
  <2>7. QED
    BY <2>2, <2>3, <2>4, <2>5, <2>6 DEF d, i, IsDirIn
<1>1. <<>> \in S
  <2>1. ASSUME NEW s \in Seq(Names), Lookup(T, s) = RootIno PROVE s = <<>>
    <3>1. ASSUME NEW s0 \in Seq(Names), NEW nm \in Names, s = Append(s0, nm) PROVE FALSE
      <4>1. RootIno # 0
        BY SMT DEF RootIno
      <4>2. QED
        BY <1>e, <2>1, <3>1, <4>1
    <3>2. QED
      BY <1>0, <3>1
  <2>2. <<>> \in Seq(Names) /\ Lookup(T, <<>>) = RootIno
    BY LookupSteps, SMT
  <2>3. QED
    BY <2>1, <2>2
<1>2. ASSUME NEW r \in S \cap Seq(Names), NEW nm \in Names PROVE Append(r, nm) \in S
  <2>1. r \in Seq(Names) /\ Append(r, nm) \in Seq(Names)
    BY SMT
  <2>2. ASSUME NEW s \in Seq(Names), Lookup(T, Append(r, nm)) # 0,
               Lookup(T, Append(r, nm)) = Lookup(T, s)
        PROVE  Append(r, nm) = s
    <3> DEFINE i == Lookup(T, s)
    <3>1. PICK k \in DOMAIN EntriesIn(T, Lookup(T, r)) :
             /\ EntriesIn(T, Lookup(T, r))[k].name = nm /\ EntriesIn(T, Lookup(T, r))[k].ino = i
             /\ i # RootIno
      BY <1>e, <2>1, <2>2, SMT
    <3>2. IsDirIn(T, Lookup(T, r)) /\ Lookup(T, r) # 0
      BY <1>e, <2>1, <2>2
    <3>3. s # <<>>
      BY <3>1, LookupSteps
    <3>4. PICK s0 \in Seq(Names), nm2 \in Names : s = Append(s0, nm2)
      BY <1>0, <3>3
    <3>5. PICK l \in DOMAIN EntriesIn(T, Lookup(T, s0)) :
             EntriesIn(T, Lookup(T, s0))[l].name = nm2 /\ EntriesIn(T, Lookup(T, s0))[l].ino = i
      BY <1>e, <2>2, <3>4
    <3>6. IsDirIn(T, Lookup(T, s0))
      BY <1>e, <2>2, <3>4
    <3>7. Lookup(T, r) = Lookup(T, s0) /\ k = l
      <4> DEFINE d == Lookup(T, r)
                 e == Lookup(T, s0)
      <4> HIDE DEF d, e, i
      <4>1. d \in Inodes /\ e \in Inodes
        BY <3>2, <3>6 DEF d, e, IsDirIn
      <4>2. EntriesIn(T, d)[k].ino = EntriesIn(T, e)[l].ino
        BY <3>1, <3>5 DEF d, e
      <4>3. k \in DOMAIN EntriesIn(T, d) /\ l \in DOMAIN EntriesIn(T, e) /\ IsDirIn(T, d) /\ IsDirIn(T, e)
        BY <3>1, <3>2, <3>5, <3>6 DEF d, e
      <4>n. NamesSound(T)
        BY DEF SoundDisk
      <4>4. d = e /\ k = l
        BY <4>n, <4>1, <4>2, <4>3, SMT DEF NamesSound
      <4>5. QED
        BY <4>4 DEF d, e
    <3>8. r = s0
      BY <3>2, <3>7
    <3>9. nm = nm2
      BY <3>1, <3>5, <3>7
    <3>10. QED
      BY <3>4, <3>8, <3>9
  <2>3. QED
    BY <2>1, <2>2
<1> HIDE DEF S
<1>3. Seq(Names) \subseteq S
  BY <1>1, <1>2, PathInduction
<1>4. p \in S
  BY <1>3
<1>5. QED
  BY <1>4 DEF S

(***************************************************************************)
(* Trees                                                                   *)
(***************************************************************************)
\* How paths below p grow, one name at a time.
LEMMA UnderSteps ==
    ASSUME NEW p \in Seq(Names)
    PROVE  /\ ~Under(p, p) /\ ~Under(<<>>, p)
           /\ \A r \in Seq(Names) : \A nm \in Names :
                /\ Under(Append(r, nm), p) <=> (Under(r, p) \/ r = p)
                /\ r = p => Append(r, nm) # p
                /\ Under(r, p) => Append(r, nm) # p
           /\ \A r \in Seq(Names) :
                (r = p \/ Under(r, p)) <=> ~(Len(r) < Len(p) \/ SubSeq(r, 1, Len(p)) # p)
<1>1. ~Under(p, p) /\ ~Under(<<>>, p)
  BY SMT DEF Under
<1>2. ASSUME NEW r \in Seq(Names), NEW nm \in Names
      PROVE  /\ Under(Append(r, nm), p) <=> (Under(r, p) \/ r = p)
             /\ r = p => Append(r, nm) # p
             /\ Under(r, p) => Append(r, nm) # p
  <2> DEFINE q == Append(r, nm)
  <2>1. /\ q \in Seq(Names) /\ Len(q) = Len(r) + 1 /\ Len(r) \in Nat /\ Len(p) \in Nat
        /\ \A k \in 1 .. Len(r) : q[k] = r[k]
    BY SMT
  <2> HIDE DEF q
  <2>2. ASSUME Len(p) <= Len(r) PROVE SubSeq(q, 1, Len(p)) = SubSeq(r, 1, Len(p))
    BY <2>1, <2>2, SMT
  <2>3. Len(p) = Len(r) => SubSeq(r, 1, Len(p)) = r
    BY SMT
  <2>4. Under(q, p) => Under(r, p) \/ r = p
    BY <2>1, <2>2, <2>3, SMT DEF Under
  <2>5. Under(r, p) \/ r = p => Under(q, p)
    BY <2>1, <2>2, <2>3, SMT DEF Under
  <2>6. (r = p => q # p) /\ (Under(r, p) => q # p)
    BY <2>1, SMT DEF Under
  <2>7. QED
    BY <2>4, <2>5, <2>6 DEF q
<1>3. ASSUME NEW r \in Seq(Names)
      PROVE  (r = p \/ Under(r, p)) <=> ~(Len(r) < Len(p) \/ SubSeq(r, 1, Len(p)) # p)
  <2>1. Len(r) \in Nat /\ Len(p) \in Nat /\ (Len(p) = Len(r) => SubSeq(r, 1, Len(p)) = r)
    BY SMT
  <2>2. QED
    BY <2>1, SMT DEF Under
<1>4. QED
  BY <1>1, <1>2, <1>3

Alters(B, D, pa, nm, ino, dir) ==
    SoundDisk(B) /\ Concerns(B, pa, nm, ino, dir) /\ Near(B, D, nm, ino, dir)

\* Then a directory other than that inode has the entries it had, and perhaps the new one.
LEMMA NearEntries ==
    ASSUME NEW B, NEW D, NEW pa, NEW nm, NEW ino, NEW dir, Alters(B, D, pa, nm, ino, dir),
           NEW d \in Inodes, d # ino
    PROVE  /\ D.inode[d] = B.inode[d]
           /\ B.inode[d].mode = "dir" =>
                /\ d # dir => EntriesIn(D, d) = EntriesIn(B, d)
                /\ d = dir => EntriesIn(D, d) \in {EntriesIn(B, d), Entered(B, nm, ino, dir)}
                /\ EntriesIn(B, d) \in Seq(EntryRecs)
<1>a. SoundDisk(B) /\ Near(B, D, nm, ino, dir)
  BY DEF Alters
<1>1. D.inode[d] = B.inode[d]
  BY <1>a DEF Near
<1>2. ASSUME B.inode[d].mode = "dir", d # dir PROVE EntriesIn(D, d) = EntriesIn(B, d)
  <2>1. B.inode[d].blks[1] \in OwnedIn(B, d)
    BY <1>a, <1>2, DirBlock
  <2>2. D.content[B.inode[d].blks[1]] = B.content[B.inode[d].blks[1]]
    BY <1>a, <1>2, <2>1 DEF Near
  <2>3. QED
    BY <1>1, <2>2 DEF EntriesIn
<1>3. d = dir => EntriesIn(D, d) \in {EntriesIn(B, d), Entered(B, nm, ino, dir)}
  <2>1. d # 0
    BY Ext2Assumption, SMT DEF Inodes
  <2>2. QED
    BY <1>a, <2>1 DEF Near
<1>4. B.inode[d].mode = "dir" => EntriesIn(B, d) \in Seq(EntryRecs)
  BY <1>a, DirBlock
<1>5. QED
  BY <1>1, <1>2, <1>3, <1>4

\* After the new entry is there, find_in_root finds it under its name and the others as
\* before.
LEMMA EnteredFinds ==
    ASSUME NEW B, NEW pa, NEW nm, NEW ino, NEW dir, SoundDisk(B), dir # 0,
           Concerns(B, pa, nm, ino, dir), NEW x
    PROVE  /\ Has(EntriesIn(B, dir), x) =>
                /\ Has(Entered(B, nm, ino, dir), x)
                /\ find_in_root(Entered(B, nm, ino, dir), x) = find_in_root(EntriesIn(B, dir), x)
           /\ ~Has(EntriesIn(B, dir), x) /\ x # nm => ~Has(Entered(B, nm, ino, dir), x)
           /\ x = nm => /\ Has(Entered(B, nm, ino, dir), x)
                        /\ find_in_root(Entered(B, nm, ino, dir), x) = ino
<1>1. /\ dir \in Inodes /\ B.inode[dir].mode = "dir" /\ ~Has(EntriesIn(B, dir), nm)
      /\ nm \in Names /\ ino \in Inodes
  BY DEF Concerns, IsDirIn
<1>2. EntriesIn(B, dir) \in Seq(EntryRecs)
  BY <1>1, DirBlock
<1> DEFINE s == EntriesIn(B, dir)
           new == [name |-> nm, ino |-> ino]
<1>3. new \in EntryRecs /\ new.name = nm /\ new.ino = ino
  BY <1>1 DEF EntryRecs
<1>4. Entered(B, nm, ino, dir) = Append(s, new)
  BY DEF Entered
<1> HIDE DEF s, new
<1>5. s \in Seq(EntryRecs) /\ ~Has(s, nm)
  BY <1>1, <1>2 DEF s
<1>6. /\ Has(s, x) => Has(Append(s, new), x) /\ find_in_root(Append(s, new), x) = find_in_root(s, x)
      /\ ~Has(s, x) /\ new.name = x => Has(Append(s, new), x) /\ find_in_root(Append(s, new), x) = new.ino
      /\ ~Has(s, x) /\ new.name # x => ~Has(Append(s, new), x)
  BY <1>3, <1>5, FindInAppend
<1>7. QED
  BY <1>3, <1>4, <1>5, <1>6 DEF s

\* A path that does not lead through the one concerned leads where it led.
LEMMA NearLookup ==
    ASSUME NEW B, NEW D, NEW pa, NEW nm, NEW ino, NEW dir, SoundDisk(B),
           Concerns(B, pa, nm, ino, dir), Near(B, D, nm, ino, dir),
           NEW q \in Seq(Names), Lookup(B, q) # 0, q # Append(pa, nm), ~Under(q, Append(pa, nm))
    PROVE  Lookup(D, q) = Lookup(B, q)
<1>n. Alters(B, D, pa, nm, ino, dir)
  BY DEF Alters
<1>f. ASSUME NEW f \in Inodes, f # ino
      PROVE  /\ D.inode[f] = B.inode[f]
             /\ B.inode[f].mode = "dir" =>
                  /\ f # dir => EntriesIn(D, f) = EntriesIn(B, f)
                  /\ f = dir => EntriesIn(D, f) \in {EntriesIn(B, f), Entered(B, nm, ino, dir)}
  BY <1>n, <1>f, NearEntries, SMT
<1>e. ASSUME dir # 0, NEW y, Has(EntriesIn(B, dir), y)
      PROVE  /\ Has(Entered(B, nm, ino, dir), y)
             /\ find_in_root(Entered(B, nm, ino, dir), y) = find_in_root(EntriesIn(B, dir), y)
  BY <1>e, EnteredFinds, SMT
<1> DEFINE path == Append(pa, nm)
           S == {r \in Seq(Names) : Lookup(B, r) # 0 /\ r # path /\ ~Under(r, path) =>
                                      Lookup(D, r) = Lookup(B, r)}
<1>0. pa \in Seq(Names) /\ nm \in Names /\ path \in Seq(Names)
  BY SMT DEF Concerns
<1> HIDE DEF path
<1>1. <<>> \in S
  BY LookupSteps, SMT
<1>2. ASSUME NEW r \in S \cap Seq(Names), NEW x \in Names PROVE Append(r, x) \in S
  <2>1. SUFFICES ASSUME Lookup(B, Append(r, x)) # 0, Append(r, x) # path, ~Under(Append(r, x), path)
                 PROVE  Lookup(D, Append(r, x)) = Lookup(B, Append(r, x))
    BY SMT
  <2> DEFINE d == Lookup(B, r)
  <2>2. /\ Lookup(B, Append(r, x)) = WalkStep(B, d, x)
        /\ Lookup(D, Append(r, x)) = WalkStep(D, Lookup(D, r), x)
    BY LookupSteps
  <2>3. d # 0 /\ B.inode[d].mode = "dir" /\ Has(EntriesIn(B, d), x)
    BY <2>1, <2>2 DEF WalkStep
  <2>4. r # path /\ ~Under(r, path)
    BY <1>0, <2>1, UnderSteps
  <2>5. Lookup(D, r) = d
    BY <2>3, <2>4
  <2>6. d \in Inodes
    BY <2>3, LookupInUse
  <2>7. d # ino
    BY <2>4 DEF Concerns, path
  <2> HIDE DEF d
  <2>8. /\ D.inode[d] = B.inode[d]
        /\ d # dir => EntriesIn(D, d) = EntriesIn(B, d)
        /\ d = dir => EntriesIn(D, d) \in {EntriesIn(B, d), Entered(B, nm, ino, dir)}
    BY <1>f, <2>3, <2>6, <2>7
  <2>9. Has(EntriesIn(D, d), x) /\ find_in_root(EntriesIn(D, d), x) = find_in_root(EntriesIn(B, d), x)
    <3>1. CASE EntriesIn(D, d) = EntriesIn(B, d)
      BY <2>3, <3>1
    <3>2. CASE d = dir /\ EntriesIn(D, d) = Entered(B, nm, ino, dir)
      BY <2>3, <3>2, <1>e
    <3>3. QED
      BY <2>8, <3>1, <3>2
  <2>10. WalkStep(D, d, x) = WalkStep(B, d, x)
    BY <2>3, <2>8, <2>9 DEF WalkStep
  <2>11. QED
    BY <2>2, <2>5, <2>10 DEF d
<1> HIDE DEF S
<1>3. Seq(Names) \subseteq S
  BY <1>1, <1>2, PathInduction
<1>4. q \in S
  BY <1>3
<1>5. QED
  BY <1>4 DEF S, path

\* So what the path leads to is what it was.
LEMMA NearNode ==
    ASSUME NEW B, NEW D, NEW pa, NEW nm, NEW ino, NEW dir, SoundDisk(B),
           Concerns(B, pa, nm, ino, dir), Near(B, D, nm, ino, dir),
           NEW q \in Seq(Names), Lookup(B, q) # 0, q # Append(pa, nm)
    PROVE  NodeOf(D, Lookup(B, q)) = NodeOf(B, Lookup(B, q))
<1> DEFINE i == Lookup(B, q)
<1>1. i \in Inodes /\ i # ino
  BY LookupInUse DEF Concerns
<1> HIDE DEF i
<1>n. Alters(B, D, pa, nm, ino, dir)
  BY DEF Alters
<1>2. D.inode[i] = B.inode[i]
  BY <1>n, <1>1, NearEntries, SMT
<1>3. CASE B.inode[i].mode = "dir"
  BY <1>2, <1>3 DEF NodeOf, i
<1>4. CASE B.inode[i].mode # "dir"
  <2>1. i # dir
    <3>1. i # 0
      BY <1>1, Ext2Assumption, SMT DEF Inodes
    <3>2. QED
      BY <1>4, <3>1 DEF Concerns, IsDirIn
  <2>2. \A j \in DOMAIN B.inode[i].blks : B.inode[i].blks[j] \in OwnedIn(B, i)
    BY DEF OwnedIn, Range
  <2>3. \A j \in DOMAIN B.inode[i].blks : D.content[B.inode[i].blks[j]] = B.content[B.inode[i].blks[j]]
    BY <1>1, <2>1, <2>2 DEF Near
  <2>4. [j \in DOMAIN D.inode[i].blks |-> D.content[D.inode[i].blks[j]]] =
        [j \in DOMAIN B.inode[i].blks |-> B.content[B.inode[i].blks[j]]]
    BY <1>2, <2>3
  <2>5. QED
    BY <1>2, <1>4, <2>4 DEF NodeOf, i
<1>5. QED
  BY <1>3, <1>4

\* A path determines its parent and its last name.
LEMMA LastName ==
    ASSUME NEW r \in Seq(Names), NEW x \in Names, NEW p \in Seq(Names), NEW y \in Names,
           Append(r, x) = Append(p, y)
    PROVE  r = p /\ x = y
<1>1. /\ Len(Append(r, x)) = Len(r) + 1 /\ Append(r, x)[Len(r) + 1] = x
      /\ \A k \in 1 .. Len(r) : Append(r, x)[k] = r[k]
  BY SMT
<1>2. /\ Len(Append(p, y)) = Len(p) + 1 /\ Append(p, y)[Len(p) + 1] = y
      /\ \A k \in 1 .. Len(p) : Append(p, y)[k] = p[k]
  BY SMT
<1>3. Len(r) = Len(p) /\ x = y
  <2>1. Len(r) \in Nat /\ Len(p) \in Nat
    BY SMT
  <2>2. QED
    BY <1>1, <1>2, <2>1, SMT
<1>4. \A k \in 1 .. Len(r) : r[k] = p[k]
  BY <1>1, <1>2, <1>3
<1>5. QED
  BY <1>3, <1>4, SMT

\* When the inode leads nowhere and its entry is there, lookups find it under its
\* path, nothing below, and otherwise what they found.
Arrived(B, T, nm, ino, dir) ==
    /\ T.inode[ino].mode = "dir" => EntriesIn(T, ino) = <<>>
    /\ dir # 0 => EntriesIn(T, dir) = Entered(B, nm, ino, dir)

\* So lookup_final finds the new inode, nothing below it, and otherwise what it found.
LEMMA FinalLookup ==
    ASSUME NEW B, NEW T, NEW pa, NEW nm, NEW ino, NEW dir, SoundDisk(B),
           Concerns(B, pa, nm, ino, dir), Near(B, T, nm, ino, dir), Arrived(B, T, nm, ino, dir),
           NEW q \in Seq(Names)
    PROVE  Lookup(T, q) = IF q = Append(pa, nm) THEN ino
                          ELSE IF Under(q, Append(pa, nm)) THEN 0 ELSE Lookup(B, q)
<1>n. Alters(B, T, pa, nm, ino, dir)
  BY DEF Alters
<1>f. ASSUME NEW f \in Inodes, f # ino
      PROVE  /\ T.inode[f] = B.inode[f]
             /\ B.inode[f].mode = "dir" =>
                  /\ f # dir => EntriesIn(T, f) = EntriesIn(B, f)
                  /\ f = dir => EntriesIn(T, f) \in {EntriesIn(B, f), Entered(B, nm, ino, dir)}
  BY <1>n, <1>f, NearEntries, SMT
<1>e. ASSUME dir # 0, NEW y
      PROVE  /\ Has(EntriesIn(B, dir), y) =>
                   /\ Has(Entered(B, nm, ino, dir), y)
                   /\ find_in_root(Entered(B, nm, ino, dir), y) = find_in_root(EntriesIn(B, dir), y)
             /\ ~Has(EntriesIn(B, dir), y) /\ y # nm => ~Has(Entered(B, nm, ino, dir), y)
             /\ y = nm => /\ Has(Entered(B, nm, ino, dir), y)
                          /\ find_in_root(Entered(B, nm, ino, dir), y) = ino
  BY <1>e, EnteredFinds, SMT
<1> DEFINE path == Append(pa, nm)
           P(r) == Lookup(T, r) = IF r = path THEN ino
                                  ELSE IF Under(r, path) THEN 0 ELSE Lookup(B, r)
           S == {r \in Seq(Names) : P(r)}
<1>0. /\ pa \in Seq(Names) /\ nm \in Names /\ path \in Seq(Names) /\ ino \in Inodes
      /\ path # <<>> /\ pa # path /\ ~Under(pa, path) /\ ino # 0
  <2>1. pa \in Seq(Names) /\ nm \in Names /\ ino \in Inodes
    BY DEF Concerns
  <2>2. path \in Seq(Names) /\ Len(path) = Len(pa) + 1 /\ Len(pa) \in Nat
    BY <2>1, SMT
  <2>3. ino # 0
    BY <2>1, Ext2Assumption, SMT DEF Inodes
  <2>4. QED
    BY <2>1, <2>2, <2>3, SMT DEF Under
<1>p. ASSUME NEW r \in Seq(Names), NEW x \in Names, Append(r, x) = path PROVE r = pa /\ x = nm
  BY <1>0, <1>p, LastName, SMT
<1> HIDE DEF path
<1>1. <<>> \in S
  BY <1>0, LookupSteps, UnderSteps, SMT
<1>2. ASSUME NEW r \in S \cap Seq(Names), NEW x \in Names PROVE Append(r, x) \in S
  <2> DEFINE s == Append(r, x)
             d == Lookup(T, r)
  <2>1. /\ Lookup(B, s) = WalkStep(B, Lookup(B, r), x) /\ Lookup(T, s) = WalkStep(T, d, x)
    BY LookupSteps
  <2>2. /\ s \in Seq(Names) /\ (Under(s, path) <=> (Under(r, path) \/ r = path))
        /\ (r = path => s # path) /\ (Under(r, path) => s # path)
    BY <1>0, UnderSteps, SMT
  <2>p. s = path => r = pa /\ x = nm
    BY <1>p
  <2>q. (r = pa /\ x = nm) => s = path
    BY DEF path
  <2>r. P(r)
    OBVIOUS
  <2> HIDE DEF s
  <2>3. CASE Under(r, path)
    <3>1. d = 0
      BY <1>0, <2>r, <2>3, UnderSteps
    <3>2. WalkStep(T, d, x) = 0
      BY <3>1 DEF WalkStep
    <3>3. QED
      BY <2>1, <2>2, <2>3, <3>2 DEF s
  <2>4. CASE r = path
    <3>1. d = ino
      BY <2>r, <2>4
    <3>2. ~Has(<<>>, x)
      BY SMT DEF Has
    <3>3. WalkStep(T, ino, x) = 0
      BY <3>2 DEF WalkStep, Arrived
    <3>4. QED
      BY <2>1, <2>2, <2>4, <3>1, <3>3 DEF s
  <2>5. CASE r # path /\ ~Under(r, path)
    <3>1. d = Lookup(B, r)
      BY <2>r, <2>5
    <3>2. d # ino
      BY <2>5, <3>1 DEF Concerns, path
    <3>3. CASE d = 0
      <4>1. s # path
        <5>1. r = pa /\ x = nm => d = dir \/ dir = 0
          BY <3>1 DEF Concerns
        <5>2. s = path => Lookup(B, s) = ino \/ dir # 0
          BY DEF Concerns, path
        <5>3. WalkStep(B, 0, x) = 0
          BY DEF WalkStep
        <5>4. QED
          BY <1>0, <2>1, <2>p, <3>1, <3>3, <5>1, <5>2, <5>3
      <4>2. WalkStep(B, 0, x) = 0 /\ WalkStep(T, 0, x) = 0
        BY DEF WalkStep
      <4>3. QED
        BY <2>1, <2>2, <2>5, <3>1, <3>3, <4>1, <4>2 DEF s
    <3>4. CASE d # 0
      <4>1. d \in Inodes
        BY <3>1, <3>4, LookupInUse
      <4>2. /\ T.inode[d] = B.inode[d]
            /\ B.inode[d].mode = "dir" /\ d # dir => EntriesIn(T, d) = EntriesIn(B, d)
        BY <1>f, <3>2, <4>1
      <4>3. CASE d # dir
        <5>1. WalkStep(T, d, x) = WalkStep(B, d, x)
          BY <4>2, <4>3 DEF WalkStep
        <5>2. Lookup(T, s) = Lookup(B, s)
          BY <2>1, <3>1, <5>1
        <5>3. s = path => Lookup(B, s) = ino
          <6>1. s = path => dir = 0
            BY <2>p, <3>1, <4>3 DEF Concerns
          <6>2. QED
            BY <6>1 DEF Concerns, path
        <5>4. QED
          BY <2>2, <2>5, <5>2, <5>3 DEF s
      <4>4. CASE d = dir
        <5>1. dir # 0 /\ B.inode[dir].mode = "dir" /\ EntriesIn(T, dir) = Entered(B, nm, ino, dir)
          BY <3>4, <4>4 DEF Concerns, Arrived, IsDirIn
        <5>2. r = pa
          <6>1. Lookup(B, pa) = dir
            BY <5>1 DEF Concerns
          <6>2. QED
            BY <1>0, <3>1, <3>4, <4>4, <6>1, OnePath
        <5>3. CASE x = nm
          <6>1. Has(EntriesIn(T, dir), x) /\ find_in_root(EntriesIn(T, dir), x) = ino
            BY <5>1, <5>3, <1>e
          <6>2. WalkStep(T, dir, x) = ino
            BY <4>2, <4>4, <5>1, <6>1 DEF WalkStep
          <6>3. s = path
            BY <2>q, <5>2, <5>3
          <6>4. QED
            BY <2>1, <2>2, <4>4, <6>2, <6>3 DEF s
        <5>4. CASE x # nm
          <6>1. s # path
            BY <2>p, <5>4
          <6>2. /\ Has(EntriesIn(B, dir), x) =>
                     /\ Has(EntriesIn(T, dir), x)
                     /\ find_in_root(EntriesIn(T, dir), x) = find_in_root(EntriesIn(B, dir), x)
                /\ ~Has(EntriesIn(B, dir), x) => ~Has(EntriesIn(T, dir), x)
            BY <5>1, <5>4, <1>e
          <6>3. WalkStep(T, dir, x) = WalkStep(B, dir, x)
            BY <4>2, <4>4, <5>1, <6>2 DEF WalkStep
          <6>4. QED
            BY <2>1, <2>2, <2>5, <3>1, <4>4, <6>1, <6>3 DEF s
        <5>5. QED
          BY <5>3, <5>4
      <4>5. QED
        BY <4>3, <4>4
    <3>5. QED
      BY <3>3, <3>4
  <2>6. QED
    BY <2>3, <2>4, <2>5
<1> HIDE DEF S
<1>3. Seq(Names) \subseteq S
  BY <1>1, <1>2, PathInduction
<1>4. q \in S
  BY <1>3
<1>5. QED
  BY <1>4 DEF S, path

\* Every other part of the tree is as it was.
LEMMA NearTree ==
    ASSUME NEW B, NEW D, NEW pa, NEW nm, NEW ino, NEW dir, SoundDisk(B),
           Concerns(B, pa, nm, ino, dir), Near(B, D, nm, ino, dir),
           NEW q \in DOMAIN TreeOf(B), q # Append(pa, nm), ~Under(q, Append(pa, nm))
    PROVE  q \in DOMAIN TreeOf(D) /\ TreeOf(D)[q] = TreeOf(B)[q]
<1>1. q \in Paths /\ Lookup(B, q) # 0 /\ TreeOf(B)[q] = NodeOf(B, Lookup(B, q))
  BY DEF TreeOf
<1>2. q \in Seq(Names)
  BY <1>1, PathsAre
<1>3. Lookup(D, q) = Lookup(B, q)
  BY <1>1, <1>2, NearLookup
<1>4. NodeOf(D, Lookup(B, q)) = NodeOf(B, Lookup(B, q))
  BY <1>1, <1>2, NearNode
<1>5. q \in DOMAIN TreeOf(D) /\ TreeOf(D)[q] = NodeOf(D, Lookup(D, q))
  BY <1>1, <1>3 DEF TreeOf
<1>6. QED
  BY <1>1, <1>3, <1>4, <1>5

\* In the end the tree has changed at the path alone.
LEMMA FinalTree ==
    ASSUME NEW B, NEW T, NEW pa, NEW nm, NEW ino, NEW dir, SoundDisk(B),
           Concerns(B, pa, nm, ino, dir), Near(B, T, nm, ino, dir), Arrived(B, T, nm, ino, dir),
           Append(pa, nm) \in Paths
    PROVE  TreeOf(T) = Effect(TreeOf(B), Append(pa, nm), NodeOf(T, ino))
<1> DEFINE path == Append(pa, nm)
           E == Effect(TreeOf(B), path, NodeOf(T, ino))
<1>0. ino \in Inodes /\ ino # 0
  BY Ext2Assumption, SMT DEF Concerns, Inodes
<1>1. \A q \in Paths : Lookup(T, q) = IF q = path THEN ino ELSE IF Under(q, path) THEN 0 ELSE Lookup(B, q)
  BY PathsAre, FinalLookup, SMT
<1>2. /\ DOMAIN TreeOf(T) = {q \in Paths : Lookup(T, q) # 0}
      /\ TreeOf(T) = [q \in DOMAIN TreeOf(T) |-> TreeOf(T)[q]]
      /\ DOMAIN TreeOf(B) = {q \in Paths : Lookup(B, q) # 0}
      /\ \A q \in DOMAIN TreeOf(T) : TreeOf(T)[q] = NodeOf(T, Lookup(T, q))
      /\ \A q \in DOMAIN TreeOf(B) : TreeOf(B)[q] = NodeOf(B, Lookup(B, q))
  BY DEF TreeOf
<1>3. /\ DOMAIN E = {r \in DOMAIN TreeOf(B) : ~Under(r, path)} \cup {path}
      /\ E = [q \in DOMAIN E |-> E[q]]
      /\ \A q \in DOMAIN E : E[q] = IF q = path THEN NodeOf(T, ino) ELSE TreeOf(B)[q]
  BY DEF Effect
<1>u. path \in Seq(Names) /\ ~Under(path, path)
  BY PathsAre, UnderSteps
<1>w. path \in Paths
  OBVIOUS
<1>n. \A q \in Paths : q # path /\ Lookup(B, q) # 0 => NodeOf(T, Lookup(B, q)) = NodeOf(B, Lookup(B, q))
  BY PathsAre, NearNode
<1> HIDE DEF E, path
<1>4. DOMAIN TreeOf(T) = DOMAIN E
  BY <1>0, <1>1, <1>2, <1>3, <1>u, <1>w
<1>5. ASSUME NEW q \in DOMAIN E PROVE TreeOf(T)[q] = E[q]
  <2>1. CASE q = path
    BY <1>1, <1>2, <1>3, <1>4, <1>w, <2>1
  <2>2. CASE q # path
    <3>1. q \in Paths /\ Lookup(B, q) # 0 /\ ~Under(q, path)
      BY <1>2, <1>3, <2>2
    <3>2. TreeOf(T)[q] = NodeOf(T, Lookup(B, q))
      BY <1>1, <1>2, <1>4, <2>2, <3>1
    <3>3. E[q] = NodeOf(B, Lookup(B, q))
      BY <1>2, <1>3, <2>2, <3>1
    <3>4. QED
      BY <1>n, <2>2, <3>1, <3>2, <3>3
  <2>3. QED
    BY <2>1, <2>2
<1>6. TreeOf(T) = E
  BY <1>2, <1>3, <1>4, <1>5
<1>7. QED
  BY <1>6 DEF E, path

(***************************************************************************)
(* What the operations find                                                *)
(***************************************************************************)
\* alloc_block hands out different free blocks, as many as asked for unless the
\* volume has fewer.
LEMMA AllocBlocks ==
    ASSUME NEW B, NEW n \in Nat
    PROVE  LET bs == alloc_block(B, n)
           IN  /\ Len(bs) \in 0 .. n
               /\ bs \in [1 .. Len(bs) -> FreeBlocks(B)]
               /\ IsInjective(bs)
               /\ Range(bs) \subseteq FreeBlocks(B)
<1> DEFINE S == FreeBlocks(B)
           c == IF n <= Cardinality(S) THEN n ELSE Cardinality(S)
           bs == alloc_block(B, n)
<1>1. S \subseteq 0 .. (NBlocks - 1) /\ NBlocks \in Nat
  BY Ext2Assumption, SMT DEF FreeBlocks, DataBlocks, FIRST_DATA_BLOCK
<1>2. Cardinality(S) \in Nat
  <2>1. S \in SUBSET Nat /\ \A s \in S : s <= NBlocks
    BY <1>1, SMT
  <2> HIDE DEF S
  <2>2. QED
    BY <1>1, <2>1, FS_BoundedSetOfNaturals, FS_CardinalityType
<1>3. bs = [i \in 1 .. c |-> Nth(S, i)]
  BY DEF alloc_block
<1> HIDE DEF S, bs
<1>4. c \in 0 .. n /\ c \in Nat /\ c <= Cardinality(S)
  BY <1>2, SMT
<1>5. \A i \in 1 .. c : i \in 1 .. Cardinality(S)
  BY <1>2, <1>4, SMT
<1> HIDE DEF c
<1>6. /\ \A i \in 1 .. c : Nth(S, i) \in S
      /\ \A i, j \in 1 .. c : Nth(S, i) = Nth(S, j) => i = j
  BY <1>1, <1>5, NthIsInjective
<1>7. bs \in [1 .. c -> S] /\ IsInjective(bs)
  BY <1>3, <1>6 DEF IsInjective
<1>8. Len(bs) = c /\ Range(bs) \subseteq S
  BY <1>4, <1>7, SMT DEF Range
<1>9. QED
  BY <1>4, <1>7, <1>8 DEF bs, S

\* alloc_inode picks a free inode.
LEMMA AllocInode ==
    ASSUME alloc_inode # 0
    PROVE  alloc_inode \in FreeInodes
<1>1. FreeInodes \subseteq 0 .. ((NInodes + 1) - 1) /\ NInodes + 1 \in Nat
  BY Ext2Assumption, SMT DEF FreeInodes, FirstIno
<1>2. FreeInodes # {}
  BY DEF alloc_inode
<1>3. 1 \in 1 .. Cardinality(FreeInodes)
  <2>1. FreeInodes \in SUBSET Nat /\ \A s \in FreeInodes : s <= NInodes + 1
    BY <1>1, SMT
  <2>2. IsFiniteSet(FreeInodes)
    BY <1>1, <2>1, FS_BoundedSetOfNaturals
  <2>3. Cardinality(FreeInodes) \in Nat /\ Cardinality(FreeInodes) # 0
    BY <1>2, <2>2, FS_CardinalityType, FS_EmptySet
  <2>4. QED
    BY <2>3, SMT
<1>4. Nth(FreeInodes, 1) \in FreeInodes
  BY <1>1, <1>3, NthIsInjective
<1>5. QED
  BY <1>2, <1>4 DEF alloc_inode

\* So are the blocks that n calls of alloc_block find when the old ones are free.
LEMMA TakenBlocks ==
    ASSUME NEW ino \in Inodes, ino # RootIno, NEW d \in Data, NEW n \in 0 .. MaxBlocks
    PROVE  TakesBlocks(ino, alloc_block(bb \ Range(inode[ino].blks), n), d, n)
<1> DEFINE B == bb \ Range(inode[ino].blks)
           bs == alloc_block(B, n)
<1>1. n \in Nat /\ n <= MaxBlocks /\ MaxBlocks \in Nat
  BY Ext2Assumption, SMT
<1> HIDE DEF B
<1>2. /\ Len(bs) \in 0 .. n /\ bs \in [1 .. Len(bs) -> FreeBlocks(B)]
      /\ IsInjective(bs) /\ Range(bs) \subseteq FreeBlocks(B)
  BY <1>1, AllocBlocks
<1>3. FreeBlocks(B) \subseteq DataBlocks /\ FreeBlocks(B) \cap B = {}
  BY DEF FreeBlocks
<1> HIDE DEF bs
<1>4. bs \in Seq(DataBlocks) /\ Len(bs) <= MaxBlocks /\ Len(bs) <= n
  BY <1>1, <1>2, <1>3, SMT
<1>5. FileInode(bs) \in InodeRecs
  BY <1>4 DEF FileInode, InodeRecs, BlockLists
<1>6. Range(bs) \cap B = {}
  BY <1>2, <1>3
<1>7. QED
  BY <1>1, <1>2, <1>4, <1>5, <1>6 DEF TakesBlocks, bs, B

\* A name asked for in a directory: what is there already.
Target(pa, nm) ==
    /\ SoundDisk(Disk) /\ pa \in Seq(Names) /\ nm \in Names /\ Append(pa, nm) \in Paths
    /\ IsDirIn(Disk, Lookup(Disk, pa))

\* When the name exists, its inode is in use and its path is the only one to it.
LEMMA TargetExists ==
    ASSUME NEW pa, NEW nm, Target(pa, nm), Has(EntriesIn(Disk, Lookup(Disk, pa)), nm)
    PROVE  LET ino == find_in_root(EntriesIn(Disk, Lookup(Disk, pa)), nm)
           IN  ino # RootIno /\ ino \in ib /\ Concerns(Disk, pa, nm, ino, 0)
<1> DEFINE dir == Lookup(Disk, pa)
           s == EntriesIn(Disk, dir)
           ino == find_in_root(s, nm)
<1>1. /\ SoundDisk(Disk) /\ pa \in Seq(Names) /\ nm \in Names /\ Append(pa, nm) \in Paths
      /\ dir \in Inodes /\ Disk.inode[dir].mode = "dir" /\ IsDirIn(Disk, dir)
  BY DEF Target, IsDirIn
<1>2. Has(s, nm)
  OBVIOUS
<1>3. dir # 0 /\ 0 \notin Inodes
  BY <1>1, SMT DEF Inodes
<1>4. Lookup(Disk, Append(pa, nm)) = ino
  <2>1. Lookup(Disk, Append(pa, nm)) = WalkStep(Disk, dir, nm)
    BY <1>1, LookupSteps
  <2>2. QED
    BY <1>1, <1>2, <1>3, <2>1 DEF WalkStep
<1>5. s \in Seq(EntryRecs)
  BY <1>1 DEF SoundDisk, DirsSound
<1> HIDE DEF s, dir
<1>6. PICK j \in DOMAIN s : ino = s[j].ino
  BY <1>2, <1>5, FindEntry, SMT
<1> HIDE DEF ino
<1>7. ino \in Inodes
  <2>1. s[j] \in EntryRecs
    BY <1>5, SMT
  <2>2. QED
    BY <1>6, <2>1 DEF EntryRecs
<1>8. ino # RootIno /\ Disk.inode[ino].mode # "none"
  BY <1>1, <1>6 DEF SoundDisk, NamesSound, s
<1>9. ino \in ib
  <2>1. Disk.ib = ib
    BY DEF Disk
  <2>2. QED
    BY <1>1, <1>7, <1>8, <2>1 DEF SoundDisk, BlocksSound
<1>10. Append(pa, nm) \in Seq(Names)
  BY <1>1, SMT
<1>11. \A r \in Seq(Names) : Lookup(Disk, r) = ino => r = Append(pa, nm)
  BY <1>1, <1>3, <1>4, <1>7, <1>10, OnePath
<1>12. Concerns(Disk, pa, nm, ino, 0)
  BY <1>1, <1>4, <1>7, <1>11 DEF Concerns
<1>13. QED
  BY <1>8, <1>9, <1>12 DEF ino, s, dir

\* A name that is not there yet, and a free inode for it.
FreeTarget(pa, nm, ino, dir) ==
    /\ Target(pa, nm) /\ dir = Lookup(Disk, pa)
    /\ ~Has(EntriesIn(Disk, dir), nm) /\ ino \in FreeInodes

\* The free inode owns nothing and no path leads to it.
LEMMA FreeTargetIs ==
    ASSUME NEW pa, NEW nm, NEW ino, NEW dir, FreeTarget(pa, nm, ino, dir)
    PROVE  /\ ino \in Inodes /\ ino # RootIno /\ ino \notin ib
           /\ inode[ino].mode = "none" /\ inode[ino].blks = <<>> /\ OwnedIn(Disk, ino) = {}
           /\ IsDirIn(Disk, dir) /\ dir \in Inodes /\ dir # ino /\ dir # 0
           /\ inode[dir].blks[1] \in DataBlocks /\ inode[dir].blks[1] \in OwnedIn(Disk, dir)
           /\ Concerns(Disk, pa, nm, ino, dir)
<1>1. /\ SoundDisk(Disk) /\ pa \in Seq(Names) /\ nm \in Names
      /\ IsDirIn(Disk, dir) /\ dir \in Inodes /\ Disk.inode[dir].mode = "dir"
      /\ dir = Lookup(Disk, pa) /\ ~Has(EntriesIn(Disk, dir), nm) /\ ino \in FreeInodes
  BY DEF FreeTarget, Target, IsDirIn
<1>2. ino \in Inodes /\ ino # RootIno /\ ino \notin ib /\ 0 \notin Inodes
  BY <1>1, SMT DEF FreeInodes, Inodes, RootIno, FirstIno
<1>3. Disk.inode = inode /\ Disk.ib = ib
  BY DEF Disk
<1>4. inode[ino].mode = "none" /\ inode[ino].blks = <<>>
  BY <1>1, <1>2, <1>3 DEF SoundDisk, BlocksSound
<1>5. OwnedIn(Disk, ino) = {}
  BY <1>3, <1>4, SMT DEF OwnedIn, Range
<1>6. dir # ino /\ dir # 0
  BY <1>1, <1>2, <1>3, <1>4
<1>7. inode[dir].blks[1] \in DataBlocks /\ inode[dir].blks[1] \in OwnedIn(Disk, dir)
  BY <1>1, <1>3, DirBlock
<1>8. \A r \in Seq(Names) : Lookup(Disk, r) # ino
  <2>1. ino # 0
    BY <1>2
  <2>2. QED
    BY <1>1, <1>3, <1>4, <2>1, LookupInUse
<1>9. Concerns(Disk, pa, nm, ino, dir)
  BY <1>1, <1>2, <1>6, <1>8 DEF Concerns
<1>10. QED
  BY <1>1, <1>2, <1>4, <1>5, <1>6, <1>7, <1>9

\* A write to a block that no inode owns changes nothing that can be looked up.
WritesUnowned(B, T, u) ==
    /\ u \in DataBlocks /\ u \notin B.bb
    /\ T.super = B.super /\ T.group = B.group /\ T.bb = B.bb /\ T.ib = B.ib /\ T.inode = B.inode
    /\ T.content \in [DataBlocks -> BlockValues]
    /\ \A b \in DataBlocks : b # u => T.content[b] = B.content[b]

\* Writing a block that nothing owns changes no tree.
LEMMA UnownedBlock ==
    ASSUME NEW B, NEW T, NEW u, SoundDisk(B), WritesUnowned(B, T, u)
    PROVE  SoundDisk(T) /\ TreeOf(T) = TreeOf(B)
<1>0. /\ u \in DataBlocks /\ u \notin B.bb
      /\ T.super = B.super /\ T.group = B.group /\ T.bb = B.bb /\ T.ib = B.ib /\ T.inode = B.inode
      /\ T.content \in [DataBlocks -> BlockValues]
      /\ \A b \in DataBlocks : b # u => T.content[b] = B.content[b]
  BY DEF WritesUnowned
<1>1. /\ DiskType(B) /\ BlocksSound(B) /\ CountsSound(B) /\ DirsSound(B) /\ NamesSound(B)
  BY DEF SoundDisk
<1>2. \A i \in Inodes : OwnedIn(T, i) = OwnedIn(B, i)
  BY <1>0 DEF OwnedIn
<1>3. ASSUME NEW i \in Inodes, NEW b \in OwnedIn(B, i) PROVE T.content[b] = B.content[b]
  <2>1. b \in B.bb
    BY <1>1, <1>3 DEF BlocksSound
  <2>2. B.inode[i].blks \in BlockLists
    BY <1>1 DEF DiskType, InodeRecs
  <2>3. b \in DataBlocks
    BY <2>2, BlockListsAreSeqs DEF OwnedIn
  <2>4. QED
    BY <1>0, <2>1, <2>3
<1>4. ASSUME NEW d \in Inodes, B.inode[d].mode = "dir" PROVE EntriesIn(T, d) = EntriesIn(B, d)
  BY <1>0, <1>3, <1>4, DirBlock DEF EntriesIn
<1>5. DiskType(T)
  BY <1>0, <1>1 DEF DiskType
<1>6. BlocksSound(T)
  <2>1. {OwnedIn(T, i) : i \in Inodes} = {OwnedIn(B, i) : i \in Inodes}
    BY <1>2
  <2>2. QED
    BY <1>0, <1>1, <1>2, <2>1 DEF BlocksSound
<1>7. CountsSound(T)
  BY <1>0, <1>1 DEF CountsSound
<1>8. DirsSound(T)
  BY <1>0, <1>1, <1>4 DEF DirsSound
<1>9. NamesSound(T)
  <2>1. \A d \in Inodes : IsDirIn(T, d) => IsDirIn(B, d) /\ EntriesIn(T, d) = EntriesIn(B, d)
    BY <1>0, <1>4 DEF IsDirIn
  <2>2. QED
    BY <1>0, <1>1, <2>1, SameNames
<1>10. SoundDisk(T)
  BY <1>5, <1>6, <1>7, <1>8, <1>9 DEF SoundDisk
<1> DEFINE S == {p \in Seq(Names) : Lookup(T, p) = Lookup(B, p)}
<1>11. Seq(Names) \subseteq S
  <2>1. <<>> \in S
    BY LookupSteps, SMT
  <2>2. ASSUME NEW p \in S \cap Seq(Names), NEW nm \in Names PROVE Append(p, nm) \in S
    <3>1. Append(p, nm) \in Seq(Names)
      BY SMT
    <3>2. /\ Lookup(T, Append(p, nm)) = WalkStep(T, Lookup(B, p), nm)
          /\ Lookup(B, Append(p, nm)) = WalkStep(B, Lookup(B, p), nm)
      <4>1. p \in Seq(Names) /\ Lookup(T, p) = Lookup(B, p)
        OBVIOUS
      <4>2. Lookup(T, Append(p, nm)) = WalkStep(T, Lookup(T, p), nm)
        BY <4>1, LookupSteps
      <4>3. Lookup(B, Append(p, nm)) = WalkStep(B, Lookup(B, p), nm)
        BY <4>1, LookupSteps
      <4>4. QED
        BY <4>1, <4>2, <4>3
    <3>3. WalkStep(T, Lookup(B, p), nm) = WalkStep(B, Lookup(B, p), nm)
      <4>1. CASE Lookup(B, p) = 0
        BY <4>1 DEF WalkStep
      <4>2. CASE Lookup(B, p) # 0
        <5>1. Lookup(B, p) \in Inodes
          BY <4>2, LookupInUse
        <5>2. QED
          BY <1>0, <1>4, <5>1 DEF WalkStep
      <4>3. QED
        BY <4>1, <4>2
    <3>4. QED
      BY <3>1, <3>2, <3>3
  <2> HIDE DEF S
  <2>3. QED
    BY <2>1, <2>2, PathInduction
<1>12. \A q \in Paths : q \in Seq(Names) /\ Lookup(T, q) = Lookup(B, q)
  BY <1>11, PathsAre
<1>13. ASSUME NEW q \in Paths, Lookup(B, q) # 0 PROVE NodeOf(T, Lookup(B, q)) = NodeOf(B, Lookup(B, q))
  <2> DEFINE i == Lookup(B, q)
  <2>1. i \in Inodes
    BY <1>12, <1>13, LookupInUse
  <2> HIDE DEF i
  <2>2. \A j \in DOMAIN B.inode[i].blks : T.content[B.inode[i].blks[j]] = B.content[B.inode[i].blks[j]]
    BY <1>3, <2>1 DEF OwnedIn, Range
  <2> DEFINE s == B.inode[i].blks
  <2>3. [j \in DOMAIN s |-> T.content[s[j]]] = [j \in DOMAIN s |-> B.content[s[j]]]
    BY <2>2
  <2>4. NodeOf(T, i) = NodeOf(B, i)
    BY <1>0, <2>3 DEF NodeOf
  <2>5. QED
    BY <2>4 DEF i
<1>14. TreeOf(T) = TreeOf(B)
  <2>1. {q \in Paths : Lookup(T, q) # 0} = {q \in Paths : Lookup(B, q) # 0}
    BY <1>12
  <2>2. \A p \in {q \in Paths : Lookup(B, q) # 0} : NodeOf(T, Lookup(T, p)) = NodeOf(B, Lookup(B, p))
    BY <1>12, <1>13
  <2>3. QED
    BY <2>1, <2>2 DEF TreeOf
<1>15. QED
  BY <1>10, <1>14

\* An inode that a path leads to becomes a file: the tree changes there.
LEMMA FileTree ==
    ASSUME SoundDisk(Disk), NEW pa, NEW nm, NEW ino, Concerns(Disk, pa, nm, ino, 0),
           Append(pa, nm) \in Paths,
           NEW T, NEW rec, SetsInode(Disk, T, ino, rec), rec.mode = "file"
    PROVE  TreeOf(T) = Effect(TreeOf(Disk), Append(pa, nm), NodeOf(T, ino))
<1>1. /\ ino \in Inodes /\ Range(rec.blks) \cap (Disk.bb \ OwnedIn(Disk, ino)) = {}
      /\ T.inode = [Disk.inode EXCEPT ![ino] = rec]
      /\ \A b \in DataBlocks \ Range(rec.blks) : T.content[b] = Disk.content[b]
  BY DEF SetsInode
<1>2. T.inode[ino] = rec /\ \A i \in Inodes : i # ino => T.inode[i] = Disk.inode[i]
  BY <1>1 DEF SoundDisk, DiskType
<1>3. ASSUME NEW i \in Inodes, i # ino, NEW b \in OwnedIn(Disk, i) PROVE T.content[b] = Disk.content[b]
  <2>1. b \in Disk.bb /\ b \notin OwnedIn(Disk, ino)
    BY <1>1, <1>3 DEF SoundDisk, BlocksSound
  <2>2. Disk.inode[i].blks \in BlockLists
    BY DEF SoundDisk, DiskType, InodeRecs
  <2>3. b \in DataBlocks
    BY <1>3, <2>2, BlockListsAreSeqs DEF OwnedIn
  <2>4. QED
    BY <1>1, <2>1, <2>3
<1>4. Near(Disk, T, nm, ino, 0)
  BY <1>2, <1>3 DEF Near
<1>5. Arrived(Disk, T, nm, ino, 0)
  BY <1>2 DEF Arrived
<1>6. QED
  BY <1>4, <1>5, FinalTree, SMT

\* The disk M with the new name in its directory.
WithEntry(M, nm, ino, dir) ==
    [super |-> M.super, group |-> M.group, bb |-> M.bb, ib |-> M.ib, inode |-> M.inode,
     content |-> [M.content EXCEPT ![inode[dir].blks[1]] = Entered(Disk, nm, ino, dir)]]

\* The free inode has been set up, and there is room for its entry.
Enters(pa, nm, ino, dir, M, rec) ==
    /\ FreeTarget(pa, nm, ino, dir) /\ Len(EntriesIn(Disk, dir)) < DirSlots
    /\ SetsInode(Disk, M, ino, rec) /\ SoundDisk(M)
=============================================================================
