----------------------------- MODULE Ext2Proofs -----------------------------
(***************************************************************************)
(* The volume keeps its promises, for every number of blocks, inodes and   *)
(* names and for every failure.  Ext2Inv says that between operations the  *)
(* disk is sound, and that during one the disk is near the sound disk it   *)
(* began with and its writes lead to the sound disk it is for; a format is *)
(* a prefix of its nine writes over whatever was there.                    *)
(***************************************************************************)
EXTENDS Ext2Plans

\* A leaf that does not name the SMT solver is left to Zenon.
USE ZenonT(20)

\* What the components of the disk record are.
LEMMA DiskFields ==
    /\ Disk.super = super /\ Disk.group = group /\ Disk.bb = bb /\ Disk.ib = ib
    /\ Disk.inode = inode /\ Disk.content = content
    /\ \A i : OwnedIn(Disk, i) = Owned(i) /\ EntriesIn(Disk, i) = Entries(i)
  BY DEF Disk, OwnedIn, Owned, EntriesIn, Entries

\* Of a sound disk the entries are sound.
LEMMA EntriesFollow == (Settled => SoundDisk(Disk)) => EntriesAreSound
<1> SUFFICES ASSUME Settled => SoundDisk(Disk), Settled
             PROVE  /\ \A d \in DirInodes : \A k \in DOMAIN Entries(d) :
                          /\ Entries(d)[k].ino \in ib \ {RootIno}
                          /\ inode[Entries(d)[k].ino].mode # "none"
                          /\ \A l \in DOMAIN Entries(d) :
                                Entries(d)[l].name = Entries(d)[k].name => l = k
                    /\ \A i \in Inodes : Cardinality(NamedBy(i)) <= 1
  BY DEF EntriesAreSound
<1>1. SoundDisk(Disk)
  OBVIOUS
<1>2. /\ ib = (1 .. LostFoundIno) \cup {i \in Inodes : inode[i].mode # "none"}
  BY <1>1, DiskFields DEF SoundDisk, BlocksSound
<1>3. ASSUME NEW d \in DirInodes, NEW e \in DirInodes,
             NEW k \in DOMAIN Entries(d), NEW l \in DOMAIN Entries(e)
      PROVE  /\ Entries(d)[k].ino = Entries(e)[l].ino => d = e /\ k = l
             /\ d = e /\ Entries(d)[k].name = Entries(e)[l].name => k = l
  <2>1. d \in Inodes /\ e \in Inodes /\ IsDirIn(Disk, d) /\ IsDirIn(Disk, e)
    BY DiskFields DEF DirInodes, IsDirIn
  <2>2. k \in DOMAIN EntriesIn(Disk, d) /\ l \in DOMAIN EntriesIn(Disk, e)
    BY DiskFields
  <2>3. /\ EntriesIn(Disk, d)[k].ino = EntriesIn(Disk, e)[l].ino => d = e /\ k = l
        /\ d = e /\ EntriesIn(Disk, d)[k].name = EntriesIn(Disk, e)[l].name => k = l
    BY <1>1, <2>1, <2>2, SMT DEF SoundDisk, NamesSound
  <2>4. QED
    BY <2>3, DiskFields, SMT
<1>4. ASSUME NEW d \in DirInodes, NEW k \in DOMAIN Entries(d)
      PROVE  /\ Entries(d)[k].ino \in ib \ {RootIno}
             /\ inode[Entries(d)[k].ino].mode # "none"
             /\ \A l \in DOMAIN Entries(d) :
                   Entries(d)[l].name = Entries(d)[k].name => l = k
  <2>1. d \in Inodes /\ Disk.inode[d].mode = "dir" /\ k \in DOMAIN EntriesIn(Disk, d)
    BY DiskFields DEF DirInodes
  <2>2. /\ EntriesIn(Disk, d)[k].ino \in Inodes /\ EntriesIn(Disk, d)[k].ino # RootIno
        /\ Disk.inode[EntriesIn(Disk, d)[k].ino].mode # "none"
    <3>1. EntriesIn(Disk, d) \in Seq(EntryRecs)
      BY <1>1, <2>1 DEF SoundDisk, DirsSound
    <3>2. EntriesIn(Disk, d)[k] \in EntryRecs
      BY <2>1, <3>1, SMT
    <3>3. EntriesIn(Disk, d)[k].ino # RootIno /\ Disk.inode[EntriesIn(Disk, d)[k].ino].mode # "none"
      BY <1>1, <2>1 DEF SoundDisk, NamesSound, IsDirIn
    <3>4. QED
      BY <3>2, <3>3 DEF EntryRecs
  <2>3. Entries(d)[k].ino \in ib \ {RootIno} /\ inode[Entries(d)[k].ino].mode # "none"
    BY <1>2, <2>2, DiskFields
  <2>4. QED
    BY <2>3, <1>3
<1>5. ASSUME NEW i \in Inodes PROVE Cardinality(NamedBy(i)) <= 1
  <2>1. ASSUME NEW x \in NamedBy(i), NEW y \in NamedBy(i) PROVE x = y
    <3>1. /\ x \in DirInodes \X (1 .. DirSlots) /\ y \in DirInodes \X (1 .. DirSlots)
          /\ x[2] \in DOMAIN Entries(x[1]) /\ y[2] \in DOMAIN Entries(y[1])
          /\ Entries(x[1])[x[2]].ino = i /\ Entries(y[1])[y[2]].ino = i
      BY DEF NamedBy
    <3>2. x[1] \in DirInodes /\ y[1] \in DirInodes
      BY <3>1
    <3>3. x[1] = y[1] /\ x[2] = y[2]
      BY <1>3, <3>1, <3>2, SMT
    <3>4. QED
      BY <3>1, <3>3, SMT
  <2>2. CASE NamedBy(i) = {}
    BY <2>2, FS_EmptySet, SMT
  <2>3. CASE NamedBy(i) # {}
    <3>1. PICK x : NamedBy(i) = {x}
      BY <2>1, <2>3
    <3>2. Cardinality({x}) = 1
      BY FS_Singleton
    <3>3. QED
      BY <3>1, <3>2, SMT
  <2>4. QED
    BY <2>2, <2>3
<1>6. QED
  BY <1>4, <1>5

\* Of a sound disk no block is shared.
LEMMA SharedFollows == (Settled => SoundDisk(Disk)) => NoBlockShared
<1> SUFFICES ASSUME Settled => SoundDisk(Disk), Settled
             PROVE  /\ \A i, j \in Inodes : i # j => Owned(i) \cap Owned(j) = {}
                    /\ \A i \in Inodes : Cardinality(Owned(i)) = Len(inode[i].blks)
  BY DEF NoBlockShared
<1>1. SoundDisk(Disk)
  OBVIOUS
<1>2. \A i, j \in Inodes : i # j => Owned(i) \cap Owned(j) = {}
  BY <1>1, DiskFields DEF SoundDisk, BlocksSound
<1>3. ASSUME NEW i \in Inodes PROVE Cardinality(Owned(i)) = Len(inode[i].blks)
  <2>1. inode \in [Inodes -> InodeRecs] /\ IsInjective(inode[i].blks)
    BY <1>1, DiskFields DEF SoundDisk, BlocksSound, DiskType
  <2>2. inode[i].blks \in Seq(DataBlocks)
    BY <2>1 DEF InodeRecs, BlockLists
  <2>3. Len(inode[i].blks) \in Nat /\ inode[i].blks \in [1 .. Len(inode[i].blks) -> DataBlocks]
    BY <2>2, SMT
  <2>4. QED
    BY <2>1, <2>3, InjectiveCount DEF Owned
<1>4. QED
  BY <1>2, <1>3

\* Of a sound disk the bitmaps are exact.
LEMMA BitmapsFollow == (Settled => SoundDisk(Disk)) => BitmapsExact
<1> SUFFICES ASSUME Settled => SoundDisk(Disk), Settled
             PROVE  /\ bb = (0 .. (FIRST_DATA_BLOCK - 1)) \cup UNION {Owned(i) : i \in Inodes}
                    /\ ib = (1 .. LostFoundIno) \cup {i \in Inodes : inode[i].mode # "none"}
  BY DEF BitmapsExact
<1>1. SoundDisk(Disk)
  OBVIOUS
<1>2. {OwnedIn(Disk, i) : i \in Inodes} = {Owned(i) : i \in Inodes}
  BY DiskFields
<1>3. QED
  BY <1>1, <1>2, DiskFields DEF SoundDisk, BlocksSound

\* Of a sound disk the counts are exact.
LEMMA CountsFollow == (Settled => SoundDisk(Disk)) => CountsExact
<1> SUFFICES ASSUME Settled => SoundDisk(Disk), Settled
             PROVE  /\ super.blocks = NBlocks - Cardinality(bb) /\ group.blocks = super.blocks
                    /\ super.inodes = NInodes - Cardinality(ib) /\ group.inodes = super.inodes
  BY DEF CountsExact
<1>1. CountsSound(Disk)
  BY DEF SoundDisk
<1>2. QED
  BY <1>1, DiskFields DEF CountsSound

\* One write of an operation in flight: it stays in flight, and after the last
\* write the disk is what the operation promised.
LEMMA FlightStep ==
    ASSUME Ext2Inv, plan # <<>>, InFlight(plan, Disk, ending, req, before), Apply(Head(plan))
    PROVE  /\ InFlight(Tail(plan), Disk', ending, req, before)
           /\ Len(plan) <= 1 /\ ending \in {"done", "refused"} =>
                SoundDisk(Disk') /\ TreeOf(Disk') = Outcome(ending, req, before)
<1>1. DiskType(Disk) /\ plan \in Seq(Writes)
  BY DEF Ext2Inv
<1>2. /\ Head(plan) \in Writes /\ Tail(plan) \in Seq(Writes) /\ Head(plan) \in Range(plan)
      /\ Range(plan) = {Head(plan)} \cup Range(Tail(plan))
      /\ Len(plan) \in Nat /\ (Len(plan) > 1 <=> Tail(plan) # <<>>)
  BY <1>1, FirstWrite
<1>3. DiskType(Disk')
  BY <1>1, <1>2, ApplyTypes
<1>4. PICK B, pa, nm, ino, dir :
        /\ Underway(plan, Disk, B, pa, nm, ino, dir)
        /\ before = TreeOf(B) /\ req.path = Append(pa, nm)
        /\ ending \in {"done", "refused"} =>
             \E T : Reaches(plan, Disk, T) /\ TreeOf(T) = Outcome(ending, req, before)
  BY DEF InFlight
<1>5. Underway(Tail(plan), Disk', B, pa, nm, ino, dir)
  <2>1. /\ SoundDisk(B) /\ Concerns(B, pa, nm, ino, dir) /\ Append(pa, nm) \in Paths
        /\ Near(B, Disk, nm, ino, dir)
        /\ \A w \in Range(plan) : Harmless(B, w, nm, ino, dir)
    BY <1>4 DEF Underway
  <2>2. Harmless(B, Head(plan), nm, ino, dir)
    BY <1>2, <2>1
  <2>3. Near(B, Disk', nm, ino, dir)
    BY <1>1, <1>2, <2>1, <2>2, HarmlessStep
  <2>4. \A w \in Range(Tail(plan)) : Harmless(B, w, nm, ino, dir)
    BY <1>2, <2>1
  <2>5. QED
    BY <2>1, <2>3, <2>4 DEF Underway
<1>6. ASSUME NEW T, Reaches(plan, Disk, T)
      PROVE  IsDisk(T) /\ SoundDisk(T) /\ Leads(Tail(plan), Disk', T)
  <2>1. IsDisk(T) /\ SoundDisk(T)
    BY <1>6 DEF Reaches
  <2>2. CASE Leads(plan, Disk, T)
    BY <1>1, <2>1, <2>2, LeadsStep
  <2>3. CASE Detour(plan, Disk, T)
    BY <1>1, <2>1, <2>3, DetourStep DEF Detour
  <2>4. QED
    BY <1>6, <2>2, <2>3 DEF Reaches
<1>7. ending \in {"done", "refused"} =>
        \E T : Reaches(Tail(plan), Disk', T) /\ TreeOf(T) = Outcome(ending, req, before)
  BY <1>4, <1>6 DEF Reaches
<1>8. InFlight(Tail(plan), Disk', ending, req, before)
  BY <1>4, <1>5, <1>7 DEF InFlight
<1>9. ASSUME Len(plan) <= 1, ending \in {"done", "refused"}
      PROVE  SoundDisk(Disk') /\ TreeOf(Disk') = Outcome(ending, req, before)
  <2>1. PICK T : Reaches(plan, Disk, T) /\ TreeOf(T) = Outcome(ending, req, before)
    BY <1>4, <1>9
  <2>2. Tail(plan) = <<>>
    BY <1>2, <1>9, SMT
  <2>3. IsDisk(T) /\ SoundDisk(T) /\ Leads(<<>>, Disk', T)
    BY <1>6, <2>1, <2>2
  <2>4. IsDisk(Disk')
    BY <1>3 DEF IsDisk, Disk
  <2>5. Disk' = T
    BY <2>3, <2>4, LeadsEnd
  <2>6. QED
    BY <2>1, <2>3, <2>5
<1>10. QED
  BY <1>8, <1>9

\* The invariant holds of a blank volume.
LEMMA Ext2InvInit == Ext2Init => Ext2Inv
<1> SUFFICES ASSUME Ext2Init PROVE Ext2Inv
  OBVIOUS
<1>1. DiskType(Disk)
  <2>1. /\ Disk.super = Zeroed.super /\ Disk.group = Zeroed.group /\ Disk.bb = Zeroed.bb
        /\ Disk.ib = Zeroed.ib /\ Disk.inode = Zeroed.inode /\ Disk.content = Zeroed.content
    BY DEF Disk, Ext2Init
  <2>2. QED
    BY <2>1, ZeroedType DEF DiskType
<1>2. /\ is_ram \in BOOLEAN /\ dirty = FALSE /\ plan = <<>> /\ req = NoReq /\ before = <<>>
      /\ ending = "done" /\ ~super.magic
  BY ZeroedType DEF Ext2Init
<1>3. plan \in Seq(Writes)
  BY <1>2, Lists
<1>4. QED
  BY <1>1, <1>2, <1>3 DEF Ext2Inv, AtRest

\* Between operations the disk is sound.
LEMMA SettledSound == Ext2Inv /\ Settled => SoundDisk(Disk)
  BY DEF Ext2Inv, Settled, AtRest

\* The invariant gives the types.
LEMMA TypeFollows == Ext2Inv => Ext2TypeOK
<1> SUFFICES ASSUME Ext2Inv PROVE Ext2TypeOK
  OBVIOUS
<1>1. /\ super \in SuperRecs /\ group \in GroupRecs
      /\ bb \subseteq 0 .. (NBlocks - 1) /\ ib \subseteq Inodes
      /\ inode \in [Inodes -> InodeRecs]
      /\ content \in [DataBlocks -> BlockValues]
  BY DiskFields DEF Ext2Inv, DiskType
<1>2. ending \in {"done", "full", "refused", "format"}
  BY DEF Ext2Inv, AtRest, InFormat, InOperation
<1>3. DOMAIN content = DataBlocks
  BY <1>1
<1>4. is_ram \in BOOLEAN /\ dirty \in BOOLEAN
  BY DEF Ext2Inv
<1> DEFINE Blks == UNION {[1 .. n -> DataBlocks] : n \in 0 .. MaxBlocks}
<1>5. ASSUME NEW s \in BlockLists PROVE s \in Blks
  <2>1. s \in [1 .. Len(s) -> DataBlocks] /\ Len(s) \in 0 .. MaxBlocks
    BY <1>5, Ext2Assumption, SMT DEF BlockLists
  <2>2. QED
    BY <2>1
<1> HIDE DEF Blks
<1>6. inode \in [Inodes -> [mode : {"none", "dir", "file"}, blks : Blks]]
  BY <1>1, <1>5 DEF InodeRecs
<1>7. QED
  BY <1>1, <1>2, <1>3, <1>4, <1>6 DEF Ext2TypeOK, SuperRecs, GroupRecs, Blks

(***************************************************************************)
(* The invariant                                                           *)
(***************************************************************************)
\* Every step keeps the invariant: beginning an operation, a write, a failure.
LEMMA Ext2InvStep == Ext2Inv /\ [Ext2Next]_ext2Vars => Ext2Inv'
<1> SUFFICES ASSUME Ext2Inv, [Ext2Next]_ext2Vars PROVE Ext2Inv'
  OBVIOUS
<1>1. /\ is_ram \in BOOLEAN /\ dirty \in BOOLEAN
      /\ DiskType(Disk) /\ plan \in Seq(Writes)
      /\ plan = <<>> => AtRest
      /\ plan # <<>> => InFormat \/ InOperation
  BY DEF Ext2Inv
<1>2. CASE Format
  <2>1. plan' \in Seq(Writes) /\ plan' # <<>> /\ Formatting(plan', Disk) /\ ending' = "format"
    BY <1>2, FormatBegins DEF Format
  <2>2. /\ Disk' = Disk /\ is_ram' = is_ram /\ dirty' = dirty /\ req' = Req("format", <<>>, <<>>)
    BY <1>2 DEF Format, ext2_format, Begin, disk, Disk
  <2>3. InFormat'
    BY <2>1, <2>2 DEF InFormat
  <2>4. QED
    BY <1>1, <2>1, <2>2, <2>3 DEF Ext2Inv
<1>3. CASE WriteFile
  <2>1. PICK path \in Paths, d \in Data, n \in 0 .. MaxBlocks : ext2_write_file(path, d, n)
    BY <1>3 DEF WriteFile
  <2>2. /\ plan' \in Seq(Writes) /\ plan' # <<>> /\ ending' \in {"done", "full"}
        /\ InFlight(plan', Disk, ending', req', before')
        /\ Disk' = Disk /\ is_ram' = is_ram /\ dirty' = dirty
    BY <2>1, WriteFileStep
  <2>3. req'.op = "file" /\ dirty = FALSE
    BY <1>1, <2>1 DEF ext2_write_file, Req, Writable
  <2>4. InOperation'
    BY <2>2, <2>3 DEF InOperation
  <2>5. QED
    BY <1>1, <2>2, <2>4 DEF Ext2Inv
<1>4. CASE MkDir
  <2>1. PICK path \in Paths : ext2_mkdir(path)
    BY <1>4 DEF MkDir
  <2>2. /\ plan' \in Seq(Writes) /\ plan' # <<>> /\ ending' \in {"done", "refused"}
        /\ InFlight(plan', Disk, ending', req', before')
        /\ Disk' = Disk /\ is_ram' = is_ram /\ dirty' = dirty
    BY <2>1, MkDirStep
  <2>3. req'.op = "dir" /\ req'.data = <<>> /\ dirty = FALSE
    BY <1>1, <2>1 DEF ext2_mkdir, Req, Writable
  <2>4. InOperation'
    BY <2>2, <2>3 DEF InOperation
  <2>5. QED
    BY <1>1, <2>2, <2>4 DEF Ext2Inv
<1>5. CASE vol_write_blk
  <2>1. plan # <<>> /\ Apply(Head(plan))
    BY <1>5 DEF vol_write_blk
  <2>2. /\ Head(plan) \in Writes /\ Tail(plan) \in Seq(Writes)
        /\ Len(plan) \in Nat /\ (Len(plan) > 1 <=> Tail(plan) # <<>>)
    BY <1>1, <2>1, FirstWrite
  <2>3. DiskType(Disk') /\ is_ram' = is_ram
    BY <1>1, <2>1, <2>2, ApplyTypes DEF Apply
  <2>4. CASE Len(plan) > 1
    <3>1. plan' = Tail(plan) /\ ending' = ending /\ req' = req /\ before' = before /\ dirty' = dirty
      BY <1>5, <2>4 DEF vol_write_blk
    <3>2. InFormat => InFormat'
      BY <1>1, <2>1, <2>4, <3>1, FormattingStep DEF InFormat
    <3>3. InOperation => InOperation'
      BY <2>1, <3>1, FlightStep DEF InOperation
    <3>4. QED
      BY <1>1, <2>1, <2>2, <2>3, <2>4, <3>1, <3>2, <3>3 DEF Ext2Inv
  <2>5. CASE ~(Len(plan) > 1)
    <3>1. /\ plan' = <<>> /\ ending' = "done" /\ req' = NoReq /\ before' = <<>>
          /\ dirty' = (ending = "full" \/ (dirty /\ ending # "format"))
      BY <1>5, <2>5 DEF vol_write_blk, Finish
    <3>2. Len(plan) <= 1
      BY <2>2, <2>5, SMT
    <3>3. ASSUME ~dirty' PROVE SoundDisk(Disk')
      <4>1. CASE InFormat
        <5>1. Formatted(10, Disk')
          BY <1>1, <2>1, <3>2, <4>1, FormattingStep DEF InFormat
        <5>2. QED
          BY <2>3, <5>1, FreshSound
      <4>2. CASE InOperation
        <5>1. ending \in {"done", "refused"}
          BY <3>1, <3>3, <4>2 DEF InOperation
        <5>2. QED
          BY <2>1, <3>2, <4>2, <5>1, FlightStep DEF InOperation
      <4>3. QED
        BY <1>1, <2>1, <4>1, <4>2
    <3>4. AtRest'
      BY <3>1, <3>3 DEF AtRest
    <3>5. dirty' \in BOOLEAN /\ plan' \in Seq(Writes)
      BY <3>1, Lists
    <3>6. QED
      BY <1>1, <2>3, <3>1, <3>4, <3>5 DEF Ext2Inv
  <2>6. QED
    BY <2>4, <2>5
<1>6. CASE WriteFails
  <2>1. /\ plan' = <<>> /\ ending' = "done" /\ req' = NoReq /\ before' = <<>> /\ dirty' = TRUE
        /\ Disk' = Disk /\ is_ram' = is_ram
    BY <1>6 DEF WriteFails, Finish, disk, Disk
  <2>2. AtRest'
    BY <2>1 DEF AtRest
  <2>3. QED
    BY <1>1, <2>1, <2>2, Lists DEF Ext2Inv
<1>7. CASE UNCHANGED ext2Vars
  <2>1. /\ plan' = plan /\ ending' = ending /\ req' = req /\ before' = before /\ dirty' = dirty
        /\ Disk' = Disk /\ is_ram' = is_ram /\ super' = super
    BY <1>7 DEF ext2Vars, Disk
  <2>2. AtRest' = AtRest /\ InFormat' = InFormat /\ InOperation' = InOperation
    BY <2>1 DEF AtRest, InFormat, InOperation
  <2>3. QED
    BY <1>1, <2>1, <2>2 DEF Ext2Inv
<1>8. QED
  BY <1>2, <1>3, <1>4, <1>5, <1>6, <1>7 DEF Ext2Next

\* The invariant holds in every reachable state.
THEOREM Ext2Invariant == Ext2Spec => []Ext2Inv
  BY Ext2InvInit, Ext2InvStep, PTL DEF Ext2Spec

\* While an operation is in flight the rest of the tree is there.
LEMMA ContainedFollows == Ext2Inv => FailureIsContained
<1> SUFFICES ASSUME Ext2Inv, plan # <<>>, before # <<>>, req.op # "format",
                    NEW p \in DOMAIN before,
                    Len(p) < Len(req.path) \/ SubSeq(p, 1, Len(req.path)) # req.path
             PROVE  p \in DOMAIN Tree /\ Tree[p] = before[p]
  BY DEF FailureIsContained
<1>1. InOperation
  BY SMT DEF Ext2Inv, InFormat, Req
<1>2. PICK B, pa, nm, ino, dir :
        /\ Underway(plan, Disk, B, pa, nm, ino, dir)
        /\ before = TreeOf(B) /\ req.path = Append(pa, nm)
  BY <1>1 DEF InOperation, InFlight
<1>3. /\ SoundDisk(B) /\ Concerns(B, pa, nm, ino, dir) /\ Append(pa, nm) \in Paths
      /\ Near(B, Disk, nm, ino, dir)
  BY <1>2 DEF Underway
<1>4. p \in Paths
  BY <1>2 DEF TreeOf
<1>5. p \in Seq(Names) /\ Append(pa, nm) \in Seq(Names)
  BY <1>3, <1>4, PathsAre
<1>6. p # Append(pa, nm) /\ ~Under(p, Append(pa, nm))
  BY <1>2, <1>5, UnderSteps
<1>7. p \in DOMAIN TreeOf(Disk) /\ TreeOf(Disk)[p] = TreeOf(B)[p]
  BY <1>2, <1>3, <1>6, NearTree
<1>8. QED
  BY <1>2, <1>7, TreeNow

(***************************************************************************)
(* The refinement                                                          *)
(***************************************************************************)
Promised == IF plan = <<>> THEN super.magic /\ ~dirty ELSE before # <<>>
Shown == IF plan # <<>> THEN before ELSE IF super.magic /\ ~dirty THEN Tree ELSE <<>>

\* The state that the store shows does not change when an operation begins.
LEMMA BeginShows ==
    ASSUME NEW P, NEW e, Begin(P, e), P # <<>>
    PROVE  Promised' = Promised /\ Shown' = Shown
<1>1. plan = <<>> /\ plan' # <<>> /\ before' = IF super.magic /\ ~dirty THEN Tree ELSE <<>>
  BY DEF Begin
<1>2. Shown' = Shown
  BY <1>1 DEF Shown
<1>3. Promised' = (before' # <<>>) /\ Promised = (super.magic /\ ~dirty)
  BY <1>1 DEF Promised
<1>4. (before' # <<>>) = (super.magic /\ ~dirty)
  BY <1>1, TreeNow, TreeHasRoot
<1>5. QED
  BY <1>2, <1>3, <1>4

\* A write_file is a request of the store.
LEMMA FileRequest ==
    ASSUME NEW path \in Paths, NEW d \in Data, NEW n \in 0 .. MaxBlocks
    PROVE  Req("file", path, [i \in 1 .. n |-> d]) \in Store!Requests
  BY SMT DEF Store!Requests, Req

\* A mkdir is a request of the store.
LEMMA DirRequest ==
    ASSUME NEW path \in Paths
    PROVE  Req("dir", path, <<>>) \in Store!Requests
  BY SMT DEF Store!Requests, Req

\* An operation is begun only in a directory.
LEMMA AsksInDir ==
    ASSUME Ext2Inv, NEW path \in Paths, Writable(path)
    PROVE  /\ plan = <<>> /\ req = NoReq /\ Promised /\ path # <<>>
           /\ Store!IsDir(Store!Parent(path))
           /\ ~Has(Entries(lookup_final(path_split_parent(path)[1])), path_split_parent(path)[2]) =>
                path \notin DOMAIN Shown
<1> DEFINE pa == path_split_parent(path)[1]
           nm == path_split_parent(path)[2]
           dir == Lookup(Disk, pa)
<1>1. /\ Target(pa, nm) /\ Append(pa, nm) = path
      /\ lookup_final(pa) = dir
      /\ Entries(dir) = EntriesIn(Disk, dir)
      /\ plan = <<>> /\ super.magic /\ ~dirty /\ path # <<>> /\ AtRest
      /\ pa = SubSeq(path, 1, Len(path) - 1) /\ pa \in Paths
  BY WritableTarget
<1> HIDE DEF pa, nm
<1>2. Shown = TreeOf(Disk) /\ Promised /\ req = NoReq
  BY <1>1, TreeNow DEF Shown, Promised, AtRest
<1>3. pa \in Seq(Names) /\ nm \in Names /\ dir \in Inodes /\ Disk.inode[dir].mode = "dir"
  BY <1>1 DEF Target, IsDirIn
<1>4. dir # 0
  BY <1>3, SMT DEF Inodes
<1>5. pa \in DOMAIN TreeOf(Disk) /\ TreeOf(Disk)[pa] = NodeOf(Disk, dir)
  BY <1>1, <1>4 DEF TreeOf
<1>6. NodeOf(Disk, dir).kind = "dir"
  BY <1>3 DEF NodeOf
<1>7. pa \in DOMAIN Shown /\ Shown[pa].kind = "dir"
  BY <1>2, <1>5, <1>6
<1>8. Store!IsDir(Store!Parent(path))
  BY <1>1, <1>7 DEF Store!IsDir, Store!Parent, Shown
<1>9. ASSUME ~Has(Entries(lookup_final(pa)), nm) PROVE path \notin DOMAIN Shown
  <2>1. Lookup(Disk, path) = WalkStep(Disk, dir, nm)
    BY <1>1, <1>3, LookupSteps
  <2>2. Lookup(Disk, path) = 0
    BY <1>1, <1>9, <2>1 DEF WalkStep
  <2>3. QED
    BY <1>2, <2>2 DEF TreeOf
<1>10. QED
  BY <1>1, <1>2, <1>8, <1>9 DEF pa, nm

\* To begin an operation is to ask the store for it.
LEMMA BeginAsks ==
    ASSUME Ext2Inv, Format \/ WriteFile \/ MkDir
    PROVE  Store!Ask
<1>1. CASE Format
  <2>1. plan = <<>> /\ req' = Req("format", <<>>, <<>>)
    BY <1>1 DEF Format, ext2_format, Begin
  <2>2. PICK P, e : Begin(P, e)
    BY <1>1 DEF Format, ext2_format
  <2>3. plan' # <<>> /\ plan' = P
    BY <1>1, <2>2, FormatBegins, BeginKeeps DEF Format
  <2>4. Promised' = Promised /\ Shown' = Shown
    BY <2>2, <2>3, BeginShows
  <2>5. req = NoReq
    BY <2>1 DEF Ext2Inv, AtRest
  <2>6. QED
    BY <2>1, <2>4, <2>5, SMT DEF Store!Ask, Store!Idle, Store!Requests, NoReq, Req, Promised, Shown
<1>2. CASE WriteFile
  <2>1. PICK path \in Paths, d \in Data, n \in 0 .. MaxBlocks : ext2_write_file(path, d, n)
    BY <1>2 DEF WriteFile
  <2>2. Writable(path) /\ req' = Req("file", path, [i \in 1 .. n |-> d])
    BY <2>1 DEF ext2_write_file
  <2>3. PICK P, e : Begin(P, e)
    BY <2>1 DEF ext2_write_file, Overwrite, Create
  <2>4. plan' # <<>> /\ plan' = P
    BY <2>1, <2>3, WriteFileStep, BeginKeeps
  <2>5. Promised' = Promised /\ Shown' = Shown
    BY <2>3, <2>4, BeginShows
  <2>6. req = NoReq /\ Promised /\ path # <<>> /\ Store!IsDir(Store!Parent(path))
    BY <2>2, AsksInDir
  <2>7. req' \in Store!Requests
    BY <2>2, FileRequest
  <2>8. req'.op = "file" /\ req'.path = path
    BY <2>2 DEF Req
  <2>9. QED
    BY <2>5, <2>6, <2>7, <2>8 DEF Store!Ask, Store!Idle, NoReq, Req, Promised, Shown
<1>3. CASE MkDir
  <2>1. PICK path \in Paths : ext2_mkdir(path)
    BY <1>3 DEF MkDir
  <2>2. /\ Writable(path) /\ req' = Req("dir", path, <<>>)
        /\ ~Has(Entries(lookup_final(path_split_parent(path)[1])), path_split_parent(path)[2])
    BY <2>1 DEF ext2_mkdir
  <2>3. PICK P, e : Begin(P, e)
    BY <2>1 DEF ext2_mkdir
  <2>4. plan' # <<>> /\ plan' = P
    BY <2>1, <2>3, MkDirStep, BeginKeeps
  <2>5. Promised' = Promised /\ Shown' = Shown
    BY <2>3, <2>4, BeginShows
  <2>6. /\ req = NoReq /\ Promised /\ path # <<>> /\ Store!IsDir(Store!Parent(path))
        /\ path \notin DOMAIN Shown
    BY <2>2, AsksInDir
  <2>7. req' \in Store!Requests
    BY <2>2, DirRequest
  <2>8. req'.op = "dir" /\ req'.path = path
    BY <2>2 DEF Req
  <2>9. QED
    BY <2>5, <2>6, <2>7, <2>8 DEF Store!Ask, Store!Idle, NoReq, Req, Promised, Shown
<1>4. QED
  BY <1>1, <1>2, <1>3

\* The last write of a format makes the fresh tree.
LEMMA FormatEnds ==
    ASSUME Ext2Inv, vol_write_blk, InFormat, Len(plan) <= 1
    PROVE  Store!TakeEffect
<1>1. /\ DiskType(Disk) /\ plan \in Seq(Writes) /\ plan # <<>> /\ Apply(Head(plan))
  BY DEF Ext2Inv, vol_write_blk
<1>2. Head(plan) \in Writes /\ Len(plan) \in Nat
  BY <1>1, FirstWrite
<1>3. DiskType(Disk') /\ Formatted(10, Disk')
  BY <1>1, <1>2, ApplyTypes, FormattingStep DEF InFormat
<1>4. SoundDisk(Disk') /\ TreeOf(Disk') = Store!FreshTree
  BY <1>3, FreshSound, FreshTreeIs DEF Store!FreshTree, Store!Dir
<1>5. super'.magic
  <2>1. Disk'.super = super'
    BY DEF Disk
  <2>2. QED
    BY <1>4, <2>1 DEF SoundDisk, CountsSound
<1>6. plan' = <<>> /\ req' = NoReq /\ ~dirty'
  <2>1. ~(Len(plan) > 1) /\ ending = "format"
    BY <1>2, SMT DEF InFormat
  <2>2. plan' = <<>> /\ req' = NoReq /\ dirty' = (ending = "full" \/ (dirty /\ ending # "format"))
    BY <2>1 DEF vol_write_blk, Finish
  <2>3. QED
    BY <2>1, <2>2
<1>7. Promised' = TRUE /\ Shown' = Store!FreshTree
  BY <1>4, <1>5, <1>6, TreeNext DEF Promised, Shown
<1>8. req.op = "format" /\ req # NoReq
  BY DEF InFormat, Req, NoReq
<1>9. QED
  BY <1>6, <1>7, <1>8 DEF Store!TakeEffect, Store!Idle, NoReq, Req, Promised, Shown

\* What the outcome of an operation is to the store.
LEMMA OutcomeIs ==
    ASSUME NEW r, r.op \in {"file", "dir"}, r.op = "dir" => r.data = <<>>
    PROVE  Asked(r) = IF r.op = "file" THEN Store!File(r.data) ELSE Store!Dir
  BY DEF Asked, Store!File, Store!Dir

\* The last write of an operation: it takes effect, is refused, or fails.
LEMMA OperationEnds ==
    ASSUME Ext2Inv, vol_write_blk, InOperation, Len(plan) <= 1
    PROVE  Store!TakeEffect \/ Store!Refuse \/ Store!Fail
<1>1. /\ DiskType(Disk) /\ plan \in Seq(Writes) /\ plan # <<>> /\ Apply(Head(plan))
  BY DEF Ext2Inv, vol_write_blk
<1>2. Len(plan) \in Nat
  BY <1>1, FirstWrite
<1>3. /\ plan' = <<>> /\ req' = NoReq /\ dirty' = (ending = "full")
  BY <1>2, SMT DEF vol_write_blk, Finish, InOperation
<1>4. /\ req.op \in {"file", "dir"} /\ (req.op = "dir" => req.data = <<>>) /\ req # NoReq
      /\ ending \in {"done", "full", "refused"} /\ (ending = "refused" => req.op = "dir")
      /\ InFlight(plan, Disk, ending, req, before)
  BY SMT DEF InOperation, NoReq, Req
<1>5. Shown = before /\ Promised = (before # <<>>)
  BY <1>1 DEF Shown, Promised
<1>6. CASE ending = "full"
  <2>1. Promised' = FALSE /\ Shown' = <<>>
    BY <1>3, <1>6 DEF Promised, Shown
  <2>2. QED
    BY <1>3, <1>4, <2>1 DEF Store!Fail, Store!Idle, NoReq, Req, Promised, Shown
<1>7. CASE ending \in {"done", "refused"}
  <2>1. SoundDisk(Disk') /\ TreeOf(Disk') = Outcome(ending, req, before)
    BY <1>1, <1>4, <1>7, FlightStep
  <2>2. super'.magic
    <3>1. Disk'.super = super'
      BY DEF Disk
    <3>2. QED
      BY <2>1, <3>1 DEF SoundDisk, CountsSound
  <2>3. ~dirty'
    BY <1>3, <1>7
  <2>4. Promised' = TRUE /\ Shown' = Outcome(ending, req, before)
    BY <1>3, <2>1, <2>2, <2>3, TreeNext DEF Promised, Shown
  <2>5. CASE ending = "done"
    <3>1. Shown' = Effect(before, req.path, Asked(req))
      BY <2>4, <2>5 DEF Outcome
    <3>2. \A node : Effect(before, req.path, node) = Store!With(req.path, node)
      BY <1>1 DEF Effect, Under, Store!With, Store!Below
    <3>3. Shown' = Store!With(req.path, IF req.op = "file" THEN Store!File(req.data) ELSE Store!Dir)
      BY <1>4, <3>1, <3>2, OutcomeIs, SMT
    <3>4. Shown' = CASE req.op = "format" -> Store!FreshTree
                     [] req.op = "file" -> Store!With(req.path, Store!File(req.data))
                     [] req.op = "dir" -> Store!With(req.path, Store!Dir)
      BY <1>4, <3>3
    <3>5. QED
      BY <1>3, <1>4, <2>4, <3>4 DEF Store!TakeEffect, Store!Idle, NoReq, Req, Promised, Shown
  <2>6. CASE ending = "refused"
    <3>1. before # <<>>
      BY <1>4, TreeHasRoot DEF InFlight
    <3>2. Shown' = Shown /\ Promised' = Promised
      BY <1>5, <2>4, <2>6, <3>1 DEF Outcome
    <3>3. QED
      BY <1>3, <1>4, <2>6, <3>2 DEF Store!Refuse, Store!Idle, NoReq, Req, Promised, Shown
  <2>7. QED
    BY <1>7, <2>5, <2>6
<1>8. QED
  BY <1>4, <1>6, <1>7

\* Every step is a step of the store or leaves what it shows alone.
LEMMA StoreSteps ==
    ASSUME Ext2Inv, [Ext2Next]_ext2Vars
    PROVE  [Store!StoreNext]_(Store!storeVars)
<1>1. CASE Format \/ WriteFile \/ MkDir
  BY <1>1, BeginAsks DEF Store!StoreNext
<1>2. CASE vol_write_blk
  <2>1. plan \in Seq(Writes) /\ plan # <<>> /\ (InFormat \/ InOperation)
    BY <1>2 DEF Ext2Inv, vol_write_blk
  <2>2. Len(plan) \in Nat /\ (Len(plan) > 1 <=> Tail(plan) # <<>>)
    BY <2>1, FirstWrite
  <2>3. CASE Len(plan) > 1
    <3>1. plan' # <<>> /\ before' = before /\ req' = req
      BY <1>2, <2>2, <2>3 DEF vol_write_blk
    <3>2. QED
      BY <2>1, <3>1 DEF Store!storeVars
  <2>4. CASE Len(plan) <= 1
    BY <1>2, <2>1, <2>4, FormatEnds, OperationEnds DEF Store!StoreNext
  <2>5. QED
    BY <2>2, <2>3, <2>4, SMT
<1>3. CASE WriteFails
  <2>1. plan # <<>> /\ plan' = <<>> /\ req' = NoReq /\ dirty' = TRUE
    BY <1>3 DEF WriteFails, Finish
  <2>2. Promised' = FALSE /\ Shown' = <<>>
    BY <2>1 DEF Promised, Shown
  <2>3. req # NoReq
    <3>1. InFormat \/ InOperation
      BY <2>1 DEF Ext2Inv
    <3>2. req.op # "none" /\ NoReq.op = "none"
      BY <3>1, SMT DEF InFormat, InOperation, NoReq, Req
    <3>3. QED
      BY <3>2
  <2>4. Store!Fail
    BY <2>1, <2>2, <2>3 DEF Store!Fail, Store!Idle, NoReq, Req, Promised, Shown
  <2>5. QED
    BY <2>4 DEF Store!StoreNext
<1>4. CASE UNCHANGED ext2Vars
  <2>1. /\ plan' = plan /\ req' = req /\ before' = before /\ dirty' = dirty /\ super' = super
        /\ Disk' = Disk
    BY <1>4 DEF ext2Vars, Disk
  <2>2. Tree' = Tree
    BY <2>1, TreeNow, TreeNext
  <2>3. Promised' = Promised /\ Shown' = Shown
    BY <2>1, <2>2 DEF Promised, Shown
  <2>4. QED
    BY <2>1, <2>3 DEF Store!storeVars, Promised, Shown
<1>5. QED
  BY <1>1, <1>2, <1>3, <1>4 DEF Ext2Next

\* A blank volume shows a store without a file system.
LEMMA StoreBegins == Ext2Init => Store!StoreInit
<1> SUFFICES ASSUME Ext2Init PROVE Store!StoreInit
  OBVIOUS
<1>1. plan = <<>> /\ req = NoReq /\ ~super.magic
  BY ZeroedType DEF Ext2Init
<1>2. Promised = FALSE /\ Shown = <<>>
  BY <1>1 DEF Promised, Shown
<1>3. QED
  BY <1>1, <1>2 DEF Store!StoreInit, Store!Idle, NoReq, Req, Promised, Shown

(***************************************************************************)
(* What is promised                                                        *)
(***************************************************************************)
\* Whatever is written in whatever order, every structure on the disk keeps its type.
THEOREM TypeCorrect == Ext2Spec => []Ext2TypeOK
  BY Ext2Invariant, TypeFollows, PTL

\* Between operations no block belongs to two inodes or twice to one, on volumes of every
\* size: alloc_block never hands out a block that an inode still owns.
THEOREM NeverShared == Ext2Spec => []NoBlockShared
<1>1. Ext2Inv => NoBlockShared
  BY SettledSound, SharedFollows
<1>2. QED
  BY <1>1, Ext2Invariant, PTL

\* Between operations the bitmaps say exactly which blocks and inodes are in use: no
\* operation leaks a block or an inode, and none is in use unmarked.
THEOREM BitmapsAreExact == Ext2Spec => []BitmapsExact
<1>1. Ext2Inv => BitmapsExact
  BY SettledSound, BitmapsFollow
<1>2. QED
  BY <1>1, Ext2Invariant, PTL

\* Between operations the free counts that write_file and mkdir keep by increments agree
\* with the bitmaps.
THEOREM CountsAreExact == Ext2Spec => []CountsExact
<1>1. Ext2Inv => CountsExact
  BY SettledSound, CountsFollow
<1>2. QED
  BY <1>1, Ext2Invariant, PTL

\* Between operations the directory entries form a tree over inodes in use.
THEOREM DirectoriesAreSound == Ext2Spec => []EntriesAreSound
<1>1. Ext2Inv => EntriesAreSound
  BY SettledSound, EntriesFollow
<1>2. QED
  BY <1>1, Ext2Invariant, PTL

\* Wherever an operation stops in its writes, only the path it was given is at stake.
THEOREM FailuresAreContained == Ext2Spec => []FailureIsContained
  BY Ext2Invariant, ContainedFollows, PTL

\* The volume implements the abstract tree of FileStore: the last write of an operation is
\* where it takes effect, all at once for whoever looks, and the writes before it do not show.
THEOREM VolumeImplementsStore == Ext2Spec => ImplementsStore
<1>1. Ext2Inv /\ [Ext2Next]_ext2Vars => [Store!StoreNext]_(Store!storeVars)
  BY StoreSteps
<1>2. QED
  BY <1>1, Ext2Invariant, StoreBegins, PTL DEF Ext2Spec, ImplementsStore, Store!StoreSpec
=============================================================================
