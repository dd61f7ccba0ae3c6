------------------------------- MODULE Ext2 --------------------------------
(***************************************************************************)
(* The single-group ext2 of chaseros_ext2_vol.c on one volume.  The state  *)
(* is what is on the disk.  An operation reads what it needs, computes in  *)
(* local buffers, and then writes block after block; nothing else runs     *)
(* meanwhile, so its first step computes the writes and each further step  *)
(* performs one of them, or fails (a device error or loss of power).       *)
(* A file block holds one datum; "." and ".." take no part in lookups      *)
(* (paths are normalised) and are left out of the directory blocks.        *)
(* A block that the device tore, and the disk after a failure in the       *)
(* middle of an operation, are not followed further: only format runs then.*)
(***************************************************************************)
EXTENDS Integers, Sequences, FiniteSets, Functions

CONSTANTS
    NBlocks,       \* total_blocks_from_vol
    NInodes,       \* inodes per group (128)
    MaxBlocks,     \* direct blocks of a file (12)
    DirSlots,      \* named entries that fit into a directory block
    Names, LostFound,
    Data,          \* contents of a file block
    MaxDepth       \* longest path that is used

VARIABLES
    is_ram,        \* a RAM volume: wiped by format, and its writes cannot fail
    super,         \* block 1: [magic, blocks, inodes], the free counts
    group,         \* block 2: [blocks, inodes, dirs]
    bb, ib,        \* blocks 3 and 4: the used blocks and inodes
    inode,         \* blocks 5..20: the inode table
    content,       \* data blocks: entries of a directory, or file data
    plan,          \* writes the running operation still has to do
    ending,        \* how it ends: "done", "full" (out of blocks), "refused", "format"
    dirty,         \* an operation failed after it had begun to write
    req,           \* the running operation and its arguments
    before         \* the tree when it began

disk == <<is_ram, super, group, bb, ib, inode, content>>
ext2Vars == <<is_ram, super, group, bb, ib, inode, content, plan, ending,
              dirty, req, before>>

RootIno == 2
LostFoundIno == 11
FirstIno == 12
FIRST_DATA_BLOCK == 21

DataBlocks == FIRST_DATA_BLOCK .. (NBlocks - 1)
Inodes == 1 .. NInodes
NoInode == [mode |-> "none", blks |-> <<>>]
DirInode(b) == [mode |-> "dir", blks |-> <<b>>]
FileInode(bs) == [mode |-> "file", blks |-> bs]

ASSUME Ext2Assumption ==
    /\ NBlocks \in Nat /\ NBlocks > FIRST_DATA_BLOCK + 1
    /\ NInodes \in Nat /\ NInodes >= FirstIno
    /\ MaxBlocks \in Nat \ {0} /\ DirSlots \in Nat \ {0} /\ MaxDepth \in Nat \ {0}
    /\ LostFound \in Names

(***************************************************************************)
(* Lookup and allocation                                                   *)
(***************************************************************************)
Has(ents, name) == \E i \in DOMAIN ents : ents[i].name = name

find_in_root(ents, name) ==
    LET i == CHOOSE j \in DOMAIN ents :
                /\ ents[j].name = name
                /\ \A k \in 1 .. (j - 1) : ents[k].name # name
    IN  ents[i].ino

Entries(d) == content[inode[d].blks[1]]

\* The inode of a path, 0 when there is none.
lookup_final(path) ==
    LET cur[k \in 0 .. Len(path)] ==
          IF k = 0 THEN RootIno
          ELSE LET d == cur[k - 1]
               IN  IF d # 0 /\ inode[d].mode = "dir" /\ Has(Entries(d), path[k])
                     THEN find_in_root(Entries(d), path[k]) ELSE 0
    IN  cur[Len(path)]

path_split_parent(path) == <<SubSeq(path, 1, Len(path) - 1), path[Len(path)]>>

FreeBlocks_PastEnd(bmap) == {b \in (FIRST_DATA_BLOCK + 2) .. NBlocks : b \notin bmap}
FreeBlocks(bmap) == {b \in DataBlocks : b >= FIRST_DATA_BLOCK + 2 /\ b \notin bmap}
Nth(S, i) == CHOOSE x \in S : Cardinality({y \in S : y < x}) = i - 1

alloc_block_NotMarked(bmap, n) ==
    LET S == FreeBlocks(bmap)
    IN  [i \in 1 .. (IF S = {} THEN 0 ELSE n) |-> Nth(S, 1)]
\* n calls of alloc_block, or fewer when the blocks run out.
alloc_block(bmap, n) ==
    LET S == FreeBlocks(bmap)
    IN  [i \in 1 .. (IF n <= Cardinality(S) THEN n ELSE Cardinality(S)) |-> Nth(S, i)]

FreeInodes == {i \in FirstIno .. NInodes : i \notin ib}
alloc_inode == IF FreeInodes = {} THEN 0 ELSE Nth(FreeInodes, 1)

(***************************************************************************)
(* Writes                                                                  *)
(***************************************************************************)
W(at, k, v) == [at |-> at, k |-> k, v |-> v]

Counts(sb, gd) == <<W("super", 0, sb), W("group", 0, gd)>>

Zeroed == [super |-> [magic |-> FALSE, blocks |-> 0, inodes |-> 0],
           group |-> [blocks |-> 0, inodes |-> 0, dirs |-> 0],
           bb |-> {}, ib |-> {},
           inode |-> [i \in Inodes |-> NoInode],
           content |-> [b \in DataBlocks |-> <<>>]]

\* What block w leaves of the on-disk structure at, whose value is old.
Put(w, at, old) ==
    CASE w.at = at -> w.v
      [] w.at = "wipe" -> Zeroed[at]
      [] OTHER -> old

Apply(w) ==
    /\ UNCHANGED is_ram
    /\ super' = Put(w, "super", super)
    /\ group' = Put(w, "group", group)
    /\ bb' = Put(w, "bb", bb)
    /\ ib' = Put(w, "ib", ib)
    /\ inode' = IF w.at = "inode" THEN [inode EXCEPT ![w.k] = w.v]
                ELSE IF w.at = "table" THEN Zeroed.inode
                ELSE Put(w, "inode", inode)
    /\ content' = IF w.at = "block" THEN [content EXCEPT ![w.k] = w.v]
                  ELSE Put(w, "content", content)

Paths == UNION {[1 .. n -> Names] : n \in 0 .. MaxDepth}

\* The tree that the disk holds, as far down as paths go.
Tree ==
    LET node(i) == IF inode[i].mode = "dir" THEN [kind |-> "dir", data |-> <<>>]
                   ELSE [kind |-> "file",
                         data |-> [j \in DOMAIN inode[i].blks |-> content[inode[i].blks[j]]]]
    IN  [p \in {q \in Paths : lookup_final(q) # 0} |-> node(lookup_final(p))]

Req(op, path, data) == [op |-> op, path |-> path, data |-> data]
NoReq == Req("none", <<>>, <<>>)

Begin(writes, end) ==
    /\ plan = <<>>
    /\ plan' = writes
    /\ ending' = end
    /\ before' = IF super.magic /\ ~dirty THEN Tree ELSE <<>>
    /\ UNCHANGED <<disk, dirty>>

(***************************************************************************)
(* Operations                                                              *)
(***************************************************************************)
Ext2Init ==
    /\ is_ram \in BOOLEAN
    /\ super = Zeroed.super /\ group = Zeroed.group
    /\ bb = Zeroed.bb /\ ib = Zeroed.ib
    /\ inode = Zeroed.inode /\ content = Zeroed.content
    /\ plan = <<>> /\ ending = "done" /\ dirty = FALSE
    /\ req = NoReq /\ before = <<>>

ext2_format ==
    LET mark == FIRST_DATA_BLOCK + 2
        sb == [magic |-> TRUE, blocks |-> NBlocks - mark, inodes |-> NInodes - LostFoundIno]
        gd == [blocks |-> NBlocks - mark, inodes |-> NInodes - LostFoundIno, dirs |-> 2]
    IN  /\ req' = Req("format", <<>>, <<>>)
        /\ Begin((IF is_ram THEN <<W("wipe", 0, <<>>)>> ELSE <<>>)
                   \o Counts(sb, gd)
                   \o << W("bb", 0, 0 .. (mark - 1)), W("ib", 0, 1 .. LostFoundIno),
                         W("table", 0, <<>>),
                         W("inode", RootIno, DirInode(FIRST_DATA_BLOCK)),
                         W("inode", LostFoundIno, DirInode(FIRST_DATA_BLOCK + 1)),
                         W("block", FIRST_DATA_BLOCK,
                           <<[name |-> LostFound, ino |-> LostFoundIno]>>),
                         W("block", FIRST_DATA_BLOCK + 1, <<>>) >>,
                 "format")

\* read_super and lookup_final of the parent succeed.
Writable(path) ==
    /\ plan = <<>>
    /\ super.magic /\ ~dirty
    /\ path # <<>>
    /\ lookup_final(path_split_parent(path)[1]) # 0
    /\ inode[lookup_final(path_split_parent(path)[1])].mode = "dir"

Plus(counts, b, i) ==
    [counts EXCEPT !.blocks = @ + b, !.inodes = @ + i]

\* The common end: both counts, both bitmaps, then the inodes.
Commit(db, di, bmap, imap) ==
    Counts(Plus(super, db, di), Plus(group, db, di))
      \o <<W("bb", 0, bmap), W("ib", 0, imap)>>

FileData(bs, d) == [i \in DOMAIN bs |-> W("block", bs[i], d)]

Overwrite_NotCounted(ino, d, n) ==
    LET old == Range(inode[ino].blks)
        bs == alloc_block(bb \ old, n)
    IN  Begin(<<W("bb", 0, bb \ old)>> \o FileData(bs, d)
                \o (IF Len(bs) < n THEN <<>>
                    ELSE Commit(-n, 0, (bb \ old) \cup Range(bs), ib)
                           \o <<W("inode", ino, FileInode(bs))>>),
              IF Len(bs) < n THEN "full" ELSE "done")
Overwrite_StaleBitmap(ino, d, n) ==
    LET old == Range(inode[ino].blks)
        bs == alloc_block(bb \ old, n)
    IN  Begin(FileData(bs, d)
                \o (IF Len(bs) < n THEN <<>>
                    ELSE Commit(Cardinality(old) - n, 0, bb \cup Range(bs), ib)
                           \o <<W("inode", ino, FileInode(bs))>>),
              IF Len(bs) < n THEN "full" ELSE "done")
Overwrite_OldSize(ino, d, n) ==
    LET old == Range(inode[ino].blks)
        bs == alloc_block(bb \ old, Cardinality(old))
    IN  Begin(<<W("bb", 0, bb \ old)>> \o FileData(bs, d)
                \o Commit(0, 0, (bb \ old) \cup Range(bs), ib)
                \o <<W("inode", ino, FileInode(bs))>>, "done")
\* write_file on a name that exists: its blocks are freed, on disk too, first.
Overwrite(ino, d, n) ==
    LET old == Range(inode[ino].blks)
        bs == alloc_block(bb \ old, n)
    IN  Begin(<<W("bb", 0, bb \ old)>> \o FileData(bs, d)
                \o (IF Len(bs) < n THEN <<>>
                    ELSE Commit(Cardinality(old) - n, 0, (bb \ old) \cup Range(bs), ib)
                           \o <<W("inode", ino, FileInode(bs))>>),
              IF Len(bs) < n THEN "full" ELSE "done")

Create_ClearFirst(dir, name, d, n) ==
    LET ino == alloc_inode
        bs == alloc_block(bb, n)
    IN  /\ ino # 0
        /\ Len(Entries(dir)) < DirSlots
        /\ Begin(<<W("block", inode[dir].blks[1], <<>>),
                   W("block", inode[dir].blks[1],
                     Append(Entries(dir), [name |-> name, ino |-> ino]))>>
                   \o FileData(bs, d)
                   \o (IF Len(bs) < n THEN <<>>
                       ELSE Commit(-n, -1, bb \cup Range(bs), ib \cup {ino})
                              \o <<W("inode", ino, FileInode(bs))>>),
                 IF Len(bs) < n THEN "full" ELSE "done")
\* write_file on a new name: the directory entry is written first.
Create(dir, name, d, n) ==
    LET ino == alloc_inode
        bs == alloc_block(bb, n)
    IN  /\ ino # 0
        /\ Len(Entries(dir)) < DirSlots
        /\ Begin(<<W("block", inode[dir].blks[1],
                     Append(Entries(dir), [name |-> name, ino |-> ino]))>>
                   \o FileData(bs, d)
                   \o (IF Len(bs) < n THEN <<>>
                       ELSE Commit(-n, -1, bb \cup Range(bs), ib \cup {ino})
                              \o <<W("inode", ino, FileInode(bs))>>),
                 IF Len(bs) < n THEN "full" ELSE "done")

ext2_write_file_AlwaysCreate(path, d, n) ==
    /\ Writable(path)
    /\ n <= MaxBlocks
    /\ req' = Req("file", path, [i \in 1 .. n |-> d])
    /\ Create(lookup_final(path_split_parent(path)[1]), path_split_parent(path)[2], d, n)
ext2_write_file(path, d, n) ==
    /\ Writable(path)
    /\ n <= MaxBlocks
    /\ req' = Req("file", path, [i \in 1 .. n |-> d])
    /\ LET dir == lookup_final(path_split_parent(path)[1])
           name == path_split_parent(path)[2]
       IN  IF Has(Entries(dir), name)
             THEN Overwrite(find_in_root(Entries(dir), name), d, n)
             ELSE Create(dir, name, d, n)

\* The new directory's block is written before the check for a full parent.
ext2_mkdir(path) ==
    /\ Writable(path)
    /\ req' = Req("dir", path, <<>>)
    /\ LET dir == lookup_final(path_split_parent(path)[1])
           name == path_split_parent(path)[2]
           ino == alloc_inode
           bs == alloc_block(bb, 1)
           fits == Len(Entries(dir)) < DirSlots
       IN  /\ ~Has(Entries(dir), name)
           /\ ino # 0 /\ bs # <<>>
           /\ Begin(<<W("block", bs[1], <<>>)>>
                      \o (IF ~fits THEN <<>>
                          ELSE <<W("block", inode[dir].blks[1],
                                   Append(Entries(dir), [name |-> name, ino |-> ino]))>>
                                 \o Counts(Plus(super, -1, -1),
                                           [Plus(group, -1, -1) EXCEPT !.dirs = @ + 1])
                                 \o << W("bb", 0, bb \cup {bs[1]}), W("ib", 0, ib \cup {ino}),
                                       W("inode", dir, inode[dir]),
                                       W("inode", ino, DirInode(bs[1])) >>),
                    IF fits THEN "done" ELSE "refused")

\* The operation is over.
Finish == plan' = <<>> /\ ending' = "done" /\ req' = NoReq /\ before' = <<>>

\* One write reaches the disk.  After the last one the operation returns; it
\* has failed if it ran out of blocks, and a finished format has healed the disk.
vol_write_blk ==
    /\ plan # <<>>
    /\ Apply(Head(plan))
    /\ IF Len(plan) > 1
         THEN plan' = Tail(plan) /\ UNCHANGED <<ending, req, before, dirty>>
         ELSE /\ Finish
              /\ dirty' = (ending = "full" \/ (dirty /\ ending # "format"))

\* The device fails or loses power: the operation ends where it is.
WriteFails ==
    /\ plan # <<>> /\ ~is_ram
    /\ Finish
    /\ dirty' = TRUE
    /\ UNCHANGED disk

Format == ext2_format
WriteFile == \E path \in Paths, d \in Data, n \in 0 .. MaxBlocks : ext2_write_file(path, d, n)
MkDir == \E path \in Paths : ext2_mkdir(path)

Ext2Next == Format \/ WriteFile \/ MkDir \/ vol_write_blk \/ WriteFails
Ext2Spec == Ext2Init /\ [][Ext2Next]_ext2Vars

(***************************************************************************)
(* Properties                                                              *)
(***************************************************************************)
\* Every structure on the disk has its type.
Ext2TypeOK ==
    /\ is_ram \in BOOLEAN
    /\ super \in [magic : BOOLEAN, blocks : Int, inodes : Int]
    /\ group \in [blocks : Int, inodes : Int, dirs : Int]
    /\ bb \subseteq 0 .. (NBlocks - 1) /\ ib \subseteq Inodes
    /\ inode \in [Inodes -> [mode : {"none", "dir", "file"},
                             blks : UNION {[1 .. n -> DataBlocks] : n \in 0 .. MaxBlocks}]]
    /\ DOMAIN content = DataBlocks
    /\ ending \in {"done", "full", "refused", "format"} /\ dirty \in BOOLEAN

\* No operation is running and none has failed half way.
Settled == plan = <<>> /\ super.magic /\ ~dirty

Owned(i) == Range(inode[i].blks)
DirInodes == {i \in Inodes : inode[i].mode = "dir"}
NamedBy(i) == {e \in DirInodes \X (1 .. DirSlots) :
                  e[2] \in DOMAIN Entries(e[1]) /\ Entries(e[1])[e[2]].ino = i}

\* Between operations no block belongs to two inodes or twice to one: what
\* write_file puts into one file never shows up in another.
NoBlockShared ==
    Settled =>
      /\ \A i, j \in Inodes : i # j => Owned(i) \cap Owned(j) = {}
      /\ \A i \in Inodes : Cardinality(Owned(i)) = Len(inode[i].blks)

\* Between operations the block bitmap is exactly the metadata blocks and the
\* blocks of inodes, and the inode bitmap the reserved inodes and those in use.
BitmapsExact ==
    Settled =>
      /\ bb = (0 .. (FIRST_DATA_BLOCK - 1)) \cup UNION {Owned(i) : i \in Inodes}
      /\ ib = (1 .. LostFoundIno) \cup {i \in Inodes : inode[i].mode # "none"}

\* Between operations the free counts of super block and group descriptor,
\* kept by increments, are what the bitmaps say.
CountsExact ==
    Settled =>
      /\ super.blocks = NBlocks - Cardinality(bb) /\ group.blocks = super.blocks
      /\ super.inodes = NInodes - Cardinality(ib) /\ group.inodes = super.inodes

\* Between operations the directories form a tree: an entry names an inode in
\* use, no inode has two names, and no directory has a name twice.
EntriesAreSound ==
    Settled =>
      /\ \A d \in DirInodes : \A k \in DOMAIN Entries(d) :
            /\ Entries(d)[k].ino \in ib \ {RootIno}
            /\ inode[Entries(d)[k].ino].mode # "none"
            /\ \A l \in DOMAIN Entries(d) :
                  Entries(d)[l].name = Entries(d)[k].name => l = k
      /\ \A i \in Inodes : Cardinality(NamedBy(i)) <= 1

\* Wherever in its writes an operation stops, by a device error, loss of power
\* or lack of blocks, only the path it was given is at stake: every other file
\* and directory can be looked up and has its contents.
FailureIsContained ==
    (plan # <<>> /\ before # <<>> /\ req.op # "format") =>
        \A p \in DOMAIN before :
            (Len(p) < Len(req.path) \/ SubSeq(p, 1, Len(req.path)) # req.path) =>
                p \in DOMAIN Tree /\ Tree[p] = before[p]

\* The volume implements the abstract tree: an operation that ends well has
\* changed just the path it was given to just what it was given, and one that
\* is refused has changed nothing, for whoever looks next.
Store == INSTANCE FileStore WITH
    Contents <- {[i \in 1 .. n |-> d] : n \in 0 .. MaxBlocks, d \in Data},
    formatted <- IF plan = <<>> THEN super.magic /\ ~dirty ELSE before # <<>>,
    tree <- IF plan # <<>> THEN before ELSE IF super.magic /\ ~dirty THEN Tree ELSE <<>>
ImplementsStore == Store!StoreSpec

\* README: "write" reads and writes regular files.  An operation other than
\* format never turns a directory into something else.
DirsStayDirs ==
    [][ending # "format" =>
          \A i \in Inodes : inode[i].mode = "dir" => inode'[i].mode = "dir"]_ext2Vars
=============================================================================
