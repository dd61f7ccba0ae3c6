------------------------------ MODULE Storage ------------------------------
(***************************************************************************)
(* The attached volume, the VFS root and the two current directories, as   *)
(* the shell's volume commands change them, on top of the page bitmap that *)
(* backs RAM disks.  Addresses and sizes count file system blocks, so that *)
(* PageSize is the number of blocks in a page.  What a medium holds is     *)
(* reduced to what the commands tell apart.                                *)
(***************************************************************************)
EXTENDS Pmm

CONSTANTS
    Drives,         \* IDE drives and AHCI ports with a disk
    Capacity,       \* their sizes in blocks
    MinBlk, MaxBlk, \* 256 and 8192: the limits of the single-group ext2
    DiskSizes,      \* the sizes mkdisk is asked for
    MaxFixed        \* pages the kernel takes for good (tables, stacks)

ASSUME StorageAssumption ==
    /\ Capacity \in [Drives -> Nat]
    /\ MinBlk \in Nat \ {0} /\ MaxBlk \in Nat /\ MinBlk <= MaxBlk
    /\ DiskSizes \subseteq Nat /\ MaxFixed \in Nat

VARIABLES
    vol,         \* g_vol: [type, base, size, drive]
    ram,         \* g_ram_alloc and g_ram_npages, or NoRun
    mounted,     \* g_root.mounted
    media,       \* what each drive, and the memory of the RAM disk, holds
    cwd,         \* the shell's g_cwd: a member of Dirs
    usercwd,     \* g_user_cwd
    fixed        \* the runs the kernel keeps for good

stVars == <<vol, ram, mounted, media, cwd, usercwd, fixed>>
storageVars == <<pmmVars, stVars>>

NoRun == [start |-> 0, n |-> 0]      \* no pages: Run(NoRun) = {}
NoVol == [type |-> "none", base |-> 0, size |-> 0, drive |-> "none"]
Medium == IF vol.type = "disk" THEN vol.drive ELSE "ram"

Dirs == {"/", "/d", "/dev"}

\* blank: no superblock; ext2: a fresh file system; ext2d: one with the
\* directory /d; torn: a format that failed half way.
MediumStates == {"blank", "ext2", "ext2d", "torn"}

StorageInit ==
    /\ PmmInit
    /\ vol = NoVol /\ ram = NoRun
    /\ mounted = FALSE
    /\ media = [m \in Drives \cup {"ram"} |-> "blank"]  \* format makes the others
    /\ cwd = "/" /\ usercwd = "/"
    /\ fixed = {}

(***************************************************************************)
(* Helpers of the commands                                                 *)
(***************************************************************************)
shell_cwd_reset == cwd' = "/" /\ usercwd' = "/"

\* vfs_mount_root never looks at the medium.
vfs_mount_root == mounted' = TRUE

DetachAll_KeepPages(got) ==
    /\ bitmap' = bitmap \cup UNION {Run(b) : b \in got}
    /\ used' = used + Cardinality(UNION {Run(b) : b \in got})
    /\ live' = (live \ {ram}) \cup got
    /\ UNCHANGED <<phase, done>>
\* chaseros_vol_detach_all, after an allocation of the runs got (one for
\* mkdisk, none otherwise): the pages of the old RAM disk are freed.
DetachAll(got) ==
    LET new == UNION {Run(b) : b \in got}
        freed == {p \in Run(ram) : p < TotalPages} \cap (bitmap \cup new)
    IN  /\ bitmap' = (bitmap \cup new) \ freed
        /\ used' = used + Cardinality(new) - Cardinality(freed)
        /\ live' = (live \ {ram}) \cup got
        /\ UNCHANGED <<phase, done>>

(***************************************************************************)
(* Commands.  A command that reports an error before it changed anything   *)
(* is no step: its condition is missing from the guard.                    *)
(***************************************************************************)
\* The pages that mkdisk allocates, and the pages attach_ram notes for the
\* release: the same formula, twice in the code.
PagesFor_Floor(size) == size \div PageSize
PagesFor(size) == (size + PageSize - 1) \div PageSize
RamPages(size) == (size + PageSize - 1) \div PageSize

\* mkdisk allocates first; attach_ram then releases the disk there was.
\* The memory is not cleared: it may hold the remains of an older disk.
mkdisk(size) ==
    /\ size >= MinBlk /\ size <= MaxBlk
    /\ \E start \in Pages, remains \in MediumStates :
          /\ IsFirstFit(start, PagesFor(size))
          /\ DetachAll({[start |-> start, n |-> PagesFor(size)]})
          /\ ram' = [start |-> start, n |-> RamPages(size)]
          /\ vol' = [type |-> "ram", base |-> start * PageSize, size |-> size,
                     drive |-> "none"]
          /\ media' = [media EXCEPT !["ram"] = remains]
    /\ shell_cwd_reset
    /\ vfs_mount_root
    /\ UNCHANGED fixed

\* attach_ram refuses a disk above the limit; mkdisk gives the pages back and
\* the old volume stays.
mkdisk_refused(size) ==
    /\ size > MaxBlk
    /\ \E start \in Pages :
          LET new == Run([start |-> start, n |-> PagesFor(size)])
              freed == {p \in new : p < TotalPages} \cap (bitmap \cup new)
          IN  /\ IsFirstFit(start, PagesFor(size))
              /\ bitmap' = (bitmap \cup new) \ freed
              /\ used' = used + PagesFor(size) - Cardinality(freed)
    /\ UNCHANGED <<phase, done, live, stVars>>

\* attach ide and attach ahci: only a disk of MinBlk blocks is taken, and of
\* a large one the first MaxBlk blocks.
attach(d) ==
    /\ Capacity[d] >= MinBlk
    /\ DetachAll({})
    /\ ram' = NoRun
    /\ vol' = [type |-> "disk", base |-> 0, drive |-> d,
               size |-> IF Capacity[d] > MaxBlk THEN MaxBlk ELSE Capacity[d]]
    /\ shell_cwd_reset
    /\ vfs_mount_root
    /\ UNCHANGED <<media, fixed>>

mount ==
    /\ vol.type # "none"
    /\ vfs_mount_root
    /\ UNCHANGED <<pmmVars, vol, ram, media, cwd, usercwd, fixed>>

umount ==
    /\ mounted' = FALSE
    /\ shell_cwd_reset
    /\ UNCHANGED <<pmmVars, vol, ram, media, fixed>>

detach_NoUmount ==
    /\ shell_cwd_reset
    /\ DetachAll({})
    /\ vol' = NoVol /\ ram' = NoRun
    /\ UNCHANGED <<mounted, media, fixed>>
detach ==
    /\ mounted' = FALSE
    /\ shell_cwd_reset
    /\ DetachAll({})
    /\ vol' = NoVol /\ ram' = NoRun
    /\ UNCHANGED <<media, fixed>>

\* chaseros_ext2_format ends well, or a disk fails somewhere in the middle.
Formatted(ok) ==
    /\ vol.type # "none"
    /\ ok \/ vol.type = "disk"
    /\ media' = [media EXCEPT ![Medium] = IF ok THEN "ext2" ELSE "torn"]

format_NoReset(ok) ==
    /\ Formatted(ok)
    /\ UNCHANGED <<pmmVars, vol, ram, mounted, cwd, usercwd, fixed>>
format(ok) ==
    /\ Formatted(ok)
    /\ IF ok THEN shell_cwd_reset ELSE UNCHANGED <<cwd, usercwd>>
    /\ UNCHANGED <<pmmVars, vol, ram, mounted, fixed>>

initdisk(ok) ==
    /\ Formatted(ok)
    /\ mounted' = ok
    /\ shell_cwd_reset
    /\ UNCHANGED <<pmmVars, vol, ram, fixed>>

\* initdisk without a volume still unmounts and resets.
initdisk_NoVolume ==
    /\ vol.type = "none"
    /\ mounted' = FALSE
    /\ shell_cwd_reset
    /\ UNCHANGED <<pmmVars, vol, ram, media, fixed>>

\* Needs a super block and no /d yet; a disk may fail in the middle.
mkdir(ok) ==
    /\ mounted /\ vol.type # "none" /\ media[Medium] = "ext2"
    /\ ok \/ vol.type = "disk"
    /\ media' = [media EXCEPT ![Medium] = IF ok THEN "ext2d" ELSE "torn"]
    /\ UNCHANGED <<pmmVars, vol, ram, mounted, cwd, usercwd, fixed>>

\* /dev is a directory on every mounted root; on a torn medium /d may be
\* found or not.
vfs_is_directory(dir) ==
    /\ mounted /\ vol.type # "none"
    /\ dir = "/dev" \/ media[Medium] \in {"ext2d", "torn"}

\* cd without an argument goes to / in every state.
cd(dir) ==
    /\ dir = "/" \/ vfs_is_directory(dir)
    /\ cwd' = dir
    /\ usercwd' = dir
    /\ UNCHANGED <<pmmVars, vol, ram, mounted, media, fixed>>

\* A program that starts gets the shell's directory.
user_bind ==
    /\ usercwd' = cwd
    /\ UNCHANGED <<pmmVars, vol, ram, mounted, media, cwd, fixed>>

\* The kernel takes a page for good: a page table, a kernel stack.
TakeFixed ==
    /\ Cardinality(fixed) < MaxFixed
    /\ pmm_alloc_page
    /\ fixed' = fixed \cup (live' \ live)
    /\ UNCHANGED <<vol, ram, mounted, media, cwd, usercwd>>

Startup == Boot /\ UNCHANGED stVars

Command ==
    \/ \E size \in DiskSizes : mkdisk(size) \/ mkdisk_refused(size)
    \/ \E d \in Drives : attach(d)
    \/ mount \/ umount \/ detach
    \/ \E ok \in BOOLEAN : format(ok) \/ initdisk(ok) \/ mkdir(ok)
    \/ initdisk_NoVolume
    \/ \E dir \in Dirs : cd(dir)
    \/ user_bind
    \/ TakeFixed

StorageNext == Startup \/ (phase = "run" /\ Command)
StorageSpec == StorageInit /\ [][StorageNext]_storageVars

(***************************************************************************)
(* Properties                                                              *)
(***************************************************************************)
\* However the commands switch between RAM disks and drives, the bitmap holds
\* just the pages that were never free, those the kernel keeps, and those of
\* the attached RAM disk: detach_all and a refused mkdisk give all pages back.
NoRunLeaks ==
    phase = "run" =>
        /\ bitmap = (Pages \ Ram) \cup (Reserved \cap Pages)
                      \cup (UNION {Run(b) : b \in fixed}) \cup Run(ram)
        /\ used = Cardinality(bitmap)

\* Every block of an attached RAM disk lies in pages that the disk owns.
RamDiskBacked ==
    /\ vol.type = "ram" <=> ram # NoRun
    /\ vol.type = "ram" =>
          /\ ram \in live
          /\ vol.base = ram.start * PageSize
          /\ vol.size <= ram.n * PageSize

\* The VFS root is never mounted without a volume.
MountedHasVolume == mounted => vol.type # "none"

\* A current directory other than / is a directory of the volume that is
\* mounted now, unless a format of that volume failed half way.
CwdOnVolume ==
    /\ cwd # "/" => mounted
    /\ cwd = "/d" => media[Medium] \in {"ext2d", "torn"}

\* The shell's directory and the one programs start in never part.
CwdCopiesAgree == usercwd = cwd
=============================================================================
