-------------------------------- MODULE Files --------------------------------
(***************************************************************************)
(* The descriptors of the running program, on top of the volume commands:  *)
(* user_fd.c and the part of the VFS that it and the shell's write use.    *)
(* One path of the volume, /f, and the two devices stand for all paths.    *)
(* A program runs with interrupts off, so the shell has the machine only   *)
(* when none runs, or when one waits for a message, which it then never    *)
(* leaves: no timer and no command delivers one.                           *)
(***************************************************************************)
EXTENDS Storage, Sequences

CONSTANTS
    NFd,            \* CHASEROS_USER_FD_NUM
    Contents,       \* what write puts into /f
    Chunk,          \* 2048, the bounce buffer of read
    MaxIo,          \* CHASEROS_SYSCALL_MAX_IO_BYTES
    ZeroSize        \* 0xFFFFFFFF, the size of /dev/zero

ASSUME FilesAssumption ==
    /\ NFd \in Nat /\ Chunk \in Nat \ {0} /\ MaxIo \in Nat /\ ZeroSize \in Nat
    /\ \A c \in Contents : c \in Seq({"0", "a", "b", "c"})

VARIABLES
    file,        \* what /f holds on each medium, or NoFile
    running,     \* a program runs
    fds          \* g_ufd: [valid, path, off, size, seen]

fdVars == <<file, running, fds>>
filesVars == <<storageVars, fdVars>>

NoFile == <<"none">>
Slots == 0 .. (NFd - 1)
Paths == {"f", "null", "zero"}
\* seen is what the program has read through the descriptor.
FreeSlot == [valid |-> FALSE, path |-> "f", off |-> 0, size |-> 0, seen |-> <<>>]
user_fd_reset == fds' = [i \in Slots |-> FreeSlot]

\* What /f can be on a medium in a given state.
FileStates(m) == CASE m = "blank" -> {NoFile} [] OTHER -> Contents \cup {NoFile}

FilesInit ==
    /\ StorageInit
    /\ file = [m \in Drives \cup {"ram"} |-> NoFile]
    /\ running = FALSE
    /\ fds = [i \in Slots |-> FreeSlot]

(***************************************************************************)
(* The VFS                                                                 *)
(***************************************************************************)
vfs_is_mounted == mounted /\ vol.type # "none"
OnVolume == media[Medium] # "blank" /\ file[Medium] # NoFile

\* vfs_stat: the sizes it can report; none when there is no such file.
vfs_stat(path) ==
    CASE path = "null" -> {0}
      [] path = "zero" -> {ZeroSize}
      [] OTHER -> IF OnVolume THEN {Len(file[Medium])} ELSE {}

\* vfs_read_file_range: the bytes from off on, at most n of them.
vfs_read_file_range(path, off, n) ==
    CASE path = "null" -> <<>>
      [] path = "zero" -> [i \in 1 .. n |-> "0"]
      [] OTHER -> LET c == file[Medium]
                  IN  IF off >= Len(c) THEN <<>>
                      ELSE SubSeq(c, off + 1, IF off + n < Len(c) THEN off + n ELSE Len(c))

(***************************************************************************)
(* System calls.  One that reports an error without a change is no step.   *)
(***************************************************************************)
open(path) ==
    /\ running /\ vfs_is_mounted
    /\ \E size \in vfs_stat(path) :
          \E i \in Slots :
             /\ ~fds[i].valid /\ \A j \in Slots : j < i => fds[j].valid
             /\ fds' = [fds EXCEPT ![i] = [valid |-> TRUE, path |-> path, off |-> 0,
                                           size |-> size, seen |-> <<>>]]
    /\ UNCHANGED <<storageVars, file, running>>

close(i) ==
    /\ running /\ fds[i].valid
    /\ fds' = [fds EXCEPT ![i] = FreeSlot]
    /\ UNCHANGED <<storageVars, file, running>>

\* The loop of read, from total on: chunks until the length is reached, or a
\* chunk comes back short.
ReadLoop(path, off, len) ==
    LET loop[total \in 0 .. len] ==
            LET chunk == IF len - total > Chunk THEN Chunk ELSE len - total
                got == vfs_read_file_range(path, off + total, chunk)
            IN  IF total = len \/ got = <<>> THEN <<>>
                ELSE IF Len(got) < chunk THEN got
                ELSE got \o loop[total + Len(got)]
    IN  loop[0]

read_NoAdvance(i, len) ==
    /\ running /\ fds[i].valid
    /\ 0 < len /\ len <= MaxIo
    /\ fds[i].off < fds[i].size
    /\ vfs_is_mounted
    /\ LET s == fds[i]
           n == IF len > s.size - s.off THEN s.size - s.off ELSE len
           data == ReadLoop(s.path, s.off, n)
       IN  fds' = [fds EXCEPT ![i].off = s.off + (Len(data) % Chunk), ![i].seen = s.seen \o data]
    /\ UNCHANGED <<storageVars, file, running>>
\* A failing disk ends the call with EIO and the descriptor as it was.
read(i, len) ==
    /\ running /\ fds[i].valid
    /\ 0 < len /\ len <= MaxIo
    /\ fds[i].off < fds[i].size
    /\ vfs_is_mounted
    /\ LET s == fds[i]
           n == IF len > s.size - s.off THEN s.size - s.off ELSE len
           data == ReadLoop(s.path, s.off, n)
       IN  fds' = [fds EXCEPT ![i] = [valid |-> TRUE, path |-> s.path, off |-> s.off + Len(data),
                                      size |-> s.size, seen |-> s.seen \o data]]
    /\ UNCHANGED <<storageVars, file, running>>

\* The program exits, faults or waits: the shell has the machine again.
Leave ==
    /\ running
    /\ running' = FALSE
    /\ UNCHANGED <<storageVars, file, fds>>

(***************************************************************************)
(* Commands of the shell                                                   *)
(***************************************************************************)
Launch_KeepFds ==
    /\ user_bind
    /\ running' = TRUE
    /\ UNCHANGED <<file, fds>>
Launch ==
    /\ user_bind
    /\ running' = TRUE
    /\ user_fd_reset
    /\ UNCHANGED file

\* write replaces the contents; a disk may fail in the middle.
write(c, ok) ==
    /\ vfs_is_mounted /\ media[Medium] \in {"ext2", "ext2d"}
    /\ \/ /\ ok
          /\ file' = [file EXCEPT ![Medium] = c] /\ UNCHANGED media
       \/ /\ ~ok /\ vol.type = "disk"
          /\ media' = [media EXCEPT ![Medium] = "torn"]
          /\ file' \in {[file EXCEPT ![Medium] = x] : x \in {c, NoFile, file[Medium]}}
    /\ UNCHANGED <<pmmVars, vol, ram, mounted, cwd, usercwd, fixed, running, fds>>

\* What a command that changed the state of a medium leaves of /f.
Rewritten(m) ==
    file' \in {[file EXCEPT ![m] = x] :
                 x \in IF media'[m] = "torn" THEN {NoFile, file[m]} ELSE {NoFile}}
FoundOnRam ==
    file' \in {[file EXCEPT !["ram"] = x] : x \in FileStates(media'["ram"])}

VolumeCommand ==
    \/ \E size \in DiskSizes :
          \/ mkdisk(size) /\ FoundOnRam /\ UNCHANGED fds
          \/ mkdisk_refused(size) /\ UNCHANGED <<file, fds>>
    \/ \E d \in Drives : attach(d) /\ UNCHANGED <<file, fds>>
    \/ mount /\ UNCHANGED <<file, fds>>
    \/ umount /\ user_fd_reset /\ UNCHANGED file
    \/ detach /\ user_fd_reset /\ UNCHANGED file
    \/ \E ok \in BOOLEAN :
          \/ format(ok) /\ Rewritten(Medium) /\ UNCHANGED fds
          \/ initdisk(ok) /\ Rewritten(Medium) /\ user_fd_reset
          \/ mkdir(ok) /\ UNCHANGED <<file, fds>>
    \/ initdisk_NoVolume /\ user_fd_reset /\ UNCHANGED file
    \/ \E dir \in Dirs : cd(dir) /\ UNCHANGED <<file, fds>>
    \/ TakeFixed /\ UNCHANGED <<file, fds>>

ShellCommand ==
    /\ ~running
    /\ \/ VolumeCommand /\ UNCHANGED running
       \/ Launch
       \/ \E c \in Contents, ok \in BOOLEAN : write(c, ok)

Syscall ==
    \/ \E p \in Paths : open(p)
    \/ \E i \in Slots : close(i)
    \/ \E i \in Slots, len \in 0 .. (MaxIo + 1) : read(i, len)
    \/ Leave

FilesNext ==
    \/ Startup /\ UNCHANGED fdVars
    \/ phase = "run" /\ (ShellCommand \/ Syscall)
FilesSpec == FilesInit /\ [][FilesNext]_filesVars

(***************************************************************************)
(* Properties                                                              *)
(***************************************************************************)
\* A program only has descriptors of files on the volume that is mounted now,
\* with the size that they have now, however volumes were switched, formatted
\* or written between the runs of programs.
FdsAreCurrent ==
    running => \A i \in Slots : fds[i].valid =>
        vfs_is_mounted /\ fds[i].size \in vfs_stat(fds[i].path)

\* What a program has read through a descriptor, over all calls, is the file
\* from its start up to the offset: no byte is skipped or delivered twice.
ReadsAreSequential ==
    running => \A i \in Slots : (fds[i].valid /\ fds[i].path = "f") =>
        fds[i].seen = SubSeq(file[Medium], 1, fds[i].off)
=============================================================================
