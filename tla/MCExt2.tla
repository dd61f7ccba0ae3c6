------------------------------- MODULE MCExt2 ------------------------------
(***************************************************************************)
(* An ext2 volume with two free blocks and two free inodes: one file can   *)
(* fill it, and a directory block holds two names, so every way to run out *)
(* of space is reached.  Names other than lost+found and file data are     *)
(* interchangeable.                                                        *)
(***************************************************************************)
EXTENDS Ext2, TLC

Sym == Permutations(Names \ {LostFound}) \cup Permutations(Data)
=============================================================================
