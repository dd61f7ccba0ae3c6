------------------------------ MODULE MCFiles -------------------------------
(***************************************************************************)
(* Volume commands and descriptors on a 10-page machine with four blocks   *)
(* to a page, a large drive and one that is too small.  Two RAM disks do   *)
(* not fit at once when the kernel holds a page: mkdisk then fails for     *)
(* lack of memory.                                                         *)
(***************************************************************************)
EXTENDS Files

MCMap == << [base |-> 0, length |-> 5], [base |-> 8, length |-> 32] >>
MCCapacity == [d \in {"hda", "hdb"} |-> IF d = "hda" THEN 40 ELSE 2]
MCContents == {<<"a">>, <<"a", "b", "c">>}
=============================================================================
