------------------------------- MODULE MCPmm -------------------------------
(***************************************************************************)
(* pmm.c on a 14-page machine with two AVAILABLE entries: low memory that  *)
(* ends inside a page, and a main region that holds the kernel, the bitmap *)
(* and a frame buffer in its middle.                                       *)
(***************************************************************************)
EXTENDS Pmm

MCMap == << [base |-> 0, length |-> 5], [base |-> 8, length |-> 48] >>
=============================================================================
