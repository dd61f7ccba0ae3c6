------------------------------- MODULE MCIde --------------------------------
(***************************************************************************)
(* Two blocks of two sectors, waits of two looks, and drives that report   *)
(* their size in every way ide_capacity_sectors tells apart; sizes above   *)
(* 15 do not fit the short count and sizes above 31 not the result.        *)
(***************************************************************************)
EXTENDS Ide

MCBuffers == {<<"a", "b">>}
MCGeometries ==
    {[n28 |-> 8, n48 |-> 8, lba48 |-> FALSE], [n28 |-> 15, n48 |-> 40, lba48 |-> TRUE],
     [n28 |-> 18, n48 |-> 0, lba48 |-> TRUE], [n28 |-> 16, n48 |-> 0, lba48 |-> FALSE],
     [n28 |-> 0, n48 |-> 20, lba48 |-> FALSE], [n28 |-> 0, n48 |-> 0, lba48 |-> FALSE]}
=============================================================================
