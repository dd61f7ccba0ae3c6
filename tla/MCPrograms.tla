----------------------------- MODULE MCPrograms -----------------------------
(***************************************************************************)
(* Packages that meet every test of the loader from both sides, a window   *)
(* of three units, three large pages of mapped memory, and all paths of up *)
(* to six characters where names have two and paths three components.      *)
(***************************************************************************)
EXTENDS Programs

Sec(type, off, size) == [type |-> type, off |-> off, size |-> size]
Segment(off, len, dst, mem) == [off |-> off, len |-> len, dst |-> dst, mem |-> mem]

\* A header of three units with two sections, and an image of two segments.
Good == [name |-> "good", valid |-> TRUE, kind |-> "program", size |-> 9, hdr |-> 3, aligned |-> TRUE,
         secs |-> <<Sec("manifest", 3, 1), Sec("image", 4, 5)>>, needs |-> FALSE,
         table |-> 1, segs |-> <<Segment(3, 1, 0, 2), Segment(4, 1, 2, 1)>>,
         rela |-> FALSE, embedded |-> FALSE]

MCPackages ==
    { Good,
      [Good EXCEPT !.name = "built-in", !.embedded = TRUE, !.segs = <<Segment(3, 1, 2, 1)>>],
      \* beyond the prefix, with segments that overlap
      [Good EXCEPT !.name = "long", !.size = 10, !.hdr = 4,
                   !.secs = <<Sec("manifest", 4, 1), Sec("image", 5, 5), Sec("image", 0, 1)>>,
                   !.segs = <<Segment(3, 2, 0, 3), Segment(3, 0, 1, 1)>>],
      [Good EXCEPT !.name = "not a package", !.valid = FALSE],
      [Good EXCEPT !.name = "library", !.kind = "library"],
      [Good EXCEPT !.name = "empty", !.size = 0],
      [Good EXCEPT !.name = "large", !.size = 11],
      [Good EXCEPT !.name = "long header", !.size = 10, !.hdr = 7],
      [Good EXCEPT !.name = "unaligned", !.hdr = 4, !.aligned = FALSE],
      \* a file that ends in its header
      [Good EXCEPT !.name = "cut", !.size = 2, !.secs = <<Sec("manifest", 0, 1), Sec("image", 0, 2)>>],
      [Good EXCEPT !.name = "past", !.secs = <<Sec("manifest", 3, 1), Sec("image", 5, 5)>>],
      [Good EXCEPT !.name = "no image", !.secs = <<Sec("manifest", 3, 1)>>],
      [Good EXCEPT !.name = "table outside", !.hdr = 2],
      [Good EXCEPT !.name = "manifest", !.secs = <<Sec("manifest", 3, 3), Sec("image", 4, 5)>>],
      [Good EXCEPT !.name = "needs", !.size = 10, !.hdr = 4, !.needs = TRUE],
      [Good EXCEPT !.name = "many", !.segs = <<Segment(3, 1, 0, 1), Segment(3, 1, 1, 1), Segment(3, 1, 2, 1)>>],
      [Good EXCEPT !.name = "rela", !.rela = TRUE, !.segs = <<Segment(3, 1, 0, 1)>>],
      [Good EXCEPT !.name = "segment past", !.segs = <<Segment(4, 2, 1, 2)>>],
      [Good EXCEPT !.name = "segment wide", !.segs = <<Segment(3, 2, 0, 1)>>] }

MCPathArgs == BoundedSeq({"/", ".", "a"}, 6)
MCCwds == {<<"/">>, <<"/", "a">>, <<"/", "a", "/", "a", "a">>}
MCSonameOf == [p \in {"m", "long", "longname"} |-> IF p = "m" THEN "m" ELSE "long"]
=============================================================================
