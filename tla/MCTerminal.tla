----------------------------- MODULE MCTerminal -----------------------------
(***************************************************************************)
(* A screen of 4 x 3 cells, or of 6 x 5 pixels (4, 2 or 1 columns at scale *)
(* 1, 2 and 3), and a line of up to 4 characters: with the prompt it       *)
(* reaches past the end of the row.                                        *)
(***************************************************************************)
EXTENDS Terminal

MCOutputs == { <<>>, <<"a", NewLine>>, <<"a", "a", "a", "a", "a", "a", NewLine>>,
               <<BackSpace, Control>>, <<"a">> }
=============================================================================
