------------------------------ MODULE Console -------------------------------
(***************************************************************************)
(* console.c, vga.c and the metrics of ttfont.c: where a character goes on *)
(* the screen.  A screen is a record: its mode, the pen (cells in VGA text *)
(* mode, pixels on a frame buffer), the font scale, and the characters to  *)
(* the left of the pen in its row.  Rows above only move, and no code      *)
(* reads them back.                                                        *)
(***************************************************************************)
EXTENDS Integers, Sequences, SequencesExt

CONSTANTS
    VgaW, VgaH,         \* 80 x 25 cells
    FbW, FbH,           \* frame buffer size in pixels
    Margin,             \* 8 pixels on every side
    CellW, CellH,       \* 8 x 16: a glyph at scale 1
    HeightPerStep,      \* 36 pixels of height for one step of the automatic scale
    MaxAuto, MaxScale   \* its limit, 6, and the limit of a chosen scale, 10

\* VGA text and the frame buffer have room for a glyph at the largest scale.
ASSUME ConsoleAssumption ==
    /\ {VgaW, VgaH, CellW, CellH, HeightPerStep, MaxAuto, MaxScale} \subseteq Nat \ {0}
    /\ {FbW, FbH, Margin} \subseteq Nat
    /\ MaxAuto <= MaxScale
    /\ FbW - 2 * Margin >= MaxScale * CellW
    /\ FbH - 2 * Margin >= MaxScale * CellH

Modes == {"vga", "fb", "none"}
Blank == "sp"
NewLine == "nl"
BackSpace == "bs"
Control == "ctl"        \* a character below 32, or above 126

(***************************************************************************)
(* Metrics                                                                 *)
(***************************************************************************)
ttfont_init_for_height ==
    LET s == FbH \div HeightPerStep
    IN  IF s < 1 THEN 1 ELSE IF s > MaxAuto THEN MaxAuto ELSE s

Cw(s) == CellW * s.scale
Lh(s) == CellH * s.scale
MaxX == FbW - Margin
MaxY == FbH - Margin

Home(s) ==
    [s EXCEPT !.x = IF s.mode = "fb" THEN Margin ELSE 0,
              !.y = IF s.mode = "fb" THEN Margin ELSE 0,
              !.row = <<>>]

console_init(mode) ==
    Home([mode |-> mode, x |-> 0, y |-> 0, row |-> <<>>, manual |-> 0,
          scale |-> IF mode = "fb" THEN ttfont_init_for_height ELSE 1])

console_clear(s) == Home(s)

\* resolution scale n and, with step 0, resolution auto.
console_set_fb_font_scale(s, step) ==
    IF s.mode # "fb" THEN s
    ELSE Home([s EXCEPT !.manual = step,
                        !.scale = IF step = 0 THEN ttfont_init_for_height ELSE step])

(***************************************************************************)
(* One character                                                           *)
(***************************************************************************)
vga_putchar(s, c) ==
    LET t == CASE c = NewLine -> [s EXCEPT !.x = 0, !.y = @ + 1, !.row = <<>>]
               [] c = BackSpace ->
                    IF s.x > 0 THEN [s EXCEPT !.x = @ - 1, !.row = Front(@)] ELSE s
               [] OTHER -> [s EXCEPT !.x = @ + 1, !.row = Append(@, c)]
        u == IF t.x >= VgaW THEN [t EXCEPT !.x = 0, !.y = @ + 1, !.row = <<>>] ELSE t
    IN  IF u.y >= VgaH THEN [u EXCEPT !.y = VgaH - 1] ELSE u

FbNextLine_NoScroll(s) ==
    [s EXCEPT !.x = Margin, !.row = <<>>, !.y = @ + Lh(s)]
\* The next row; at the bottom the screen scrolls by a row instead.
FbNextLine(s) ==
    LET down == s.y + Lh(s)
        y == IF down + Lh(s) > MaxY THEN down - Lh(s) ELSE down
    IN  [s EXCEPT !.x = Margin, !.row = <<>>, !.y = IF y < Margin THEN Margin ELSE y]

FbPut(s, c) ==
    CASE c = NewLine -> FbNextLine(s)
      [] c = BackSpace ->
           IF s.x > Margin THEN [s EXCEPT !.x = @ - Cw(s), !.row = Front(@)] ELSE s
      [] c = Control -> s
      [] OTHER -> LET t == IF s.x + Cw(s) > MaxX THEN FbNextLine(s) ELSE s
                  IN  [t EXCEPT !.x = @ + Cw(s), !.row = Append(@, c)]

console_putchar(s, c) ==
    CASE s.mode = "fb" -> FbPut(s, c)
      [] s.mode = "vga" -> vga_putchar(s, c)
      [] OTHER -> s

console_puts(s, str) == FoldLeft(console_putchar, s, str)

(***************************************************************************)
(* What a screen is                                                        *)
(***************************************************************************)
Columns(s) == IF s.mode = "fb" THEN (FbW - 2 * Margin) \div Cw(s) ELSE VgaW

\* n characters fit into a row and leave the pen in it.
FitsInRow(s, n) == IF s.mode = "fb" THEN n <= Columns(s) ELSE n < Columns(s)

\* The pen is where the next glyph can be drawn or the row is full, on a cell
\* boundary, with its row inside the screen.
PenInside(s) ==
    CASE s.mode = "vga" -> s.x \in 0 .. (VgaW - 1) /\ s.y \in 0 .. (VgaH - 1)
                             /\ Len(s.row) = s.x
      [] s.mode = "fb" -> /\ s.x = Margin + Cw(s) * Len(s.row) /\ s.x <= MaxX
                          /\ s.y >= Margin /\ s.y + Lh(s) <= MaxY
      [] OTHER -> TRUE
=============================================================================
