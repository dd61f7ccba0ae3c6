--------------------------- MODULE TerminalProofs ---------------------------
(***************************************************************************)
(* The interrupt controllers, the line, the pen and the row that shows the *)
(* line, for every screen, every scale and every length of the line.       *)
(***************************************************************************)
EXTENDS Terminal, WellFoundedInduction, NaturalsInduction, SequenceTheorems, TLAPS

(* What Front leaves of a sequence.                                        *)
LEMMA FrontOf ==
    ASSUME NEW S, NEW s \in Seq(S), Len(s) > 0
    PROVE  Front(s) \in Seq(S) /\ Len(Front(s)) = Len(s) - 1
<1>1. PICK n \in Int : n = Len(s) - 1 /\ n >= 0
  OBVIOUS
<1>2. \A i \in 1 .. n : s[i] \in S
  BY <1>1
<1>3. SubSeq(s, 1, n) \in Seq(S) /\ Len(SubSeq(s, 1, n)) = IF 1 <= n THEN n - 1 + 1 ELSE 0
  BY <1>2, SubSeqProperties
<1> QED
  BY <1>1, <1>3 DEF Front

(***************************************************************************)
(* Interrupt lines in service                                              *)
(***************************************************************************)
(* Only a handler has a line in service, and only that of a key can leave  *)
(* through ring 3.                                                         *)
PicOK ==
    /\ cpu \in {"boot", "idle", "irq", "user", "blocked", "stopped"}
    /\ back \in {"boot", "idle", "blocked"}
    /\ cpu # "irq" => pic = {}
    /\ cpu = "irq" => pic = {1} \/ (pic = {2, 12} /\ key = "none")

(* Whenever the CPU waits for an interrupt no line is in service, though   *)
(* commands that start a program never return through isr_handler.         *)
THEOREM KeysArrive == TermSpec => []KeyboardStaysLive
<1>1. TermInit => PicOK
  BY DEF TermInit, PicOK
<1>2. PicOK /\ [TermNext]_termVars => PicOK'
  <2> SUFFICES ASSUME PicOK, [TermNext]_termVars PROVE PicOK'
    OBVIOUS
  <2>1. CASE KeyIrq \/ MouseIrq
    BY <2>1 DEF KeyIrq, MouseIrq, Enter_Irq, IrqsOn, PicOK
  <2>2. CASE IrqReturns /\ cpu = "irq"
    BY <2>2 DEF IrqReturns, Eoi, PicOK
  <2>3. CASE Launch
    <3>1. cpu = "irq" /\ pic = {1}
      BY <2>3 DEF Launch, Handles, PicOK, NewLine
    <3> QED
      BY <2>3, <3>1 DEF Launch, jump_ring3, PicOK
  <2>4. CASE (\E k \in Printable : AcceptChar(k)) \/ EraseChar \/ IgnoreKey \/ RunCommand
    BY <2>2, <2>4 DEF AcceptChar, EraseChar, IgnoreKey, RunCommand, Handles
  <2>5. CASE BootPrompt \/ UserWrite \/ UserBlocks \/ UserResumes \/ userland_exit_done \/ CpuException
    BY <2>5 DEF BootPrompt, UserWrite, UserBlocks, UserResumes, userland_exit_done, CpuException, PicOK
  <2>6. CASE UNCHANGED termVars
    BY <2>6 DEF termVars, PicOK
  <2> QED
    BY <2>1, <2>3, <2>4, <2>5, <2>6 DEF TermNext
<1>3. PicOK => KeyboardStaysLive
  BY DEF PicOK, KeyboardStaysLive, IrqsOn
<1> QED
  BY <1>1, <1>2, <1>3, PTL DEF TermSpec

(***************************************************************************)
(* The line                                                                *)
(***************************************************************************)
LineFits == line \in Seq(Printable) /\ Len(line) <= MaxLine

(* The line never outgrows cmd_buffer, nor does a backspace take it below  *)
(* its beginning, whatever keys interrupt whatever program.                *)
THEOREM LineStaysInBuffer == TermSpec => []LineFits
<1>1. TermInit => LineFits
  BY TerminalAssumption DEF TermInit, LineFits
<1>2. LineFits /\ [TermNext]_termVars => LineFits'
  <2> SUFFICES ASSUME LineFits, [TermNext]_termVars PROVE LineFits'
    OBVIOUS
  <2>1. ASSUME NEW k \in Printable, AcceptChar(k) PROVE LineFits'
    BY <2>1, TerminalAssumption DEF AcceptChar, LineFits
  <2>2. CASE EraseChar
    <3>1. line # <<>> /\ line' = Front(line)
      BY <2>2 DEF EraseChar
    <3>2. Len(line) \in Nat /\ Len(line) > 0
      BY <3>1 DEF LineFits
    <3>3. line' \in Seq(Printable) /\ Len(line') = Len(line) - 1
      BY <3>1, <3>2, FrontOf DEF LineFits
    <3> QED
      BY <3>2, <3>3, TerminalAssumption DEF LineFits
  <2>3. CASE RunCommand
    BY <2>3, TerminalAssumption DEF RunCommand, LineFits
  <2>4. CASE line' = line
    BY <2>4 DEF LineFits
  <2>5. \/ line' = line \/ RunCommand \/ EraseChar \/ \E k \in Printable : AcceptChar(k)
    BY DEF TermNext, termVars, BootPrompt, KeyIrq, MouseIrq, Enter_Irq, IgnoreKey, Launch, UserWrite,
           UserBlocks, UserResumes, userland_exit_done, CpuException
  <2> QED
    BY <2>1, <2>2, <2>3, <2>4, <2>5
<1> QED
  BY <1>1, <1>2, PTL DEF TermSpec

(***************************************************************************)
(* The pen                                                                 *)
(***************************************************************************)
\* What is ever put on the screen.
Chars == Printable \cup {NewLine, BackSpace, Control, ">"}

Screens == [mode : Modes, x : Int, y : Int, row : Seq(Chars), manual : 0 .. MaxScale,
            scale : 1 .. MaxScale]

(* At every scale a glyph fits between the margins.                        *)
LEMMA GlyphFits ==
    ASSUME NEW s \in Screens
    PROVE  /\ Cw(s) \in Nat \ {0} /\ Margin + Cw(s) <= MaxX /\ MaxX \in Int
           /\ Lh(s) \in Nat \ {0} /\ Margin + Lh(s) <= MaxY /\ MaxY \in Int
<1>1. /\ CellW \in Nat \ {0} /\ CellH \in Nat \ {0} /\ MaxScale \in Nat \ {0}
      /\ FbW \in Nat /\ FbH \in Nat /\ Margin \in Nat
  BY Zenon, ConsoleAssumption
<1>2. s.scale \in Nat \ {0} /\ s.scale <= MaxScale
  BY <1>1 DEF Screens
<1>3. PICK n \in Nat \ {0} : n = s.scale
  BY <1>2
<1>4. CellW * n <= MaxScale * CellW /\ CellH * n <= MaxScale * CellH
  BY <1>1, <1>2, <1>3
<1>5. CellW * n \in Nat \ {0} /\ CellH * n \in Nat \ {0} /\ MaxScale * CellW \in Nat /\ MaxScale * CellH \in Nat
  BY <1>1
<1>6. FbW - 2 * Margin >= MaxScale * CellW /\ FbH - 2 * Margin >= MaxScale * CellH
  BY ConsoleAssumption
<1>7. Margin + CellW * n <= FbW - Margin /\ Margin + CellH * n <= FbH - Margin
  BY <1>1, <1>4, <1>5, <1>6
<1> QED
  BY <1>1, <1>3, <1>5, <1>7 DEF Cw, Lh, MaxX, MaxY

(* A new row leaves the pen at the margin of a row on the screen.          *)
LEMMA NextLineKeepsPen ==
    ASSUME NEW s \in Screens, s.mode = "fb", PenInside(s)
    PROVE  /\ FbNextLine(s) \in Screens /\ FbNextLine(s).mode = "fb" /\ PenInside(FbNextLine(s))
           /\ FbNextLine(s).row = <<>> /\ FbNextLine(s).x = Margin /\ FbNextLine(s).scale = s.scale
<1> DEFINE down == s.y + Lh(s)
           y == IF down + Lh(s) > MaxY THEN down - Lh(s) ELSE down
           z == IF y < Margin THEN Margin ELSE y
           t == FbNextLine(s)
<1>1. /\ Cw(s) \in Nat \ {0} /\ Margin + Cw(s) <= MaxX /\ MaxX \in Int
      /\ Lh(s) \in Nat \ {0} /\ Margin + Lh(s) <= MaxY /\ MaxY \in Int
  BY GlyphFits
<1>2. s.y \in Int /\ s.y >= Margin /\ s.y + Lh(s) <= MaxY
  BY DEF PenInside, Screens
<1>3. Margin \in Nat
  BY Zenon, ConsoleAssumption
<1>4. z \in Int /\ z >= Margin /\ z + Lh(s) <= MaxY
  BY <1>1, <1>2, <1>3
<1>5. t = [[[s EXCEPT !.x = Margin] EXCEPT !.row = <<>>] EXCEPT !.y = z]
  BY DEF FbNextLine
<1> HIDE DEF z
<1>6. <<>> \in Seq(Chars) /\ Margin \in Int
  BY <1>3
<1>7. /\ t \in Screens /\ t.mode = "fb" /\ t.x = Margin /\ t.y = z /\ t.row = <<>> /\ t.scale = s.scale
  BY <1>4, <1>5, <1>6 DEF Screens
<1>8. Cw(t) = Cw(s) /\ Lh(t) = Lh(s)
  BY <1>7 DEF Cw, Lh
<1> HIDE DEF t
<1>9. t.x = Margin + Cw(t) * Len(t.row) /\ t.x <= MaxX
  BY <1>1, <1>3, <1>7, <1>8
<1>10. PenInside(t)
  BY <1>4, <1>7, <1>8, <1>9 DEF PenInside
<1> QED
  BY <1>7, <1>10 DEF t

(* One more of a product.                                                  *)
LEMMA MulNext ==
    ASSUME NEW d \in Nat, NEW n \in Nat
    PROVE  d * n \in Nat /\ d * (n + 1) = d * n + d
  BY Z3

(* A glyph is put where it fits, and moves the pen by its width.           *)
LEMMA GlyphKeepsPen ==
    ASSUME NEW s \in Screens, s.mode = "fb", PenInside(s), s.x + Cw(s) <= MaxX, NEW c \in Chars,
           NEW t, t = [s EXCEPT !.x = @ + Cw(s), !.row = Append(@, c)]
    PROVE  t \in Screens /\ t.mode = "fb" /\ PenInside(t)
<1>1. Cw(s) \in Nat \ {0} /\ MaxX \in Int
  BY GlyphFits
<1>2. /\ s.x \in Int /\ s.row \in Seq(Chars) /\ Len(s.row) \in Nat
      /\ s.x = Margin + Cw(s) * Len(s.row) /\ s.y >= Margin /\ s.y + Lh(s) <= MaxY
  BY DEF Screens, PenInside
<1>3. Append(s.row, c) \in Seq(Chars) /\ Len(Append(s.row, c)) = Len(s.row) + 1 /\ s.x + Cw(s) \in Int
  BY <1>1, <1>2
<1>4. /\ t \in Screens /\ t.mode = s.mode /\ t.x = s.x + Cw(s) /\ t.y = s.y /\ t.row = Append(s.row, c)
      /\ t.scale = s.scale
  <2>1. PICK x \in Int, r \in Seq(Chars) : x = s.x + Cw(s) /\ r = Append(s.row, c)
    BY <1>3
  <2>2. t = [s EXCEPT !.x = x, !.row = r]
    BY <2>1
  <2>3. /\ t \in Screens /\ t.mode = s.mode /\ t.x = x /\ t.y = s.y /\ t.row = r /\ t.scale = s.scale
    BY <2>2 DEF Screens
  <2> QED
    BY <2>1, <2>3
<1>5. Cw(t) = Cw(s) /\ Lh(t) = Lh(s)
  BY <1>4 DEF Cw, Lh
<1>6. Cw(s) * (Len(s.row) + 1) = Cw(s) * Len(s.row) + Cw(s) /\ Cw(s) * Len(s.row) \in Nat
  BY <1>1, <1>2, MulNext
<1>7. Margin \in Nat
  BY Zenon, ConsoleAssumption
<1>8. t.x = Margin + Cw(t) * Len(t.row) /\ t.x <= MaxX
  BY <1>1, <1>2, <1>3, <1>4, <1>5, <1>6, <1>7
<1> QED
  BY <1>2, <1>4, <1>5, <1>8 DEF PenInside

(* A backspace moves the pen back by a cell, and not over the margin.      *)
LEMMA BackSpaceKeepsPen ==
    ASSUME NEW s \in Screens, s.mode = "fb", PenInside(s), s.x > Margin,
           NEW t, t = [s EXCEPT !.x = @ - Cw(s), !.row = Front(@)]
    PROVE  t \in Screens /\ t.mode = "fb" /\ PenInside(t)
<1>1. Cw(s) \in Nat \ {0} /\ MaxX \in Int
  BY GlyphFits
<1>2. /\ s.x \in Int /\ s.row \in Seq(Chars) /\ Len(s.row) \in Nat
      /\ s.x = Margin + Cw(s) * Len(s.row) /\ s.x <= MaxX /\ s.y >= Margin /\ s.y + Lh(s) <= MaxY
  BY DEF Screens, PenInside
<1>3. Margin \in Nat
  BY Zenon, ConsoleAssumption
<1>4. PICK n \in Nat : n + 1 = Len(s.row)
  <2>1. Len(s.row) > 0
    BY <1>1, <1>2, <1>3
  <2>2. Len(s.row) - 1 \in Nat /\ (Len(s.row) - 1) + 1 = Len(s.row)
    BY <1>2, <2>1
  <2> QED
    BY <2>2
<1>5. Front(s.row) \in Seq(Chars) /\ Len(Front(s.row)) = n /\ s.x - Cw(s) \in Int
  <2>1. Len(s.row) > 0
    BY <1>4
  <2>2. Front(s.row) \in Seq(Chars) /\ Len(Front(s.row)) = Len(s.row) - 1
    BY <1>2, <2>1, FrontOf
  <2> QED
    BY <1>1, <1>2, <1>4, <2>2
<1>6. /\ t \in Screens /\ t.mode = s.mode /\ t.x = s.x - Cw(s) /\ t.y = s.y /\ t.row = Front(s.row)
      /\ t.scale = s.scale
  <2>1. PICK x \in Int, r \in Seq(Chars) : x = s.x - Cw(s) /\ r = Front(s.row)
    BY <1>5
  <2>2. t = [s EXCEPT !.x = x, !.row = r]
    BY <2>1
  <2>3. /\ t \in Screens /\ t.mode = s.mode /\ t.x = x /\ t.y = s.y /\ t.row = r /\ t.scale = s.scale
    BY <2>2 DEF Screens
  <2> QED
    BY <2>1, <2>3
<1>7. Cw(t) = Cw(s) /\ Lh(t) = Lh(s)
  BY <1>6 DEF Cw, Lh
<1>8. Cw(s) * Len(s.row) = Cw(s) * n + Cw(s) /\ Cw(s) * n \in Nat
  BY <1>1, <1>4, MulNext
<1>9. t.x = Margin + Cw(t) * Len(t.row) /\ t.x <= MaxX
  <2>1. PICK w \in Nat, m \in Nat : w = Cw(s) /\ m = Cw(s) * n
    BY <1>1, <1>8
  <2>2. s.x = Margin + (m + w)
    BY <1>2, <1>8, <2>1
  <2>3. t.x = s.x - w /\ s.x <= MaxX
    BY <1>2, <1>6, <2>1
  <2>4. t.x = Margin + m /\ t.x <= MaxX
    BY <1>1, <1>3, <2>2, <2>3
  <2> QED
    BY <1>5, <1>6, <1>7, <2>1, <2>4
<1> QED
  BY <1>2, <1>6, <1>7, <1>9 DEF PenInside

(* vga_putchar keeps the pen in the 80 by 25 cells.                        *)
LEMMA VgaKeepsPen ==
    ASSUME NEW s \in Screens, s.mode = "vga", PenInside(s), NEW c \in Chars
    PROVE  /\ vga_putchar(s, c) \in Screens /\ vga_putchar(s, c).mode = "vga"
           /\ PenInside(vga_putchar(s, c))
<1> DEFINE t == CASE c = NewLine -> [s EXCEPT !.x = 0, !.y = @ + 1, !.row = <<>>]
                  [] c = BackSpace -> IF s.x > 0 THEN [s EXCEPT !.x = @ - 1, !.row = Front(@)] ELSE s
                  [] OTHER -> [s EXCEPT !.x = @ + 1, !.row = Append(@, c)]
           u == IF t.x >= VgaW THEN [t EXCEPT !.x = 0, !.y = @ + 1, !.row = <<>>] ELSE t
           v == IF u.y >= VgaH THEN [u EXCEPT !.y = VgaH - 1] ELSE u
<1>1. /\ s.x \in 0 .. (VgaW - 1) /\ s.y \in 0 .. (VgaH - 1) /\ Len(s.row) = s.x
      /\ s.row \in Seq(Chars) /\ VgaW \in Nat \ {0} /\ VgaH \in Nat \ {0}
  <2>1. VgaW \in Nat \ {0} /\ VgaH \in Nat \ {0}
    BY Zenon, ConsoleAssumption
  <2> QED
    BY <2>1 DEF PenInside, Screens
<1>2. vga_putchar(s, c) = v
  BY DEF vga_putchar
<1>3. \/ t = [s EXCEPT !.x = 0, !.y = s.y + 1, !.row = <<>>]
      \/ s.x > 0 /\ t = [s EXCEPT !.x = s.x - 1, !.row = Front(s.row)]
      \/ t = s
      \/ t = [s EXCEPT !.x = s.x + 1, !.row = Append(s.row, c)]
  BY Zenon DEF NewLine, BackSpace
<1> HIDE DEF t
<1>4. t \in Screens /\ t.mode = "vga" /\ t.x \in 0 .. VgaW /\ t.y \in 0 .. VgaH /\ Len(t.row) = t.x
  <2>1. CASE t = [s EXCEPT !.x = 0, !.y = s.y + 1, !.row = <<>>]
    <3>1. 0 \in Int /\ s.y + 1 \in Int /\ <<>> \in Seq(Chars)
      BY <1>1
    <3>2. PICK y \in Int, r \in Seq(Chars) : y = s.y + 1 /\ r = <<>>
      BY <3>1
    <3>3. t = [s EXCEPT !.x = 0, !.y = y, !.row = r]
      BY <2>1, <3>2
    <3>4. /\ t.mode = s.mode /\ t.x = 0 /\ t.y = y /\ t.row = r /\ t.manual = s.manual /\ t.scale = s.scale
          /\ t = [mode |-> t.mode, x |-> t.x, y |-> t.y, row |-> t.row, manual |-> t.manual, scale |-> t.scale]
      BY <3>3 DEF Screens
    <3>5. t \in Screens
      BY <3>4 DEF Screens
    <3> QED
      BY <1>1, <3>2, <3>4, <3>5
  <2>2. CASE s.x > 0 /\ t = [s EXCEPT !.x = s.x - 1, !.row = Front(s.row)]
    <3>1. s.x - 1 \in Int /\ Front(s.row) \in Seq(Chars) /\ Len(Front(s.row)) = Len(s.row) - 1
      BY <1>1, <2>2, FrontOf
    <3>2. PICK x \in Int, r \in Seq(Chars) : x = s.x - 1 /\ r = Front(s.row)
      BY <3>1
    <3>3. t = [s EXCEPT !.x = x, !.row = r]
      BY <2>2, <3>2
    <3>4. t \in Screens /\ t.mode = s.mode /\ t.x = x /\ t.y = s.y /\ t.row = r
      BY <3>3 DEF Screens
    <3> QED
      BY <1>1, <2>2, <3>1, <3>2, <3>4
  <2>3. CASE t = s
    BY <1>1, <2>3
  <2>4. CASE t = [s EXCEPT !.x = s.x + 1, !.row = Append(s.row, c)]
    <3>1. s.x + 1 \in Int /\ Append(s.row, c) \in Seq(Chars) /\ Len(Append(s.row, c)) = Len(s.row) + 1
      BY <1>1
    <3>2. PICK x \in Int, r \in Seq(Chars) : x = s.x + 1 /\ r = Append(s.row, c)
      BY <3>1
    <3>3. t = [s EXCEPT !.x = x, !.row = r]
      BY <2>4, <3>2
    <3>4. t \in Screens /\ t.mode = s.mode /\ t.x = x /\ t.y = s.y /\ t.row = r
      BY <3>3 DEF Screens
    <3> QED
      BY <1>1, <3>1, <3>2, <3>4
  <2> QED
    BY <1>3, <2>1, <2>2, <2>3, <2>4
<1>5. (u = t /\ t.x < VgaW) \/ u = [t EXCEPT !.x = 0, !.y = t.y + 1, !.row = <<>>]
  BY <1>1, <1>4
<1> HIDE DEF u
<1>6. u \in Screens /\ u.mode = "vga" /\ u.x \in 0 .. (VgaW - 1) /\ u.y \in 0 .. (VgaH + 1) /\ Len(u.row) = u.x
  <2>1. CASE u = t /\ t.x < VgaW
    BY <1>1, <1>4, <2>1
  <2>2. CASE u = [t EXCEPT !.x = 0, !.y = t.y + 1, !.row = <<>>]
    <3>1. 0 \in Int /\ t.y + 1 \in Int /\ <<>> \in Seq(Chars)
      BY <1>4
    <3>2. PICK y \in Int, r \in Seq(Chars) : y = t.y + 1 /\ r = <<>>
      BY <3>1
    <3>3. u = [t EXCEPT !.x = 0, !.y = y, !.row = r]
      BY <2>2, <3>2
    <3>4. /\ u.mode = t.mode /\ u.x = 0 /\ u.y = y /\ u.row = r /\ u.manual = t.manual /\ u.scale = t.scale
          /\ u = [mode |-> u.mode, x |-> u.x, y |-> u.y, row |-> u.row, manual |-> u.manual, scale |-> u.scale]
      BY <1>4, <3>3 DEF Screens
    <3>5. u \in Screens
      BY <1>4, <3>4 DEF Screens
    <3> QED
      BY <1>1, <1>4, <3>2, <3>4, <3>5
  <2> QED
    BY <1>5, <2>1, <2>2
<1>7. (u.y < VgaH /\ v = u) \/ v = [u EXCEPT !.y = VgaH - 1]
  BY <1>1, <1>6
<1> HIDE DEF v
<1>8. v \in Screens /\ v.mode = "vga" /\ v.x \in 0 .. (VgaW - 1) /\ v.y \in 0 .. (VgaH - 1) /\ Len(v.row) = v.x
  <2>1. CASE u.y < VgaH /\ v = u
    BY <1>1, <1>6, <2>1
  <2>2. CASE v = [u EXCEPT !.y = VgaH - 1]
    <3>1. VgaH - 1 \in Int
      BY <1>1
    <3>2. v \in Screens /\ v.mode = u.mode /\ v.x = u.x /\ v.y = VgaH - 1 /\ v.row = u.row
      BY <1>6, <2>2, <3>1 DEF Screens
    <3> QED
      BY <1>1, <1>6, <3>2
  <2> QED
    BY <1>7, <2>1, <2>2
<1>9. PenInside(v)
  BY <1>8 DEF PenInside
<1> QED
  BY <1>2, <1>8, <1>9

(* Whatever character is printed on whatever screen, at whatever scale:    *)
(* console_putchar leaves the pen on a cell boundary of a row that lies on *)
(* the screen.                                                             *)
THEOREM PutcharKeepsPen ==
    ASSUME NEW s \in Screens, PenInside(s), NEW c \in Chars
    PROVE  console_putchar(s, c) \in Screens /\ PenInside(console_putchar(s, c))
<1>1. CASE s.mode = "vga"
  <2>1. console_putchar(s, c) = vga_putchar(s, c)
    BY <1>1 DEF console_putchar
  <2> QED
    BY <1>1, <2>1, VgaKeepsPen
<1>2. CASE s.mode = "none"
  BY <1>2 DEF console_putchar
<1>3. CASE s.mode = "fb"
  <2>1. console_putchar(s, c) = FbPut(s, c)
    BY <1>3 DEF console_putchar
  <2>2. CASE c = NewLine
    BY <1>3, <2>1, <2>2, NextLineKeepsPen DEF FbPut, NewLine, BackSpace, Control
  <2>3. CASE c = BackSpace
    BY <1>3, <2>1, <2>3, BackSpaceKeepsPen DEF FbPut, NewLine, BackSpace, Control
  <2>4. CASE c = Control
    BY <1>3, <2>1, <2>4 DEF FbPut, NewLine, BackSpace, Control
  <2>5. CASE c # NewLine /\ c # BackSpace /\ c # Control
    <3>1. CASE s.x + Cw(s) > MaxX
      <4> DEFINE t == FbNextLine(s)
      <4>1. /\ t \in Screens /\ t.mode = "fb" /\ PenInside(t) /\ t.x = Margin /\ t.scale = s.scale
        BY <1>3, NextLineKeepsPen
      <4>2. FbPut(s, c) = [t EXCEPT !.x = @ + Cw(s), !.row = Append(@, c)]
        BY <2>5, <3>1 DEF FbPut
      <4> HIDE DEF t
      <4>3. Cw(t) = Cw(s) /\ t.x + Cw(t) <= MaxX
        BY <4>1, GlyphFits DEF Cw
      <4> QED
        BY <2>1, <4>1, <4>2, <4>3, GlyphKeepsPen
    <3>2. CASE ~(s.x + Cw(s) > MaxX)
      <4>1. FbPut(s, c) = [s EXCEPT !.x = @ + Cw(s), !.row = Append(@, c)]
        BY <2>5, <3>2 DEF FbPut
      <4>2. s.x + Cw(s) <= MaxX
        BY <3>2, GlyphFits DEF Screens
      <4> QED
        BY <1>3, <2>1, <4>1, <4>2, GlyphKeepsPen
    <3> QED
      BY <3>1, <3>2
  <2> QED
    BY <2>2, <2>3, <2>4, <2>5
<1> QED
  BY <1>1, <1>2, <1>3 DEF Screens, Modes

(***************************************************************************)
(* Strings                                                                 *)
(***************************************************************************)
(* Induction over the natural numbers, with a set in the place of a        *)
(* predicate.                                                              *)
LEMMA SetInduction ==
    ASSUME NEW S, S \subseteq Nat, 0 \in S, \A k \in S : k + 1 \in S
    PROVE  S = Nat
<1> DEFINE R == OpToRel(<, Nat)
           T == Nat \ S
<1>1. IsWellFoundedOn(R, Nat)
  BY NatLessThanWellFounded, Zenon
<1>2. \A x, y \in Nat : y < x => <<y, x>> \in R
  BY DEF OpToRel
<1> HIDE DEF R
<1>3. SUFFICES ASSUME T # {} PROVE FALSE
  OBVIOUS
<1>4. PICK m \in T : \A y \in T : ~ (<<y, m>> \in R)
  BY <1>1, <1>3, WFMin, Zenon
<1>5. m \in Nat /\ m # 0
  BY <1>4
<1>6. m - 1 \in Nat /\ m - 1 < m /\ (m - 1) + 1 = m
  BY <1>5
<1>7. m - 1 \in S
  BY <1>2, <1>4, <1>5, <1>6, Zenon
<1> QED
  BY <1>4, <1>6, <1>7, Zenon

(* Where a number of a set is the largest.                                 *)
LEMMA MaxIs ==
    ASSUME NEW T, T \subseteq Int, NEW m \in T, \A k \in T : k <= m
    PROVE  Max(T) = m
<1>1. \A k \in T : m >= k
  OBVIOUS
<1>2. Max(T) \in T /\ \A k \in T : Max(T) >= k
  BY <1>1, Zenon DEF Max
<1>3. PICK x \in T : x = Max(T)
  BY <1>2, Zenon
<1>4. x >= m /\ x <= m /\ x \in Int /\ m \in Int
  BY <1>2, <1>3, Zenon
<1>5. x = m
  BY <1>4
<1> QED
  BY <1>3, <1>5

(* The function that a fold of console_putchar computes, on the positions  *)
(* up to n.                                                                *)
IsFold(s, str, n, f) ==
    f = [T \in SUBSET (1 .. n) |->
           IF T = {} THEN s ELSE console_putchar(f[T \ {Max(T)}], str[Max(T)])]

(* There is a fold of every length.                                        *)
LEMMA FoldExists ==
    ASSUME NEW s, NEW str, NEW n \in Nat
    PROVE  \E f : IsFold(s, str, n, f)
<1> DEFINE S == {j \in Nat : \E f : IsFold(s, str, j, f)}
<1>1. 0 \in S
  <2> DEFINE f == [T \in SUBSET (1 .. 0) |-> s]
  <2>1. \A T \in SUBSET (1 .. 0) : T = {}
    OBVIOUS
  <2>2. IsFold(s, str, 0, f)
    BY <2>1, Zenon DEF IsFold
  <2> QED
    BY <2>2
<1>2. ASSUME NEW j \in S PROVE j + 1 \in S
  <2>1. j \in Nat
    OBVIOUS
  <2>2. PICK f : IsFold(s, str, j, f)
    BY Zenon
  <2> DEFINE put(T) == console_putchar(f[T \ {j + 1}], str[j + 1])
             g == [T \in SUBSET (1 .. (j + 1)) |-> IF j + 1 \in T THEN put(T) ELSE f[T]]
  <2>3. \A T \in SUBSET (1 .. j) :
          f[T] = IF T = {} THEN s ELSE console_putchar(f[T \ {Max(T)}], str[Max(T)])
    BY <2>2, Zenon DEF IsFold
  <2> HIDE DEF put
  <2>4. \A T \in SUBSET (1 .. j) : g[T] = f[T] /\ T \in SUBSET (1 .. (j + 1))
    BY <2>1
  <2>5. \A T \in SUBSET (1 .. (j + 1)) : j + 1 \in T => g[T] = put(T)
    BY Zenon
  <2>6. g = [T \in SUBSET (1 .. (j + 1)) |-> g[T]]
    OBVIOUS
  <2> HIDE DEF g
  <2>7. ASSUME NEW T \in SUBSET (1 .. (j + 1))
        PROVE  g[T] = IF T = {} THEN s ELSE console_putchar(g[T \ {Max(T)}], str[Max(T)])
    <3>1. CASE j + 1 \in T
      <4>1. T \subseteq Int /\ \A k \in T : k <= j + 1
        BY <2>1
      <4>2. Max(T) = j + 1
        BY <3>1, <4>1, MaxIs
      <4>3. T \ {j + 1} \in SUBSET (1 .. j)
        BY <2>1
      <4>4. g[T] = put(T) /\ g[T \ {j + 1}] = f[T \ {j + 1}]
        BY <2>4, <2>5, <3>1, <4>3, Zenon
      <4> QED
        BY <3>1, <4>2, <4>4, Zenon DEF put
    <3>2. CASE j + 1 \notin T
      <4>1. T \in SUBSET (1 .. j)
        BY <2>1, <3>2
      <4>2. T \ {Max(T)} \in SUBSET (1 .. j)
        BY <4>1, Zenon
      <4> QED
        BY <2>3, <2>4, <4>1, <4>2, Zenon
    <3> QED
      BY <3>1, <3>2
  <2>8. IsFold(s, str, j + 1, g)
    BY <2>6, <2>7, Zenon DEF IsFold
  <2>9. j + 1 \in Nat
    BY <2>1
  <2> QED
    BY <2>8, <2>9, Zenon
<1> HIDE DEF S
<1>3. S = Nat
  <2>1. S \subseteq Nat
    BY DEF S
  <2> QED
    BY <1>1, <1>2, <2>1, SetInduction, Zenon
<1> QED
  BY <1>3, Zenon DEF S

(* The screens that a string passes, from the first to the last.           *)
IsTrace(h, s, str) ==
    /\ h[0] = s
    /\ \A k \in 1 .. Len(str) : h[k] = console_putchar(h[k - 1], str[k])

(* console_puts puts one character after the other.                        *)
LEMMA PutsIs ==
    ASSUME NEW s, NEW C, NEW str \in Seq(C)
    PROVE  \E h : IsTrace(h, s, str) /\ console_puts(s, str) = h[Len(str)]
<1> DEFINE len == Len(str)
<1>1. len \in Nat /\ DOMAIN str = 1 .. len
  OBVIOUS
<1>2. console_puts(s, str) = (CHOOSE f : IsFold(s, str, len, f))[1 .. len]
  BY <1>1, Zenon DEF console_puts, FoldLeft, MapThenFoldSet, IsFold
<1> HIDE DEF len
<1>3. PICK f : f = (CHOOSE g : IsFold(s, str, len, g)) /\ IsFold(s, str, len, f)
  BY <1>1, FoldExists, Zenon
<1>4. \A T \in SUBSET (1 .. len) :
        f[T] = IF T = {} THEN s ELSE console_putchar(f[T \ {Max(T)}], str[Max(T)])
  BY <1>3, Zenon DEF IsFold
<1> DEFINE h == [k \in 0 .. len |-> f[1 .. k]]
<1>5. h[0] = s /\ h[len] = f[1 .. len]
  <2>1. 1 .. 0 = {} /\ 0 \in 0 .. len /\ len \in 0 .. len
    BY <1>1
  <2>2. f[{}] = s
    BY <1>4, Zenon
  <2> QED
    BY <2>1, <2>2, Zenon
<1>6. ASSUME NEW k \in 1 .. len PROVE h[k] = console_putchar(h[k - 1], str[k])
  <2>1. /\ k \in 0 .. len /\ k - 1 \in 0 .. len /\ 1 .. k \in SUBSET (1 .. len) /\ k \in 1 .. k
        /\ (1 .. k) \ {k} = 1 .. (k - 1) /\ 1 .. k \subseteq Int /\ \A j \in 1 .. k : j <= k
    BY <1>1, <1>6
  <2>2. Max(1 .. k) = k
    BY <2>1, MaxIs, Zenon
  <2>3. h[k] = f[1 .. k] /\ h[k - 1] = f[1 .. (k - 1)] /\ 1 .. k # {}
    BY <2>1, Zenon
  <2> HIDE DEF h
  <2> QED
    BY <1>4, <2>1, <2>2, <2>3, Zenon
<1> HIDE DEF h
<1>7. IsTrace(h, s, str)
  BY <1>5, <1>6, Zenon DEF IsTrace, len
<1> QED
  BY <1>2, <1>3, <1>5, <1>7, Zenon DEF len

(***************************************************************************)
(* The pen after any output                                                *)
(***************************************************************************)
Good(s) == s \in Screens /\ PenInside(s)

(* Every screen that a string passes has the pen on it.                    *)
LEMMA TraceGood ==
    ASSUME NEW s, Good(s), NEW str \in Seq(Chars), NEW h, IsTrace(h, s, str)
    PROVE  \A k \in 0 .. Len(str) : Good(h[k])
<1> DEFINE S == {k \in Nat : k <= Len(str) => Good(h[k])}
<1>1. 0 \in S
  BY Zenon DEF IsTrace
<1>2. ASSUME NEW k \in S PROVE k + 1 \in S
  <2>1. k \in Nat /\ k + 1 \in Nat
    OBVIOUS
  <2>2. SUFFICES ASSUME k + 1 <= Len(str) PROVE Good(h[k + 1])
    BY <2>1, Zenon
  <2>3. k <= Len(str) /\ k + 1 \in 1 .. Len(str) /\ (k + 1) - 1 = k
    BY <2>1, <2>2
  <2>4. Good(h[k]) /\ str[k + 1] \in Chars /\ h[k + 1] = console_putchar(h[k], str[k + 1])
    <3>1. str[k + 1] \in Chars
      BY <2>3
    <3>2. h[k + 1] = console_putchar(h[(k + 1) - 1], str[k + 1])
      BY <2>3, Zenon DEF IsTrace
    <3> QED
      BY <2>3, <3>1, <3>2, Zenon
  <2> QED
    BY <2>4, PutcharKeepsPen, Zenon DEF Good
<1>3. S \subseteq Nat
  BY Zenon
<1> HIDE DEF S
<1>4. S = Nat
  BY <1>1, <1>2, <1>3, SetInduction, Zenon
<1>5. ASSUME NEW k \in 0 .. Len(str) PROVE Good(h[k])
  <2>1. k \in Nat /\ k <= Len(str)
    BY <1>5
  <2> QED
    BY <1>4, <2>1, Zenon DEF S
<1> QED
  BY <1>5, Zenon

(* Whatever string is printed, the pen stays on the screen.                *)
LEMMA PutsKeepsPen ==
    ASSUME NEW s, Good(s), NEW str \in Seq(Chars)
    PROVE  Good(console_puts(s, str))
<1>1. PICK h : IsTrace(h, s, str) /\ console_puts(s, str) = h[Len(str)]
  BY PutsIs, Zenon
<1>2. Len(str) \in 0 .. Len(str)
  OBVIOUS
<1> QED
  BY <1>1, <1>2, TraceGood, Zenon

(* What commands and programs print are characters.                        *)
LEMMA OutputsAre ==
    /\ \A o \in Outputs : o \in Seq(Chars)
    /\ Prompt \in Seq(Chars) /\ <<NewLine>> \in Seq(Chars) /\ <<NewLine, NewLine>> \in Seq(Chars)
    /\ <<NewLine>> \o Prompt \in Seq(Chars) /\ <<NewLine, NewLine>> \o Prompt \in Seq(Chars)
    /\ EraseEcho \in Seq(Chars)
    /\ Printable \subseteq Chars /\ {NewLine, BackSpace, Control, Blank, ">"} \subseteq Chars
<1>1. Printable \subseteq Chars /\ {NewLine, BackSpace, Control, Blank, ">"} \subseteq Chars
  BY DEF Chars, Printable
<1>2. ASSUME NEW o \in Outputs PROVE o \in Seq(Chars)
  <2>1. PICK C : C = Letters \cup {Blank, NewLine, BackSpace, Control}
    OBVIOUS
  <2>2. o \in Seq(C) /\ C \subseteq Chars
    BY <2>1, TerminalAssumption, Zenon DEF Chars, Printable
  <2>3. Len(o) \in Nat /\ o \in [1 .. Len(o) -> C]
    BY <2>2, LenProperties
  <2>4. o \in [1 .. Len(o) -> Chars]
    BY <2>2, <2>3
  <2>5. o \in UNION {[1 .. k -> Chars] : k \in Nat}
    BY <2>3, <2>4
  <2> QED
    BY <2>5, SeqDef, Zenon
<1>3. ASSUME NEW C, NEW a \in C, NEW b \in C, NEW c \in C
      PROVE  /\ <<a>> \in Seq(C) /\ <<a, b>> \in Seq(C) /\ <<a, b, c>> \in Seq(C)
             /\ <<a>> \o <<b>> \in Seq(C) /\ <<a, b>> \o <<c>> \in Seq(C)
  OBVIOUS
<1> QED
  BY <1>1, <1>2, <1>3, Zenon DEF Prompt, EraseEcho

(* A cleared screen has the pen in its first cell.                         *)
LEMMA HomeIs ==
    ASSUME NEW s \in Screens
    PROVE  Good(Home(s)) /\ Home(s).row = <<>> /\ Home(s).mode = s.mode
<1> DEFINE p == IF s.mode = "fb" THEN Margin ELSE 0
           t == Home(s)
<1>1. Margin \in Nat /\ p \in Int /\ <<>> \in Seq(Chars) /\ VgaW \in Nat \ {0} /\ VgaH \in Nat \ {0}
  <2>1. Margin \in Nat /\ VgaW \in Nat \ {0} /\ VgaH \in Nat \ {0}
    BY Zenon, ConsoleAssumption
  <2> QED
    BY <2>1
<1>2. PICK q \in Int, r \in Seq(Chars) : q = p /\ r = <<>>
  BY <1>1, Zenon
<1>3. t = [s EXCEPT !.x = q, !.y = q, !.row = r]
  BY <1>2, Zenon DEF Home
<1> HIDE DEF t
<1>4. t \in Screens /\ t.mode = s.mode /\ t.x = q /\ t.y = q /\ t.row = r /\ t.scale = s.scale
  BY <1>3 DEF Screens
<1>5. /\ Cw(t) \in Nat \ {0} /\ Margin + Cw(t) <= MaxX /\ MaxX \in Int
      /\ Lh(t) \in Nat \ {0} /\ Margin + Lh(t) <= MaxY /\ MaxY \in Int
  BY <1>4, GlyphFits, Zenon
<1>6. CASE s.mode = "fb"
  <2>1. q = Margin /\ Len(t.row) = 0
    BY <1>2, <1>4, <1>6
  <2>2. t.x = Margin + Cw(t) * Len(t.row) /\ t.x <= MaxX /\ t.y >= Margin /\ t.y + Lh(t) <= MaxY
    BY <1>1, <1>4, <1>5, <2>1
  <2> QED
    BY <1>2, <1>4, <1>6, <2>2 DEF Good, PenInside, t
<1>7. CASE s.mode # "fb"
  <2>1. q = 0 /\ Len(t.row) = 0
    BY <1>2, <1>4, <1>7
  <2>2. t.x \in 0 .. (VgaW - 1) /\ t.y \in 0 .. (VgaH - 1) /\ Len(t.row) = t.x
    BY <1>1, <1>4, <2>1
  <2> QED
    BY <1>2, <1>4, <1>7, <2>2 DEF Good, PenInside, t
<1> QED
  BY <1>6, <1>7

(* The automatic scale is one.                                             *)
LEMMA AutoScale == ttfont_init_for_height \in 1 .. MaxScale /\ 1 \in 1 .. MaxScale
<1>1. FbH \in Nat /\ HeightPerStep \in Nat \ {0} /\ MaxAuto \in Nat \ {0} /\ MaxScale \in Nat \ {0}
      /\ MaxAuto <= MaxScale
  BY Zenon, ConsoleAssumption
<1>2. FbH \div HeightPerStep \in Int
  BY <1>1
<1> QED
  BY <1>1, <1>2 DEF ttfont_init_for_height

(* Another scale starts on a cleared screen.                               *)
LEMMA FontKeepsPen ==
    ASSUME NEW s, Good(s), NEW step \in 0 .. MaxScale
    PROVE  Good(console_set_fb_font_scale(s, step))
<1>1. CASE s.mode # "fb"
  BY <1>1 DEF console_set_fb_font_scale
<1>2. CASE s.mode = "fb"
  <2> DEFINE z == IF step = 0 THEN ttfont_init_for_height ELSE step
             t == [s EXCEPT !.manual = step, !.scale = z]
  <2>1. z \in 1 .. MaxScale
    BY AutoScale
  <2> HIDE DEF z
  <2>2. t \in Screens
    BY <2>1 DEF Good, Screens
  <2>3. console_set_fb_font_scale(s, step) = Home(t)
    BY <1>2, Zenon DEF console_set_fb_font_scale, z
  <2> HIDE DEF t
  <2> QED
    BY <2>2, <2>3, HomeIs, Zenon
<1> QED
  BY <1>1, <1>2

(* What a command leaves.                                                  *)
LEMMA CommandKeepsPen ==
    ASSUME NEW s, Good(s), NEW t \in AfterCommand(s) PROVE Good(t)
<1>1. \/ t = s
      \/ \E o \in Outputs : t = console_puts(s, o)
      \/ t = console_clear(s)
      \/ \E step \in 0 .. MaxScale : t = console_puts(console_set_fb_font_scale(s, step), <<NewLine>>)
  BY Zenon DEF AfterCommand
<1>2. CASE \E o \in Outputs : t = console_puts(s, o)
  BY <1>2, OutputsAre, PutsKeepsPen, Zenon
<1>3. CASE t = console_clear(s)
  BY <1>3, HomeIs, Zenon DEF console_clear, Good
<1>4. CASE \E step \in 0 .. MaxScale : t = console_puts(console_set_fb_font_scale(s, step), <<NewLine>>)
  BY <1>4, OutputsAre, PutsKeepsPen, FontKeepsPen, Zenon
<1> QED
  BY <1>1, <1>2, <1>3, <1>4, Zenon

PenOK == Good(scr)

(* No step takes the pen off the screen.                                   *)
LEMMA PenKept == PenOK /\ [TermNext]_termVars => PenOK'
<1> SUFFICES ASSUME Good(scr), [TermNext]_termVars PROVE Good(scr')
  BY DEF PenOK
<1>1. CASE scr' = scr
  BY <1>1, Zenon
<1>2. ASSUME NEW str \in Seq(Chars), scr' = console_puts(scr, str) PROVE Good(scr')
  BY <1>2, PutsKeepsPen, Zenon
<1>3. ASSUME NEW k \in Printable, AcceptChar(k) PROVE Good(scr')
  BY <1>3, OutputsAre, PutcharKeepsPen, Zenon DEF AcceptChar, Good
<1>4. Good(console_putchar(scr, NewLine))
  <2>1. NewLine \in Chars
    BY OutputsAre, Zenon
  <2> QED
    BY <2>1, PutcharKeepsPen, Zenon DEF Good
<1>5. CASE RunCommand
  BY <1>4, <1>5, CommandKeepsPen, OutputsAre, PutsKeepsPen, Zenon DEF RunCommand
<1>6. CASE Launch
  BY <1>4, <1>6, OutputsAre, PutsKeepsPen, Zenon DEF Launch
<1>7. CASE BootPrompt \/ EraseChar \/ UserWrite \/ userland_exit_done \/ CpuException
  BY <1>2, <1>7, OutputsAre, Zenon DEF BootPrompt, EraseChar, UserWrite, userland_exit_done, CpuException
<1>8. CASE KeyIrq \/ MouseIrq \/ IgnoreKey \/ UserBlocks \/ UserResumes \/ UNCHANGED termVars
  BY <1>1, <1>8, Zenon DEF KeyIrq, MouseIrq, Enter_Irq, IgnoreKey, UserBlocks, UserResumes, termVars
<1> QED
  BY <1>3, <1>5, <1>6, <1>7, <1>8, Zenon DEF TermNext

(* The first screen.                                                       *)
LEMMA PenStarts == TermInit => PenOK
<1> SUFFICES ASSUME TermInit PROVE Good(scr)
  BY DEF PenOK
<1>1. PICK m \in Modes : scr = console_init(m)
  <2>1. {"fb", "none", "vga"} \subseteq Modes
    BY DEF Modes
  <2>2. PICK fb \in BOOLEAN, efi \in BOOLEAN :
          scr = console_init(IF fb THEN "fb" ELSE IF efi THEN "none" ELSE "vga")
    BY Zenon DEF TermInit
  <2>3. (IF fb THEN "fb" ELSE IF efi THEN "none" ELSE "vga") \in Modes
    BY <2>1
  <2> QED
    BY <2>2, <2>3, Zenon
<1> DEFINE z == IF m = "fb" THEN ttfont_init_for_height ELSE 1
           t == [mode |-> m, x |-> 0, y |-> 0, row |-> <<>>, manual |-> 0, scale |-> z]
<1>2. z \in 1 .. MaxScale
  BY AutoScale
<1> HIDE DEF z
<1>3. 0 \in 0 .. MaxScale /\ <<>> \in Seq(Chars)
  <2>1. MaxScale \in Nat
    BY Zenon, ConsoleAssumption
  <2> QED
    BY <2>1
<1>4. t \in Screens
  BY <1>2, <1>3 DEF Screens
<1>5. scr = Home(t)
  BY <1>1, Zenon DEF console_init, z
<1> HIDE DEF t
<1> QED
  BY <1>4, <1>5, HomeIs, Zenon

(* Whatever is printed, erased, cleared or rescaled, the pen stays on a    *)
(* cell boundary of a row that lies on the screen, for every screen, every *)
(* glyph and every output.                                                 *)
THEOREM PenStaysOnScreen == TermSpec => []PenOnScreen
<1>1. PenOK => PenOnScreen
  BY DEF PenOK, Good, PenOnScreen
<1> QED
  BY <1>1, PenStarts, PenKept, PTL DEF TermSpec

(***************************************************************************)
(* The row of the line                                                     *)
(***************************************************************************)
(* Screens with rows of the same length.                                   *)
Alike(s, t) == t.mode = s.mode /\ (s.mode = "fb" => t.scale = s.scale)

(* The room in a row depends on the mode and the scale only.               *)
LEMMA AlikeFits ==
    ASSUME NEW s, NEW t, Alike(s, t), NEW k PROVE FitsInRow(t, k) <=> FitsInRow(s, k)
<1>1. t.mode = s.mode /\ (s.mode = "fb" => t.scale = s.scale)
  BY DEF Alike
<1>2. Columns(t) = Columns(s)
  BY <1>1, Zenon DEF Columns, Cw
<1> QED
  BY <1>1, <1>2, Zenon DEF FitsInRow

(* Scrolling leaves the row of the pen as it is.                           *)
LEMMA VgaRow ==
    ASSUME NEW s \in Screens, s.mode = "vga", NEW t \in Screens, t.x < VgaW, t.mode = "vga", NEW c \in Chars,
           \/ c = NewLine /\ t = [s EXCEPT !.x = 0, !.y = s.y + 1, !.row = <<>>]
           \/ c = BackSpace /\ s.x > 0 /\ t = [s EXCEPT !.x = s.x - 1, !.row = Front(s.row)]
           \/ c \notin {NewLine, BackSpace} /\ t = [s EXCEPT !.x = s.x + 1, !.row = Append(s.row, c)]
    PROVE  console_putchar(s, c).row = t.row /\ console_putchar(s, c).mode = "vga"
<1>1. VgaW \in Nat /\ VgaH \in Nat /\ t.x \in Int
  <2>1. VgaW \in Nat /\ VgaH \in Nat
    BY Zenon, ConsoleAssumption
  <2> QED
    BY <2>1 DEF Screens
<1>2. ~ (t.x >= VgaW)
  BY <1>1
<1>3. vga_putchar(s, c) = IF t.y >= VgaH THEN [t EXCEPT !.y = VgaH - 1] ELSE t
  <2> DEFINE T == CASE c = NewLine -> [s EXCEPT !.x = 0, !.y = @ + 1, !.row = <<>>]
                    [] c = BackSpace -> IF s.x > 0 THEN [s EXCEPT !.x = @ - 1, !.row = Front(@)] ELSE s
                    [] OTHER -> [s EXCEPT !.x = @ + 1, !.row = Append(@, c)]
             U == IF T.x >= VgaW THEN [T EXCEPT !.x = 0, !.y = @ + 1, !.row = <<>>] ELSE T
  <2>1. vga_putchar(s, c) = IF U.y >= VgaH THEN [U EXCEPT !.y = VgaH - 1] ELSE U
    BY DEF vga_putchar
  <2>2. T = t
    BY DEF NewLine, BackSpace
  <2> HIDE DEF T
  <2> QED
    BY <1>2, <2>1, <2>2, Zenon
<1>4. console_putchar(s, c) = vga_putchar(s, c)
  BY Zenon DEF console_putchar
<1>5. [t EXCEPT !.y = VgaH - 1].row = t.row /\ [t EXCEPT !.y = VgaH - 1].mode = t.mode
  BY DEF Screens
<1> QED
  BY <1>3, <1>4, <1>5, Zenon

(* After a new line the row is empty.                                      *)
LEMMA NewLineRow ==
    ASSUME NEW s, Good(s)
    PROVE  LET t == console_putchar(s, NewLine) IN t.mode # "none" => t.row = <<>>
<1>1. CASE s.mode = "none"
  BY <1>1 DEF console_putchar
<1>2. CASE s.mode = "fb"
  <2>1. console_putchar(s, NewLine) = FbNextLine(s)
    <3>1. console_putchar(s, NewLine) = FbPut(s, NewLine)
      BY <1>2 DEF console_putchar
    <3>2. FbPut(s, NewLine) = FbNextLine(s)
      BY DEF FbPut, NewLine, BackSpace, Control
    <3> QED
      BY <3>1, <3>2, Zenon
  <2> QED
    BY <1>2, <2>1, NextLineKeepsPen, Zenon DEF Good
<1>3. CASE s.mode = "vga"
  <2>1. s \in Screens /\ s.y + 1 \in Int /\ <<>> \in Seq(Chars) /\ VgaW \in Nat \ {0} /\ NewLine \in Chars
    <3>1. VgaW \in Nat \ {0}
      BY Zenon, ConsoleAssumption
    <3> QED
      BY <3>1 DEF Good, Screens, Chars
  <2>2. PICK y \in Int, r \in Seq(Chars) : y = s.y + 1 /\ r = <<>>
    BY <2>1, Zenon
  <2>3. PICK t : t = [s EXCEPT !.x = 0, !.y = y, !.row = r]
    OBVIOUS
  <2>4. t \in Screens /\ t.x = 0 /\ t.mode = "vga" /\ t.row = r
    <3>1. /\ t.mode = s.mode /\ t.x = 0 /\ t.y = y /\ t.row = r /\ t.manual = s.manual /\ t.scale = s.scale
          /\ t = [mode |-> t.mode, x |-> t.x, y |-> t.y, row |-> t.row, manual |-> t.manual, scale |-> t.scale]
      BY <2>1, <2>3 DEF Screens
    <3>2. t \in Screens
      BY <2>1, <3>1 DEF Screens
    <3> QED
      BY <1>3, <3>1, <3>2, Zenon
  <2>5. t.x < VgaW
    BY <2>1, <2>4
  <2>6. t = [s EXCEPT !.x = 0, !.y = s.y + 1, !.row = <<>>]
    BY <2>2, <2>3, Zenon
  <2>7. console_putchar(s, NewLine).row = t.row
    <3>1. PICK c \in Chars : c = NewLine
      BY <2>1, Zenon
    <3>2. c = NewLine /\ t = [s EXCEPT !.x = 0, !.y = s.y + 1, !.row = <<>>]
      BY <2>6, <3>1, Zenon
    <3>3. console_putchar(s, c).row = t.row
      <4>1. /\ s \in Screens /\ s.mode = "vga" /\ t \in Screens /\ t.x < VgaW /\ t.mode = "vga"
            /\ \/ c = NewLine /\ t = [s EXCEPT !.x = 0, !.y = s.y + 1, !.row = <<>>]
               \/ c = BackSpace /\ s.x > 0 /\ t = [s EXCEPT !.x = s.x - 1, !.row = Front(s.row)]
               \/ c \notin {NewLine, BackSpace} /\ t = [s EXCEPT !.x = s.x + 1, !.row = Append(s.row, c)]
        BY <1>3, <2>1, <2>4, <2>5, <3>2, Zenon
      <4> QED
        BY <4>1, VgaRow, Zenon
    <3> QED
      BY <3>1, <3>3, Zenon
  <2> QED
    BY <2>2, <2>4, <2>7, Zenon
<1> QED
  BY <1>1, <1>2, <1>3 DEF Good, Screens, Modes

(* One glyph more in the row, when there is room for it.                   *)
HasRoom(s) == IF s.mode = "fb" THEN s.x + Cw(s) <= MaxX ELSE s.x + 1 < VgaW

(* A glyph for which there is room is added to the row.                    *)
LEMMA GlyphRow ==
    ASSUME NEW s, Good(s), s.mode # "none", NEW c \in Chars, c \notin {NewLine, BackSpace, Control},
           HasRoom(s)
    PROVE  console_putchar(s, c).row = Append(s.row, c) /\ Alike(s, console_putchar(s, c))
<1>1. /\ s \in Screens /\ s.x \in Int /\ s.row \in Seq(Chars) /\ Append(s.row, c) \in Seq(Chars)
      /\ s.x + 1 \in Int
  BY DEF Good, Screens
<1>2. CASE s.mode = "fb"
  <2>1. Cw(s) \in Nat /\ MaxX \in Int /\ s.x + Cw(s) \in Int
    BY <1>1, GlyphFits
  <2>2. ~ (s.x + Cw(s) > MaxX)
    BY <1>1, <1>2, <2>1 DEF HasRoom
  <2>3. PICK x \in Int, r \in Seq(Chars) : x = s.x + Cw(s) /\ r = Append(s.row, c)
    BY <1>1, <2>1, Zenon
  <2>4. console_putchar(s, c) = [s EXCEPT !.x = x, !.row = r]
    BY <1>2, <2>2, <2>3, Zenon DEF console_putchar, FbPut
  <2>5. [s EXCEPT !.x = x, !.row = r].row = r /\ [s EXCEPT !.x = x, !.row = r].mode = s.mode
        /\ [s EXCEPT !.x = x, !.row = r].scale = s.scale
    BY <1>1 DEF Screens
  <2> QED
    BY <2>3, <2>4, <2>5, Zenon DEF Alike
<1>3. CASE s.mode = "vga"
  <2>1. PICK x \in Int, r \in Seq(Chars) : x = s.x + 1 /\ r = Append(s.row, c)
    BY <1>1, Zenon
  <2>2. PICK t : t = [s EXCEPT !.x = x, !.row = r]
    OBVIOUS
  <2>3. t \in Screens /\ t.x = x /\ t.mode = "vga" /\ t.row = r
    BY <1>1, <1>3, <2>2 DEF Screens
  <2>4. t.x < VgaW
    BY <1>3, <2>1, <2>3, Zenon DEF HasRoom
  <2>5. t = [s EXCEPT !.x = s.x + 1, !.row = Append(s.row, c)]
    BY <2>1, <2>2, Zenon
  <2>6. console_putchar(s, c).row = r /\ console_putchar(s, c).mode = "vga"
    BY <1>1, <1>3, <2>3, <2>4, <2>5, VgaRow, Zenon
  <2> QED
    BY <1>3, <2>1, <2>6, Zenon DEF Alike
<1> QED
  BY <1>1, <1>2, <1>3 DEF Screens, Modes

(* One glyph less, when there is one.                                      *)
LEMMA BackRow ==
    ASSUME NEW s, Good(s), s.mode # "none", Len(s.row) > 0
    PROVE  /\ console_putchar(s, BackSpace).row = Front(s.row) /\ Alike(s, console_putchar(s, BackSpace))
           /\ s.mode = "fb" => console_putchar(s, BackSpace).x = s.x - Cw(s)
<1>1. s \in Screens /\ s.x \in Int /\ s.row \in Seq(Chars) /\ Len(s.row) \in Nat
  BY DEF Good, Screens
<1>2. Front(s.row) \in Seq(Chars)
  BY <1>1, FrontOf, Zenon
<1>3. CASE s.mode = "fb"
  <2>1. Cw(s) \in Nat \ {0} /\ s.x - Cw(s) \in Int /\ Margin \in Nat
    <3>1. Margin \in Nat
      BY Zenon, ConsoleAssumption
    <3> QED
      BY <1>1, <3>1, GlyphFits
  <2>2. s.x > Margin
    <3>1. s.x = Margin + Cw(s) * Len(s.row)
      BY <1>3 DEF Good, PenInside
    <3>2. PICK w \in Nat \ {0}, k \in Nat \ {0} : w = Cw(s) /\ k = Len(s.row)
      BY <1>1, <2>1
    <3>3. w * k \in Nat \ {0}
      BY <3>2
    <3> QED
      BY <2>1, <3>1, <3>2, <3>3
  <2>3. PICK x \in Int, r \in Seq(Chars) : x = s.x - Cw(s) /\ r = Front(s.row)
    BY <1>2, <2>1, Zenon
  <2>4. console_putchar(s, BackSpace) = [s EXCEPT !.x = x, !.row = r]
    <3>1. console_putchar(s, BackSpace) = FbPut(s, BackSpace)
      BY <1>3 DEF console_putchar
    <3>2. FbPut(s, BackSpace) = [s EXCEPT !.x = s.x - Cw(s), !.row = Front(s.row)]
      BY <2>2 DEF FbPut, NewLine, BackSpace, Control
    <3> QED
      BY <2>3, <3>1, <3>2, Zenon
  <2>5. [s EXCEPT !.x = x, !.row = r].row = r /\ [s EXCEPT !.x = x, !.row = r].mode = s.mode
        /\ [s EXCEPT !.x = x, !.row = r].scale = s.scale /\ [s EXCEPT !.x = x, !.row = r].x = x
    BY <1>1 DEF Screens
  <2> QED
    BY <2>3, <2>4, <2>5, Zenon DEF Alike
<1>4. CASE s.mode = "vga"
  <2>1. s.x > 0 /\ s.x - 1 \in Int /\ s.x - 1 < VgaW /\ BackSpace \in Chars
    <3>1. VgaW \in Nat
      BY Zenon, ConsoleAssumption
    <3>2. s.x \in 0 .. (VgaW - 1) /\ Len(s.row) = s.x
      BY <1>4 DEF Good, PenInside
    <3> QED
      BY <1>1, <3>1, <3>2 DEF Chars
  <2>2. PICK x \in Int, r \in Seq(Chars) : x = s.x - 1 /\ r = Front(s.row)
    BY <1>2, <2>1, Zenon
  <2>3. PICK t : t = [s EXCEPT !.x = x, !.row = r]
    OBVIOUS
  <2>4. t \in Screens /\ t.x = x /\ t.mode = "vga" /\ t.row = r
    BY <1>1, <1>4, <2>3 DEF Screens
  <2>5. t = [s EXCEPT !.x = s.x - 1, !.row = Front(s.row)] /\ t.x < VgaW /\ BackSpace # NewLine
    <3>1. BackSpace # NewLine
      BY DEF BackSpace, NewLine
    <3> QED
      BY <2>1, <2>2, <2>3, <2>4, <3>1, Zenon
  <2>6. console_putchar(s, BackSpace).row = r /\ console_putchar(s, BackSpace).mode = "vga"
    BY <1>1, <1>4, <2>1, <2>4, <2>5, VgaRow, Zenon
  <2> QED
    BY <1>4, <2>2, <2>6, Zenon DEF Alike
<1> QED
  BY <1>1, <1>3, <1>4 DEF Screens, Modes

(* Numbers.                                                                *)
LEMMA TimesMono ==
    ASSUME NEW d \in Nat, NEW b \in Nat, NEW c \in Nat, b <= c PROVE d * b <= d * c
  BY Z3

(* What a division leaves out is not negative.                             *)
LEMMA QuotientIs ==
    ASSUME NEW a \in Nat, NEW w \in Nat \ {0}
    PROVE  \E q \in Nat : q = a \div w /\ w * q <= a
<1>1. a \div w \in Nat /\ a % w \in Nat /\ a = w * (a \div w) + (a % w)
  BY Z3
<1>2. PICK q \in Nat, r \in Nat : q = a \div w /\ a = w * q + r
  BY <1>1
<1>3. PICK m \in Nat : m = w * q
  OBVIOUS
<1>4. m <= a
  BY <1>2, <1>3
<1> QED
  BY <1>2, <1>3, <1>4, Zenon

(* A row that is shorter than one that fits has room.                      *)
LEMMA RoomIs ==
    ASSUME NEW s, Good(s), s.mode # "none", NEW k \in Nat, Len(s.row) < k, FitsInRow(s, k)
    PROVE  HasRoom(s)
<1>1. s \in Screens /\ s.x \in Int /\ Len(s.row) \in Nat
  BY DEF Good, Screens
<1>2. CASE s.mode = "fb"
  <2>1. Cw(s) \in Nat \ {0} /\ Margin + Cw(s) <= MaxX /\ MaxX \in Int
    BY <1>1, GlyphFits
  <2>2. Margin \in Nat /\ FbW \in Nat
    BY Zenon, ConsoleAssumption
  <2>3. s.x = Margin + Cw(s) * Len(s.row) /\ k <= (FbW - 2 * Margin) \div Cw(s)
    BY <1>2 DEF Good, PenInside, FitsInRow, Columns
  <2>4. PICK w \in Nat \ {0}, j \in Nat : w = Cw(s) /\ j = Len(s.row)
    BY <1>1, <2>1
  <2>5. PICK a \in Nat : a = FbW - 2 * Margin
    BY <2>1, <2>2 DEF MaxX
  <2>6. PICK q \in Nat : q = a \div w /\ w * q <= a
    BY <2>4, <2>5, QuotientIs
  <2>7. j + 1 \in Nat /\ j + 1 <= q
    BY <2>3, <2>4, <2>5, <2>6
  <2>8. w * (j + 1) <= w * q
    BY <2>4, <2>6, <2>7, TimesMono
  <2>9. w * (j + 1) = w * j + w /\ w * j \in Nat
    BY <2>4, MulNext
  <2>10. PICK m \in Nat, z \in Nat : m = w * j /\ z = w * q
    BY <2>4, <2>6, <2>9
  <2>11. m + w <= z /\ z <= a
    BY <2>6, <2>8, <2>9, <2>10, Zenon
  <2>12. (Margin + m) + w <= FbW - Margin
    BY <2>2, <2>5, <2>11
  <2> QED
    BY <1>2, <2>3, <2>4, <2>10, <2>12, Zenon DEF HasRoom, MaxX
<1>3. CASE s.mode = "vga"
  <2>1. VgaW \in Nat
    BY Zenon, ConsoleAssumption
  <2>2. Len(s.row) = s.x /\ k < VgaW
    BY <1>3 DEF Good, PenInside, FitsInRow, Columns
  <2> QED
    BY <1>1, <1>3, <2>1, <2>2 DEF HasRoom
<1> QED
  BY <1>1, <1>2, <1>3 DEF Screens, Modes

(***************************************************************************)
(* The line on the screen                                                  *)
(***************************************************************************)
(* After a command the pen is in an empty row, where the prompt goes.      *)
LEMMA CommandRow ==
    ASSUME NEW s, Good(s), NEW t \in AfterCommand(console_putchar(s, NewLine))
    PROVE  Good(t) /\ (t.mode # "none" => t.row = <<>>)
<1> DEFINE s0 == console_putchar(s, NewLine)
<1>1. Good(s0)
  BY OutputsAre, PutcharKeepsPen, Zenon DEF Good
<1>2. s0.mode # "none" => s0.row = <<>>
  BY NewLineRow, Zenon
<1> HIDE DEF s0
<1>3. t \in AfterCommand(s0)
  BY Zenon DEF s0
<1>4. Good(t)
  BY <1>1, <1>3, CommandKeepsPen, Zenon
<1>5. ASSUME NEW u, Good(u), NEW o \in Seq(Chars), o # <<>>, Last(o) = NewLine, t = console_puts(u, o)
      PROVE  t.mode # "none" => t.row = <<>>
  <2>1. PICK h : IsTrace(h, u, o) /\ console_puts(u, o) = h[Len(o)]
    BY PutsIs, Zenon
  <2>2. Len(o) \in 1 .. Len(o) /\ Len(o) - 1 \in 0 .. Len(o)
    BY <1>5
  <2>3. Good(h[Len(o) - 1])
    BY <1>5, <2>1, <2>2, TraceGood, Zenon
  <2>4. t = console_putchar(h[Len(o) - 1], NewLine)
    BY <1>5, <2>1, <2>2, Zenon DEF IsTrace, Last
  <2> QED
    BY <2>3, <2>4, NewLineRow, Zenon
<1>6. \/ t = s0
      \/ \E o \in Outputs : o # <<>> /\ Last(o) = NewLine /\ t = console_puts(s0, o)
      \/ t = console_clear(s0)
      \/ \E step \in 0 .. MaxScale : t = console_puts(console_set_fb_font_scale(s0, step), <<NewLine>>)
  BY <1>3, Zenon DEF AfterCommand
<1>7. CASE \E o \in Outputs : o # <<>> /\ Last(o) = NewLine /\ t = console_puts(s0, o)
  BY <1>1, <1>4, <1>5, <1>7, OutputsAre, Zenon
<1>8. CASE t = console_clear(s0)
  BY <1>1, <1>4, <1>8, HomeIs, Zenon DEF console_clear, Good
<1>9. CASE \E step \in 0 .. MaxScale : t = console_puts(console_set_fb_font_scale(s0, step), <<NewLine>>)
  <2>1. <<NewLine>> # <<>> /\ Last(<<NewLine>>) = NewLine
    BY DEF Last
  <2> QED
    BY <1>1, <1>4, <1>5, <1>9, <2>1, FontKeepsPen, OutputsAre, Zenon
<1> QED
  BY <1>2, <1>4, <1>6, <1>7, <1>8, <1>9, Zenon

(* The prompt is one glyph.                                                *)
LEMMA PromptRow ==
    ASSUME NEW s, Good(s), s.mode # "none" => s.row = <<>>,
           NEW t, t = console_puts(s, Prompt), t.mode # "none", FitsInRow(t, 1)
    PROVE  t.row = Prompt
<1>1. Prompt \in Seq(Chars) /\ Len(Prompt) = 1 /\ Prompt[1] = ">" /\ Append(<<>>, ">") = Prompt
  <2>1. Len(Prompt) = 1 /\ Prompt[1] = ">" /\ Append(<<>>, ">") = Prompt
    BY DEF Prompt
  <2> QED
    BY <2>1, OutputsAre, Zenon
<1>2. PICK h : IsTrace(h, s, Prompt) /\ console_puts(s, Prompt) = h[Len(Prompt)]
  BY <1>1, PutsIs, Zenon
<1>3. t = console_putchar(s, ">")
  <2>1. 1 \in 1 .. 1 /\ 1 - 1 = 0
    OBVIOUS
  <2> QED
    BY <1>1, <1>2, <2>1, Zenon DEF IsTrace
<1>4. ">" \in Chars /\ ">" \notin {NewLine, BackSpace, Control}
  BY DEF Chars, NewLine, BackSpace, Control
<1>5. s.mode # "none"
  <2>1. s.mode = "none" => console_putchar(s, ">") = s
    BY DEF console_putchar
  <2> QED
    BY <1>3, <2>1, Zenon
<1>6. HasRoom(s)
  <2>1. s \in Screens /\ s.row = <<>> /\ s.x \in Int
    BY <1>5 DEF Good, Screens
  <2>2. CASE s.mode = "fb"
    <3>1. Cw(s) \in Nat \ {0} /\ Margin + Cw(s) <= MaxX
      BY <2>1, GlyphFits, Zenon
    <3>2. s.x = Margin + Cw(s) * Len(s.row)
      BY <2>2 DEF Good, PenInside
    <3>3. Margin \in Nat
      BY Zenon, ConsoleAssumption
    <3>4. s.x = Margin
      BY <2>1, <3>1, <3>2, <3>3
    <3> QED
      BY <2>2, <3>1, <3>4, Zenon DEF HasRoom
  <2>3. CASE s.mode = "vga"
    <3>1. t.mode = "vga"
      <4>1. console_putchar(s, ">") = vga_putchar(s, ">")
        BY <2>3 DEF console_putchar
      <4> QED
        BY <1>3, <1>4, <2>1, <2>3, <4>1, VgaKeepsPen, Zenon DEF Good
    <3>2. 1 < VgaW
      BY <3>1 DEF FitsInRow, Columns
    <3>3. s.x = 0
      BY <2>1, <2>3 DEF Good, PenInside
    <3> QED
      BY <2>3, <3>2, <3>3 DEF HasRoom
  <2> QED
    BY <1>5, <2>1, <2>2, <2>3 DEF Screens, Modes
<1>7. t.row = Append(s.row, ">")
  BY <1>3, <1>4, <1>5, <1>6, GlyphRow, Zenon
<1> QED
  BY <1>1, <1>5, <1>7, Zenon

Moves(p, q, e) == Append(p \o q, e) = p \o Append(q, e)

(* What is appended to a concatenation is appended to its second part.     *)
LEMMA AppendToConcat ==
    ASSUME NEW S, NEW p \in Seq(S), NEW q \in Seq(S), NEW e \in S
    PROVE  Moves(p, q, e)
<1>1. p \o q \in Seq(S) /\ <<e>> \in Seq(S)
  OBVIOUS
<1>2. Append(p \o q, e) = (p \o q) \o <<e>> /\ Append(q, e) = q \o <<e>>
  BY <1>1, AppendIsConcat, Zenon
<1>3. (p \o q) \o <<e>> = p \o (q \o <<e>>)
  BY <1>1, ConcatAssociative
<1> QED
  BY <1>2, <1>3, Zenon DEF Moves

(* Front takes off what Append puts on.                                    *)
LEMMA FrontOfAppend ==
    ASSUME NEW S, NEW q \in Seq(S), NEW e \in S
    PROVE  Front(Append(q, e)) = q
<1>1. PICK a \in Seq(S), m \in Nat : /\ a = Append(q, e) /\ m = Len(q) /\ Len(a) = m + 1
                                     /\ \A i \in 1 .. m : a[i] = q[i]
  <2>1. /\ Append(q, e) \in Seq(S) /\ Len(q) \in Nat /\ Len(Append(q, e)) = Len(q) + 1
        /\ \A i \in 1 .. Len(q) : Append(q, e)[i] = q[i]
    OBVIOUS
  <2> QED
    BY <2>1, Zenon
<1>2. Front(a) = SubSeq(a, 1, m)
  <2>1. Len(a) - 1 = m
    BY <1>1
  <2> QED
    BY <2>1, Zenon DEF Front
<1>3. /\ SubSeq(a, 1, m) \in Seq(S) /\ Len(SubSeq(a, 1, m)) = m
      /\ \A i \in 1 .. m : SubSeq(a, 1, m)[i] = a[i]
  <2>1. \A i \in 1 .. m : a[i] \in S
    BY <1>1
  <2>2. SubSeq(a, 1, m) \in Seq(S) /\ Len(SubSeq(a, 1, m)) = IF 1 <= m THEN m - 1 + 1 ELSE 0
    BY <1>1, <2>1, SubSeqProperties
  <2>3. \A x : x = (IF 1 <= m THEN m - 1 + 1 ELSE 0) => x = m
    BY <1>1
  <2>4. \A i \in 1 .. m : SubSeq(a, 1, m)[i] = a[i]
    BY <1>1
  <2> QED
    BY <2>2, <2>3, <2>4, Zenon
<1>4. PICK b \in Seq(S) : b = SubSeq(a, 1, m) /\ Len(b) = m /\ \A i \in 1 .. m : b[i] = q[i]
  BY <1>1, <1>3, Zenon
<1>5. b = q
  BY <1>1, <1>4, SeqEqual
<1> QED
  BY <1>1, <1>2, <1>4, <1>5, Zenon

(* The front of a concatenation.                                           *)
LEMMA FrontOfConcat ==
    ASSUME NEW S, NEW p \in Seq(S), NEW q \in Seq(S), q # <<>>
    PROVE  Front(p \o q) = p \o Front(q)
<1>1. PICK r \in Seq(S), e \in S : q = Append(r, e)
  BY SequenceEmptyOrAppend, Zenon
<1>2. p \o r \in Seq(S) /\ p \o q = Append(p \o r, e)
  <2>1. p \o r \in Seq(S)
    OBVIOUS
  <2>2. Append(p \o r, e) = p \o Append(r, e)
    <3>1. Moves(p, r, e)
      BY AppendToConcat, Zenon
    <3> QED
      BY <3>1, Zenon DEF Moves
  <2> QED
    BY <1>1, <2>1, <2>2, Zenon
<1>3. Front(Append(p \o r, e)) = p \o r
  BY <1>2, FrontOfAppend
<1>4. Front(Append(r, e)) = r
  BY FrontOfAppend
<1> QED
  BY <1>1, <1>2, <1>3, <1>4, Zenon

(* A character changes neither the mode nor the scale.                     *)
LEMMA PutcharAlike ==
    ASSUME NEW s, Good(s), NEW c \in Chars
    PROVE  Alike(s, console_putchar(s, c))
<1>1. s \in Screens
  BY DEF Good
<1>2. CASE s.mode = "none"
  BY <1>2 DEF console_putchar, Alike
<1>3. CASE s.mode = "vga"
  <2>1. console_putchar(s, c) = vga_putchar(s, c)
    BY <1>3 DEF console_putchar
  <2> QED
    BY <1>1, <1>3, <2>1, VgaKeepsPen, Zenon DEF Good, Alike
<1>4. CASE s.mode = "fb"
  <2>1. console_putchar(s, c) = FbPut(s, c)
    BY <1>4 DEF console_putchar
  <2>2. FbNextLine(s) \in Screens /\ FbNextLine(s).mode = "fb" /\ FbNextLine(s).scale = s.scale
    BY <1>1, <1>4, NextLineKeepsPen, Zenon DEF Good
  <2>3. ASSUME NEW t \in Screens, t.mode = "fb", t.scale = s.scale, NEW x, NEW r
        PROVE  [t EXCEPT !.x = x, !.row = r].mode = "fb" /\ [t EXCEPT !.x = x, !.row = r].scale = s.scale
    BY <2>3 DEF Screens
  <2>4. \/ FbPut(s, c) = FbNextLine(s)
        \/ FbPut(s, c) = s
        \/ \E t \in {s, FbNextLine(s)} : \E x, r : FbPut(s, c) = [t EXCEPT !.x = x, !.row = r]
    <3>1. CASE c = NewLine
      BY <3>1 DEF FbPut, NewLine, BackSpace, Control
    <3>2. CASE c = BackSpace
      <4>1. FbPut(s, c) = IF s.x > Margin THEN [s EXCEPT !.x = s.x - Cw(s), !.row = Front(s.row)] ELSE s
        BY <3>2 DEF FbPut, NewLine, BackSpace, Control
      <4> QED
        BY <4>1, Zenon
    <3>3. CASE c = Control
      BY <3>3 DEF FbPut, NewLine, BackSpace, Control
    <3>4. CASE c # NewLine /\ c # BackSpace /\ c # Control
      <4> DEFINE t == IF s.x + Cw(s) > MaxX THEN FbNextLine(s) ELSE s
      <4>1. FbPut(s, c) = [t EXCEPT !.x = t.x + Cw(s), !.row = Append(t.row, c)]
        BY <3>4 DEF FbPut
      <4>2. t \in {s, FbNextLine(s)}
        OBVIOUS
      <4> HIDE DEF t
      <4> QED
        BY <4>1, <4>2, Zenon
    <3> QED
      BY <3>1, <3>2, <3>3, <3>4, Zenon
  <2>5. CASE FbPut(s, c) = FbNextLine(s)
    BY <1>4, <2>1, <2>2, <2>5, Zenon DEF Alike
  <2>6. CASE FbPut(s, c) = s
    BY <2>1, <2>6, Zenon DEF Alike
  <2>7. ASSUME NEW t \in {s, FbNextLine(s)}, NEW x, NEW r, FbPut(s, c) = [t EXCEPT !.x = x, !.row = r]
        PROVE  Alike(s, FbPut(s, c))
    <3>1. t \in Screens /\ t.mode = "fb" /\ t.scale = s.scale
      BY <1>1, <1>4, <2>2, Zenon
    <3>2. [t EXCEPT !.x = x, !.row = r].mode = "fb" /\ [t EXCEPT !.x = x, !.row = r].scale = s.scale
      BY <2>3, <3>1, Zenon
    <3> QED
      BY <1>4, <2>7, <3>2, Zenon DEF Alike
  <2> QED
    BY <2>1, <2>4, <2>5, <2>6, <2>7, Zenon
<1> QED
  BY <1>1, <1>2, <1>3, <1>4 DEF Screens, Modes

(* What fits leaves room for less.                                         *)
LEMMA FitsLess ==
    ASSUME NEW s, Good(s), NEW j \in Nat, NEW k \in Nat, j <= k, FitsInRow(s, k)
    PROVE  FitsInRow(s, j)
<1>1. Columns(s) \in Int
  <2>1. FbW \in Nat /\ Margin \in Nat /\ VgaW \in Nat
    BY Zenon, ConsoleAssumption
  <2>2. PICK w \in Nat \ {0} : w = Cw(s)
    BY GlyphFits, Zenon DEF Good
  <2>3. PICK a \in Int : a = FbW - 2 * Margin
    BY <2>1
  <2>4. a \div w \in Int
    OBVIOUS
  <2> QED
    BY <2>1, <2>2, <2>3, <2>4 DEF Columns
<1>2. PICK z \in Int : z = Columns(s)
  BY <1>1
<1>3. (k <= z => j <= z) /\ (k < z => j < z)
  OBVIOUS
<1> QED
  BY <1>2, <1>3, Zenon DEF FitsInRow

(* Erasing moves back, blanks the cell and moves back again.               *)
LEMMA EraseIs ==
    ASSUME NEW s, Good(s)
    PROVE  \E t, u : /\ t = console_putchar(s, BackSpace) /\ u = console_putchar(t, Blank)
                     /\ console_puts(s, EraseEcho) = console_putchar(u, BackSpace)
                     /\ Good(t) /\ Good(u) /\ Alike(s, t) /\ Alike(s, u)
                     /\ Alike(s, console_puts(s, EraseEcho))
<1>1. /\ EraseEcho \in Seq(Chars) /\ Len(EraseEcho) = 3
      /\ EraseEcho[1] = BackSpace /\ EraseEcho[2] = Blank /\ EraseEcho[3] = BackSpace
  <2>1. /\ Len(EraseEcho) = 3
        /\ EraseEcho[1] = BackSpace /\ EraseEcho[2] = Blank /\ EraseEcho[3] = BackSpace
    BY DEF EraseEcho
  <2> QED
    BY <2>1, OutputsAre, Zenon
<1>2. PICK h : IsTrace(h, s, EraseEcho) /\ console_puts(s, EraseEcho) = h[Len(EraseEcho)]
  BY <1>1, PutsIs, Zenon
<1>3. h[0] = s /\ h[1] = console_putchar(h[0], BackSpace) /\ h[2] = console_putchar(h[1], Blank)
      /\ h[3] = console_putchar(h[2], BackSpace)
  <2>1. {1, 2, 3} \subseteq 1 .. 3 /\ 1 - 1 = 0 /\ 2 - 1 = 1 /\ 3 - 1 = 2
    OBVIOUS
  <2>2. 1 \in 1 .. 3 /\ 2 \in 1 .. 3 /\ 3 \in 1 .. 3
    OBVIOUS
  <2>3. \A k \in 1 .. 3 : h[k] = console_putchar(h[k - 1], EraseEcho[k])
    BY <1>1, <1>2, Zenon DEF IsTrace
  <2>4. h[1] = console_putchar(h[1 - 1], EraseEcho[1]) /\ h[2] = console_putchar(h[2 - 1], EraseEcho[2])
        /\ h[3] = console_putchar(h[3 - 1], EraseEcho[3])
    BY <2>2, <2>3, Zenon
  <2> QED
    BY <1>1, <1>2, <2>1, <2>4, Zenon DEF IsTrace
<1>4. BackSpace \in Chars /\ Blank \in Chars
  BY DEF Chars, Printable
<1>5. Good(h[1]) /\ Alike(s, h[1])
  BY <1>3, <1>4, PutcharKeepsPen, PutcharAlike, Zenon DEF Good
<1>6. Good(h[2]) /\ Alike(h[1], h[2])
  BY <1>3, <1>4, <1>5, PutcharKeepsPen, PutcharAlike, Zenon DEF Good
<1>7. Alike(h[2], h[3])
  BY <1>3, <1>4, <1>6, PutcharAlike, Zenon
<1>8. Alike(s, h[2])
  BY <1>5, <1>6, Zenon DEF Alike
<1>9. Alike(s, h[3])
  BY <1>7, <1>8, Zenon DEF Alike
<1> QED
  BY <1>1, <1>2, <1>3, <1>5, <1>6, <1>8, <1>9, Zenon

(* It takes the last character of the line off the row.                    *)
LEMMA EraseRow ==
    ASSUME NEW s, Good(s), s.mode # "none", NEW q \in Seq(Printable), q # <<>>, s.row = Prompt \o q,
           NEW m \in Nat, Len(q) <= m, FitsInRow(s, 1 + m)
    PROVE  console_puts(s, EraseEcho).row = Prompt \o Front(q)
<1>1. PICK t, u : /\ t = console_putchar(s, BackSpace) /\ u = console_putchar(t, Blank)
                  /\ console_puts(s, EraseEcho) = console_putchar(u, BackSpace)
                  /\ Good(t) /\ Good(u) /\ Alike(s, t) /\ Alike(s, u)
  BY EraseIs, Zenon
<1>2. t.mode # "none" /\ u.mode # "none"
  BY <1>1, Zenon DEF Alike
<1>3. q \in Seq(Chars) /\ Prompt \in Seq(Chars) /\ Len(Prompt) = 1
  <2>1. Printable \subseteq Chars
    BY DEF Chars
  <2>2. q \in Seq(Chars)
    BY <2>1
  <2>3. Len(Prompt) = 1
    BY DEF Prompt
  <2> QED
    BY <2>2, <2>3, OutputsAre, Zenon
<1>4. Len(q) \in Nat /\ Len(q) > 0 /\ Len(s.row) = 1 + Len(q)
  <2>1. Len(q) \in Nat /\ Len(q) # 0
    BY <1>3
  <2>2. Len(Prompt \o q) = Len(Prompt) + Len(q)
    BY <1>3, ConcatProperties, Zenon
  <2> QED
    BY <1>3, <2>1, <2>2
<1>5. PICK f \in Seq(Chars) : f = Front(q) /\ Len(f) = Len(q) - 1
  BY <1>3, <1>4, FrontOf, Zenon
<1>6. t.row = Prompt \o f
  <2>1. Len(s.row) > 0
    BY <1>4
  <2>2. t.row = Front(s.row)
    BY <1>1, <2>1, BackRow, Zenon
  <2>3. Front(Prompt \o q) = Prompt \o Front(q)
    BY <1>3, FrontOfConcat
  <2> QED
    BY <1>5, <2>2, <2>3, Zenon
<1>7. Prompt \o f \in Seq(Chars) /\ Len(Prompt \o f) = Len(q)
  BY <1>3, <1>4, <1>5
<1>8. HasRoom(t)
  <2>1. FitsInRow(t, 1 + m)
    BY <1>1, AlikeFits, Zenon
  <2>2. 1 + m \in Nat /\ Len(t.row) < 1 + m
    BY <1>4, <1>6, <1>7
  <2> QED
    BY <1>1, <1>2, <2>1, <2>2, RoomIs, Zenon
<1>9. Blank \in Chars /\ Blank \notin {NewLine, BackSpace, Control}
  BY DEF Chars, Printable, Blank, NewLine, BackSpace, Control
<1>10. u.row = Append(Prompt \o f, Blank)
  BY <1>1, <1>2, <1>6, <1>8, <1>9, GlyphRow, Zenon
<1>11. Len(u.row) > 0
  BY <1>7, <1>9, <1>10
<1>12. console_putchar(u, BackSpace).row = Front(u.row)
  BY <1>1, <1>2, <1>11, BackRow, Zenon
<1>13. Front(Append(Prompt \o f, Blank)) = Prompt \o f
  BY <1>7, <1>9, FrontOfAppend
<1> QED
  BY <1>1, <1>5, <1>10, <1>12, <1>13, Zenon

(* A character that is accepted is added to the row.                       *)
LEMMA AcceptRow ==
    ASSUME NEW s, Good(s), s.mode # "none", NEW q \in Seq(Printable), NEW k \in Printable,
           s.row = Prompt \o q, NEW m \in Nat, Len(q) < m, FitsInRow(s, 1 + m)
    PROVE  console_putchar(s, k).row = Prompt \o Append(q, k)
<1>1. Printable \subseteq Chars /\ k \in Chars /\ k \notin {NewLine, BackSpace, Control}
  <2>1. Blank \notin {NewLine, BackSpace, Control}
    BY DEF Blank, NewLine, BackSpace, Control
  <2>2. \A x \in Letters : x \notin {NewLine, BackSpace, Control}
    BY TerminalAssumption, Zenon
  <2> QED
    BY <2>1, <2>2, Zenon DEF Chars, Printable
<1>2. q \in Seq(Chars) /\ Len(Prompt) = 1
  BY <1>1 DEF Prompt
<1>3. Prompt \in Seq(Chars)
  BY OutputsAre, Zenon
<1>4. 1 + m \in Nat /\ Len(s.row) < 1 + m
  BY <1>2, <1>3
<1>5. HasRoom(s)
  BY <1>4, RoomIs, Zenon
<1>6. console_putchar(s, k).row = Append(s.row, k)
  BY <1>1, <1>5, GlyphRow, Zenon
<1>7. Append(Prompt \o q, k) = Prompt \o Append(q, k)
  <2>1. Moves(Prompt, q, k)
    BY <1>1, <1>2, <1>3, AppendToConcat, Zenon
  <2> QED
    BY <2>1, Zenon DEF Moves
<1> QED
  BY <1>6, <1>7, Zenon

(* While the last prompt is the shell's, what was typed is the line, and   *)
(* the row of the pen shows it unless it once reached the end of the row.  *)
Shown(s, q, m) == s.mode # "none" /\ FitsInRow(s, 1 + m) => s.row = Prompt \o q
EchoOK ==
    /\ line \in Seq(Printable) /\ typed \in Seq(Printable) /\ longest \in Nat
    /\ own => typed = line /\ Len(line) <= longest /\ Shown(scr, line, longest)
EchoInv == PenOK /\ EchoOK

(* An accepted character keeps it so.                                      *)
LEMMA AcceptKeepsEcho == ASSUME EchoInv, NEW k \in Printable, AcceptChar(k) PROVE EchoOK'
<1>1. /\ line \in Seq(Printable) /\ typed \in Seq(Printable) /\ longest \in Nat /\ Good(scr)
      /\ own => typed = line /\ Len(line) <= longest /\ Shown(scr, line, longest)
  BY Zenon DEF EchoInv, EchoOK, PenOK
<1>2. /\ line' = Append(line, k) /\ typed' = Append(typed, k) /\ own' = own
      /\ scr' = console_putchar(scr, k)
      /\ longest' = IF Len(typed) + 1 > longest THEN Len(typed) + 1 ELSE longest
  BY Zenon DEF AcceptChar
<1>3. line' \in Seq(Printable) /\ typed' \in Seq(Printable) /\ Len(line') = Len(line) + 1 /\ Len(line) \in Nat
  BY <1>1, <1>2
<1>4. longest' \in Nat /\ longest <= longest' /\ Len(typed) < longest'
  BY <1>1, <1>2
<1>5. ASSUME own' PROVE typed' = line' /\ Len(line') <= longest' /\ Shown(scr', line', longest')
  <2>1. typed = line /\ Shown(scr, line, longest)
    BY <1>1, <1>2, <1>5, Zenon
  <2>2. typed' = line' /\ Len(line') <= longest'
    BY <1>2, <1>3, <1>4, <2>1
  <2>3. ASSUME scr'.mode # "none", FitsInRow(scr', 1 + longest') PROVE scr'.row = Prompt \o line'
    <3>1. k \in Chars
      BY Zenon DEF Chars
    <3>2. Alike(scr, scr')
      BY <1>1, <1>2, <3>1, PutcharAlike, Zenon
    <3>3. scr.mode # "none" /\ FitsInRow(scr, 1 + longest')
      BY <2>3, <3>2, AlikeFits, Zenon DEF Alike
    <3>4. 1 + longest \in Nat /\ 1 + longest' \in Nat /\ 1 + longest <= 1 + longest'
      <4>1. \A i, j \in Nat : i <= j => 1 + i \in Nat /\ 1 + j \in Nat /\ 1 + i <= 1 + j
        OBVIOUS
      <4> QED
        BY <1>1, <1>4, <4>1, Zenon
    <3>5. FitsInRow(scr, 1 + longest)
      BY <1>1, <3>3, <3>4, FitsLess, Zenon
    <3>6. scr.row = Prompt \o line
      BY <2>1, <3>3, <3>5, Zenon DEF Shown
    <3>7. console_putchar(scr, k).row = Prompt \o Append(line, k)
      BY <1>1, <1>4, <2>1, <3>3, <3>6, AcceptRow, Zenon
    <3> QED
      BY <1>2, <3>7, Zenon
  <2> QED
    BY <2>2, <2>3, Zenon DEF Shown
<1> QED
  BY <1>3, <1>4, <1>5, Zenon DEF EchoOK

(* So does an erased one.                                                  *)
LEMMA EraseKeepsEcho == ASSUME EchoInv, EraseChar PROVE EchoOK'
<1>1. /\ line \in Seq(Printable) /\ typed \in Seq(Printable) /\ longest \in Nat /\ Good(scr)
      /\ own => typed = line /\ Len(line) <= longest /\ Shown(scr, line, longest)
  BY Zenon DEF EchoInv, EchoOK, PenOK
<1>2. /\ line # <<>> /\ line' = Front(line) /\ typed' = IF typed = <<>> THEN typed ELSE Front(typed)
      /\ own' = own /\ longest' = longest /\ scr' = console_puts(scr, EraseEcho)
  BY Zenon DEF EraseChar
<1>3. ASSUME NEW q \in Seq(Printable), q # <<>>
      PROVE  Front(q) \in Seq(Printable) /\ Len(Front(q)) <= Len(q)
  <2>1. Len(q) > 0 /\ Len(q) \in Nat
    BY <1>3
  <2>2. Front(q) \in Seq(Printable) /\ Len(Front(q)) = Len(q) - 1
    BY <2>1, FrontOf, Zenon
  <2> QED
    BY <2>1, <2>2
<1>4. line' \in Seq(Printable) /\ typed' \in Seq(Printable) /\ Len(line') <= Len(line)
  BY <1>1, <1>2, <1>3, Zenon
<1>5. ASSUME own' PROVE typed' = line' /\ Len(line') <= longest' /\ Shown(scr', line', longest')
  <2>1. typed = line /\ Len(line) <= longest /\ Shown(scr, line, longest)
    BY <1>1, <1>2, <1>5, Zenon
  <2>2. typed' = line'
    BY <1>2, <2>1, Zenon
  <2>3. Len(line') <= longest'
    <3>1. Len(line) \in Nat /\ Len(line') \in Nat
      <4>1. \A q \in Seq(Printable) : Len(q) \in Nat
        OBVIOUS
      <4> QED
        BY <1>1, <1>4, <4>1, Zenon
    <3> QED
      BY <1>1, <1>2, <1>4, <2>1, <3>1
  <2>4. ASSUME scr'.mode # "none", FitsInRow(scr', 1 + longest') PROVE scr'.row = Prompt \o line'
    <3>1. Alike(scr, scr')
      BY <1>1, <1>2, EraseIs, Zenon
    <3>2. scr.mode # "none" /\ FitsInRow(scr, 1 + longest)
      BY <1>2, <2>4, <3>1, AlikeFits, Zenon DEF Alike
    <3>3. scr.row = Prompt \o line
      BY <2>1, <3>2, Zenon DEF Shown
    <3> QED
      BY <1>1, <1>2, <2>1, <3>2, <3>3, EraseRow, Zenon
  <2> QED
    BY <2>2, <2>3, <2>4, Zenon DEF Shown
<1> QED
  BY <1>1, <1>2, <1>4, <1>5, Zenon DEF EchoOK

(* A command leaves an empty line after its prompt.                        *)
LEMMA CommandKeepsEcho == ASSUME EchoInv, RunCommand PROVE EchoOK'
<1>1. Good(scr)
  BY Zenon DEF EchoInv, PenOK
<1>2. line' = <<>> /\ typed' = <<>> /\ longest' = 0
  BY Zenon DEF RunCommand
<1>3. PICK s \in AfterCommand(console_putchar(scr, NewLine)) : scr' = console_puts(s, Prompt)
  BY Zenon DEF RunCommand
<1>4. Good(s) /\ (s.mode # "none" => s.row = <<>>)
  BY <1>1, <1>3, CommandRow, Zenon
<1>5. ASSUME scr'.mode # "none", FitsInRow(scr', 1 + longest') PROVE scr'.row = Prompt \o line'
  <2>1. 1 + 0 = 1 /\ Prompt \o <<>> = Prompt
    BY DEF Prompt
  <2> QED
    BY <1>2, <1>3, <1>4, <1>5, <2>1, PromptRow, Zenon
<1>6. <<>> \in Seq(Printable) /\ Len(<<>>) <= 0 /\ 0 \in Nat
  OBVIOUS
<1> QED
  BY <1>2, <1>5, <1>6, Zenon DEF EchoOK, Shown

(* No step breaks it.                                                      *)
LEMMA EchoKept == EchoInv /\ [TermNext]_termVars => EchoInv'
<1> SUFFICES ASSUME EchoInv, [TermNext]_termVars PROVE EchoOK'
  BY PenKept, Zenon DEF EchoInv
<1>1. /\ line \in Seq(Printable) /\ typed \in Seq(Printable) /\ longest \in Nat
      /\ own => typed = line /\ Len(line) <= longest /\ Shown(scr, line, longest)
  BY Zenon DEF EchoInv, EchoOK
<1>2. CASE line' = line /\ typed' = typed /\ longest' = longest /\ own' = FALSE
  BY <1>1, <1>2, Zenon DEF EchoOK
<1>3. CASE UNCHANGED <<line, scr, typed, longest, own>>
  BY <1>1, <1>3, Zenon DEF EchoOK
<1>4. CASE userland_exit_done
  <2>1. line' = line /\ typed' = <<>> /\ longest' = 0 /\ own' = FALSE
    BY <1>4, Zenon DEF userland_exit_done
  <2>2. <<>> \in Seq(Printable) /\ 0 \in Nat
    OBVIOUS
  <2> QED
    BY <1>1, <2>1, <2>2, Zenon DEF EchoOK
<1>5. CASE BootPrompt \/ Launch \/ UserWrite \/ CpuException
  BY <1>2, <1>5, Zenon DEF BootPrompt, Launch, UserWrite, CpuException
<1>6. CASE KeyIrq \/ MouseIrq \/ IgnoreKey \/ UserBlocks \/ UserResumes \/ UNCHANGED termVars
  BY <1>3, <1>6, Zenon DEF KeyIrq, MouseIrq, Enter_Irq, IgnoreKey, UserBlocks, UserResumes, termVars
<1> QED
  BY <1>4, <1>5, <1>6, AcceptKeepsEcho, EraseKeepsEcho, CommandKeepsEcho, Zenon DEF TermNext

(* After the shell's own prompt the row of the pen shows the prompt and    *)
(* the line that Enter would run, however it was edited, as long as it     *)
(* never reached the end of the row.                                       *)
THEOREM LineIsShown == TermSpec => []EchoShowsLine
<1>1. TermInit => EchoInv
  <2>1. <<>> \in Seq(Printable) /\ 0 \in Nat
    OBVIOUS
  <2>2. TermInit => line = <<>> /\ typed = <<>> /\ longest = 0 /\ own = FALSE
    BY Zenon DEF TermInit
  <2> QED
    BY <2>1, <2>2, PenStarts, Zenon DEF EchoInv, EchoOK
<1>2. EchoInv => EchoShowsLine
  <2>1. Len(Prompt) = 1
    BY DEF Prompt
  <2> QED
    BY <2>1, Zenon DEF EchoInv, EchoOK, Shown, EchoShowsLine
<1> QED
  BY <1>1, <1>2, EchoKept, PTL DEF TermSpec
=============================================================================
