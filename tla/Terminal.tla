------------------------------ MODULE Terminal ------------------------------
(***************************************************************************)
(* Keys, the shell's line and the screen.  A key raises IRQ1; isr_handler  *)
(* passes its character to shell_handle_input, which edits the line and    *)
(* echoes, and on Enter runs the command inside the interrupt handler.  A  *)
(* command that starts a program leaves the handler through ring 3 and     *)
(* never comes back to it.  A program writes to the screen, may block in a *)
(* call with interrupts on, and ends on a stack of its own that prints a   *)
(* prompt and waits for the next interrupt.                                *)
(***************************************************************************)
EXTENDS Console, FiniteSets

CONSTANTS
    Letters,     \* printable characters other than the blank
    MaxLine,     \* MAX_COMMAND_LEN - 1
    Outputs      \* what commands and programs print

ASSUME TerminalAssumption ==
    /\ MaxLine \in Nat
    /\ Letters \cap {Blank, NewLine, BackSpace, Control} = {}
    /\ Outputs \subseteq Seq(Letters \cup {Blank, NewLine, BackSpace, Control})

VARIABLES
    cpu,       \* "boot", "idle" (hlt loop), "irq", "user", "blocked", "stopped"
    back,      \* where the interrupt handler that runs returns to
    pic,       \* interrupt lines in service
    key,       \* the character of the key being handled
    line,      \* cmd_buffer[0 .. cmd_len - 1]
    scr,       \* the screen
    typed,     \* typed and echoed since boot, the last command or the last exit
    longest,   \* the most characters typed has held since then
    own        \* the last prompt is the shell's, and no program wrote since

termVars == <<cpu, back, pic, key, line, scr, typed, longest, own>>

Prompt == <<">">>
Printable == Letters \cup {Blank}
\* What scancode_ascii yields: also nothing, for releases and unmapped keys.
Keys == Printable \cup {NewLine, BackSpace, Control, "none"}

\* console_init finds a frame buffer, or else avoids VGA text under EFI.
TermInit ==
    /\ \E fb, efi \in BOOLEAN :
          scr = console_init(IF fb THEN "fb" ELSE IF efi THEN "none" ELSE "vga")
    /\ cpu = "boot" /\ back = "idle" /\ pic = {} /\ key = "none"
    /\ line = <<>> /\ typed = <<>> /\ longest = 0 /\ own = FALSE

\* kernel_main enables interrupts first and prints the prompt then.
BootPrompt ==
    /\ cpu = "boot"
    /\ cpu' = "idle"
    /\ scr' = console_puts(scr, <<NewLine>> \o Prompt)
    /\ own' = FALSE
    /\ UNCHANGED <<back, pic, key, line, typed, longest>>

(***************************************************************************)
(* Interrupts                                                              *)
(***************************************************************************)
IrqsOn == cpu \in {"boot", "idle", "blocked"}

Enter_Irq(lines, k) ==
    /\ IrqsOn
    /\ \A l \in lines, s \in pic : l < s
    /\ cpu' = "irq" /\ back' = cpu
    /\ pic' = pic \cup lines
    /\ key' = k
    /\ UNCHANGED <<line, scr, typed, longest, own>>

KeyIrq == \E k \in Keys : Enter_Irq({1}, k)
\* The byte of the mouse is read and dropped; its line comes through line 2.
MouseIrq == Enter_Irq({2, 12}, "none")

\* The end of isr_handler: both controllers are told, the CPU resumes.
Eoi == pic' = pic \ {1, 2, 12}
IrqReturns == Eoi /\ cpu' = back /\ back' = "idle" /\ key' = "none"

(***************************************************************************)
(* shell_handle_input                                                      *)
(***************************************************************************)
Handles(k) == cpu = "irq" /\ key = k

AcceptChar(k) ==
    /\ Handles(k) /\ k \in Printable
    /\ Len(line) < MaxLine
    /\ line' = Append(line, k)
    /\ scr' = console_putchar(scr, k)
    /\ typed' = Append(typed, k)
    /\ longest' = IF Len(typed) + 1 > longest THEN Len(typed) + 1 ELSE longest
    /\ IrqReturns
    /\ UNCHANGED own

EraseEcho_NoSecond == <<BackSpace, Blank>>
EraseEcho == <<BackSpace, Blank, BackSpace>>

EraseChar ==
    /\ Handles(BackSpace)
    /\ line # <<>>
    /\ line' = Front(line)
    /\ scr' = console_puts(scr, EraseEcho)
    /\ typed' = IF typed = <<>> THEN typed ELSE Front(typed)
    /\ IrqReturns
    /\ UNCHANGED <<longest, own>>

\* No character, one that is not printable, a full line, an empty line.
IgnoreKey ==
    /\ cpu = "irq"
    /\ \/ key \in {"none", Control}
       \/ key \in Printable /\ Len(line) >= MaxLine
       \/ key = BackSpace /\ line = <<>>
    /\ IrqReturns
    /\ UNCHANGED <<line, scr, typed, longest, own>>

\* The screens a command can leave, given the one it starts on.
AfterCommand(s) ==
    IF \A i \in DOMAIN line : line[i] = Blank THEN {s}
    ELSE {console_puts(s, o) : o \in {p \in Outputs : p # <<>> /\ Last(p) = NewLine}}
           \cup {console_clear(s)}
           \cup {console_puts(console_set_fb_font_scale(s, n), <<NewLine>>) :
                    n \in 0 .. MaxScale}

RunCommand_KeepLine ==
    /\ Handles(NewLine)
    /\ \E s \in AfterCommand(console_putchar(scr, NewLine)) : scr' = console_puts(s, Prompt)
    /\ typed' = <<>> /\ longest' = 0 /\ own' = TRUE
    /\ IrqReturns
    /\ UNCHANGED line
\* Enter, for a command that returns.
RunCommand ==
    /\ Handles(NewLine)
    /\ \E s \in AfterCommand(console_putchar(scr, NewLine)) : scr' = console_puts(s, Prompt)
    /\ line' = <<>>
    /\ typed' = <<>> /\ longest' = 0 /\ own' = TRUE
    /\ IrqReturns

jump_ring3_NoEoi ==
    /\ cpu' = "user" /\ back' = "idle" /\ key' = "none"
    /\ UNCHANGED pic
\* iretq to the program, after the EOI that the end of isr_handler cannot send.
jump_ring3 ==
    /\ cpu' = "user" /\ back' = "idle" /\ key' = "none"
    /\ pic' = pic \ {1}

\* Enter, for a command that starts a program.
Launch ==
    /\ Handles(NewLine)
    /\ \E i \in DOMAIN line : line[i] # Blank
    /\ \E o \in Outputs : scr' = console_puts(console_putchar(scr, NewLine), o)
    /\ own' = FALSE
    /\ jump_ring3
    /\ UNCHANGED <<line, typed, longest>>

(***************************************************************************)
(* The program                                                             *)
(***************************************************************************)
\* WRITE to descriptor 1 or 2.
UserWrite ==
    /\ cpu = "user"
    /\ \E o \in Outputs : scr' = console_puts(scr, o)
    /\ own' = FALSE
    /\ UNCHANGED <<cpu, back, pic, key, line, typed, longest>>

\* IPC_RECV and IPC_CALL wait in sti; hlt.
UserBlocks ==
    /\ cpu = "user"
    /\ cpu' = "blocked"
    /\ UNCHANGED <<back, pic, key, line, scr, typed, longest, own>>
UserResumes ==
    /\ cpu = "blocked"
    /\ cpu' = "user"
    /\ UNCHANGED <<back, pic, key, line, scr, typed, longest, own>>

\* EXIT: userland_exit_done prints and waits with interrupts on.
userland_exit_done ==
    /\ cpu = "user"
    /\ cpu' = "idle"
    /\ scr' = console_puts(scr, <<NewLine, NewLine>> \o Prompt)
    /\ typed' = <<>> /\ longest' = 0 /\ own' = FALSE
    /\ UNCHANGED <<back, pic, key, line>>

\* An exception of the program: isr_handler prints and halts for good.
CpuException ==
    /\ cpu = "user"
    /\ cpu' = "stopped"
    /\ scr' = console_puts(scr, <<NewLine, NewLine>>)
    /\ own' = FALSE
    /\ UNCHANGED <<back, pic, key, line, typed, longest>>

TermNext ==
    \/ BootPrompt \/ KeyIrq \/ MouseIrq
    \/ (\E k \in Printable : AcceptChar(k)) \/ EraseChar \/ IgnoreKey
    \/ RunCommand \/ Launch
    \/ UserWrite \/ UserBlocks \/ UserResumes \/ userland_exit_done \/ CpuException

TermSpec == TermInit /\ [][TermNext]_termVars

(***************************************************************************)
(* Properties                                                              *)
(***************************************************************************)
\* Whatever is printed, erased, cleared or rescaled, console_putchar keeps the
\* pen on a cell boundary of a row that lies on the screen.
PenOnScreen == PenInside(scr)

\* After the shell's own prompt the row of the pen shows the prompt and the
\* line that Enter would run, however the line was edited, as long as it never
\* reached the end of the row (a backspace does not go back over a wrap).
EchoShowsLine ==
    /\ own /\ cpu \in {"idle", "irq"} /\ scr.mode # "none"
    /\ FitsInRow(scr, Len(Prompt) + longest)
    => scr.row = Prompt \o line

\* Whenever the CPU waits for an interrupt no line is in service: keys still
\* arrive after a command left the handler through ring 3 (the comment in
\* chaseros_user_jump_ring3).
KeyboardStaysLive == IrqsOn => pic = {}

\* SYSCALL-ABI.txt: EXIT returns to the kernel shell.  The command that Enter
\* runs is what was typed since the last one, or since the last program ended.
RunsWhatWasTyped == (cpu = "irq" /\ key = NewLine) => line = typed
=============================================================================
