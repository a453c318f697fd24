-------------------------------- MODULE Echo --------------------------------
(***************************************************************************)
(* What the person at the keyboard sees: the keyboard driver echoes each    *)
(* key to the terminal, to which programs print as well.                    *)
(***************************************************************************)
EXTENDS Keyboard, Terminal

echoVars == <<kbdVars, termVars>>

RowsLeft == Len(paper) < MaxRows

\* IRQ1 with the echo keyboard_handler_main gives: none for Ctrl+C.
EchoInterrupt ==
    /\ RowsLeft
    /\ \/ \E key \in Key : CtrlC(key) /\ UNCHANGED termVars
       \/ \E key \in Key : Enter(key) /\ PutChar(NL)
       \/ \E key \in Key : Backspace(key) /\ PutChar(BS)
       \/ \E key \in Key : Ordinary(key) /\ PutChar(Char(key))
       \/ Modifier /\ UNCHANGED termVars

\* A program's sys_print, or the kernel's own output, puts one character.
Output(c) == RowsLeft /\ PutChar(c) /\ UNCHANGED kbdVars

\* A read takes the ring's bytes; nothing is shown.
Drain == ~Empty /\ tail' = head /\ UNCHANGED <<shift_active, ctrl_active, line, ring, head, termVars>>

EchoInit == KbdInit /\ TermInit

EchoNext == EchoInterrupt \/ (\E c \in Glyph \cup {NL, BS} : Output(c)) \/ Drain

EchoSpec == EchoInit /\ [][EchoNext]_echoVars
=============================================================================
