----------------------------- MODULE MCConsole -----------------------------
EXTENDS Console, TLC

\* The letter C, a key without a character (arrow keys, Alt, F-keys), Enter and
\* backspace.
MCKbdUs == "C" :> "c" @@ "UP" :> NUL @@ "ENTER" :> NL @@ "BACK" :> BS
MCKbdUsShift == "C" :> "C" @@ "UP" :> NUL @@ "ENTER" :> NL @@ "BACK" :> BS
MCKey == {"C", "UP", "ENTER", "BACK"}

\* States that differ only in ring slots outside Contents, which are written
\* before they are read, are one state to TLC.
View == <<Contents, tail, line, shift_active, ctrl_active, got, schedVars>>
=============================================================================
