------------------------------- MODULE MCEcho -------------------------------
EXTENDS Echo, TLC

\* Table entries without a character print as the picture of byte 0.
MCKbdUs == "C" :> "c" @@ "UP" :> NUL @@ "ENTER" :> NL @@ "BACK" :> BS
MCKbdUsShift == "C" :> "C" @@ "UP" :> NUL @@ "ENTER" :> NL @@ "BACK" :> BS
MCKey == {"C", "UP", "ENTER", "BACK"}
MCGlyph == {"c", "C", NUL}

\* The ring is Console's subject.
View == <<line, shift_active, ctrl_active, termVars>>
=============================================================================
