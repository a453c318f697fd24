------------------------------ MODULE Terminal ------------------------------
(***************************************************************************)
(* The text terminal (src/drivers/terminal.c): the screen's cells and the   *)
(* cursor.  paper is a history variable: all rows ever written, the screen  *)
(* being a window on the last of them.                                      *)
(***************************************************************************)
EXTENDS Integers, Sequences, SequencesExt

CONSTANTS
    Width, Height,  \* VGA_WIDTH, VGA_HEIGHT
    Glyph,          \* the characters that have a picture
    MaxRows         \* bound: rows of paper

ASSUME TerminalAssumption ==
    Width \in Nat \ {0} /\ Height \in Nat \ {0} /\ MaxRows >= Height

Blank == "SPACE"

VARIABLES
    row, col,   \* terminal_row, terminal_column
    cells,      \* the VGA buffer, row by row
    paper

termVars == <<row, col, cells, paper>>

----------------------------------------------------------------------------
\* terminal_scroll: every row moves up one, the last one becomes blank.
BlankRow == [x \in 0 .. Width - 1 |-> Blank]
ScrollKeepsLast(screen) ==
    [y \in 0 .. Height - 1 |-> IF y < Height - 1 THEN screen[y + 1] ELSE screen[y]]
Scrolled(screen) ==
    [y \in 0 .. Height - 1 |-> IF y < Height - 1 THEN screen[y + 1] ELSE BlankRow]

\* The end of terminal_putchar: a row below the screen scrolls it.
Settle(r, screen) ==
    /\ row' = IF r >= Height THEN Height - 1 ELSE r
    /\ cells' = IF r >= Height THEN Scrolled(screen) ELSE screen

\* terminal_putchar(c), and what it means on paper: a new row begins after a
\* newline and after a full row, and a backspace blanks the last character of
\* the row, if it has one.
PutChar(c) ==
    \/ /\ c = "BS" /\ col > 0
       /\ col' = col - 1
       /\ Settle(row, [cells EXCEPT ![row][col - 1] = Blank])
       /\ paper' = Append(Front(paper), Front(Last(paper)))
    \/ /\ c = "BS" /\ col = 0
       /\ UNCHANGED termVars
    \/ /\ c = "NL"
       /\ col' = 0
       /\ Settle(row + 1, cells)
       /\ paper' = Append(paper, <<>>)
    \/ /\ c \in Glyph
       /\ LET full    == col + 1 = Width
              written == [cells EXCEPT ![row][col] = c]
              line    == Append(Front(paper), Append(Last(paper), c))
          IN  /\ col' = IF full THEN 0 ELSE col + 1
              /\ Settle(IF full THEN row + 1 ELSE row, written)
              /\ paper' = IF full THEN Append(line, <<>>) ELSE line

\* terminal_initialize clears the screen.
TermInit ==
    /\ row = 0 /\ col = 0
    /\ cells = [y \in 0 .. Height - 1 |-> BlankRow]
    /\ paper = <<<<>>>>

----------------------------------------------------------------------------
TermTypeOK ==
    /\ row \in 0 .. Height - 1
    /\ col \in 0 .. Width - 1
    /\ cells \in [0 .. Height - 1 -> [0 .. Width - 1 -> Glyph \cup {Blank}]]

\* The screen shows the last rows of the paper, and the cursor stands behind
\* the last character written, on the screen.
ScreenShowsPaper ==
    LET top == IF Len(paper) > Height THEN Len(paper) - Height ELSE 0
        Written(y) == IF top + y + 1 \in DOMAIN paper THEN paper[top + y + 1] ELSE <<>>
    IN  /\ TermTypeOK
        /\ \A y \in 0 .. Height - 1, x \in 0 .. Width - 1 :
              cells[y][x] = IF x < Len(Written(y)) THEN Written(y)[x + 1] ELSE Blank
        /\ row = Len(paper) - top - 1
        /\ col = Len(Last(paper))
=============================================================================
