----------------------------- MODULE Foreground -----------------------------
(***************************************************************************)
(* What sys_exec, sys_exit and the page-fault handler promise together: the *)
(* user programs form a stack.  Only the youngest program runs; executing a *)
(* file puts a new program on top, its exit gives the terminal back to the  *)
(* youngest one below.  A page fault is the exception the code makes: it    *)
(* kills the program on top and nobody is resumed.                          *)
(***************************************************************************)
EXTENDS Integers, FiniteSetsExt

VARIABLES
    alive,  \* the programs that have not ended
    fg,     \* the program that runs or can run, 0 for none
    last    \* the last pid given out

fvars == <<alive, fg, last>>

\* The shell, if it could be loaded.
Init ==
    /\ last \in {0, 1}
    /\ alive = 1 .. last
    /\ fg = last

Exec ==
    /\ fg # 0
    /\ last' = last + 1
    /\ alive' = alive \cup {last'}
    /\ fg' = last'

Exit ==
    /\ fg # 0
    /\ alive' = alive \ {fg}
    /\ fg' = Max(alive' \cup {0})
    /\ UNCHANGED last

Kill ==
    /\ fg # 0
    /\ alive' = alive \ {fg}
    /\ fg' = 0
    /\ UNCHANGED last

Next == Exec \/ Exit \/ Kill

Spec == Init /\ [][Next]_fvars
=============================================================================
