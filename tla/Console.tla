------------------------------ MODULE Console ------------------------------
(***************************************************************************)
(* The keyboard driver and the tasks that read from it: Keyboard composed   *)
(* with the scheduler's sys_read, with interrupts and system calls in every *)
(* order.  The number of bytes in the ring is what Sched calls avail.       *)
(***************************************************************************)
EXTENDS Keyboard

CONSTANTS MaxTasks, TimeSlice, MaxCount     \* bounds; MaxCount on sys_read's count

ASSUME ConsoleAssumption ==
    MaxTasks \in Nat \ {0} /\ TimeSlice \in Nat \ {0} /\ MaxCount \in Nat

VARIABLES
    current, state, parent, ticksLeft, at, ready, waitq, nextPid, halted,
    got         \* the bytes the last sys_read returned, in the caller's buffer

S == INSTANCE Sched WITH avail <- Used, RingCap <- BufSize - 1

schedVars == <<current, state, parent, ticksLeft, at, ready, waitq, nextPid, halted>>
vars == <<kbdVars, schedVars, got>>

----------------------------------------------------------------------------
\* IRQ1.  Enter and Ctrl+C wake the readers, the other keys do not.
Commit(key) == CtrlC(key) \/ Enter(key)
Edit(key) == Backspace(key) \/ Ordinary(key)

Quiet == UNCHANGED schedVars
WakeReaders == S!Wakeup /\ UNCHANGED <<parent, ticksLeft, at, nextPid, halted>>

CommitWakesOnEnter(key) ==
    \/ Enter(key) /\ WakeReaders
    \/ CtrlC(key) /\ Quiet
CommitWakes(key) == Commit(key) /\ WakeReaders

KeyboardInterrupt ==
    /\ S!InterruptsOn
    /\ \/ \E key \in Key : CommitWakes(key)
       \/ \E key \in Key : Edit(key) /\ Quiet
       \/ Modifier /\ Quiet
    /\ UNCHANGED got

\* sys_read with bytes in the ring; with an empty ring it blocks (Others).
SysRead(count) ==
    /\ S!UserMode \/ S!InRead
    /\ ~Empty
    /\ got' = Returned(count)
    /\ ReadBytes(count)
    /\ at' = [at EXCEPT ![current] = "run"]
    /\ UNCHANGED <<shift_active, ctrl_active, line, ring, head>>
    /\ UNCHANGED <<current, state, parent, ticksLeft, ready, waitq, nextPid, halted>>

\* What the scheduler does apart from the keyboard.
Others ==
    /\ UNCHANGED <<kbdVars, got>>
    /\ \/ S!Tick \/ S!SysExit \/ S!SysExec \/ S!SysReadBlock
       \/ S!SysPing \/ S!PingReturn \/ S!PageFaultKill \/ S!Halt

Init == KbdInit /\ S!Init /\ got = <<>>

Next ==
    \/ KeyboardInterrupt
    \/ \E count \in 0 .. MaxCount : SysRead(count)
    \/ Others

Spec == Init /\ [][Next]_vars

----------------------------------------------------------------------------
\* The types of the driver's state; the bytes a program gets are never NUL.
TypeOK == KbdTypeOK /\ got \in Seq(Byte \ {NUL})

\* The driver and its readers implement the scheduler of module Sched, in which
\* a byte count stands for the ring: the index arithmetic of the ring, the
\* dropped bytes and the bytes sys_read consumes all agree with that count.
ImplementsSched == S!Spec

\* Between keyboard and program lies a first-in-first-out stream of bytes.
B == INSTANCE ByteStream WITH
        stream <- Contents, Room <- BufSize - 1,
        Line <- {<<ETX>>} \cup {Append(l, NL) : l \in BoundedSeq(Byte, BufSize - 1)}
ImplementsStream == B!Spec
=============================================================================
