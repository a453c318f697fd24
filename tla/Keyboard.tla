------------------------------ MODULE Keyboard ------------------------------
(***************************************************************************)
(* The keyboard driver (src/drivers/keyboard.c): modifier keys, the line    *)
(* being typed, and the ring buffer of bytes that sys_read drains.  Module  *)
(* Console composes it with the scheduler, module Echo with the terminal.   *)
(*                                                                          *)
(* A scancode is the name of a key.  The prefix 0xE0 and the release of a   *)
(* key other than Shift and Ctrl change nothing and are left out; the code  *)
(* behind the prefix is handled like any other, so an arrow key is a key    *)
(* without a character, whose table entry is NUL.                           *)
(***************************************************************************)
EXTENDS Naturals, Sequences, SequencesExt

CONSTANTS
    BufSize,        \* KBD_BUF_SIZE, of the ring and of the line buffer
    Key,            \* the keys that are neither Shift nor Ctrl
    KbdUs,          \* kbd_us, from Key to bytes
    KbdUsShift      \* kbd_us_shift

NUL == "NUL"        \* byte 0
ETX == "ETX"        \* byte 3, Ctrl+C
NL  == "NL"
BS  == "BS"
Byte == {KbdUs[k] : k \in Key} \cup {KbdUsShift[k] : k \in Key} \cup {ETX, NL}

ASSUME KeyboardAssumption ==
    /\ BufSize \in Nat /\ BufSize > 1
    /\ DOMAIN KbdUs = Key /\ DOMAIN KbdUsShift = Key
    /\ "C" \in Key                      \* scancode 0x2E
    /\ \A key \in Key : ETX \notin {KbdUs[key], KbdUsShift[key]}

VARIABLES
    shift_active,
    ctrl_active,
    line,           \* line_buffer[0 .. line_pos - 1]
    ring,           \* kbd_buffer
    head,           \* kbd_head, where the next byte goes
    tail            \* kbd_tail, where the next byte is taken from

kbdVars == <<shift_active, ctrl_active, line, ring, head, tail>>

----------------------------------------------------------------------------
\* kbd_enqueue(c): the byte is dropped when the ring is full, which it is with
\* one slot still free.
Overwriting(r, c) == [buf |-> [r.buf EXCEPT ![r.head] = c],
                      head |-> (r.head + 1) % BufSize]
NeverWrapping(r, c) ==
    IF (r.head + 1) % BufSize # tail
    THEN [buf |-> [r.buf EXCEPT ![r.head] = c], head |-> r.head + 1]
    ELSE r
Enqueue(r, c) ==
    IF (r.head + 1) % BufSize # tail
    THEN [buf |-> [r.buf EXCEPT ![r.head] = c], head |-> (r.head + 1) % BufSize]
    ELSE r

EnqueueAll(bytes) ==
    LET r[n \in 0 .. Len(bytes)] ==
            IF n = 0 THEN [buf |-> ring, head |-> head] ELSE Enqueue(r[n-1], bytes[n])
    IN  ring' = r[Len(bytes)].buf /\ head' = r[Len(bytes)].head

\* kbd_is_empty
Empty == head = tail

\* The bytes in the ring, oldest first, and their number.
Used == (head + BufSize - tail) % BufSize
Contents == [i \in 1 .. Used |-> ring[(tail + i - 1) % BufSize]]

\* sys_read of at most count bytes (syscall.c): kbd_get_char until count bytes
\* are taken, the ring is empty, or the byte was a newline, a Ctrl+C, or a NUL,
\* which reads like an empty ring and does not get into the caller's buffer.
Stops(count) ==
    {i \in 1 .. Used : i <= count /\
        (i = count \/ i = Used \/ Contents[i] \in {NUL, ETX, NL})}
Consumed(count) ==
    IF count = 0 THEN 0 ELSE CHOOSE i \in Stops(count) : \A j \in Stops(count) : i <= j
Returned(count) ==
    LET n == Consumed(count)
    IN  SubSeq(Contents, 1, IF n > 0 /\ Contents[n] = NUL THEN n - 1 ELSE n)

ReadBytes(count) == tail' = (tail + Consumed(count)) % BufSize

----------------------------------------------------------------------------
(* keyboard_handler_main, one operator per case *)

Char(key) == IF shift_active THEN KbdUsShift[key] ELSE KbdUs[key]
IsCtrlC(key) == ctrl_active /\ key = "C"
Types(key, bytes) == ~IsCtrlC(key) /\ Char(key) \in bytes

\* The line being typed is thrown away, and byte 3 takes its place.
CtrlC(key) ==
    /\ IsCtrlC(key)
    /\ line' = <<>>
    /\ EnqueueAll(<<ETX>>)
    /\ UNCHANGED <<shift_active, ctrl_active, tail>>

Enter(key) ==
    /\ Types(key, {NL})
    /\ line' = <<>>
    /\ EnqueueAll(Append(line, NL))
    /\ UNCHANGED <<shift_active, ctrl_active, tail>>

Backspace(key) ==
    /\ Types(key, {BS})
    /\ line # <<>>
    /\ line' = Front(line)
    /\ UNCHANGED <<shift_active, ctrl_active, ring, head, tail>>

Ordinary(key) ==
    /\ Types(key, Byte \ {NL, BS})
    /\ Len(line) < BufSize - 1
    /\ line' = Append(line, Char(key))
    /\ UNCHANGED <<shift_active, ctrl_active, ring, head, tail>>

Modifier ==
    /\ \/ shift_active' = ~shift_active /\ UNCHANGED ctrl_active
       \/ ctrl_active' = ~ctrl_active /\ UNCHANGED shift_active
    /\ UNCHANGED <<line, ring, head, tail>>

KbdInit ==
    /\ shift_active = FALSE
    /\ ctrl_active = FALSE
    /\ line = <<>>
    /\ ring = [i \in 0 .. BufSize - 1 |-> NUL]
    /\ head = 0
    /\ tail = 0

KbdTypeOK ==
    /\ shift_active \in BOOLEAN
    /\ ctrl_active \in BOOLEAN
    /\ line \in Seq(Byte \ {NL, BS, ETX}) /\ Len(line) < BufSize
    /\ ring \in [0 .. BufSize - 1 -> Byte \cup {NUL}]
    /\ head \in 0 .. BufSize - 1
    /\ tail \in 0 .. BufSize - 1
=============================================================================
