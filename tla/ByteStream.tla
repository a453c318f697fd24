----------------------------- MODULE ByteStream -----------------------------
(***************************************************************************)
(* What the keyboard driver promises its readers: a first-in-first-out      *)
(* stream of bytes.  What is typed is put in as a whole or, when there is   *)
(* no room, up to the point where the room ends; what is read is a prefix   *)
(* of the stream, and nothing is read twice, skipped or reordered, but for  *)
(* one NUL, which ends a read and is thrown away.                           *)
(***************************************************************************)
EXTENDS Naturals, SequencesExt

CONSTANTS
    Room,       \* how many bytes the stream can hold
    Line,       \* the sequences of bytes that can be put in at once
    NUL

VARIABLES
    stream,     \* the bytes put in and not read yet
    got         \* what the last read returned

Init == stream = <<>> /\ got = <<>>

Put ==
    /\ \E bytes \in Line :
          stream' = LET all == stream \o bytes
                    IN  IF Len(all) <= Room THEN all ELSE SubSeq(all, 1, Room)
    /\ UNCHANGED got

Read ==
    /\ stream # <<>>
    /\ IsPrefix(got', stream)
    /\ \/ stream = got' \o stream'
       \/ stream = got' \o <<NUL>> \o stream'

Next == Put \/ Read

Spec == Init /\ [][Next]_<<stream, got>>
=============================================================================
