----------------------------- MODULE PacketQueue -----------------------------
(***************************************************************************)
(* What the driver of a network card and the card promise each other, in    *)
(* either direction: frames are handed on once each, in their order, as     *)
(* they were put in.                                                        *)
(***************************************************************************)
EXTENDS Sequences

CONSTANTS
    Packet,
    Nothing         \* handed, before the first packet is

VARIABLES
    queue,          \* the packets put in and not handed on yet
    handed          \* the packet handed on last

vars == <<queue, handed>>

Init == queue = <<>> /\ handed = Nothing

Put(p) ==
    /\ queue' = Append(queue, p)
    /\ UNCHANGED handed

HandOn ==
    /\ queue # <<>>
    /\ handed' = Head(queue)
    /\ queue' = Tail(queue)

Next == (\E p \in Packet : Put(p)) \/ HandOn

Spec == Init /\ [][Next]_vars
=============================================================================
