--------------------------------- MODULE Nic ---------------------------------
(***************************************************************************)
(* The RTL8139 driver (src/drivers/rlt8139.c) and the card it shares memory *)
(* with.  The card stores received packets in a ring and raises an          *)
(* interrupt; the handler takes them out.  Packets to send go through       *)
(* descriptors that the card gives back.  The card works at any time,       *)
(* between any two instructions of the driver.                              *)
(*                                                                          *)
(* The card is outside this repository; it is modelled from how the driver  *)
(* uses it.  A packet in the ring is a header of 4 bytes with its length,   *)
(* the frame and its checksum, and begins at a multiple of 4.  The register *)
(* CAPR is 16 behind the place where the driver reads.  With the WRAP bit   *)
(* set a packet is not split at the end of the ring but runs on behind it.  *)
(* The interrupt line is level triggered.                                   *)
(*                                                                          *)
(* Calls of rtl8139_send do not overlap here; that ping and the interrupt   *)
(* handler can send at the same time is in module Net.                      *)
(***************************************************************************)
EXTENDS Integers, Sequences, FiniteSets

CONSTANTS
    RingSize,       \* bytes of the receive ring (8192)
    Word,           \* a 16 bit register wraps around here (2^16)
    Lens,           \* lengths of packets, checksum included (64 .. 1518)
    MaxLen,         \* the longest the driver takes (1518 + 4)
    TxSlots,        \* RTL_TX_BUF_COUNT
    Frame,          \* bound: the frames sent
    Nothing         \* no packet, no frame

ASSUME NicAssumption ==
    /\ RingSize \in Nat \ {0} /\ RingSize % 4 = 0
    /\ Word \in Nat \ {0} /\ Word % RingSize = 0
    /\ MaxLen \in Nat
    /\ Lens \subseteq 5 .. MaxLen
    /\ \A len \in Lens : len + 8 <= RingSize
    /\ TxSlots \in Nat \ {0}

ROK == "ROK"        \* RTL_ISR_ROK: a packet was received
TOK == "TOK"        \* RTL_ISR_TOK: a frame was sent
Slot == 0 .. TxSlots - 1

VARIABLES
    boot,           \* how far rtl8139_init is
    isr,            \* interrupt status register
    ring,           \* the packets in rx_buf, by the offset of their header
    rx_addr,        \* where the card stores the next packet
    capr,           \* register CAPR
    drv,            \* rtl8139_handler: where it is and its variables
    handed,         \* the packet net_receive was given last
    own,            \* the descriptors whose OWN bit says "CPU"
    tx_buf,         \* the frame in each transmit buffer
    tx_next,        \* the descriptor of the next frame to send
    tx_cur,         \* the descriptor the card sends next
    send,           \* rtl8139_send: where it is and its argument
    wire            \* the frame sent last

rxVars == <<ring, rx_addr, capr, drv, handed>>
txVars == <<own, tx_buf, tx_next, tx_cur, send, wire>>
vars == <<boot, isr, rxVars, txVars>>

----------------------------------------------------------------------------
(* The receive ring *)

\* A packet takes its header and is padded to a multiple of 4.
Align(n) == ((n + 3) \div 4) * 4
Room(len) == Align(len + 4)

\* Where the driver reads, from CAPR: what the card takes it for and what
\* rtl8139_handler makes of it.
ReadAt(reg) == (reg + 16) % RingSize

\* The bit BUFE of the command register.
Empty == rx_addr = ReadAt(capr)

\* Bytes the card may still use; an empty ring takes any packet.
Free == (RingSize + ReadAt(capr) - rx_addr) % RingSize
Fits(len) == Empty \/ Room(len) < Free

\* The packets in the ring that one at offset o leaves alone.
Untouched(o, len) ==
    {x \in DOMAIN ring : x + Room(ring[x]) <= o \/ o + Room(len) <= x}

\* The card stores a packet, or drops it when it does not fit.
Arrive(len) ==
    /\ boot # "config"
    /\ Fits(len)
    /\ ring' = [x \in Untouched(rx_addr, len) \cup {rx_addr} |->
                    IF x = rx_addr THEN len ELSE ring[x]]
    /\ rx_addr' = (rx_addr + Room(len)) % RingSize
    /\ isr' = isr \cup {ROK}
    /\ UNCHANGED <<boot, capr, drv, handed, txVars>>

----------------------------------------------------------------------------
(* rtl8139_init, from the enabling of the receiver on.  Packets may arrive  *)
(* before CAPR is set and before interrupts are enabled.                    *)

InitDriver == [pc |-> "out", isr |-> {}, cur |-> 0, len |-> 0]

Enable ==
    /\ boot = "config" /\ boot' = "enabled"
    /\ UNCHANGED <<isr, rxVars, txVars>>

SetCapr ==
    /\ boot = "enabled" /\ boot' = "masked"
    /\ capr' = (-16) % Word
    /\ UNCHANGED <<isr, ring, rx_addr, drv, handed, txVars>>

Unmask ==
    /\ boot = "masked" /\ boot' = "ready"
    /\ UNCHANGED <<isr, rxVars, txVars>>

----------------------------------------------------------------------------
(* rtl8139_handler *)

Goto(pc) == drv' = [drv EXCEPT !.pc = pc]

\* The interrupt is raised, and the handler reads the status register ...
Interrupt ==
    /\ boot = "ready" /\ isr # {} /\ drv.pc = "out"
    /\ drv' = [drv EXCEPT !.pc = "ack", !.isr = isr]
    /\ UNCHANGED <<boot, isr, ring, rx_addr, capr, handed, txVars>>

\* ... and clears the bits it has read, before it looks at the ring.
AckAll ==
    /\ drv.pc = "ack"
    /\ isr' = {}
    /\ Goto(IF ROK \in drv.isr THEN "test" ELSE "out")
    /\ UNCHANGED <<boot, ring, rx_addr, capr, handed, txVars>>
Ack ==
    /\ drv.pc = "ack"
    /\ isr' = isr \ drv.isr
    /\ Goto(IF ROK \in drv.isr THEN "test" ELSE "out")
    /\ UNCHANGED <<boot, ring, rx_addr, capr, handed, txVars>>

\* The loop runs until the ring is empty.
Test ==
    /\ drv.pc = "test"
    /\ Goto(IF Empty THEN "out" ELSE "header")
    /\ UNCHANGED <<boot, isr, ring, rx_addr, capr, handed, txVars>>

\* The length in the header at o; there is none in the middle of a packet.
LenAt(o) == IF o \in DOMAIN ring THEN ring[o] ELSE 0

NextOffsetUnaligned(o, len) == (o + len + 4) % RingSize
NextOffset(o, len) == Align(o + len + 4) % RingSize
CaprForSigned(o) == o - 16
CaprFor(o) == (o - 16) % Word

\* A length that cannot be ends the loop, with CAPR as it was.
ReadHeader ==
    LET o == ReadAt(capr)
    IN  /\ drv.pc = "header"
        /\ drv' = [drv EXCEPT !.cur = o, !.len = LenAt(o),
                              !.pc = IF LenAt(o) \in 1 .. MaxLen THEN "frame" ELSE "out"]
        /\ UNCHANGED <<boot, isr, ring, rx_addr, capr, handed, txVars>>

\* net_receive works on the frame where it lies in the ring.
NetReceive ==
    /\ drv.pc = "frame"
    /\ handed' = LenAt(drv.cur)
    /\ Goto("capr")
    /\ UNCHANGED <<boot, isr, ring, rx_addr, capr, txVars>>

\* The place of the packet is given back to the card.
WriteCapr ==
    /\ drv.pc = "capr"
    /\ capr' = CaprFor(NextOffset(drv.cur, drv.len))
    /\ ring' = [x \in DOMAIN ring \ {drv.cur} |-> ring[x]]
    /\ drv' = [drv EXCEPT !.pc = "test", !.cur = 0, !.len = 0]
    /\ UNCHANGED <<boot, isr, rx_addr, handed, txVars>>

Handler == Ack \/ Test \/ ReadHeader \/ NetReceive \/ WriteCapr

----------------------------------------------------------------------------
(* rtl8139_send and the transmitter *)

Send(f) ==
    /\ boot = "ready" /\ send.pc = "idle"
    /\ send' = [pc |-> "poll", frame |-> f]
    /\ UNCHANGED <<boot, isr, rxVars, own, tx_buf, tx_next, tx_cur, wire>>

Sent == send' = [pc |-> "idle", frame |-> Nothing]

\* Poll until the card has given the descriptor back, or 100000 times.
PollNothing ==
    /\ send.pc = "poll"
    /\ send' = [send EXCEPT !.pc = "copy"]
    /\ UNCHANGED <<boot, isr, rxVars, own, tx_buf, tx_next, tx_cur, wire>>
Poll ==
    /\ send.pc = "poll" /\ tx_next \in own
    /\ send' = [send EXCEPT !.pc = "copy"]
    /\ UNCHANGED <<boot, isr, rxVars, own, tx_buf, tx_next, tx_cur, wire>>

TimeOut ==
    /\ send.pc = "poll" /\ tx_next \notin own
    /\ Sent
    /\ UNCHANGED <<boot, isr, rxVars, own, tx_buf, tx_next, tx_cur, wire>>

Copy ==
    /\ send.pc = "copy"
    /\ tx_buf' = [tx_buf EXCEPT ![tx_next] = send.frame]
    /\ send' = [send EXCEPT !.pc = "fire"]
    /\ UNCHANGED <<boot, isr, rxVars, own, tx_next, tx_cur, wire>>

\* Writing the length clears OWN: the card has the descriptor.
Fire ==
    /\ send.pc = "fire"
    /\ own' = own \ {tx_next}
    /\ tx_next' = (tx_next + 1) % TxSlots
    /\ Sent
    /\ UNCHANGED <<boot, isr, rxVars, tx_buf, tx_cur, wire>>

\* The card sends the frames of the descriptors in turn.
Transmit ==
    /\ tx_cur \notin own
    /\ wire' = tx_buf[tx_cur]
    /\ own' = own \cup {tx_cur}
    /\ tx_buf' = [tx_buf EXCEPT ![tx_cur] = Nothing]
    /\ tx_cur' = (tx_cur + 1) % TxSlots
    /\ isr' = isr \cup {TOK}
    /\ UNCHANGED <<boot, rxVars, tx_next, send>>

----------------------------------------------------------------------------
Init ==
    /\ boot = "config"
    /\ isr = {}
    /\ ring = <<>>
    /\ rx_addr = 0
    /\ capr = (-16) % Word
    /\ drv = InitDriver
    /\ handed = Nothing
    /\ own = Slot
    /\ tx_buf = [i \in Slot |-> Nothing]
    /\ tx_next = 0 /\ tx_cur = 0
    /\ send = [pc |-> "idle", frame |-> Nothing]
    /\ wire = Nothing

Next ==
    \/ \E len \in Lens : Arrive(len)
    \/ Enable \/ SetCapr \/ Unmask
    \/ Interrupt \/ Handler
    \/ \E f \in Frame : Send(f)
    \/ Poll \/ TimeOut \/ Copy \/ Fire
    \/ Transmit

Spec == Init /\ [][Next]_vars

\* Interrupts are enabled again and again, and the CPU goes on with the code
\* it is in.  Nothing is asked of the card.
Fairness == WF_vars(SetCapr) /\ WF_vars(Unmask) /\ WF_vars(Interrupt) /\ WF_vars(Handler)
FairSpec == Spec /\ Fairness

----------------------------------------------------------------------------
TypeOK ==
    /\ boot \in {"config", "enabled", "masked", "ready"}
    /\ isr \subseteq {ROK, TOK}
    /\ DOMAIN ring \subseteq 0 .. RingSize - 1
    /\ \A o \in DOMAIN ring : o % 4 = 0 /\ ring[o] \in Lens
    /\ rx_addr \in 0 .. RingSize - 1 /\ rx_addr % 4 = 0
    /\ capr \in 0 .. Word - 1
    /\ drv.pc \in {"out", "ack", "test", "header", "frame", "capr"}
    /\ handed \in Lens \cup {Nothing}
    /\ own \subseteq Slot /\ tx_next \in Slot /\ tx_cur \in Slot
    /\ tx_buf \in [Slot -> Frame \cup {Nothing}]

\* The packets from where the driver reads to where the card writes, found the
\* way the driver finds them.
Stored ==
    LET at[n \in 0 .. RingSize] ==
            IF n = 0 THEN ReadAt(capr) ELSE Align(at[n-1] + LenAt(at[n-1]) + 4) % RingSize
        count == CHOOSE n \in 0 .. RingSize :
                    /\ at[n] = rx_addr \/ n = RingSize
                    /\ \A k \in 0 .. n - 1 : at[k] # rx_addr
    IN  [n \in 1 .. count |-> LenAt(at[n-1])]

\* Every packet the card stores is given to net_receive once, in the order of
\* arrival and as it arrived: the card does not write over a packet net_receive
\* still works on, and the driver finds the next one behind it, also where the
\* ring and the registers wrap around.
Received == INSTANCE PacketQueue
    WITH Packet <- Lens, handed <- handed,
         queue <- IF drv.pc = "capr" THEN Tail(Stored) ELSE Stored
ImplementsRx == Received!Spec

\* Frames leave the card once each, in the order of the calls and unchanged,
\* also when the driver comes round to a descriptor that is still in use.
Busy == [n \in 1 .. Cardinality(Slot \ own) |-> tx_buf[(tx_cur + n - 1) % TxSlots]]
Transmitted == INSTANCE PacketQueue WITH Packet <- Frame, handed <- wire, queue <- Busy
ImplementsTx == Transmitted!Spec

\* No interrupt is lost: as long as packets are stored, net_receive is given one
\* sooner or later, even those that came during rtl8139_init or between the
\* driver's last look at the ring and the end of its handler.
PacketsGetHandled ==
    boot = "ready" /\ ~Empty /\ drv.pc # "capr" ~> drv.pc = "capr"
=============================================================================
