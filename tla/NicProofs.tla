------------------------------ MODULE NicProofs ------------------------------
(***************************************************************************)
(* Proofs about module Nic, for any size of the receive ring that fits the  *)
(* 16 bit registers, any lengths of packets and any number of transmit      *)
(* descriptors.                                                             *)
(***************************************************************************)
EXTENDS Nic, NatFacts, SequenceTheorems

----------------------------------------------------------------------------
(* Sending *)

\* The descriptor k places behind c.
TxSlot(c, k) == (c + k) % TxSlots

\* From c on, b descriptors in turn belong to the card, nx is the one behind them,
\* and all others belong to the driver.
Window(c, b, nx, mine) ==
    /\ Slot \ mine = {TxSlot(c, k) : k \in 0 .. b - 1}
    /\ nx = TxSlot(c, b)

\* The driver fills a descriptor only while it has it, and the one it hands over
\* holds the frame of the call.
TxInv ==
    /\ own \subseteq Slot /\ tx_next \in Slot /\ tx_cur \in Slot
    /\ tx_buf \in [Slot -> Frame \cup {Nothing}]
    /\ send \in [pc : {"idle", "poll", "copy", "fire"}, frame : Frame \cup {Nothing}]
    /\ \E b \in 0 .. TxSlots : Window(tx_cur, b, tx_next, own)
    /\ send.pc # "idle" => send.frame \in Frame
    /\ send.pc \in {"copy", "fire"} => tx_next \in own
    /\ send.pc = "fire" => tx_buf[tx_next] = send.frame

LEMMA TxSlotIs ==
    ASSUME NEW c \in Slot, NEW k \in 0 .. TxSlots
    PROVE  /\ TxSlot(c, k) = IF c + k < TxSlots THEN c + k ELSE c + k - TxSlots
           /\ TxSlot(c, k) \in Slot
<1> DEFINE a == c + k
<1>1. TxSlots \in Nat \ {0} /\ a \in 0 .. 2 * TxSlots - 1
  BY NicAssumption DEF Slot
<1>2. a % TxSlots = IF a < TxSlots THEN a ELSE a - TxSlots
  BY <1>1, Remainder
<1> QED
  BY <1>1, <1>2 DEF TxSlot, Slot

LEMMA TxSlotsDiffer ==
    ASSUME NEW c \in Slot, NEW j \in 0 .. TxSlots - 1, NEW k \in 0 .. TxSlots - 1,
           TxSlot(c, j) = TxSlot(c, k)
    PROVE  j = k
<1> DEFINE y == TxSlot(c, j)
<1>1. TxSlots \in Nat \ {0} /\ j \in 0 .. TxSlots /\ k \in 0 .. TxSlots
  BY NicAssumption
<1>2. y = IF c + j < TxSlots THEN c + j ELSE c + j - TxSlots
  BY <1>1, TxSlotIs
<1>3. y = IF c + k < TxSlots THEN c + k ELSE c + k - TxSlots
  BY <1>1, TxSlotIs
<1>4. /\ j \in Int /\ j < TxSlots /\ 0 <= j /\ k \in Int /\ k < TxSlots /\ 0 <= k
      /\ TxSlots \in Int /\ c \in Int
  BY <1>1 DEF Slot
<1> HIDE DEF y
<1> QED
  BY <1>2, <1>3, <1>4

\* One place further from c is where c's successor stands.
LEMMA TxSlotShifts ==
    ASSUME NEW c \in Slot, NEW k \in 0 .. TxSlots - 1
    PROVE  TxSlot(c, k + 1) = TxSlot(TxSlot(c, 1), k) /\ TxSlot(TxSlot(c, k), 1) = TxSlot(c, k + 1)
<1> DEFINE d == TxSlot(c, 1)
           e == TxSlot(c, k)
<1>1. TxSlots \in Nat \ {0} /\ k \in 0 .. TxSlots /\ k + 1 \in 0 .. TxSlots /\ 1 \in 0 .. TxSlots
  BY NicAssumption
<1>2. d = (IF c + 1 < TxSlots THEN c + 1 ELSE c + 1 - TxSlots) /\ d \in Slot
  BY <1>1, TxSlotIs
<1>3. e = (IF c + k < TxSlots THEN c + k ELSE c + k - TxSlots) /\ e \in Slot
  BY <1>1, TxSlotIs
<1> HIDE DEF d, e
<1>4. TxSlot(d, k) = IF d + k < TxSlots THEN d + k ELSE d + k - TxSlots
  BY <1>1, <1>2, TxSlotIs
<1>5. TxSlot(e, 1) = IF e + 1 < TxSlots THEN e + 1 ELSE e + 1 - TxSlots
  BY <1>1, <1>3, TxSlotIs
<1>6. TxSlot(c, k + 1) = IF c + (k + 1) < TxSlots THEN c + (k + 1) ELSE c + (k + 1) - TxSlots
  BY <1>1, TxSlotIs
<1>7. TxSlots \in Nat /\ k \in Nat /\ k < TxSlots /\ c \in Nat /\ c < TxSlots
  BY <1>1 DEF Slot
<1> QED
  BY <1>2, <1>3, <1>4, <1>5, <1>6, <1>7 DEF d, e

\* What the window says of the next descriptors to fill and to send.
LEMMA WindowIs ==
    ASSUME NEW c \in Slot, NEW b \in 0 .. TxSlots, NEW nx, NEW mine,
           Window(c, b, nx, mine)
    PROVE  /\ Cardinality(Slot \ mine) = b
           /\ nx \in mine => b < TxSlots
           /\ c \notin mine => b > 0
<1>0. TxSlots \in Nat \ {0}
  BY NicAssumption
<1>1. Cardinality(Slot \ mine) = b
  <2> DEFINE D == 0 .. b - 1
             f == [k \in D |-> TxSlot(c, k)]
  <2>1. IsFiniteSet(D) /\ Cardinality(D) = b
    <3>1. 0 \in Int /\ b - 1 \in Int
      BY <1>0
    <3>2. IsFiniteSet(D) /\ Cardinality(D) = IF 0 > b - 1 THEN 0 ELSE b - 1 - 0 + 1
      BY <3>1, FS_Interval
    <3> QED
      BY <1>0, <3>2
  <2>2. f \in Bijection(D, Slot \ mine)
    <3>1. \A j, k \in D : f[j] = f[k] => j = k
      <4> SUFFICES ASSUME NEW j \in D, NEW k \in D, TxSlot(c, j) = TxSlot(c, k) PROVE j = k
        OBVIOUS
      <4>1. j \in 0 .. TxSlots - 1 /\ k \in 0 .. TxSlots - 1
        BY <1>0
      <4> QED
        BY <4>1, TxSlotsDiffer
    <3>2. f \in [D -> Slot \ mine] /\ \A x \in Slot \ mine : \E k \in D : f[k] = x
      BY DEF Window
    <3> QED
      BY <3>1, <3>2 DEF Bijection, Injection, Surjection, IsInjective
  <2> QED
    BY <2>1, <2>2, FS_Bijection DEF ExistsBijection
<1>2. ASSUME nx \in mine, b = TxSlots
      PROVE  FALSE
  <2>1. 0 \in 0 .. b - 1 /\ TxSlot(c, 0) \in Slot \ mine
    BY <1>0, <1>2 DEF Window
  <2>2. TxSlot(c, 0) = c /\ TxSlot(c, b) = c
    BY <1>0, <1>2, TxSlotIs DEF Slot
  <2> QED
    BY <1>2, <2>1, <2>2 DEF Window
<1>3. ASSUME c \notin mine, b = 0
      PROVE  FALSE
  <2>1. Slot \ mine = {}
    BY <1>3 DEF Window
  <2> QED
    BY <1>3, <2>1
<1> QED
  BY <1>0, <1>1, <1>2, <1>3

\* The card gets one more descriptor.
LEMMA WindowGrows ==
    ASSUME NEW c \in Slot, NEW b \in 0 .. TxSlots - 1, NEW nx, NEW mine,
           Window(c, b, nx, mine)
    PROVE  Window(c, b + 1, TxSlot(nx, 1), mine \ {nx})
<1>1. b \in Nat /\ b < TxSlots /\ TxSlots \in Nat \ {0}
  BY NicAssumption
<1>2. nx = TxSlot(c, b) /\ nx \in Slot /\ TxSlot(nx, 1) = TxSlot(c, b + 1)
  BY <1>1, TxSlotIs, TxSlotShifts DEF Window
<1>3. Slot \ (mine \ {nx}) = (Slot \ mine) \cup {nx}
  BY <1>2
<1>4. 0 .. (b + 1) - 1 = (0 .. b - 1) \cup {b}
  BY <1>1
<1> QED
  BY <1>2, <1>3, <1>4 DEF Window

\* The card gives the first descriptor back.
LEMMA WindowShrinks ==
    ASSUME NEW c \in Slot, NEW b \in 1 .. TxSlots, NEW nx, NEW mine,
           Window(c, b, nx, mine)
    PROVE  Window(TxSlot(c, 1), b - 1, nx, mine \cup {c})
<1>1. b \in Nat /\ 1 <= b /\ b <= TxSlots /\ TxSlots \in Nat \ {0}
  BY NicAssumption
<1>2. TxSlot(c, 0) = c
  BY <1>1, TxSlotIs DEF Slot
<1>3. \A k \in 0 .. (b - 1) - 1 : k + 1 \in 0 .. b - 1 /\ k \in 0 .. TxSlots - 1
                                  /\ TxSlot(TxSlot(c, 1), k) = TxSlot(c, k + 1)
  BY <1>1, TxSlotShifts
<1>4. TxSlot(TxSlot(c, 1), b - 1) = TxSlot(c, b)
  BY <1>1, TxSlotShifts
<1>5. ASSUME NEW x \in Slot
      PROVE  x \notin mine \cup {c} <=> \E k \in 0 .. (b - 1) - 1 : x = TxSlot(TxSlot(c, 1), k)
  <2>1. x \notin mine <=> \E k \in 0 .. b - 1 : x = TxSlot(c, k)
    BY DEF Window
  <2>2. ASSUME x \notin mine, x # c
        PROVE  \E k \in 0 .. (b - 1) - 1 : x = TxSlot(TxSlot(c, 1), k)
    <3>1. PICK k \in 0 .. b - 1 : x = TxSlot(c, k)
      BY <2>1, <2>2
    <3>2. k # 0
      BY <1>2, <2>2, <3>1
    <3>3. k - 1 \in 0 .. (b - 1) - 1 /\ (k - 1) + 1 = k
      BY <1>1, <3>2
    <3> QED
      BY <1>3, <3>1, <3>3
  <2>3. ASSUME NEW k \in 0 .. (b - 1) - 1, x = TxSlot(TxSlot(c, 1), k)
        PROVE  x \notin mine /\ x # c
    <3>1. x = TxSlot(c, k + 1) /\ k + 1 \in 0 .. b - 1 /\ k + 1 # 0
      BY <1>1, <1>3, <2>3
    <3>2. x # TxSlot(c, 0)
      <4>1. k + 1 \in 0 .. TxSlots - 1 /\ 0 \in 0 .. TxSlots - 1
        BY <1>1
      <4> QED
        BY <3>1, <4>1, TxSlotsDiffer
    <3> QED
      BY <1>2, <2>1, <3>1, <3>2
  <2> QED
    BY <2>2, <2>3
<1>6. \A k \in 0 .. (b - 1) - 1 : TxSlot(TxSlot(c, 1), k) \in Slot
  <2> SUFFICES ASSUME NEW k \in 0 .. (b - 1) - 1 PROVE TxSlot(c, k + 1) \in Slot
    BY <1>3
  <2>1. k + 1 \in 0 .. TxSlots
    BY <1>1
  <2> QED
    BY <2>1, TxSlotIs
<1>7. Slot \ (mine \cup {c}) = {TxSlot(TxSlot(c, 1), k) : k \in 0 .. (b - 1) - 1}
  BY <1>5, <1>6
<1> QED
  BY <1>4, <1>7 DEF Window

\* The frames in the b buffers from descriptor c on.
Frames(c, b, buf) == [n \in 1 .. b |-> buf[TxSlot(c, n - 1)]]

\* Busy, of any state.
BusyOf(c, mine, buf) == [n \in 1 .. Cardinality(Slot \ mine) |-> buf[(c + n - 1) % TxSlots]]

LEMMA FramesAre ==
    ASSUME NEW c \in Slot, NEW mine, NEW b \in 0 .. TxSlots, Cardinality(Slot \ mine) = b, NEW buf
    PROVE  BusyOf(c, mine, buf) = Frames(c, b, buf)
<1>1. \A n \in 1 .. b : c + n - 1 = c + (n - 1)
  BY DEF Slot
<1> QED
  BY <1>1 DEF BusyOf, Frames, TxSlot

\* A step of the driver or of the card leaves the transmitter alone, or is one of
\* those of rtl8139_send and the transmitter.
TxStep ==
    \/ UNCHANGED txVars
    \/ \E f \in Frame : Send(f)
    \/ Poll \/ TimeOut \/ Copy \/ Fire \/ Transmit

LEMMA TxSteps == [Next]_vars => TxStep
BY DEF Next, vars, TxStep, Handler, Arrive, Enable, SetCapr, Unmask, Interrupt, Ack, Test,
       ReadHeader, NetReceive, WriteCapr

LEMMA TxInitially == Init => TxInv
<1> SUFFICES ASSUME Init PROVE TxInv
  OBVIOUS
<1>1. TxSlots \in Nat \ {0} /\ 0 \in Slot
  BY NicAssumption DEF Slot
<1>2. Slot \ own = {} /\ TxSlot(0, 0) = 0
  BY <1>1, TxSlotIs DEF Init, Slot
<1>3. Window(tx_cur, 0, tx_next, own)
  BY <1>2 DEF Init, Window
<1> QED
  BY <1>1, <1>3 DEF Init, TxInv

LEMMA FireKeeps == TxInv /\ Fire => TxInv'
<1> SUFFICES ASSUME TxInv, Fire PROVE TxInv'
  OBVIOUS
<1>1. PICK b \in 0 .. TxSlots : Window(tx_cur, b, tx_next, own)
  BY DEF TxInv
<1>0. own \in SUBSET Slot /\ tx_cur \in Slot /\ tx_next \in own /\ TxSlots \in Nat \ {0}
  BY NicAssumption DEF TxInv, Fire
<1>2. b \in 0 .. TxSlots - 1 /\ b + 1 \in 0 .. TxSlots
  <2>1. tx_next \in own => b < TxSlots
    BY <1>0, <1>1, WindowIs, Zenon
  <2> QED
    BY <1>0, <2>1
<1>3. tx_next' = TxSlot(tx_next, 1) /\ tx_next' \in Slot
  BY NicAssumption, TxSlotIs DEF TxInv, Fire, TxSlot
<1>4. Window(tx_cur, b + 1, tx_next', own')
  BY <1>1, <1>2, <1>3, WindowGrows DEF TxInv, Fire
<1>5. send' = [pc |-> "idle", frame |-> Nothing]
  BY DEF Fire, Sent
<1> QED
  BY <1>2, <1>3, <1>4, <1>5 DEF TxInv, Fire

LEMMA TransmitKeeps == TxInv /\ Transmit => TxInv'
<1> SUFFICES ASSUME TxInv, Transmit PROVE TxInv'
  OBVIOUS
<1>1. PICK b \in 0 .. TxSlots : Window(tx_cur, b, tx_next, own)
  BY DEF TxInv
<1>0. own \in SUBSET Slot /\ tx_cur \in Slot /\ tx_cur \notin own /\ TxSlots \in Nat \ {0}
  BY NicAssumption DEF TxInv, Transmit
<1>2. b \in 1 .. TxSlots /\ b - 1 \in 0 .. TxSlots
  <2>1. tx_cur \notin own => b > 0
    BY <1>0, <1>1, WindowIs, Zenon
  <2> QED
    BY <1>0, <2>1
<1>3. tx_cur' = TxSlot(tx_cur, 1) /\ tx_cur' \in Slot
  BY NicAssumption, TxSlotIs DEF TxInv, Transmit, TxSlot
<1>4. Window(tx_cur', b - 1, tx_next, own')
  BY <1>1, <1>2, <1>3, WindowShrinks DEF TxInv, Transmit
<1>5. tx_next \in own => tx_buf'[tx_next] = tx_buf[tx_next]
  BY DEF TxInv, Transmit
<1>6. tx_buf' \in [Slot -> Frame \cup {Nothing}]
  BY DEF TxInv, Transmit
<1> QED
  BY <1>2, <1>3, <1>4, <1>5, <1>6 DEF TxInv, Transmit

LEMMA TxPreserved == TxInv /\ [Next]_vars => TxInv'
<1> SUFFICES ASSUME TxInv, TxStep PROVE TxInv'
  BY TxSteps
<1>1. CASE UNCHANGED txVars
  BY <1>1 DEF TxInv, txVars
<1>2. CASE \E f \in Frame : Send(f)
  BY <1>2 DEF TxInv, Send
<1>3. CASE Poll
  BY <1>3 DEF TxInv, Poll
<1>4. CASE TimeOut
  BY <1>4 DEF TxInv, TimeOut, Sent
<1>5. CASE Copy
  BY <1>5 DEF TxInv, Copy
<1>6. CASE Fire
  BY <1>6, FireKeeps
<1>7. CASE Transmit
  BY <1>7, TransmitKeeps
<1> QED
  BY <1>1, <1>2, <1>3, <1>4, <1>5, <1>6, <1>7 DEF TxStep

\* The state of the transmitter, as Transmitted sees it.
LEMMA TxPut ==
    ASSUME TxInv, Fire
    PROVE  Transmitted!Put(send.frame) /\ send.frame \in Frame
<1>0. own \in SUBSET Slot /\ tx_cur \in Slot /\ tx_next \in own /\ TxSlots \in Nat \ {0}
  BY NicAssumption DEF TxInv, Fire
<1>1. PICK b \in 0 .. TxSlots : Window(tx_cur, b, tx_next, own)
  BY DEF TxInv
<1>2. b \in 0 .. TxSlots - 1 /\ b + 1 \in 0 .. TxSlots /\ b \in Nat
  <2>1. tx_next \in own => b < TxSlots
    BY <1>0, <1>1, WindowIs, Zenon
  <2> QED
    BY <1>0, <2>1
<1>3. Window(tx_cur, b + 1, TxSlot(tx_next, 1), own')
  BY <1>0, <1>1, <1>2, WindowGrows DEF Fire
<1>4. Busy = Frames(tx_cur, b, tx_buf)
  <2>1. BusyOf(tx_cur, own, tx_buf) = Frames(tx_cur, b, tx_buf)
    <3>1. Cardinality(Slot \ own) = b
      BY <1>0, <1>1, WindowIs, Zenon
    <3> QED
      BY <1>0, <3>1, FramesAre
  <2> QED
    BY <2>1 DEF Busy, BusyOf
<1>5. Busy' = Frames(tx_cur, b + 1, tx_buf)
  <2>1. own' \in SUBSET Slot
    BY <1>0 DEF Fire
  <2>2. BusyOf(tx_cur, own', tx_buf) = Frames(tx_cur, b + 1, tx_buf)
    <3>1. Cardinality(Slot \ own') = b + 1
      BY <1>0, <1>2, <1>3, WindowIs, Zenon
    <3> QED
      BY <1>0, <1>2, <3>1, FramesAre
  <2> QED
    BY <2>2 DEF Busy, BusyOf, Fire
<1>6. tx_buf[TxSlot(tx_cur, b)] = send.frame
  BY <1>1 DEF TxInv, Fire, Window
<1>7. Busy' = Append(Busy, send.frame)
  <2> DEFINE buffer(n) == tx_buf[TxSlot(tx_cur, n - 1)]
  <2>1. Busy = [n \in 1 .. b |-> buffer(n)] /\ Busy' = [n \in 1 .. b + 1 |-> buffer(n)]
    BY <1>4, <1>5 DEF Frames
  <2>2. buffer(b + 1) = send.frame
    BY <1>2, <1>6
  <2> HIDE DEF buffer
  <2> QED
    BY <1>2, <2>1, <2>2
<1> QED
  BY <1>7 DEF Transmitted!Put, Fire, TxInv

LEMMA TxHandOn ==
    ASSUME TxInv, Transmit
    PROVE  Transmitted!HandOn
<1> DEFINE c == TxSlot(tx_cur, 1)
<1>0. own \in SUBSET Slot /\ tx_cur \in Slot /\ tx_cur \notin own /\ TxSlots \in Nat \ {0}
  BY NicAssumption DEF TxInv, Transmit
<1>1. PICK b \in 0 .. TxSlots : Window(tx_cur, b, tx_next, own)
  BY DEF TxInv
<1>2. b \in 1 .. TxSlots /\ b - 1 \in 0 .. TxSlots /\ b \in Nat
  <2>1. tx_cur \notin own => b > 0
    BY <1>0, <1>1, WindowIs, Zenon
  <2> QED
    BY <1>0, <2>1
<1>3. Window(c, b - 1, tx_next, own')
  BY <1>0, <1>1, <1>2, WindowShrinks DEF Transmit
<1>4. Busy = Frames(tx_cur, b, tx_buf)
  <2>1. BusyOf(tx_cur, own, tx_buf) = Frames(tx_cur, b, tx_buf)
    <3>1. Cardinality(Slot \ own) = b
      BY <1>0, <1>1, WindowIs, Zenon
    <3> QED
      BY <1>0, <3>1, FramesAre
  <2> QED
    BY <2>1 DEF Busy, BusyOf
<1>5. Busy' = Frames(c, b - 1, tx_buf')
  <2>1. own' \in SUBSET Slot /\ 1 \in 0 .. TxSlots
    BY <1>0 DEF Transmit
  <2>2. c \in Slot
    BY <1>0, <2>1, TxSlotIs
  <2> HIDE DEF c
  <2>3. BusyOf(c, own', tx_buf') = Frames(c, b - 1, tx_buf')
    <3>1. Cardinality(Slot \ own') = b - 1
      BY <1>2, <1>3, <2>2, WindowIs, Zenon
    <3> QED
      BY <1>2, <2>2, <3>1, FramesAre
  <2>4. tx_cur' = c
    BY DEF Transmit, TxSlot, c
  <2> QED
    BY <2>3, <2>4 DEF Busy, BusyOf
<1>6. TxSlot(tx_cur, 0) = tx_cur
  BY <1>0, TxSlotIs DEF Slot
<1>7. ASSUME NEW n \in 1 .. b - 1
      PROVE  tx_buf'[TxSlot(c, n - 1)] = tx_buf[TxSlot(tx_cur, (n + 1) - 1)]
  <2>1. n \in 0 .. TxSlots - 1 /\ n \in 0 .. TxSlots /\ n - 1 \in 0 .. TxSlots - 1
        /\ (n - 1) + 1 = n /\ n # 0 /\ 0 \in 0 .. TxSlots - 1 /\ (n + 1) - 1 = n
    BY <1>0, <1>2
  <2>2. TxSlot(c, n - 1) = TxSlot(tx_cur, n)
    BY <1>0, <2>1, TxSlotShifts
  <2>3. TxSlot(tx_cur, n) # tx_cur /\ TxSlot(tx_cur, n) \in Slot
    BY <1>0, <1>6, <2>1, TxSlotsDiffer, TxSlotIs
  <2>4. tx_buf'[TxSlot(tx_cur, n)] = tx_buf[TxSlot(tx_cur, n)]
    BY <2>3 DEF TxInv, Transmit
  <2> QED
    BY <2>1, <2>2, <2>4
<1> DEFINE buffer(n) == tx_buf[TxSlot(tx_cur, n - 1)]
<1>8. Busy = [n \in 1 .. b |-> buffer(n)] /\ Busy' = [n \in 1 .. b - 1 |-> buffer(n + 1)]
  BY <1>4, <1>5, <1>7 DEF Frames
<1>9. buffer(1) = wire'
  BY <1>6 DEF Transmit
<1> HIDE DEF buffer
<1>10. Busy # <<>> /\ Busy' = Tail(Busy) /\ wire' = Head(Busy)
  <2>1. Len(Busy) = b
    BY <1>2, <1>8
  <2> QED
    BY <1>2, <1>8, <1>9, <2>1
<1> QED
  BY <1>10 DEF Transmitted!HandOn

LEMMA TxStutters ==
    ASSUME TxInv, UNCHANGED <<own, tx_cur, wire>>,
           \/ UNCHANGED tx_buf
           \/ tx_next \in own /\ tx_buf' = [tx_buf EXCEPT ![tx_next] = send.frame]
    PROVE  UNCHANGED <<Busy, wire>>
<1>1. CASE UNCHANGED tx_buf
  BY <1>1 DEF Busy
<1>2. CASE tx_next \in own /\ tx_buf' = [tx_buf EXCEPT ![tx_next] = send.frame]
  <2>0. own \in SUBSET Slot /\ tx_cur \in Slot
    BY DEF TxInv
  <2>1. PICK b \in 0 .. TxSlots : Window(tx_cur, b, tx_next, own)
    BY DEF TxInv
  <2>2. \A buf : BusyOf(tx_cur, own, buf) = Frames(tx_cur, b, buf)
    <3>1. Cardinality(Slot \ own) = b
      BY <2>0, <2>1, WindowIs, Zenon
    <3> QED
      BY <2>0, <3>1, FramesAre
  <2>3. Busy = Frames(tx_cur, b, tx_buf)
    BY <2>2 DEF Busy, BusyOf
  <2>4. Busy' = Frames(tx_cur, b, tx_buf')
    BY <2>2 DEF Busy, BusyOf
  <2>5. \A n \in 1 .. b : TxSlot(tx_cur, n - 1) \in Slot \ own
    <3> SUFFICES ASSUME NEW n \in 1 .. b PROVE TxSlot(tx_cur, n - 1) \in Slot \ own
      OBVIOUS
    <3>1. n - 1 \in 0 .. b - 1
      BY NicAssumption
    <3> QED
      BY <2>1, <3>1 DEF Window
  <2>6. \A x \in Slot \ own : tx_buf'[x] = tx_buf[x]
    BY <1>2 DEF TxInv
  <2>7. Frames(tx_cur, b, tx_buf') = Frames(tx_cur, b, tx_buf)
    BY <2>5, <2>6 DEF Frames
  <2> QED
    BY <2>3, <2>4, <2>7
<1> QED
  BY <1>1, <1>2

\* Every frame that rtl8139_send gives to the card leaves it once, in the order of
\* the calls and as the caller gave it, for any number of descriptors and however
\* often the four of the driver have been used round.
THEOREM FramesLeaveInOrder == Spec => ImplementsTx
<1>1. Init => Transmitted!Init
  <2> SUFFICES ASSUME Init PROVE Busy = <<>> /\ wire = Nothing
    BY DEF Transmitted!Init
  <2>1. Slot \ own = {}
    BY DEF Init
  <2>2. Cardinality(Slot \ own) = 0
    BY <2>1, FS_EmptySet
  <2>3. Busy = [n \in 1 .. 0 |-> tx_buf[(tx_cur + n - 1) % TxSlots]]
    BY <2>2 DEF Busy, BusyOf
  <2>4. \A f : [n \in 1 .. 0 |-> f[n]] = <<>>
    OBVIOUS
  <2> QED
    BY <2>3, <2>4 DEF Init
<1>2. ASSUME TxInv, [Next]_vars
      PROVE  [Transmitted!Next]_<<Busy, wire>>
  <2>1. CASE UNCHANGED txVars
    BY <1>2, <2>1, TxStutters DEF txVars
  <2>2. CASE (\E f \in Frame : Send(f)) \/ Poll \/ TimeOut
    BY <1>2, <2>2, TxStutters DEF Send, Poll, TimeOut
  <2>3. CASE Copy
    <3>1. tx_next \in own
      BY <1>2, <2>3 DEF TxInv, Copy
    <3> QED
      BY <1>2, <2>3, <3>1, TxStutters DEF Copy
  <2>4. CASE Fire
    BY <1>2, <2>4, TxPut DEF Transmitted!Next
  <2>5. CASE Transmit
    BY <1>2, <2>5, TxHandOn DEF Transmitted!Next
  <2> QED
    BY <1>2, <2>1, <2>2, <2>3, <2>4, <2>5, TxSteps DEF TxStep
<1> QED
  BY <1>1, <1>2, TxInitially, TxPreserved, PTL DEF Spec, ImplementsTx, Transmitted!Spec, Transmitted!vars

----------------------------------------------------------------------------
(* Receiving: offsets in the ring *)

\* The offset x bytes behind r.
At(r, x) == (r + x) % RingSize
Offset == 0 .. RingSize - 1

\* A remainder is found by any quotient.
LEMMA RemainderOf ==
    ASSUME NEW n \in Nat \ {0}, NEW t \in Int, NEW o \in 0 .. n - 1
    PROVE  (n * t + o) % n = o
<1> DEFINE a == n * t + o
           q == a \div n
           m == a % n
           s == t - q
<1>1. a \in Int /\ n * t \in Int
  OBVIOUS
<1>2. q \in Int /\ m \in 0 .. n - 1 /\ a = n * q + m
  <2> HIDE DEF a
  <2> QED
    BY <1>1
<1>3. n * t = n * q + n * s
  <2> HIDE DEF a, m
  <2>1. q \in Int
    BY <1>2
  <2> HIDE DEF q
  <2> QED
    BY <2>1
<1>4. s \in Int /\ n * s \in Int /\ n * q \in Int
  BY <1>2
<1> HIDE DEF q, m, s
<1>5. n * s + o = m
  BY <1>1, <1>2, <1>3, <1>4
<1> HIDE DEF a
<1>6. s = 0
  <2>1. CASE 1 <= s
    <3>1. n * 1 <= n * s
      BY <1>4, <2>1, Products
    <3> QED
      BY <1>2, <1>4, <1>5, <3>1
  <2>2. CASE s <= -1
    <3>1. n * s <= n * (-1) /\ n * (-1) = -n
      BY <1>4, <2>2, Products
    <3> QED
      BY <1>2, <1>4, <1>5, <3>1
  <2> QED
    BY <1>4, <2>1, <2>2
<1>7. m = o
  BY <1>5, <1>6
<1> QED
  BY <1>7 DEF a, m

LEMMA AlignIs ==
    ASSUME NEW a \in Nat
    PROVE  /\ Align(a) \in Nat /\ a <= Align(a) /\ Align(a) <= a + 3 /\ Align(a) % 4 = 0
           /\ \A o \in Nat : o % 4 = 0 => Align(o + a) = o + Align(a)
BY DEF Align

LEMMA RoomIs ==
    ASSUME NEW len \in Lens
    PROVE  /\ len \in Nat /\ Room(len) \in Nat /\ Room(len) % 4 = 0
           /\ len + 4 <= Room(len) /\ Room(len) < RingSize
<1>1. len \in Nat /\ len + 8 <= RingSize /\ RingSize \in Nat
  BY NicAssumption
<1> QED
  BY <1>1, AlignIs DEF Room

LEMMA AtIs ==
    ASSUME NEW r \in Offset, NEW x \in 0 .. RingSize
    PROVE  At(r, x) = (IF r + x < RingSize THEN r + x ELSE r + x - RingSize) /\ At(r, x) \in Offset
<1> DEFINE a == r + x
<1>1. RingSize \in Nat \ {0} /\ a \in 0 .. 2 * RingSize - 1
  BY NicAssumption DEF Offset
<1>2. a % RingSize = IF a < RingSize THEN a ELSE a - RingSize
  BY <1>1, Remainder
<1> QED
  BY <1>1, <1>2 DEF At, Offset

\* d bytes on from there.
LEMMA AtAdd ==
    ASSUME NEW r \in Offset, NEW x \in Offset, NEW d \in Nat, x + d < RingSize
    PROVE  At(At(r, x), d) = At(r, x + d)
<1> DEFINE y == At(r, x)
<1>0. RingSize \in Nat \ {0} /\ x \in 0 .. RingSize /\ d \in 0 .. RingSize /\ x + d \in 0 .. RingSize
      /\ r \in Nat /\ r < RingSize /\ x \in Nat
  BY NicAssumption DEF Offset
<1>1. y = (IF r + x < RingSize THEN r + x ELSE r + x - RingSize) /\ y \in Offset
  BY <1>0, AtIs
<1> HIDE DEF y
<1>2. At(y, d) = (IF y + d < RingSize THEN y + d ELSE y + d - RingSize)
  BY <1>0, <1>1, AtIs
<1>3. At(r, x + d) = (IF r + (x + d) < RingSize THEN r + (x + d) ELSE r + (x + d) - RingSize)
  BY <1>0, AtIs
<1> QED
  BY <1>0, <1>1, <1>2, <1>3 DEF y

\* Padded to a multiple of 4, a packet ends where the next header belongs.
LEMMA AtAligned ==
    ASSUME NEW r \in Offset, NEW x \in 0 .. RingSize, r % 4 = 0, x % 4 = 0
    PROVE  At(r, x) % 4 = 0
<1>1. RingSize \in Nat /\ RingSize % 4 = 0 /\ r \in Nat /\ x \in Nat
  BY NicAssumption DEF Offset
<1>2. (r + x) % 4 = 0 /\ (r + x - RingSize) % 4 = 0
  BY <1>1
<1> QED
  BY <1>2, AtIs

\* The register stands 16 behind the driver and wraps around at a multiple of the
\* size of the ring.
LEMMA CaprIs ==
    ASSUME NEW o \in Offset
    PROVE  CaprFor(o) \in 0 .. Word - 1 /\ ReadAt(CaprFor(o)) = o
<1> DEFINE m == (o - 16) % Word
           k == (o - 16) \div Word
           q == Word \div RingSize
           t == q * (-k)
<1>1. RingSize \in Nat \ {0} /\ Word \in Nat \ {0} /\ Word % RingSize = 0 /\ o \in Int
  BY NicAssumption DEF Offset
<1>2. m \in 0 .. Word - 1 /\ k \in Int /\ o - 16 = Word * k + m
  <2> DEFINE a == o - 16
  <2>1. a \in Int
    BY <1>1
  <2> HIDE DEF a
  <2>2. a % Word \in 0 .. Word - 1 /\ a \div Word \in Int /\ a = Word * (a \div Word) + (a % Word)
    BY <1>1, <2>1
  <2> QED
    BY <2>2 DEF a
<1>3. q \in Nat /\ Word = RingSize * q
  BY <1>1, Division
<1> HIDE DEF m, k, q
<1>4. t \in Int /\ RingSize * t = -(Word * k)
  BY <1>1, <1>2, <1>3
<1>5. m + 16 = RingSize * t + o
  <2>1. Word * k \in Int
    BY <1>1, <1>2
  <2> HIDE DEF t
  <2> QED
    BY <1>1, <1>2, <1>4, <2>1
<1> HIDE DEF t
<1>6. (m + 16) % RingSize = o
  BY <1>1, <1>4, <1>5, RemainderOf DEF Offset
<1> QED
  BY <1>2, <1>6 DEF m, CaprFor, ReadAt

----------------------------------------------------------------------------
(* Receiving: the packets in the ring *)

RingOK(rg) == DOMAIN rg \subseteq Offset /\ \A o \in DOMAIN rg : o % 4 = 0 /\ rg[o] \in Lens

\* From r, where the driver reads, to w, where the card writes, there are n
\* packets in a row: the i-th begins c[i] bytes behind r, and together they are
\* shorter than the ring.
Layout(r, w, rg, n, c) ==
    /\ c \in [0 .. n -> Offset]
    /\ c[0] = 0 /\ At(r, c[n]) = w
    /\ \A i \in 0 .. n - 1 : At(r, c[i]) \in DOMAIN rg /\ c[i + 1] = c[i] + Room(rg[At(r, c[i])])
    /\ \A i, j \in 0 .. n : i <= j => c[j] - c[i] >= j - i

LEMMA LayoutFacts ==
    ASSUME NEW r \in Offset, NEW w, NEW rg, RingOK(rg), NEW n \in Nat, NEW c, Layout(r, w, rg, n, c)
    PROVE  /\ \A i \in 0 .. n : c[i] \in Offset /\ c[i] >= i
           /\ \A i, j \in 0 .. n : i < j => c[i] < c[j]
           /\ n < RingSize
           /\ n > 0 => At(r, c[0]) = r /\ r \in DOMAIN rg /\ r # w
           /\ n = 0 => r = w
<1>1. RingSize \in Nat \ {0} /\ 0 \in 0 .. RingSize /\ 0 \in 0 .. n /\ n \in 0 .. n
  BY NicAssumption
<1>2. \A i \in 0 .. n : c[i] \in Offset /\ c[i] \in Nat /\ c[i] < RingSize
  <2>1. \A i \in 0 .. n : c[i] \in Offset
    BY DEF Layout
  <2>2. \A x \in Offset : x \in Nat /\ x < RingSize
    BY <1>1 DEF Offset
  <2> QED
    BY <2>1, <2>2
<1>3. \A i \in 0 .. n : c[i] >= i
  <2> SUFFICES ASSUME NEW i \in 0 .. n PROVE c[i] >= i
    OBVIOUS
  <2>1. c[i] - c[0] >= i - 0 /\ c[0] = 0
    BY <1>1 DEF Layout
  <2> QED
    BY <1>2, <2>1
<1>4. \A i, j \in 0 .. n : i < j => c[i] < c[j]
  <2> SUFFICES ASSUME NEW i \in 0 .. n, NEW j \in 0 .. n, i < j PROVE c[i] < c[j]
    OBVIOUS
  <2>1. c[j] - c[i] >= j - i
    BY DEF Layout
  <2> QED
    BY <1>2, <2>1
<1>5. n < RingSize
  BY <1>1, <1>2, <1>3
<1>6. At(r, 0) = r
  BY <1>1, AtIs DEF Offset
<1>7. n = 0 => r = w
  BY <1>6 DEF Layout
<1>8. ASSUME n > 0
      PROVE  At(r, c[0]) = r /\ r \in DOMAIN rg /\ r # w
  <2>1. 0 \in 0 .. n - 1 /\ c[0] = 0
    BY <1>8 DEF Layout
  <2>2. At(r, c[0]) = r /\ r \in DOMAIN rg
    BY <1>6, <2>1 DEF Layout
  <2>3. c[n] \in 0 .. RingSize /\ c[n] > 0 /\ c[n] < RingSize
    BY <1>1, <1>2, <1>3, <1>8
  <2>4. w = (IF r + c[n] < RingSize THEN r + c[n] ELSE r + c[n] - RingSize)
    BY <2>3, AtIs DEF Layout
  <2>5. r \in Nat
    BY DEF Offset
  <2> QED
    BY <1>1, <2>2, <2>3, <2>4, <2>5
<1> QED
  BY <1>2, <1>3, <1>4, <1>5, <1>7, <1>8

\* A packet that fits leaves the ring shorter than full ...
LEMMA FitsIs ==
    ASSUME NEW r \in Offset, NEW w \in Offset, NEW rg, RingOK(rg), NEW n \in Nat, NEW c,
           Layout(r, w, rg, n, c), NEW len \in Lens,
           w = r \/ Room(len) < (RingSize + r - w) % RingSize
    PROVE  c[n] + Room(len) < RingSize
<1> DEFINE u == c[n]
           k == Room(len)
           room == (RingSize + r - w) % RingSize
<1>1. RingSize \in Nat \ {0} /\ r \in Nat /\ r < RingSize /\ w \in Nat /\ w < RingSize
  BY NicAssumption DEF Offset
<1>2. k \in Nat /\ k < RingSize
  BY RoomIs
<1>3. u \in Nat /\ u < RingSize /\ u \in 0 .. RingSize
  <2>1. n \in 0 .. n
    OBVIOUS
  <2>2. u \in Offset
    BY <2>1, LayoutFacts
  <2> QED
    BY <1>1, <2>2 DEF Offset
<1>4. w = (IF r + u < RingSize THEN r + u ELSE r + u - RingSize)
  BY <1>3, AtIs DEF Layout
<1>5. u > 0 => room = RingSize - u
  <2> SUFFICES ASSUME u > 0 PROVE room = RingSize - u
    OBVIOUS
  <2>1. RingSize + r - w \in 0 .. 2 * RingSize - 1
    BY <1>1
  <2> DEFINE a == RingSize + r - w
  <2> HIDE DEF a, u
  <2>2. a % RingSize = IF a < RingSize THEN a ELSE a - RingSize
    BY <1>1, <2>1, Remainder DEF a
  <2>3. a = RingSize - u \/ a = 2 * RingSize - u
    BY <1>1, <1>3, <1>4 DEF a
  <2> QED
    BY <1>1, <1>3, <2>2, <2>3 DEF a
<1>6. w = r => u = 0
  BY <1>1, <1>3, <1>4
<1>7. w = r \/ k < room
  OBVIOUS
<1> HIDE DEF u, k, room
<1>8. u + k < RingSize
  BY <1>1, <1>2, <1>3, <1>5, <1>6, <1>7
<1> QED
  BY <1>8 DEF u, k

\* ... and lies clear of every packet stored, also at the end of the ring.
LEMMA PacketsClear ==
    ASSUME NEW r \in Offset, NEW w \in Offset, NEW rg, RingOK(rg), NEW n \in Nat, NEW c,
           Layout(r, w, rg, n, c), NEW len \in Lens, c[n] + Room(len) < RingSize,
           NEW i \in 0 .. n - 1
    PROVE  LET x == At(r, c[i])
           IN  x # w /\ (x + Room(rg[x]) <= w \/ w + Room(len) <= x)
<1> DEFINE x == At(r, c[i])
           k == Room(len)
           l == Room(rg[x])
           a == c[i]
           b == c[n]
<1>1. RingSize \in Nat \ {0} /\ r \in Nat /\ r < RingSize /\ i \in 0 .. n /\ i + 1 \in 0 .. n
      /\ n \in 0 .. n /\ i < n /\ i + 1 <= n
  BY NicAssumption DEF Offset
<1>2. x \in DOMAIN rg /\ c[i + 1] = a + l
  BY DEF Layout
<1>3. l \in Nat /\ k \in Nat
  BY <1>2, RoomIs DEF RingOK
<1>4. a \in Offset /\ b \in Offset /\ a < b
  BY <1>1, LayoutFacts
<1>5. a \in Nat /\ a \in 0 .. RingSize /\ b \in Nat /\ b \in 0 .. RingSize
  BY <1>1, <1>4 DEF Offset
<1>6. a + l <= b
  <2>1. c[n] - c[i + 1] >= n - (i + 1)
    BY <1>1 DEF Layout
  <2>2. n - (i + 1) >= 0
    BY <1>1
  <2> QED
    BY <1>1, <1>2, <1>3, <1>5, <2>1, <2>2
<1>7. x = (IF r + a < RingSize THEN r + a ELSE r + a - RingSize)
  BY <1>5, AtIs
<1>8. w = (IF r + b < RingSize THEN r + b ELSE r + b - RingSize)
  BY <1>5, AtIs DEF Layout
<1>9. b + k < RingSize
  OBVIOUS
<1> HIDE DEF x, k, l, a, b
<1>10. x # w /\ (x + l <= w \/ w + k <= x)
  BY <1>1, <1>3, <1>4, <1>5, <1>6, <1>7, <1>8, <1>9
<1> QED
  BY <1>10 DEF x, k, l

LEMMA LayoutAdds ==
    ASSUME NEW r \in Offset, NEW w \in Offset, NEW rg, RingOK(rg), NEW n \in Nat, NEW c,
           Layout(r, w, rg, n, c), NEW len \in Lens, c[n] + Room(len) < RingSize,
           NEW rg2, w \in DOMAIN rg2, rg2[w] = len,
           \A i \in 0 .. n - 1 : At(r, c[i]) \in DOMAIN rg2 /\ rg2[At(r, c[i])] = rg[At(r, c[i])]
    PROVE  Layout(r, At(w, Room(len)), rg2, n + 1,
                  [i \in 0 .. n + 1 |-> IF i <= n THEN c[i] ELSE c[n] + Room(len)])
<1> DEFINE k == Room(len)
           d == [i \in 0 .. n + 1 |-> IF i <= n THEN c[i] ELSE c[n] + k]
<1>1. RingSize \in Nat \ {0} /\ k \in Nat /\ k > 0 /\ n \in 0 .. n
  BY NicAssumption, RoomIs
<1>2. \A i \in 0 .. n : c[i] \in Offset /\ c[i] \in Nat
  <2>1. \A i \in 0 .. n : c[i] \in Offset
    BY LayoutFacts
  <2> QED
    BY <1>1, <2>1 DEF Offset
<1>3. c[n] \in Offset /\ c[n] \in Nat /\ c[n] + k < RingSize
  BY <1>1, <1>2
<1> HIDE DEF k
<1>4. (\A i \in 0 .. n : d[i] = c[i]) /\ d[n + 1] = c[n] + k /\ d[0] = 0
  BY <1>1 DEF Layout
<1>5. d \in [0 .. n + 1 -> Offset]
  <2>1. c[n] + k \in Offset
    BY <1>1, <1>3 DEF Offset
  <2>2. \A i \in 0 .. n + 1 : (IF i <= n THEN c[i] ELSE c[n] + k) \in Offset
    BY <1>2, <2>1
  <2> QED
    BY <2>2
<1> HIDE DEF d
<1>6. At(r, d[n + 1]) = At(w, k)
  BY <1>1, <1>3, <1>4, AtAdd DEF Layout
<1>7. ASSUME NEW i \in 0 .. n
      PROVE  At(r, d[i]) \in DOMAIN rg2 /\ d[i + 1] = d[i] + Room(rg2[At(r, d[i])])
  <2>1. CASE i = n
    BY <1>1, <1>4, <2>1 DEF Layout, k
  <2>2. CASE i # n
    <3>1. i \in 0 .. n - 1 /\ i \in 0 .. n /\ i + 1 \in 0 .. n
      BY <2>2
    <3>2. At(r, c[i]) \in DOMAIN rg2 /\ c[i + 1] = c[i] + Room(rg2[At(r, c[i])])
      BY <3>1 DEF Layout
    <3> QED
      BY <1>4, <3>1, <3>2
  <2> QED
    BY <2>1, <2>2
<1>8. ASSUME NEW i \in 0 .. n + 1, NEW j \in 0 .. n + 1, i <= j
      PROVE  d[j] - d[i] >= j - i
  <2>1. CASE j <= n
    <3>1. i \in 0 .. n /\ j \in 0 .. n
      BY <1>8, <2>1
    <3>2. c[j] - c[i] >= j - i
      BY <1>8, <3>1 DEF Layout
    <3> QED
      BY <1>4, <3>1, <3>2
  <2>2. CASE i = n + 1 /\ j = n + 1
    <3>1. d[n + 1] \in Nat
      BY <1>1, <1>3, <1>4
    <3> QED
      BY <2>2, <3>1
  <2>3. CASE i <= n /\ j = n + 1
    <3>1. i \in 0 .. n
      BY <2>3
    <3>2. c[n] - c[i] >= n - i
      BY <1>1, <2>3, <3>1 DEF Layout
    <3>3. d[j] = c[n] + k /\ d[i] = c[i] /\ c[i] \in Nat
      BY <1>2, <1>4, <2>3, <3>1
    <3> QED
      BY <1>1, <1>3, <2>3, <3>1, <3>2, <3>3
  <2> QED
    BY <1>8, <2>1, <2>2, <2>3
<1>9. 0 .. (n + 1) - 1 = 0 .. n
  OBVIOUS
<1>10. Layout(r, At(w, k), rg2, n + 1, d)
  BY <1>4, <1>5, <1>6, <1>7, <1>8, <1>9 DEF Layout
<1> QED
  BY <1>10 DEF d, k

LEMMA LayoutDrops ==
    ASSUME NEW r \in Offset, NEW w, NEW rg, RingOK(rg), NEW n \in Nat, NEW c,
           Layout(r, w, rg, n, c), n > 0,
           NEW rg2, \A x \in DOMAIN rg \ {r} : x \in DOMAIN rg2 /\ rg2[x] = rg[x]
    PROVE  Layout(At(r, c[1]), w, rg2, n - 1, [i \in 0 .. n - 1 |-> c[i + 1] - c[1]])
<1> DEFINE d == [i \in 0 .. n - 1 |-> c[i + 1] - c[1]]
           r2 == At(r, c[1])
<1>1. RingSize \in Nat \ {0} /\ 0 \in 0 .. n /\ 1 \in 0 .. n /\ n \in 0 .. n
  BY NicAssumption
<1>2. \A i \in 0 .. n : c[i] \in Offset /\ c[i] \in Nat /\ c[i] < RingSize
  <2>1. \A i \in 0 .. n : c[i] \in Offset
    BY LayoutFacts
  <2> QED
    BY <1>1, <2>1 DEF Offset
<1>3. ASSUME NEW i \in 0 .. n - 1
      PROVE  /\ i + 1 \in 0 .. n /\ d[i] = c[i + 1] - c[1] /\ d[i] >= 0 /\ d[i] \in Offset /\ d[i] \in Nat
             /\ At(r2, d[i]) = At(r, c[i + 1])
  <2>1. i + 1 \in 0 .. n
    OBVIOUS
  <2>2. c[i + 1] - c[1] >= (i + 1) - 1
    BY <1>1, <2>1 DEF Layout
  <2>3. c[i + 1] \in Nat /\ c[i + 1] < RingSize /\ c[1] \in Nat /\ c[1] \in Offset
    BY <1>1, <1>2, <2>1
  <2>4. d[i] = c[i + 1] - c[1] /\ d[i] >= 0
    BY <2>2, <2>3
  <2> HIDE DEF d
  <2>5. d[i] \in Offset /\ d[i] \in Nat /\ c[1] + d[i] = c[i + 1]
    BY <1>1, <2>3, <2>4 DEF Offset
  <2>6. At(r2, d[i]) = At(r, c[i + 1])
    BY <2>3, <2>5, AtAdd
  <2> QED
    BY <2>1, <2>4, <2>5, <2>6
<1>4. d \in [0 .. n - 1 -> Offset]
  BY <1>3
<1>5. d[0] = 0
  BY <1>1, <1>2
<1> HIDE DEF d
<1>6. At(r2, d[n - 1]) = w
  <2>1. n - 1 \in 0 .. n - 1 /\ (n - 1) + 1 = n
    BY <1>1
  <2> QED
    BY <1>3, <2>1 DEF Layout
<1>7. ASSUME NEW i \in 0 .. (n - 1) - 1
      PROVE  At(r2, d[i]) \in DOMAIN rg2 /\ d[i + 1] = d[i] + Room(rg2[At(r2, d[i])])
  <2>1. i \in 0 .. n - 1 /\ i + 1 \in 0 .. n - 1 /\ i + 1 \in 0 .. n /\ (i + 1) + 1 \in 0 .. n
        /\ i + 1 < n /\ i + 1 > 0
    BY <1>1
  <2> DEFINE x == At(r, c[i + 1])
  <2>2. x \in DOMAIN rg /\ c[(i + 1) + 1] = c[i + 1] + Room(rg[x])
    BY <2>1 DEF Layout
  <2>3. x # r
    <3>1. c[i + 1] > 0
      <4>1. c[i + 1] >= i + 1
        BY <2>1, LayoutFacts
      <4> QED
        BY <1>2, <2>1, <4>1
    <3>2. c[i + 1] \in 0 .. RingSize /\ c[i + 1] < RingSize
      BY <1>1, <1>2, <2>1
    <3>3. x = (IF r + c[i + 1] < RingSize THEN r + c[i + 1] ELSE r + c[i + 1] - RingSize)
      BY <3>2, AtIs
    <3>4. r \in Nat
      BY <1>1 DEF Offset
    <3> QED
      BY <1>1, <3>1, <3>2, <3>3, <3>4
  <2>4. x \in DOMAIN rg2 /\ rg2[x] = rg[x]
    BY <2>2, <2>3
  <2>5. d[i + 1] = c[(i + 1) + 1] - c[1] /\ d[i] = c[i + 1] - c[1] /\ At(r2, d[i]) = x
    BY <1>3, <2>1
  <2>6. c[(i + 1) + 1] \in Nat /\ c[i + 1] \in Nat /\ c[1] \in Nat
    BY <1>1, <1>2, <2>1
  <2> HIDE DEF x
  <2>7. Room(rg[x]) \in Nat
    BY <2>2, RoomIs DEF RingOK
  <2> QED
    BY <2>2, <2>4, <2>5, <2>6, <2>7
<1>8. ASSUME NEW i \in 0 .. n - 1, NEW j \in 0 .. n - 1, i <= j
      PROVE  d[j] - d[i] >= j - i
  <2>1. i + 1 \in 0 .. n /\ j + 1 \in 0 .. n /\ i + 1 <= j + 1
    BY <1>1, <1>8
  <2>2. c[j + 1] - c[i + 1] >= (j + 1) - (i + 1)
    BY <2>1 DEF Layout
  <2>3. d[i] = c[i + 1] - c[1] /\ d[j] = c[j + 1] - c[1]
    BY <1>3
  <2>4. c[j + 1] \in Nat /\ c[i + 1] \in Nat /\ c[1] \in Nat
    BY <1>1, <1>2, <2>1
  <2> QED
    BY <2>2, <2>3, <2>4
<1>9. Layout(r2, w, rg2, n - 1, d)
  BY <1>4, <1>5, <1>6, <1>7, <1>8 DEF Layout
<1> QED
  BY <1>9 DEF d

\* Stored, of any state: what the driver finds from r to w in the ring rg.
LenIn(rg, o) == IF o \in DOMAIN rg THEN rg[o] ELSE 0
NextIn(rg, o) == Align(o + LenIn(rg, o) + 4) % RingSize
Walk(r, rg) == CHOOSE at : at = [n \in 0 .. RingSize |-> IF n = 0 THEN r ELSE NextIn(rg, at[n-1])]
Stops(at, w, n) ==
    /\ at[n] = w \/ n = RingSize
    /\ \A k \in 0 .. n - 1 : at[k] # w
StoredIn(r, w, rg) ==
    [k \in 1 .. CHOOSE n \in 0 .. RingSize : Stops(Walk(r, rg), w, n) |-> LenIn(rg, Walk(r, rg)[k-1])]

\* Behind a packet of the layout the driver finds the next.
LEMMA NextPacket ==
    ASSUME NEW r \in Offset, NEW w, NEW rg, RingOK(rg), NEW n \in Nat, NEW c, Layout(r, w, rg, n, c),
           NEW i \in 0 .. n - 1
    PROVE  NextIn(rg, At(r, c[i])) = At(r, c[i + 1])
<1> DEFINE x == At(r, c[i])
           len == rg[x]
<1>1. RingSize \in Nat \ {0} /\ i \in 0 .. n /\ i + 1 \in 0 .. n
  BY NicAssumption
<1>2. x \in DOMAIN rg /\ c[i + 1] = c[i] + Room(len)
  BY DEF Layout
<1>3. x \in Offset /\ x \in Nat /\ x % 4 = 0 /\ len \in Lens
  BY <1>1, <1>2 DEF RingOK, Offset
<1>4. len \in Nat /\ Room(len) \in Nat
  BY <1>3, RoomIs
<1>5. c[i] \in Offset /\ c[i + 1] \in Offset
  BY <1>1, LayoutFacts
<1>6. LenIn(rg, x) = len
  BY <1>2 DEF LenIn
<1> HIDE DEF len
<1>7. At(x, Room(len)) = At(r, c[i + 1])
  <2>1. c[i] + Room(len) < RingSize
    BY <1>1, <1>2, <1>4, <1>5 DEF Offset
  <2> QED
    BY <1>2, <1>4, <1>5, <2>1, AtAdd
<1> HIDE DEF x
<1>8. Align(x + len + 4) = x + Room(len)
  <2>1. x + len + 4 = x + (len + 4) /\ len + 4 \in Nat
    BY <1>3, <1>4
  <2> QED
    BY <1>3, <2>1, AlignIs DEF Room
<1>9. NextIn(rg, x) = At(r, c[i + 1])
  BY <1>6, <1>7, <1>8 DEF NextIn, At
<1> QED
  BY <1>9 DEF x

\* The driver's walk over the packets of a layout: behind each it finds the next.
LEMMA WalkIs ==
    ASSUME NEW r \in Offset, NEW w, NEW rg, RingOK(rg), NEW n \in Nat, NEW c, Layout(r, w, rg, n, c)
    PROVE  \A k \in 0 .. n : Walk(r, rg)[k] = At(r, c[k])
<1> DEFINE S == Offset
           N == RingSize
           step == [i \in Nat |-> [x \in S |-> NextIn(rg, x)]]
<1>1. N \in Nat \ {0} /\ S = 0 .. N - 1
  BY NicAssumption DEF Offset
<1>2. \A x \in S : NextIn(rg, x) \in S
  <2> SUFFICES ASSUME NEW x \in S PROVE NextIn(rg, x) \in S
    OBVIOUS
  <2>1. LenIn(rg, x) \in Nat
    BY RoomIs DEF LenIn, RingOK
  <2>2. x + LenIn(rg, x) + 4 \in Nat
    BY <1>1, <2>1
  <2>3. Align(x + LenIn(rg, x) + 4) \in Nat
    BY <2>2, AlignIs
  <2> DEFINE a == Align(x + LenIn(rg, x) + 4)
  <2> HIDE DEF a
  <2>4. a \in Int
    BY <2>3 DEF a
  <2>5. a % N \in 0 .. N - 1
    BY <1>1, <2>4, Wrapped
  <2> QED
    BY <2>5 DEF NextIn, Offset, a
<1>3. step \in Steps(S)
  BY <1>2 DEF Steps
<1>4. PICK g \in [0 .. N -> S] : g[0] = r /\ \A i \in 0 .. N - 1 : g[i + 1] = step[i][g[i]]
  <2> HIDE DEF step, S
  <2>1. r \in S /\ N \in Nat
    BY <1>1 DEF S
  <2>2. Runs(S, r, step, N) # {}
    BY <1>3, <2>1, LoopStates
  <2> QED
    BY <2>2 DEF Runs
<1>5. g = [m \in 0 .. N |-> IF m = 0 THEN r ELSE NextIn(rg, g[m-1])]
  <2>1. ASSUME NEW m \in 0 .. N, m # 0
        PROVE  g[m] = NextIn(rg, g[m-1])
    <3>1. m - 1 \in 0 .. N - 1 /\ m - 1 \in 0 .. N /\ (m - 1) + 1 = m /\ m - 1 \in Nat
      BY <1>1, <2>1
    <3>2. g[m - 1] \in S
      BY <3>1
    <3> QED
      BY <1>4, <3>1, <3>2
  <2> QED
    BY <1>4, <2>1
<1> DEFINE at == Walk(r, rg)
<1>6. at = [m \in 0 .. N |-> IF m = 0 THEN r ELSE NextIn(rg, at[m-1])]
  BY <1>5 DEF Walk
<1> HIDE DEF at
<1>7. n < N
  BY LayoutFacts
<1> DEFINE P == [i \in 0 .. n |-> {At(r, c[i])}]
<1>8. at[0] \in P[0]
  <2>1. 0 \in 0 .. n /\ 0 \in 0 .. RingSize /\ c[0] = 0
    BY <1>1 DEF Layout
  <2>2. At(r, 0) = r
    BY <1>1, <2>1, AtIs
  <2> QED
    BY <1>1, <1>6, <2>1, <2>2
<1>9. ASSUME NEW i \in 0 .. n - 1, at[i] = At(r, c[i])
      PROVE  at[i + 1] = At(r, c[i + 1])
  <2>1. i + 1 \in 0 .. N /\ i + 1 # 0 /\ (i + 1) - 1 = i /\ i \in 0 .. n /\ i + 1 \in 0 .. n
    BY <1>1, <1>7
  <2>2. at[i + 1] = NextIn(rg, At(r, c[i]))
    BY <1>6, <1>9, <2>1
  <2> QED
    BY <2>2, NextPacket
<1>10. \A i \in 0 .. n - 1 : at[i] \in P[i] => at[i + 1] \in P[i + 1]
  <2> SUFFICES ASSUME NEW i \in 0 .. n - 1, at[i] \in P[i] PROVE at[i + 1] \in P[i + 1]
    OBVIOUS
  <2>1. i \in 0 .. n /\ i + 1 \in 0 .. n
    OBVIOUS
  <2> QED
    BY <1>9, <2>1
<1>11. \A i \in 0 .. n : at[i] \in P[i]
  <2> HIDE DEF P
  <2> QED
    BY <1>8, <1>10, LoopInvariant
<1> QED
  BY <1>11 DEF at

LEMMA StoredInIs ==
    ASSUME NEW r \in Offset, NEW w, NEW rg, RingOK(rg), NEW n \in Nat, NEW c, Layout(r, w, rg, n, c)
    PROVE  StoredIn(r, w, rg) = [k \in 1 .. n |-> rg[At(r, c[k - 1])]]
<1> DEFINE at == Walk(r, rg)
           count == CHOOSE m \in 0 .. RingSize : Stops(at, w, m)
<1>1. RingSize \in Nat \ {0} /\ n \in 0 .. RingSize /\ n < RingSize
  <2>1. RingSize \in Nat \ {0}
    BY NicAssumption
  <2>2. n < RingSize
    BY LayoutFacts
  <2> QED
    BY <2>1, <2>2
<1>2. \A k \in 0 .. n : at[k] = At(r, c[k])
  BY WalkIs
<1> HIDE DEF at
<1>3. at[n] = w
  BY <1>2 DEF Layout
<1>4. ASSUME NEW k \in 0 .. n - 1
      PROVE  at[k] # w
  <2>1. k \in 0 .. n /\ n \in 0 .. n /\ k < n
    OBVIOUS
  <2>2. c[k] \in Offset /\ c[n] \in Offset /\ c[k] < c[n]
    BY <2>1, LayoutFacts
  <2> DEFINE a == c[k]
             b == c[n]
             y == At(r, a)
  <2>3. a \in Nat /\ a \in 0 .. RingSize /\ b \in Nat /\ b \in 0 .. RingSize /\ a < b /\ b < RingSize
        /\ r \in Nat
    BY <1>1, <2>2 DEF Offset
  <2>4. y = (IF r + a < RingSize THEN r + a ELSE r + a - RingSize)
    BY <2>3, AtIs
  <2>5. w = (IF r + b < RingSize THEN r + b ELSE r + b - RingSize)
    BY <2>3, AtIs DEF Layout
  <2>6. at[k] = y
    BY <1>2, <2>1
  <2> HIDE DEF a, b, y
  <2> QED
    BY <1>1, <2>3, <2>4, <2>5, <2>6
<1>5. Stops(at, w, n)
  BY <1>3, <1>4 DEF Stops
<1>6. ASSUME NEW m \in 0 .. RingSize, Stops(at, w, m)
      PROVE  m = n
  <2>1. CASE m < n
    <3>1. m \in 0 .. n - 1 /\ m # RingSize
      BY <1>1, <2>1
    <3> QED
      BY <1>4, <1>6, <3>1 DEF Stops
  <2>2. CASE n < m
    <3>1. n \in 0 .. m - 1
      BY <1>1, <2>2
    <3> QED
      BY <1>3, <1>6, <3>1 DEF Stops
  <2> QED
    BY <1>1, <2>1, <2>2
<1>7. count = n
  BY <1>1, <1>5, <1>6
<1>8. \A k \in 1 .. n : LenIn(rg, at[k - 1]) = rg[At(r, c[k - 1])]
  <2> SUFFICES ASSUME NEW k \in 1 .. n PROVE LenIn(rg, at[k - 1]) = rg[At(r, c[k - 1])]
    OBVIOUS
  <2>1. k - 1 \in 0 .. n - 1 /\ k - 1 \in 0 .. n
    BY <1>1
  <2>2. At(r, c[k - 1]) \in DOMAIN rg
    BY <2>1 DEF Layout
  <2> QED
    BY <1>2, <2>1, <2>2 DEF LenIn
<1>9. StoredIn(r, w, rg) = [k \in 1 .. count |-> LenIn(rg, at[k - 1])]
  BY DEF StoredIn, at
<1> QED
  BY <1>7, <1>8, <1>9

LEMMA StoredIsIn ==
    /\ Stored = StoredIn(ReadAt(capr), rx_addr, ring)
    /\ Stored' = StoredIn(ReadAt(capr'), rx_addr', ring')
<1>1. \A o : LenAt(o) = LenIn(ring, o)
  BY DEF LenAt, LenIn
<1>2. Stored = StoredIn(ReadAt(capr), rx_addr, ring)
  BY <1>1 DEF Stored, StoredIn, Walk, NextIn, Stops, LenAt, LenIn
<1>3. Stored' = StoredIn(ReadAt(capr'), rx_addr', ring')
  BY DEF Stored, StoredIn, Walk, NextIn, Stops, LenAt, LenIn, ReadAt
<1> QED
  BY <1>2, <1>3

----------------------------------------------------------------------------
(* Receiving: the invariant *)

\* Between driver and card there is always a row of whole packets, and while the
\* driver works on one it is the first of them.
RxInv ==
    /\ boot \in {"config", "enabled", "masked", "ready"}
    /\ isr \subseteq {ROK, TOK}
    /\ capr \in 0 .. Word - 1 /\ rx_addr \in Offset /\ rx_addr % 4 = 0
    /\ RingOK(ring)
    /\ \E n \in Nat : \E c : Layout(ReadAt(capr), rx_addr, ring, n, c)
    /\ drv \in [pc : {"out", "ack", "test", "header", "frame", "capr"},
                isr : SUBSET {ROK, TOK}, cur : Offset, len : {0} \cup Lens]
    /\ handed \in Lens \cup {Nothing}
    /\ boot \in {"config", "enabled"} => capr = (-16) % Word
    /\ boot # "ready" => drv.pc = "out"
    /\ drv.pc \in {"header", "frame", "capr"} => rx_addr # ReadAt(capr)
    /\ drv.pc \in {"frame", "capr"} => drv.cur = ReadAt(capr) /\ drv.len = ring[drv.cur]

LEMMA ReadAtIs ==
    ASSUME NEW reg \in 0 .. Word - 1
    PROVE  ReadAt(reg) \in Offset
BY NicAssumption, Wrapped DEF ReadAt, Offset

LEMMA RxInitially == Init => RxInv
<1> SUFFICES ASSUME Init PROVE RxInv
  OBVIOUS
<1>1. RingSize \in Nat \ {0} /\ 0 \in Offset /\ 0 \in 0 .. RingSize
  BY NicAssumption DEF Offset
<1>2. capr = CaprFor(0)
  BY DEF Init, CaprFor
<1>3. capr \in 0 .. Word - 1 /\ ReadAt(capr) = 0
  BY <1>1, <1>2, CaprIs
<1>4. DOMAIN ring = {}
  BY DEF Init
<1> DEFINE c == [i \in 0 .. 0 |-> 0]
<1>5. At(0, 0) = 0
  BY <1>1, AtIs
<1>6. Layout(ReadAt(capr), rx_addr, ring, 0, c)
  <2>1. c \in [0 .. 0 -> Offset] /\ c[0] = 0 /\ At(0, c[0]) = 0
    BY <1>1, <1>5
  <2>2. \A i \in 0 .. 0 - 1 : FALSE
    OBVIOUS
  <2>3. \A i, j \in 0 .. 0 : i <= j => c[j] - c[i] >= j - i
    OBVIOUS
  <2> HIDE DEF c
  <2> QED
    BY <1>3, <2>1, <2>2, <2>3 DEF Layout, Init
<1>7. \E n \in Nat : \E d : Layout(ReadAt(capr), rx_addr, ring, n, d)
  <2> HIDE DEF c
  <2> QED
    BY <1>6
<1>8. RingOK(ring)
  BY <1>4 DEF RingOK
<1>9. drv \in [pc : {"out", "ack", "test", "header", "frame", "capr"},
               isr : SUBSET {ROK, TOK}, cur : Offset, len : {0} \cup Lens]
  BY <1>1 DEF Init, InitDriver
<1>10. rx_addr \in Offset /\ rx_addr % 4 = 0
  BY <1>1 DEF Init
<1> QED
  BY <1>3, <1>7, <1>8, <1>9, <1>10 DEF Init, InitDriver, RxInv

\* What the state says of a layout.
LEMMA RxFacts ==
    ASSUME RxInv
    PROVE  /\ ReadAt(capr) \in Offset /\ rx_addr \in Offset /\ RingOK(ring)
           /\ drv.pc \in {"header", "frame", "capr"} =>
                /\ ReadAt(capr) \in DOMAIN ring
                /\ ReadAt(capr) % 4 = 0 /\ ring[ReadAt(capr)] \in Lens
                /\ LenAt(ReadAt(capr)) = ring[ReadAt(capr)]
<1>1. ReadAt(capr) \in Offset /\ rx_addr \in Offset /\ RingOK(ring)
  BY ReadAtIs DEF RxInv
<1>2. ASSUME drv.pc \in {"header", "frame", "capr"}
      PROVE  ReadAt(capr) \in DOMAIN ring
  <2>1. PICK n \in Nat : \E c : Layout(ReadAt(capr), rx_addr, ring, n, c)
    BY DEF RxInv
  <2>2. PICK c : Layout(ReadAt(capr), rx_addr, ring, n, c)
    BY <2>1
  <2>3. n > 0
    <3>1. n = 0 => ReadAt(capr) = rx_addr
      BY <1>1, <2>2, LayoutFacts
    <3> QED
      BY <1>2, <3>1 DEF RxInv
  <2>4. n > 0 => ReadAt(capr) \in DOMAIN ring
    BY <1>1, <2>2, LayoutFacts
  <2> QED
    BY <2>3, <2>4
<1> QED
  BY <1>1, <1>2 DEF RingOK, LenAt

LEMMA ArriveIs ==
    ASSUME RxInv, NEW len \in Lens, Arrive(len), NEW n \in Nat, NEW c,
           Layout(ReadAt(capr), rx_addr, ring, n, c)
    PROVE  /\ Layout(ReadAt(capr), rx_addr', ring', n + 1,
                     [i \in 0 .. n + 1 |-> IF i <= n THEN c[i] ELSE c[n] + Room(len)])
           /\ RingOK(ring') /\ rx_addr' \in Offset /\ rx_addr' % 4 = 0
           /\ \A i \in 0 .. n - 1 : /\ At(ReadAt(capr), c[i]) \in DOMAIN ring'
                                    /\ ring'[At(ReadAt(capr), c[i])] = ring[At(ReadAt(capr), c[i])]
           /\ rx_addr \in DOMAIN ring' /\ ring'[rx_addr] = len
<1> DEFINE r == ReadAt(capr)
           w == rx_addr
<1>1. r \in Offset /\ w \in Offset /\ RingOK(ring) /\ w % 4 = 0
  BY RxFacts DEF RxInv
<1>2. /\ ring' = [x \in Untouched(w, len) \cup {w} |-> IF x = w THEN len ELSE ring[x]]
      /\ w = r \/ Room(len) < (RingSize + r - w) % RingSize
      /\ rx_addr' = At(w, Room(len))
  BY DEF Arrive, Fits, Empty, Free, At
<1>3. Layout(r, w, ring, n, c)
  OBVIOUS
<1> HIDE DEF r, w
<1>4. c[n] + Room(len) < RingSize
  BY <1>1, <1>2, <1>3, FitsIs
<1>5. \A i \in 0 .. n - 1 : At(r, c[i]) \in Untouched(w, len) /\ At(r, c[i]) # w
  <2> SUFFICES ASSUME NEW i \in 0 .. n - 1
               PROVE  At(r, c[i]) \in Untouched(w, len) /\ At(r, c[i]) # w
    OBVIOUS
  <2>1. At(r, c[i]) \in DOMAIN ring
    BY <1>3 DEF Layout
  <2>2. At(r, c[i]) # w /\ (\/ At(r, c[i]) + Room(ring[At(r, c[i])]) <= w
                           \/ w + Room(len) <= At(r, c[i]))
    BY <1>1, <1>3, <1>4, PacketsClear
  <2> QED
    BY <2>1, <2>2 DEF Untouched
<1>6. \A i \in 0 .. n - 1 : At(r, c[i]) \in DOMAIN ring' /\ ring'[At(r, c[i])] = ring[At(r, c[i])]
  BY <1>2, <1>5
<1>7. w \in DOMAIN ring' /\ ring'[w] = len
  BY <1>2
<1>8. Layout(r, At(w, Room(len)), ring', n + 1,
             [i \in 0 .. n + 1 |-> IF i <= n THEN c[i] ELSE c[n] + Room(len)])
  BY <1>1, <1>3, <1>4, <1>6, <1>7, LayoutAdds
<1>9. RingOK(ring')
  <2>1. Untouched(w, len) \subseteq DOMAIN ring
    BY DEF Untouched
  <2> QED
    BY <1>1, <1>2, <2>1 DEF RingOK
<1>10. rx_addr' \in Offset /\ rx_addr' % 4 = 0
  <2>1. Room(len) \in 0 .. RingSize /\ Room(len) % 4 = 0
    BY RoomIs, NicAssumption
  <2> QED
    BY <1>1, <1>2, <2>1, AtIs, AtAligned
<1> QED
  BY <1>2, <1>6, <1>7, <1>8, <1>9, <1>10 DEF r, w

LEMMA WriteCaprIs ==
    ASSUME RxInv, WriteCapr, NEW n \in Nat, NEW c, Layout(ReadAt(capr), rx_addr, ring, n, c)
    PROVE  /\ n > 0
           /\ Layout(ReadAt(capr'), rx_addr, ring', n - 1, [i \in 0 .. n - 1 |-> c[i + 1] - c[1]])
           /\ RingOK(ring') /\ capr' \in 0 .. Word - 1
           /\ ReadAt(capr') = At(ReadAt(capr), c[1])
           /\ \A x \in DOMAIN ring \ {ReadAt(capr)} : x \in DOMAIN ring' /\ ring'[x] = ring[x]
<1> DEFINE r == ReadAt(capr)
           w == rx_addr
           len == ring[r]
           o == At(r, c[1])
<1>1. r \in Offset /\ w \in Offset /\ RingOK(ring) /\ r # w /\ r \in DOMAIN ring /\ r % 4 = 0
      /\ len \in Lens
  BY RxFacts DEF RxInv, WriteCapr
<1>2. /\ ring' = [x \in DOMAIN ring \ {r} |-> ring[x]]
      /\ capr' = CaprFor(Align(r + len + 4) % RingSize)
  BY DEF RxInv, WriteCapr, NextOffset
<1>3. Layout(r, w, ring, n, c)
  OBVIOUS
<1>4. \A x \in DOMAIN ring \ {r} : x \in DOMAIN ring' /\ ring'[x] = ring[x]
  BY <1>2
<1>5. LenIn(ring, r) = len
  BY <1>1 DEF LenIn
<1> HIDE DEF r, w, len
<1>6. n > 0 /\ At(r, c[0]) = r /\ 0 \in 0 .. n - 1 /\ 0 + 1 = 1 /\ 1 \in 0 .. n
  BY <1>1, <1>3, LayoutFacts
<1>7. Align(r + len + 4) % RingSize = o
  <2>1. \A i \in 0 .. n - 1 : NextIn(ring, At(r, c[i])) = At(r, c[i + 1])
    BY <1>1, <1>3, NextPacket
  <2> QED
    BY <1>5, <1>6, <2>1 DEF NextIn
<1>8. o \in Offset
  <2>1. c[1] \in Offset
    BY <1>1, <1>3, <1>6, LayoutFacts
  <2>2. c[1] \in 0 .. RingSize
    BY <2>1, NicAssumption DEF Offset
  <2> QED
    BY <1>1, <2>2, AtIs
<1>9. capr' \in 0 .. Word - 1 /\ ReadAt(capr') = o
  BY <1>2, <1>7, <1>8, CaprIs
<1>10. RingOK(ring')
  BY <1>1, <1>2 DEF RingOK
<1>11. Layout(o, w, ring', n - 1, [i \in 0 .. n - 1 |-> c[i + 1] - c[1]])
  BY <1>1, <1>3, <1>4, <1>6, LayoutDrops
<1> QED
  BY <1>4, <1>6, <1>9, <1>10, <1>11 DEF r, w

\* A step leaves the receiver alone, or is one of those of the driver and the card
\* that do not.
RxStep ==
    \/ UNCHANGED <<boot, rxVars>> /\ isr' \in SUBSET {ROK, TOK}
    \/ \E len \in Lens : Arrive(len)
    \/ Enable \/ SetCapr \/ Unmask
    \/ Interrupt \/ Ack \/ Test \/ ReadHeader \/ NetReceive \/ WriteCapr

LEMMA RxSteps == isr \in SUBSET {ROK, TOK} /\ [Next]_vars => RxStep
BY DEF Next, vars, RxStep, Handler, Send, Poll, TimeOut, Copy, Fire, Transmit

LEMMA RxArrive == RxInv /\ (\E len \in Lens : Arrive(len)) => RxInv'
<1> SUFFICES ASSUME RxInv, NEW len \in Lens, Arrive(len) PROVE RxInv'
  OBVIOUS
<1> DEFINE r == ReadAt(capr)
<1>0. r \in Offset /\ RingOK(ring) /\ rx_addr \in Offset
  BY RxFacts
<1>1. PICK n \in Nat : \E c : Layout(r, rx_addr, ring, n, c)
  BY DEF RxInv
<1>2. PICK c : Layout(r, rx_addr, ring, n, c)
  BY <1>1
<1> DEFINE d == [i \in 0 .. n + 1 |-> IF i <= n THEN c[i] ELSE c[n] + Room(len)]
<1>3. /\ Layout(r, rx_addr', ring', n + 1, d)
      /\ RingOK(ring') /\ rx_addr' \in Offset /\ rx_addr' % 4 = 0
      /\ \A i \in 0 .. n - 1 : At(r, c[i]) \in DOMAIN ring' /\ ring'[At(r, c[i])] = ring[At(r, c[i])]
  BY <1>2, ArriveIs
<1> HIDE DEF d
<1>4. ReadAt(capr') = r /\ capr' = capr
  BY DEF Arrive
<1>5. \E m \in Nat : \E e : Layout(ReadAt(capr'), rx_addr', ring', m, e)
  <2>1. n + 1 \in Nat
    OBVIOUS
  <2> QED
    BY <1>3, <1>4, <2>1
<1>6. rx_addr' # r
  <2>1. n + 1 \in Nat /\ n + 1 > 0
    OBVIOUS
  <2> QED
    BY <1>0, <1>3, <2>1, LayoutFacts
<1>7. ASSUME drv.pc \in {"frame", "capr"}
      PROVE  ring'[r] = ring[r]
  <2>1. rx_addr # r
    BY <1>7 DEF RxInv
  <2>2. n > 0
    <3>1. n = 0 => r = rx_addr
      BY <1>0, <1>2, LayoutFacts
    <3> QED
      BY <2>1, <3>1
  <2>3. n > 0 => At(r, c[0]) = r
    BY <1>0, <1>2, LayoutFacts
  <2>4. 0 \in 0 .. n - 1
    BY <2>2
  <2> QED
    BY <1>3, <2>2, <2>3, <2>4
<1> HIDE DEF r
<1> QED
  BY <1>3, <1>4, <1>5, <1>6, <1>7 DEF RxInv, Arrive, r

LEMMA RxWriteCapr == RxInv /\ WriteCapr => RxInv'
<1> SUFFICES ASSUME RxInv, WriteCapr PROVE RxInv'
  OBVIOUS
<1>1. PICK n \in Nat : \E c : Layout(ReadAt(capr), rx_addr, ring, n, c)
  BY DEF RxInv
<1>2. PICK c : Layout(ReadAt(capr), rx_addr, ring, n, c)
  BY <1>1
<1> DEFINE d == [i \in 0 .. n - 1 |-> c[i + 1] - c[1]]
<1>3. n > 0 /\ Layout(ReadAt(capr'), rx_addr, ring', n - 1, d) /\ RingOK(ring') /\ capr' \in 0 .. Word - 1
  BY <1>2, WriteCaprIs
<1> HIDE DEF d
<1>4. \E m \in Nat : \E e : Layout(ReadAt(capr'), rx_addr', ring', m, e)
  <2>1. n - 1 \in Nat /\ rx_addr' = rx_addr
    BY <1>3 DEF WriteCapr
  <2> QED
    BY <1>3, <2>1
<1>5. drv' = [drv EXCEPT !.pc = "test", !.cur = 0, !.len = 0] /\ 0 \in Offset
  BY NicAssumption DEF WriteCapr, Offset
<1>6. /\ drv'.pc = "test"
      /\ drv' \in [pc : {"out", "ack", "test", "header", "frame", "capr"},
                   isr : SUBSET {ROK, TOK}, cur : Offset, len : {0} \cup Lens]
  BY <1>5 DEF RxInv
<1>7. boot = "ready" /\ boot' = boot
  BY DEF RxInv, WriteCapr
<1> QED
  BY <1>3, <1>4, <1>6, <1>7 DEF RxInv, WriteCapr

LEMMA RxDriver == RxInv /\ (Interrupt \/ Ack \/ Test \/ ReadHeader \/ NetReceive) => RxInv'
<1> SUFFICES ASSUME RxInv, Interrupt \/ Ack \/ Test \/ ReadHeader \/ NetReceive PROVE RxInv'
  OBVIOUS
<1> DEFINE D == [pc : {"out", "ack", "test", "header", "frame", "capr"},
                 isr : SUBSET {ROK, TOK}, cur : Offset, len : {0} \cup Lens]
<1>1. UNCHANGED <<boot, ring, rx_addr, capr>>
  BY DEF Interrupt, Ack, Test, ReadHeader, NetReceive
<1>2. \E n \in Nat : \E c : Layout(ReadAt(capr'), rx_addr', ring', n, c)
  BY <1>1 DEF RxInv
<1>3. drv \in D
  BY DEF RxInv
<1>4. boot = "ready"
  BY DEF RxInv, Interrupt, Ack, Test, ReadHeader, NetReceive
<1>5. /\ isr' \subseteq {ROK, TOK} /\ drv' \in D /\ handed' \in Lens \cup {Nothing}
      /\ drv'.pc \in {"header", "frame", "capr"} => rx_addr # ReadAt(capr)
      /\ drv'.pc \in {"frame", "capr"} => drv'.cur = ReadAt(capr) /\ drv'.len = ring[drv'.cur]
  <2>1. CASE Interrupt
    <3>1. drv' = [drv EXCEPT !.pc = "ack", !.isr = isr] /\ isr \in SUBSET {ROK, TOK}
      BY <2>1 DEF Interrupt, RxInv
    <3>2. drv' \in D /\ drv'.pc = "ack"
      BY <1>3, <3>1
    <3> QED
      BY <2>1, <3>2 DEF Interrupt, RxInv
  <2>2. CASE Ack
    <3>1. drv' = [drv EXCEPT !.pc = IF ROK \in drv.isr THEN "test" ELSE "out"]
      BY <2>2 DEF Ack, Goto
    <3>2. drv' \in D /\ drv'.pc \in {"test", "out"}
      BY <1>3, <3>1
    <3> QED
      BY <2>2, <3>2 DEF Ack, RxInv
  <2>3. CASE Test
    <3>1. drv' = [drv EXCEPT !.pc = IF Empty THEN "out" ELSE "header"]
      BY <2>3 DEF Test, Goto
    <3>2. drv' \in D /\ drv'.pc = IF Empty THEN "out" ELSE "header"
      BY <1>3, <3>1
    <3> QED
      BY <2>3, <3>2 DEF Test, RxInv, Empty
  <2>4. CASE ReadHeader
    <3> DEFINE o == ReadAt(capr)
               pc == IF LenAt(o) \in 1 .. MaxLen THEN "frame" ELSE "out"
    <3>1. drv' = [drv EXCEPT !.cur = o, !.len = LenAt(o), !.pc = pc]
      BY <2>4 DEF ReadHeader
    <3>2. o \in Offset /\ LenAt(o) = ring[o] /\ ring[o] \in Lens
      BY <2>4, RxFacts DEF ReadHeader
    <3>3. pc \in {"frame", "out"}
      OBVIOUS
    <3> HIDE DEF o, pc
    <3>4. drv' \in D /\ drv'.pc = pc /\ drv'.cur = o /\ drv'.len = LenAt(o)
      BY <1>3, <3>1, <3>2, <3>3
    <3> QED
      BY <2>4, <3>2, <3>3, <3>4 DEF ReadHeader, RxInv, o
  <2>5. CASE NetReceive
    <3>1. drv' = [drv EXCEPT !.pc = "capr"]
      BY <2>5 DEF NetReceive, Goto
    <3>2. drv' \in D /\ drv'.pc = "capr" /\ drv'.cur = drv.cur /\ drv'.len = drv.len
      BY <1>3, <3>1
    <3>3. handed' \in Lens
      BY <2>5, RxFacts DEF NetReceive, RxInv
    <3> QED
      BY <2>5, <3>2, <3>3 DEF NetReceive, RxInv
  <2> QED
    BY <2>1, <2>2, <2>3, <2>4, <2>5
<1> HIDE DEF D
<1>6. boot' = "ready" /\ capr' = capr /\ rx_addr' = rx_addr /\ ring' = ring
      /\ ReadAt(capr') = ReadAt(capr)
  BY <1>1, <1>4
<1> QED
  BY <1>2, <1>5, <1>6 DEF RxInv, D

LEMMA RxPreserved == RxInv /\ [Next]_vars => RxInv'
<1> SUFFICES ASSUME RxInv, RxStep PROVE RxInv'
  BY RxSteps DEF RxInv
<1>1. CASE UNCHANGED <<boot, rxVars>> /\ isr' \in SUBSET {ROK, TOK}
  <2>1. UNCHANGED <<boot, ring, rx_addr, capr, drv, handed>> /\ ReadAt(capr') = ReadAt(capr)
    BY <1>1 DEF rxVars
  <2> QED
    BY <1>1, <2>1 DEF RxInv
<1>2. CASE Enable \/ SetCapr \/ Unmask
  <2>1. UNCHANGED <<isr, ring, rx_addr, drv, handed>> /\ capr' = capr
    BY <1>2 DEF Enable, SetCapr, Unmask, RxInv, rxVars
  <2>2. ReadAt(capr') = ReadAt(capr)
    BY <2>1
  <2>3. /\ boot' \in {"enabled", "masked", "ready"} /\ boot # "ready"
        /\ boot' = "enabled" => boot = "config"
    BY <1>2 DEF Enable, SetCapr, Unmask
  <2> QED
    BY <2>1, <2>2, <2>3 DEF RxInv
<1> QED
  BY <1>1, <1>2, RxArrive, RxWriteCapr, RxDriver DEF RxStep

\* The shared memory and the registers of driver and card hold what they should.
THEOREM TypeCorrect == Spec => []TypeOK
<1>1. RxInv /\ TxInv => TypeOK
  <2> SUFFICES ASSUME RxInv, TxInv PROVE TypeOK
    OBVIOUS
  <2>1. drv.pc \in {"out", "ack", "test", "header", "frame", "capr"}
    BY DEF RxInv
  <2> QED
    BY <2>1 DEF RxInv, TxInv, TypeOK, RingOK, Offset
<1> QED
  BY <1>1, RxInitially, TxInitially, RxPreserved, TxPreserved, PTL DEF Spec

----------------------------------------------------------------------------
(* Receiving: the packets arrive in order *)

\* The packets of a layout.
Packets(r, rg, n, c) == [k \in 1 .. n |-> rg[At(r, c[k - 1])]]

LEMMA StoredIs ==
    ASSUME RxInv, NEW n \in Nat, NEW c, Layout(ReadAt(capr), rx_addr, ring, n, c)
    PROVE  /\ Stored = Packets(ReadAt(capr), ring, n, c)
           /\ Len(Stored) = n
           /\ n > 0 => Stored # <<>> /\ Head(Stored) = ring[ReadAt(capr)]
<1> DEFINE r == ReadAt(capr)
<1>1. r \in Offset /\ RingOK(ring)
  BY RxFacts
<1>2. Stored = Packets(r, ring, n, c)
  BY <1>1, StoredInIs, StoredIsIn DEF Packets
<1>3. Len(Stored) = n
  BY <1>2 DEF Packets
<1>4. ASSUME n > 0
      PROVE  Stored # <<>> /\ Head(Stored) = ring[r]
  <2>1. At(r, c[0]) = r
    BY <1>1, <1>4, LayoutFacts
  <2>2. 1 \in 1 .. n /\ 1 - 1 = 0
    BY <1>4
  <2>3. Stored[1] = ring[r]
    BY <1>2, <2>1, <2>2 DEF Packets
  <2> QED
    BY <1>3, <1>4, <2>3
<1> QED
  BY <1>2, <1>3, <1>4

LEMMA StoredGrows ==
    ASSUME RxInv, NEW len \in Lens, Arrive(len)
    PROVE  Stored' = Append(Stored, len) /\ (drv.pc = "capr" => Stored # <<>>)
<1> DEFINE r == ReadAt(capr)
<1>1. r \in Offset /\ RingOK(ring)
  BY RxFacts
<1>2. PICK n \in Nat : \E c : Layout(r, rx_addr, ring, n, c)
  BY DEF RxInv
<1>3. PICK c : Layout(r, rx_addr, ring, n, c)
  BY <1>2
<1> DEFINE d == [i \in 0 .. n + 1 |-> IF i <= n THEN c[i] ELSE c[n] + Room(len)]
<1>4. /\ Layout(r, rx_addr', ring', n + 1, d) /\ RingOK(ring')
      /\ \A i \in 0 .. n - 1 : ring'[At(r, c[i])] = ring[At(r, c[i])]
      /\ ring'[rx_addr] = len
  BY <1>3, ArriveIs
<1>5. \A i \in 0 .. n : d[i] = c[i]
  OBVIOUS
<1> HIDE DEF d
<1>6. Stored = [k \in 1 .. n |-> ring[At(r, c[k - 1])]]
  BY <1>3, StoredIs DEF Packets
<1>7. Stored' = [k \in 1 .. n + 1 |-> ring'[At(r, d[k - 1])]]
  <2>1. n + 1 \in Nat /\ ReadAt(capr') = r
    BY DEF Arrive
  <2>2. StoredIn(r, rx_addr', ring') = [k \in 1 .. n + 1 |-> ring'[At(r, d[k - 1])]]
    BY <1>1, <1>4, <2>1, StoredInIs
  <2> QED
    BY <2>1, <2>2, StoredIsIn
<1>8. \A k \in 1 .. n : ring'[At(r, d[k - 1])] = ring[At(r, c[k - 1])]
  <2> SUFFICES ASSUME NEW k \in 1 .. n PROVE ring'[At(r, d[k - 1])] = ring[At(r, c[k - 1])]
    OBVIOUS
  <2>1. k - 1 \in 0 .. n - 1 /\ k - 1 \in 0 .. n
    OBVIOUS
  <2> QED
    BY <1>4, <1>5, <2>1
<1>9. ring'[At(r, d[(n + 1) - 1])] = len
  <2>1. (n + 1) - 1 = n /\ n \in 0 .. n
    OBVIOUS
  <2> QED
    BY <1>3, <1>4, <1>5, <2>1 DEF Layout
<1>10. Stored' = Append(Stored, len)
  <2> DEFINE new(k) == ring'[At(r, d[k - 1])]
  <2>1. Stored' = [k \in 1 .. n + 1 |-> new(k)] /\ Stored = [k \in 1 .. n |-> new(k)] /\ new(n + 1) = len
    BY <1>6, <1>7, <1>8, <1>9
  <2> HIDE DEF new
  <2> QED
    BY <2>1
<1>11. ASSUME drv.pc = "capr"
       PROVE  Stored # <<>>
  <2>1. rx_addr # r
    BY <1>11 DEF RxInv
  <2>2. n = 0 => r = rx_addr
    BY <1>1, <1>3, LayoutFacts
  <2>3. n > 0
    BY <2>1, <2>2
  <2> QED
    BY <1>3, <2>3, StoredIs
<1> QED
  BY <1>10, <1>11

LEMMA StoredShrinks ==
    ASSUME RxInv, WriteCapr
    PROVE  Stored' = Tail(Stored)
<1> DEFINE r == ReadAt(capr)
<1>1. r \in Offset /\ RingOK(ring)
  BY RxFacts
<1>2. PICK n \in Nat : \E c : Layout(r, rx_addr, ring, n, c)
  BY DEF RxInv
<1>3. PICK c : Layout(r, rx_addr, ring, n, c)
  BY <1>2
<1> DEFINE d == [i \in 0 .. n - 1 |-> c[i + 1] - c[1]]
           r2 == At(r, c[1])
<1>4. /\ n > 0 /\ Layout(ReadAt(capr'), rx_addr, ring', n - 1, d) /\ RingOK(ring')
      /\ ReadAt(capr') = r2 /\ capr' \in 0 .. Word - 1
      /\ \A x \in DOMAIN ring \ {r} : ring'[x] = ring[x]
  BY <1>3, WriteCaprIs
<1>5. Stored = [k \in 1 .. n |-> ring[At(r, c[k - 1])]] /\ Len(Stored) = n
  BY <1>3, StoredIs DEF Packets
<1>6. r2 \in Offset
  BY <1>4, ReadAtIs
<1>7. \A i \in 0 .. n - 1 : d[i] = c[i + 1] - c[1]
  OBVIOUS
<1> HIDE DEF d, r2
<1>8. Stored' = [k \in 1 .. n - 1 |-> ring'[At(r2, d[k - 1])]]
  <2>1. n - 1 \in Nat /\ rx_addr' = rx_addr
    BY <1>4 DEF WriteCapr
  <2>2. StoredIn(r2, rx_addr, ring') = [k \in 1 .. n - 1 |-> ring'[At(r2, d[k - 1])]]
    BY <1>4, <1>6, <2>1, StoredInIs
  <2> QED
    BY <1>4, <2>1, <2>2, StoredIsIn
<1>9. ASSUME NEW k \in 1 .. n - 1
      PROVE  ring'[At(r2, d[k - 1])] = ring[At(r, c[(k + 1) - 1])]
  <2> DEFINE a == c[1]
             b == c[k]
             x == At(r, b)
  <2>1. k \in 0 .. n /\ 1 \in 0 .. n /\ k - 1 \in 0 .. n - 1 /\ (k - 1) + 1 = k /\ (k + 1) - 1 = k
        /\ k \in 0 .. n - 1 /\ k >= 1 /\ 1 <= k
    BY <1>4
  <2>2. a \in Offset /\ b \in Offset /\ b >= k
    BY <1>1, <1>3, <2>1, LayoutFacts
  <2>3. RingSize \in Nat \ {0} /\ a \in Nat /\ b \in Nat /\ b < RingSize /\ b > 0 /\ r \in Nat
        /\ b \in 0 .. RingSize
    <3>1. RingSize \in Nat \ {0} /\ \A y \in Offset : y \in Nat /\ y < RingSize
      BY NicAssumption DEF Offset
    <3> QED
      BY <1>1, <2>1, <2>2, <3>1
  <2>4. b - a >= k - 1
    BY <1>3, <2>1 DEF Layout
  <2>5. d[k - 1] = b - a
    BY <1>7, <2>1
  <2>6. x \in DOMAIN ring
    BY <1>3, <2>1 DEF Layout
  <2>7. x # r
    <3>1. x = (IF r + b < RingSize THEN r + b ELSE r + b - RingSize)
      BY <1>1, <2>3, AtIs
    <3> HIDE DEF b, x
    <3> QED
      BY <2>3, <3>1
  <2>8. At(r2, d[k - 1]) = x
    <3> HIDE DEF a, b
    <3>1. b - a \in Nat /\ a + (b - a) = b /\ b - a >= 0
      BY <2>1, <2>3, <2>4
    <3>2. At(At(r, a), b - a) = At(r, a + (b - a))
      BY <1>1, <2>2, <2>3, <3>1, AtAdd
    <3> QED
      BY <2>5, <3>1, <3>2 DEF r2, a
  <2> QED
    BY <1>4, <2>1, <2>6, <2>7, <2>8
<1>10. Stored' = Tail(Stored)
  <2> DEFINE old(k) == ring[At(r, c[k - 1])]
  <2>1. Stored = [k \in 1 .. n |-> old(k)] /\ Stored' = [k \in 1 .. n - 1 |-> old(k + 1)]
    BY <1>5, <1>8, <1>9
  <2> HIDE DEF old
  <2> QED
    BY <1>4, <1>5, <2>1
<1> QED
  BY <1>10

\* The packets the card stores reach net_receive once each, in the order of arrival
\* and whole, for any size of the ring and any lengths: wherever the ring and the
\* registers wrap around, the card and the driver agree where the next one begins,
\* and the card never stores one where another still lies.
THEOREM PacketsComeInOrder == Spec => ImplementsRx
<1> DEFINE waiting == IF drv.pc = "capr" THEN Tail(Stored) ELSE Stored
<1>1. ASSUME Init, RxInv
      PROVE  Received!Init
  <2>1. drv.pc # "capr" /\ handed = Nothing /\ rx_addr = 0
    BY <1>1 DEF Init, InitDriver
  <2>2. PICK n \in Nat : \E c : Layout(ReadAt(capr), rx_addr, ring, n, c)
    BY <1>1 DEF RxInv
  <2>3. PICK c : Layout(ReadAt(capr), rx_addr, ring, n, c)
    BY <2>2
  <2>4. n = 0
    <3>1. DOMAIN ring = {}
      BY <1>1 DEF Init
    <3>2. n > 0 => ReadAt(capr) \in DOMAIN ring
      BY <1>1, <2>3, RxFacts, LayoutFacts
    <3> QED
      BY <3>1, <3>2
  <2>5. Stored = <<>>
    BY <1>1, <2>3, <2>4, StoredIs DEF Packets
  <2> QED
    BY <2>1, <2>5 DEF Received!Init
<1>2. ASSUME RxInv, [Next]_vars
      PROVE  [Received!Next]_<<waiting, handed>>
  <2>0. (UNCHANGED <<capr, rx_addr, ring>>) => Stored' = Stored
    BY StoredIsIn
  <2>1. CASE UNCHANGED <<boot, rxVars>> /\ isr' \in SUBSET {ROK, TOK}
    BY <2>0, <2>1 DEF rxVars
  <2>2. CASE Enable \/ SetCapr \/ Unmask
    BY <1>2, <2>0, <2>2 DEF Enable, SetCapr, Unmask, RxInv, rxVars
  <2>3. CASE Interrupt
    <3>1. drv.pc = "out" /\ drv'.pc = "ack"
      BY <1>2, <2>3 DEF Interrupt, RxInv
    <3> QED
      BY <2>0, <2>3, <3>1 DEF Interrupt
  <2>4. CASE Ack \/ Test
    <3>1. drv.pc \in {"ack", "test"} /\ drv'.pc \in {"test", "out", "header"}
      BY <1>2, <2>4 DEF Ack, Test, Goto, RxInv
    <3> QED
      BY <2>0, <2>4, <3>1 DEF Ack, Test
  <2>5. CASE ReadHeader
    <3>1. drv.pc = "header" /\ drv'.pc \in {"frame", "out"}
      BY <1>2, <2>5 DEF ReadHeader, RxInv
    <3> QED
      BY <2>0, <2>5, <3>1 DEF ReadHeader
  <2>6. ASSUME NEW len \in Lens, Arrive(len)
        PROVE  Received!Put(len)
    <3>1. Stored' = Append(Stored, len) /\ (drv.pc = "capr" => Stored # <<>>)
      BY <1>2, <2>6, StoredGrows
    <3>2. drv' = drv /\ handed' = handed
      BY <2>6 DEF Arrive
    <3>3. Stored \in Seq(Lens)
      <4>1. PICK n \in Nat : \E c : Layout(ReadAt(capr), rx_addr, ring, n, c)
        BY <1>2 DEF RxInv
      <4>2. PICK c : Layout(ReadAt(capr), rx_addr, ring, n, c)
        BY <4>1
      <4>3. Stored = Packets(ReadAt(capr), ring, n, c)
        BY <1>2, <4>2, StoredIs
      <4>4. \A k \in 1 .. n : ring[At(ReadAt(capr), c[k - 1])] \in Lens
        <5> SUFFICES ASSUME NEW k \in 1 .. n PROVE ring[At(ReadAt(capr), c[k - 1])] \in Lens
          OBVIOUS
        <5>1. k - 1 \in 0 .. n - 1
          OBVIOUS
        <5>2. At(ReadAt(capr), c[k - 1]) \in DOMAIN ring
          BY <4>2, <5>1 DEF Layout
        <5> QED
          BY <1>2, <5>2, RxFacts DEF RingOK
      <4> QED
        BY <4>3, <4>4 DEF Packets
    <3>4. ASSUME Stored # <<>>
          PROVE  Tail(Append(Stored, len)) = Append(Tail(Stored), len)
      BY <3>3, <3>4
    <3> QED
      BY <3>1, <3>2, <3>4 DEF Received!Put
  <2>7. CASE NetReceive
    <3>1. drv.pc = "frame" /\ drv'.pc = "capr" /\ handed' = LenAt(drv.cur) /\ drv.cur = ReadAt(capr)
      BY <1>2, <2>7 DEF NetReceive, Goto, RxInv
    <3>2. Stored' = Stored /\ handed' = ring[ReadAt(capr)]
      BY <1>2, <2>0, <2>7, <3>1, RxFacts DEF NetReceive
    <3>3. Stored # <<>> /\ Head(Stored) = ring[ReadAt(capr)]
      <4>1. PICK n \in Nat : \E c : Layout(ReadAt(capr), rx_addr, ring, n, c)
        BY <1>2 DEF RxInv
      <4>2. PICK c : Layout(ReadAt(capr), rx_addr, ring, n, c)
        BY <4>1
      <4>3. n = 0 => ReadAt(capr) = rx_addr
        BY <1>2, <4>2, RxFacts, LayoutFacts
      <4>4. n > 0
        BY <1>2, <3>1, <4>3 DEF RxInv
      <4> QED
        BY <1>2, <4>2, <4>4, StoredIs
    <3> QED
      BY <3>1, <3>2, <3>3 DEF Received!Next, Received!HandOn
  <2>8. CASE WriteCapr
    <3>1. drv.pc = "capr" /\ drv'.pc = "test" /\ handed' = handed
      BY <1>2, <2>8 DEF WriteCapr, RxInv
    <3> QED
      BY <1>2, <2>8, <3>1, StoredShrinks
  <2> QED
    BY <1>2, <2>1, <2>2, <2>3, <2>4, <2>5, <2>6, <2>7, <2>8, RxSteps
    DEF RxStep, RxInv, Received!Next
<1> QED
  BY <1>1, <1>2, RxInitially, RxPreserved, PTL
  DEF Spec, ImplementsRx, Received!Spec, Received!vars
=============================================================================
