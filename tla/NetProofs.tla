------------------------------ MODULE NetProofs ------------------------------
(***************************************************************************)
(* Proofs about module Net, for any hosts, any size of the cache, any number*)
(* of transmit descriptors and any number of probes.                        *)
(***************************************************************************)
EXTENDS Net, FiniteSetTheorems, TLAPS

\* The probes that have been judged when ping is at p.
Judged(p) == IF p.pc = "idle" THEN 0 ELSE IF p.pc = "pause" THEN p.seq ELSE p.seq - 1

----------------------------------------------------------------------------
(* The inductive invariant, one conjunct for each part of the state *)

\* The cache holds what the hosts said of themselves, and each host once.
EntriesTrue == \A i \in DOMAIN arp_cache : arp_cache[i].mac = arp_cache[i].ip

CacheOK ==
    /\ arp_cache \in Seq([ip : Local, mac : Local]) /\ Len(arp_cache) <= CacheSize
    /\ displaced \in BOOLEAN
    /\ EntriesTrue /\ OneEntryPerHost

\* A frame is addressed as it should be; an echo request carries a sequence
\* number.
Addressed(frame) == frame.kind \in {"is", "echo", "reply"} => frame.mac = frame.hop
Numbered(frame) == frame.kind = "echo" => frame.seq \in 1 .. Count

TxOK ==
    /\ tx_buf \in [0 .. TxSlots - 1 -> Frames] /\ tx_next \in 0 .. TxSlots - 1
    /\ asked \subseteq 1 .. Count
    /\ \A n \in DOMAIN tx_buf : Numbered(tx_buf[n])

\* While ping runs it has a destination and a sequence number.  The entry it
\* found still exists and, unless the cache has been overfull, is still that of
\* its next hop; so is the address it copied.
PingTypes ==
    [pc : {"idle", "probe", "resolve", "copy", "built", "polled", "filled", "wait", "woken", "pause"},
     on : BOOLEAN, dst : Host \cup {Nobody}, seq : 0 .. Count, received : Nat,
     entry : 1 .. CacheSize, mac : Local \cup {Nobody}, slot : 0 .. TxSlots - 1]

PingOK ==
    /\ ping \in PingTypes
    /\ ping.pc # "idle" => ping.dst \in Host /\ ping.seq \in 1 .. Count
    /\ ping.pc = "copy" =>
          /\ ping.entry \in DOMAIN arp_cache
          /\ ~displaced => arp_cache[ping.entry].ip = NextHop(ping.dst)
    /\ ping.pc \in {"built", "polled"} /\ ~displaced => ping.mac = NextHop(ping.dst)

RxOK ==
    /\ rx \in [busy : BOOLEAN, over : BOOLEAN, hop : Local \cup {Nobody}]
    /\ WaitsInVain

\* The reply that will be counted for the current probe came in during it, for
\* a request of this ping; only judged probes are counted, each at most once.
Probing(p) == p.pc \notin {"idle", "probe", "pause"}
GotInTime(p) == Probing(p) /\ got = p.seq => got \in answered
CountedInTime(p) == p.received <= Cardinality(answered \cap (1 .. Judged(p)))

CountOK ==
    /\ got \in 0 .. Count /\ answered \subseteq 1 .. Count /\ mistaken \in BOOLEAN
    /\ ping.received <= Judged(ping)
    /\ ~mistaken => GotInTime(ping) /\ CountedInTime(ping)

IInv == CacheOK /\ TxOK /\ AddressedRight /\ PingOK /\ RxOK /\ CountOK

----------------------------------------------------------------------------
(* Lemmas *)

\* The gateway is local, so the next hop of any host is.
LEMMA NextHopLocal ==
    ASSUME NEW ip \in Host
    PROVE  NextHop(ip) \in Local
BY NetAssumption DEF NextHop, Host

\* An element of a sequence over T is in T.
LEMMA SeqElement ==
    ASSUME NEW T, NEW s \in Seq(T), NEW i \in DOMAIN s
    PROVE  s[i] \in T
OBVIOUS

\* The linear search of the ARP cache returns an entry of the address asked for.
LEMMA LookupFinds ==
    ASSUME NEW ip, Cached(ip)
    PROVE  Lookup(ip) \in DOMAIN arp_cache /\ arp_cache[Lookup(ip)].ip = ip
BY DEF Lookup, Cached

\* An update keeps the cache in order, and each entry in its place as long as
\* there is room.
LEMMA UpdateKeepsCache ==
    ASSUME CacheOK, NEW ip \in Local, arp_cache_update(ip)
    PROVE  /\ CacheOK'
           /\ DOMAIN arp_cache \subseteq DOMAIN arp_cache'
           /\ displaced => displaced'
           /\ ~displaced' => \A i \in DOMAIN arp_cache : arp_cache'[i].ip = arp_cache[i].ip
<1> DEFINE e == [ip |-> ip, mac |-> ip]
<1>1. arp_cache' = Updated(ip)
  BY DEF arp_cache_update
<1>2. e \in [ip : Local, mac : Local] /\ e.ip = ip /\ e.mac = ip
  OBVIOUS
<1> HIDE DEF e
<1>3. displaced' \in BOOLEAN /\ (displaced => displaced')
  BY DEF arp_cache_update, CacheOK
<1>4. CASE Cached(ip)
  <2>1. Updated(ip) = [arp_cache EXCEPT ![Lookup(ip)] = e]
    BY <1>4 DEF Updated, e
  <2>2. Lookup(ip) \in DOMAIN arp_cache /\ arp_cache[Lookup(ip)].ip = ip
    BY <1>4, LookupFinds
  <2> QED
    BY <1>1, <1>2, <1>3, <2>1, <2>2 DEF CacheOK, EntriesTrue, OneEntryPerHost
<1>5. CASE ~Cached(ip) /\ Len(arp_cache) < CacheSize
  <2>1. Updated(ip) = Append(arp_cache, e)
    BY <1>5 DEF Updated, e
  <2> QED
    BY <1>1, <1>2, <1>3, <1>5, <2>1, NetAssumption
       DEF CacheOK, EntriesTrue, OneEntryPerHost, Cached
<1>6. CASE ~Cached(ip) /\ Len(arp_cache) = CacheSize
  <2> ~(Len(arp_cache) < CacheSize)
    BY <1>6, NetAssumption DEF CacheOK
  <2>1. Updated(ip) = [arp_cache EXCEPT ![1] = e]
    BY <1>6 DEF Updated, e
  <2>3. displaced'
    BY <1>6 DEF arp_cache_update
  <2>2. 1 \in DOMAIN arp_cache
    BY <1>6, NetAssumption DEF CacheOK
  <2> QED
    BY <1>1, <1>2, <1>3, <1>6, <2>1, <2>2, <2>3 DEF CacheOK, EntriesTrue, OneEntryPerHost, Cached
<1> QED
  BY <1>4, <1>5, <1>6, NetAssumption DEF CacheOK

\* Whatever goes through rtl8139_send, the buffers stay in order.
LEMMA SendKeepsBuffers ==
    ASSUME TxOK, NEW frame \in Frames, Numbered(frame), rtl8139_send(frame)
    PROVE  /\ TxOK'
           /\ (\A n \in DOMAIN tx_buf : Addressed(tx_buf[n])) /\ Addressed(frame)
                => \A n \in DOMAIN tx_buf' : Addressed(tx_buf'[n])
<1>1. CASE UNCHANGED txVars
  BY <1>1 DEF TxOK, txVars
<1>2. CASE /\ tx_buf' = [tx_buf EXCEPT ![tx_next] = frame]
           /\ tx_next' = (tx_next + 1) % TxSlots
           /\ Sent(frame)
  <2>1. tx_next' \in 0 .. TxSlots - 1
    BY <1>2, NetAssumption DEF TxOK
  <2>2. asked' \subseteq 1 .. Count
    BY <1>2 DEF Sent, Numbered, TxOK
  <2> QED
    BY <1>2, <2>1, <2>2 DEF TxOK, Numbered
<1> QED
  BY <1>1, <1>2 DEF rtl8139_send

\* Each kind of frame the code builds is one.
LEMMA FrameType ==
    ASSUME NEW kind \in {"who", "is", "echo", "reply"}, NEW hop \in Local,
           NEW mac \in Local \cup {Nobody, Everybody}, NEW seq \in 0 .. Count
    PROVE  Frame(kind, hop, mac, seq) \in Frames
BY DEF Frame, Frames

\* Counting over more answers, up to a later probe, gives no less.
LEMMA CountGrows ==
    ASSUME NEW A, NEW B, A \subseteq B, NEW j \in Nat, NEW k \in Nat, j <= k
    PROVE  /\ Cardinality(A \cap (1 .. j)) \in Nat
           /\ Cardinality(B \cap (1 .. k)) \in Nat
           /\ Cardinality(A \cap (1 .. j)) <= Cardinality(B \cap (1 .. k))
           /\ Cardinality(A \cap (1 .. j)) <= j
<1>1. IsFiniteSet(1 .. j) /\ IsFiniteSet(1 .. k) /\ Cardinality(1 .. j) = j
  BY FS_Interval
<1>2. A \cap (1 .. j) \subseteq B \cap (1 .. k)
  OBVIOUS
<1>3. IsFiniteSet(B \cap (1 .. k)) /\ IsFiniteSet(A \cap (1 .. j))
  BY <1>1, FS_Subset
<1> QED
  BY <1>1, <1>2, <1>3, FS_Subset, FS_CardinalityType

\* The answers up to a probe can be counted.
LEMMA CountType ==
    ASSUME NEW A, NEW k \in Nat
    PROVE  Cardinality(A \cap (1 .. k)) \in Nat
<1>1. IsFiniteSet(1 .. k)
  BY FS_Interval
<1>2. IsFiniteSet(A \cap (1 .. k))
  BY <1>1, FS_Subset
<1> QED
  BY <1>2, FS_CardinalityType

\* One answered probe more.
LEMMA CountsAnswered ==
    ASSUME NEW A, NEW k \in Nat \ {0}, k \in A
    PROVE  Cardinality(A \cap (1 .. k)) = Cardinality(A \cap (1 .. k - 1)) + 1
<1> DEFINE before == A \cap (1 .. k - 1)
<1>1. A \cap (1 .. k) = before \cup {k} /\ k \notin before
  OBVIOUS
<1>2. IsFiniteSet(before)
  BY FS_Interval, FS_Subset
<1> QED
  BY <1>1, <1>2, FS_AddElement

\* A step that judges no probe and forgets no answer keeps the count in order.
LEMMA CountKept ==
    ASSUME CountOK, PingOK, PingOK', answered \subseteq answered', answered' \subseteq 1 .. Count,
           got' \in 0 .. Count, mistaken' \in BOOLEAN, mistaken => mistaken',
           ~mistaken' => GotInTime(ping)',
           \/ ping'.received = ping.received /\ Judged(ping) <= Judged(ping')
           \/ ping'.received = 0
    PROVE  CountOK'
<1> DEFINE j == Judged(ping)
           k == Judged(ping')
<1>1. j \in Nat /\ k \in Nat /\ Judged(ping)' = k
  BY DEF PingOK, PingTypes, Judged
<1>2. ping'.received <= k
  BY <1>1 DEF CountOK, PingOK, PingTypes
<1>3. ~mistaken' => ping'.received <= Cardinality(answered' \cap (1 .. k))
  <2> HIDE DEF j, k
  <2>2. Cardinality(answered' \cap (1 .. k)) \in Nat
    BY <1>1, CountType
  <2>3. j <= k => Cardinality(answered \cap (1 .. j)) <= Cardinality(answered' \cap (1 .. k))
    BY <1>1, CountGrows
  <2>4. Cardinality(answered \cap (1 .. j)) \in Nat
    BY <1>1, CountType
  <2>5. ~mistaken' => ping.received <= Cardinality(answered \cap (1 .. j))
    BY DEF CountOK, CountedInTime, j
  <2>6. ping.received \in Nat /\ ping'.received \in Nat
    BY DEF PingOK, PingTypes
  <2> QED
    BY <1>1, <2>2, <2>3, <2>4, <2>5, <2>6 DEF j, k
<1>4. ~mistaken' => CountedInTime(ping)'
  BY <1>1, <1>3 DEF CountedInTime
<1> QED
  BY <1>1, <1>2, <1>4 DEF CountOK

\* A step that touches none of it keeps it.
LEMMA CountSame ==
    ASSUME CountOK, UNCHANGED <<ping, got, replyVars>>
    PROVE  CountOK'
BY DEF CountOK, GotInTime, CountedInTime, Probing, Judged, replyVars

\* So does a step of ping that takes no reply and no answer back.
LEMMA CountUntouched ==
    ASSUME CountOK, PingOK, PingOK', UNCHANGED <<got, replyVars>>,
           Probing(ping') => Probing(ping) /\ ping'.seq = ping.seq,
           \/ ping'.received = ping.received /\ Judged(ping) <= Judged(ping')
           \/ ping'.received = 0
    PROVE  CountOK'
<1>1. ~mistaken' => GotInTime(ping)'
  BY DEF CountOK, GotInTime, Probing, replyVars
<1> QED
  BY <1>1, CountKept DEF CountOK, replyVars

----------------------------------------------------------------------------
(* The invariant holds at the start and is kept by every step *)

\* A step that leaves the cache, the transmit buffers and the interrupt alone.
LEMMA PingAlone ==
    ASSUME IInv, UNCHANGED <<arp_cache, displaced, txVars, rx>>, PingOK', CountOK'
    PROVE  IInv'
BY DEF IInv, CacheOK, EntriesTrue, OneEntryPerHost, TxOK, txVars, AddressedRight, RxOK,
       WaitsInVain, Cached

\* After boot the cache is empty and nothing is under way.
LEMMA InitInv == Init => IInv
<1> SUFFICES ASSUME Init PROVE IInv
  OBVIOUS
<1>1. CacheOK
  <2>1. arp_cache = <<>> /\ Len(arp_cache) = 0 /\ DOMAIN arp_cache = {}
    BY DEF Init
  <2>2. arp_cache \in Seq([ip : Local, mac : Local])
    BY <2>1
  <2>3. displaced \in BOOLEAN
    BY DEF Init
  <2> QED
    BY <2>1, <2>2, <2>3, NetAssumption DEF CacheOK, EntriesTrue, OneEntryPerHost
<1>2. RxOK
  BY DEF Init, RxOK, WaitsInVain
<1>3. PingOK
  BY NetAssumption DEF Init, PingOK, PingTypes
<1>4. TxOK /\ AddressedRight
  BY NetAssumption DEF Init, TxOK, AddressedRight, Frames, Frame, Numbered
<1>5. CountOK
  <2>1. Judged(ping) = 0 /\ ping.received = 0 /\ ~Probing(ping) /\ answered = {}
    BY DEF Init, Judged, Probing
  <2>2. Cardinality(answered \cap (1 .. Judged(ping))) = 0
    <3>1. answered \cap (1 .. Judged(ping)) = {}
      BY <2>1
    <3> QED
      BY <3>1, FS_EmptySet
  <2>3. CountedInTime(ping) /\ GotInTime(ping)
    BY <2>1, <2>2 DEF CountedInTime, GotInTime
  <2>4. got \in 0 .. Count /\ mistaken \in BOOLEAN
    <3>1. got = 0 /\ Count \in Nat
      BY NetAssumption DEF Init
    <3>2. got \in 0 .. Count
      BY <3>1
    <3>3. mistaken \in BOOLEAN
      BY Zenon DEF Init
    <3> QED
      BY <3>2, <3>3
  <2>5. answered \subseteq 1 .. Count
    BY <2>1
  <2> QED
    BY <2>1, <2>3, <2>4, <2>5 DEF CountOK
<1> QED
  BY <1>1, <1>2, <1>3, <1>4, <1>5 DEF IInv

\* NextProbe ends a round of ping.
LEMMA NextProbeFacts ==
    ASSUME PingOK, NEW p \in PingTypes, p.dst = ping.dst, p.seq = ping.seq,
           p.received = ping.received, ping.pc # "idle", p.pc = ping.pc,
           ping' = NextProbe(p), UNCHANGED <<arp_cache, displaced>>
    PROVE  /\ PingOK' /\ ~Probing(ping')
           /\ \/ ping'.received = ping.received /\ Judged(ping) <= Judged(ping')
              \/ ping'.received = 0
<1>1. ping.dst \in Host /\ ping.seq \in 1 .. Count
  BY DEF PingOK
<1>2. CASE p.seq < Count
  <2>1. ping' = [p EXCEPT !.pc = "probe", !.seq = p.seq + 1]
    BY <1>2 DEF NextProbe, PingTypes
  <2>2. p.seq + 1 \in 1 .. Count
    BY <1>1, <1>2, NetAssumption
  <2>3. ping' \in PingTypes
    <3>1. ping' = [pc |-> "probe", on |-> p.on, dst |-> p.dst, seq |-> p.seq + 1,
                   received |-> p.received, entry |-> p.entry, mac |-> p.mac, slot |-> p.slot]
      BY <2>1 DEF PingTypes
    <3> QED
      BY <2>2, <3>1 DEF PingTypes
  <2>4. ping'.pc = "probe" /\ ping'.seq = ping.seq + 1 /\ ping'.dst = ping.dst
        /\ ping'.received = ping.received
    BY <2>1 DEF PingTypes
  <2>5. PingOK'
    BY <1>1, <2>2, <2>3, <2>4 DEF PingOK
  <2>6. Judged(ping) <= Judged(ping')
    BY <1>1, <2>4, NetAssumption DEF Judged
  <2> QED
    BY <2>4, <2>5, <2>6 DEF Probing
<1>3. CASE ~(p.seq < Count)
  <2>1. ping' = [pc |-> "idle", on |-> FALSE, dst |-> Nobody, seq |-> 0, received |-> 0,
                 entry |-> p.entry, mac |-> p.mac, slot |-> p.slot]
    BY <1>3 DEF NextProbe, PingTypes
  <2>2. ping' \in PingTypes
    BY <2>1, NetAssumption, SMTT(60) DEF PingTypes
  <2>3. ping'.pc = "idle" /\ ping'.received = 0
    BY <2>1
  <2> QED
    BY <2>2, <2>3 DEF PingOK, Probing
<1> QED
  BY <1>2, <1>3
(* Steps of ping *)

\* A program calls ping.
LEMMA StartInv ==
    ASSUME IInv, NEW ip \in Host, Start(ip)
    PROVE  IInv'
<1> USE DEF Start
<1>1. ping' \in PingTypes
  <2> DEFINE p == [ping EXCEPT !.pc = "probe", !.on = FALSE]
  <2>1. p \in PingTypes
    BY DEF IInv, PingOK, PingTypes
  <2>2. ping' = [p EXCEPT !.dst = ip, !.seq = 1]
    BY DEF IInv, PingOK, PingTypes
  <2>3. 1 \in 0 .. Count
    BY NetAssumption
  <2> HIDE DEF p
  <2> QED
    BY <2>1, <2>2, <2>3, ZenonT(30) DEF PingTypes
<1>2. /\ ping'.pc = "probe" /\ ping'.dst = ip /\ ping'.seq = 1
      /\ ping'.received = ping.received
  BY DEF IInv, PingOK, PingTypes
<1>3. PingOK'
  BY <1>1, <1>2, NetAssumption DEF PingOK
<1>4. ping.received = 0
  BY DEF IInv, PingOK, PingTypes, CountOK, Judged
<1>5. CountOK'
  <2>1. Judged(ping') = 0 /\ Judged(ping)' = 0 /\ ping'.received = 0
    BY <1>2, <1>4 DEF Judged
  <2>2. Cardinality(answered' \cap (1 .. Judged(ping'))) = 0
    <3>1. answered' \cap (1 .. Judged(ping')) = {}
      OBVIOUS
    <3> QED
      BY <3>1, FS_EmptySet
  <2>3. CountedInTime(ping)'
    BY <2>1, <2>2 DEF CountedInTime
  <2>4. GotInTime(ping)'
    BY <1>2 DEF GotInTime, Probing
  <2>5. got' \in 0 .. Count /\ answered' \subseteq 1 .. Count /\ mistaken' \in BOOLEAN
    BY DEF IInv, CountOK
  <2> HIDE DEF Start
  <2> QED
    BY <2>1, <2>3, <2>4, <2>5 DEF CountOK
<1>6. TxOK' /\ AddressedRight'
  BY DEF IInv, TxOK, AddressedRight
<1> QED
  BY <1>3, <1>5, <1>6 DEF IInv, CacheOK, EntriesTrue, OneEntryPerHost, RxOK, WaitsInVain, Cached

\* ping goes on to another place in the same round.
SameRound ==
    /\ ping' \in PingTypes
    /\ ping.pc # "idle" /\ ping.pc # "pause" /\ ping'.pc # "idle" /\ ping'.pc # "pause"
    /\ ping'.dst = ping.dst /\ ping'.seq = ping.seq /\ ping'.received = ping.received

\* Such a step judges no probe.
LEMMA SameRoundCounts ==
    ASSUME PingOK, SameRound
    PROVE  Judged(ping) <= Judged(ping') /\ ping'.received = ping.received
BY DEF SameRound, PingOK, PingTypes, Judged

\* The old reply is forgotten before a request is built.
LEMMA ProbeForgets ==
    ASSUME PingOK, SameRound, got' = 0
    PROVE  GotInTime(ping)'
BY NetAssumption DEF SameRound, PingOK, PingTypes, GotInTime

\* A step in the middle of a round keeps the count in order.
LEMMA SameRoundKeeps ==
    ASSUME IInv, SameRound, PingOK', ping.pc # "probe", UNCHANGED <<got, replyVars>>
    PROVE  CountOK'
<1>1. Probing(ping) /\ ping'.seq = ping.seq
  BY DEF SameRound, Probing
<1>2. Judged(ping) <= Judged(ping') /\ ping'.received = ping.received
  BY SameRoundCounts DEF IInv
<1> QED
  BY <1>1, <1>2, CountUntouched DEF IInv

\* ping builds a request and looks into the cache; it may ask for the next hop.
LEMMA ProbeInv ==
    ASSUME IInv, Probe
    PROVE  IInv'
<1> DEFINE hop == NextHop(ping.dst)
<1>1. hop \in Local
  BY NextHopLocal DEF Probe, IInv, PingOK
<1>2. CASE Cached(hop) /\ ping' = [ping EXCEPT !.pc = "copy", !.entry = Lookup(hop)] /\ UNCHANGED txVars
  <2>1. Lookup(hop) \in DOMAIN arp_cache /\ arp_cache[Lookup(hop)].ip = hop
    BY <1>2, LookupFinds
  <2>2. Lookup(hop) \in 1 .. CacheSize
    BY <2>1, NetAssumption DEF IInv, CacheOK
  <2> HIDE DEF hop
  <2>3. SameRound /\ ping'.pc = "copy" /\ ping'.entry = Lookup(hop)
    BY <1>2, <2>2 DEF Probe, SameRound, IInv, PingOK, PingTypes
  <2>4. PingOK'
    BY <2>1, <2>3 DEF Probe, PingOK, SameRound, IInv, hop
  <2>5. CountOK'
    BY <2>3, <2>4, SameRoundCounts, ProbeForgets, CountKept, NetAssumption DEF Probe, IInv, CountOK, replyVars
  <2> QED
    BY <1>2, <2>4, <2>5, PingAlone DEF Probe
<1>3. CASE ~Cached(hop) /\ ping' = [ping EXCEPT !.pc = "resolve", !.on = TRUE] /\ rtl8139_send(Who(hop))
  <2> HIDE DEF hop
  <2>1. SameRound /\ ping'.pc = "resolve"
    BY <1>3 DEF Probe, SameRound, IInv, PingOK, PingTypes
  <2>2. PingOK'
    BY <2>1 DEF Probe, PingOK, SameRound, IInv
  <2>3. CountOK'
    BY <2>1, <2>2, SameRoundCounts, ProbeForgets, CountKept, NetAssumption DEF Probe, IInv, CountOK, replyVars
  <2>4. TxOK' /\ AddressedRight'
    <3>1. Who(hop) \in Frames /\ Numbered(Who(hop)) /\ Addressed(Who(hop))
      BY <1>1, FrameType, NetAssumption DEF Who, Frame, Numbered, Addressed
    <3> QED
      BY <1>3, <3>1, SendKeepsBuffers DEF Probe, IInv, AddressedRight, Addressed
  <2> QED
    BY <2>2, <2>3, <2>4 DEF Probe, IInv, CacheOK, EntriesTrue, OneEntryPerHost, RxOK, WaitsInVain, Cached
<1> QED
  BY <1>2, <1>3 DEF Probe
\* arp_resolve finds the entry while it polls.
LEMMA ResolvedInv ==
    ASSUME IInv, Resolved
    PROVE  IInv'
<1> DEFINE hop == NextHop(ping.dst)
<1>1. Lookup(hop) \in DOMAIN arp_cache /\ arp_cache[Lookup(hop)].ip = hop
  BY LookupFinds DEF Resolved
<1>2. Lookup(hop) \in 1 .. CacheSize
  BY <1>1, NetAssumption DEF IInv, CacheOK
<1> HIDE DEF hop
<1>3. SameRound /\ ping'.pc = "copy" /\ ping'.entry = Lookup(hop)
  BY <1>2 DEF Resolved, SameRound, IInv, PingOK, PingTypes, hop
<1>4. PingOK'
  BY <1>1, <1>3 DEF Resolved, PingOK, SameRound, IInv, hop
<1>5. CountOK'
  BY <1>3, <1>4, SameRoundKeeps DEF Resolved
<1> QED
  BY <1>4, <1>5, PingAlone DEF Resolved

\* The address is copied out of the entry found before.
LEMMA CopyMacInv ==
    ASSUME IInv, CopyMac
    PROVE  IInv'
<1>1. arp_cache[ping.entry].mac \in Local /\ arp_cache[ping.entry].mac = arp_cache[ping.entry].ip
  <2>1. ping.entry \in DOMAIN arp_cache
    BY DEF CopyMac, IInv, PingOK
  <2>2. arp_cache[ping.entry] \in [ip : Local, mac : Local]
    BY <2>1, SeqElement DEF IInv, CacheOK
  <2> QED
    BY <2>1, <2>2 DEF IInv, CacheOK, EntriesTrue
<1>2. SameRound /\ ping'.pc = "built" /\ ping'.mac = arp_cache[ping.entry].mac
  BY <1>1 DEF CopyMac, SameRound, IInv, PingOK, PingTypes
<1>3. PingOK'
  BY <1>1, <1>2 DEF CopyMac, PingOK, SameRound, IInv
<1>4. CountOK'
  BY <1>2, <1>3, SameRoundKeeps DEF CopyMac
<1> QED
  BY <1>3, <1>4, PingAlone DEF CopyMac

\* Steps that end a probe early, or the pause behind it.
LEMMA NextProbeInv ==
    ASSUME IInv, NEW p \in PingTypes, p.dst = ping.dst, p.seq = ping.seq,
           p.received = ping.received, ping.pc # "idle", p.pc = ping.pc,
           ping' = NextProbe(p),
           UNCHANGED <<arp_cache, displaced, txVars, rx, got, replyVars>>
    PROVE  IInv'
<1>1. /\ PingOK' /\ ~Probing(ping')
      /\ \/ ping'.received = ping.received /\ Judged(ping) <= Judged(ping')
         \/ ping'.received = 0
  BY NextProbeFacts DEF IInv
<1>2. CountOK'
  BY <1>1, CountUntouched DEF IInv
<1> QED
  BY <1>1, <1>2, PingAlone

\* arp_resolve gives up, or ping's pause ends, with interrupts off.
LEMMA NotResolvedInv ==
    ASSUME IInv, NotResolved \/ EndPause
    PROVE  IInv'
<1> DEFINE p == [ping EXCEPT !.on = FALSE]
<1>1. /\ p \in PingTypes /\ p.dst = ping.dst /\ p.seq = ping.seq
      /\ p.received = ping.received /\ p.pc = ping.pc
  BY DEF IInv, PingOK, PingTypes
<1> HIDE DEF p
<1>2. ping.pc # "idle" /\ ping' = NextProbe(p)
  BY DEF NotResolved, EndPause, p
<1> QED
  BY <1>1, <1>2, NextProbeInv DEF NotResolved, EndPause

\* The local variables of ip_send and rtl8139_send end; the rest of ping stays.
LEMMA ReturnedType ==
    ASSUME NEW q \in PingTypes
    PROVE  /\ Returned(q) \in PingTypes /\ Returned(q).dst = q.dst /\ Returned(q).seq = q.seq
           /\ Returned(q).received = q.received /\ Returned(q).pc = q.pc
<1> DEFINE p == [q EXCEPT !.entry = 1]
<1>1. /\ p \in PingTypes /\ p.dst = q.dst /\ p.seq = q.seq
      /\ p.received = q.received /\ p.pc = q.pc
  BY NetAssumption DEF PingTypes
<1>2. Returned(q) = [p EXCEPT !.mac = Nobody, !.slot = 0]
  BY DEF Returned
<1>3. 0 \in 0 .. TxSlots - 1
  BY NetAssumption
<1> HIDE DEF p
<1> QED
  BY <1>1, <1>2, <1>3 DEF PingTypes

\* The next descriptor is polled.
LEMMA PollTxInv ==
    ASSUME IInv, PollTx
    PROVE  IInv'
<1>1. SameRound /\ ping'.pc = "polled" /\ ping'.mac = ping.mac
  BY DEF PollTx, SameRound, IInv, PingOK, PingTypes, TxOK
<1>2. PingOK'
  BY <1>1 DEF PollTx, PingOK, SameRound, IInv
<1>3. CountOK'
  BY <1>1, <1>2, SameRoundKeeps DEF PollTx
<1> QED
  BY <1>2, <1>3, PingAlone DEF PollTx

\* The card does not give the descriptor back in time.
LEMMA NotSentInv ==
    ASSUME IInv, NotSent
    PROVE  IInv'
<1> DEFINE p == Returned(ping)
<1>1. /\ p \in PingTypes /\ p.dst = ping.dst /\ p.seq = ping.seq
      /\ p.received = ping.received /\ p.pc = ping.pc
  BY ReturnedType DEF IInv, PingOK
<1>2. ping.pc # "idle" /\ ping' = NextProbe(p)
  BY DEF NotSent
<1> HIDE DEF p
<1> QED
  BY <1>1, <1>2, NextProbeInv DEF NotSent

\* The echo request is copied into the buffer of the next descriptor.
LEMMA FillTxInv ==
    ASSUME IInv, FillTx
    PROVE  IInv'
<1>1. NextHop(ping.dst) \in Local
  BY NextHopLocal DEF FillTx, IInv, PingOK
<1>2. PingFrame \in Frames /\ Numbered(PingFrame) /\ (~displaced => Addressed(PingFrame))
  BY <1>1, FrameType, NetAssumption
     DEF FillTx, IInv, PingOK, PingTypes, PingFrame, Frame, Numbered, Addressed
<1> PICK n \in {ping.slot, tx_next} :
          /\ tx_buf' = [tx_buf EXCEPT ![n] = PingFrame]
          /\ ping' = [ping EXCEPT !.pc = "filled", !.slot = n]
  BY DEF FillTx
<1>0. n \in 0 .. TxSlots - 1
  BY DEF IInv, PingOK, PingTypes, TxOK
<1>3. SameRound /\ ping'.pc = "filled"
  BY <1>0 DEF FillTx, SameRound, IInv, PingOK, PingTypes
<1>4. PingOK'
  BY <1>3 DEF FillTx, PingOK, SameRound, IInv
<1>5. CountOK'
  BY <1>3, <1>4, SameRoundKeeps DEF FillTx
<1>6. TxOK'
  BY <1>0, <1>2 DEF FillTx, IInv, TxOK
<1>7. AddressedRight'
  BY <1>0, <1>2 DEF FillTx, IInv, TxOK, AddressedRight, Addressed
<1> QED
  BY <1>4, <1>5, <1>6, <1>7
     DEF FillTx, IInv, CacheOK, EntriesTrue, OneEntryPerHost, RxOK, WaitsInVain, Cached

\* The card is told to send, from whichever descriptor.
LEMMA FireTxInv ==
    ASSUME IInv, FireTx
    PROVE  IInv'
<1>1. PICK n, m \in {ping.slot, tx_next} : Sent(tx_buf[n]) /\ tx_next' = (m + 1) % TxSlots
  BY DEF FireTx
<1>2. n \in 0 .. TxSlots - 1 /\ m \in 0 .. TxSlots - 1
  BY DEF IInv, PingOK, PingTypes, TxOK
<1>3. TxOK'
  <2>1. tx_next' \in 0 .. TxSlots - 1
    BY <1>1, <1>2, NetAssumption
  <2>2. asked' \subseteq 1 .. Count
    BY <1>1, <1>2 DEF Sent, Numbered, IInv, TxOK
  <2> QED
    BY <2>1, <2>2 DEF FireTx, IInv, TxOK
<1>4. AddressedRight'
  BY DEF FireTx, IInv, AddressedRight
<1>5. SameRound /\ ping'.pc = "wait"
  <2> DEFINE p == Returned(ping)
  <2>1. /\ p \in PingTypes /\ p.dst = ping.dst /\ p.seq = ping.seq
        /\ p.received = ping.received
    BY ReturnedType DEF IInv, PingOK
  <2>2. ping' = [p EXCEPT !.pc = "wait", !.on = TRUE] /\ ping.pc = "filled"
    BY DEF FireTx
  <2> HIDE DEF p
  <2> QED
    BY <2>1, <2>2 DEF SameRound, PingTypes
<1>6. PingOK'
  BY <1>5 DEF FireTx, PingOK, SameRound, IInv
<1>7. CountOK'
  BY <1>5, <1>6, SameRoundKeeps DEF FireTx
<1> QED
  BY <1>3, <1>4, <1>6, <1>7
     DEF FireTx, IInv, CacheOK, EntriesTrue, OneEntryPerHost, RxOK, WaitsInVain, Cached
\* ping stops waiting for a reply.
LEMMA EndWaitInv ==
    ASSUME IInv, EndWait
    PROVE  IInv'
<1>1. SameRound /\ ping'.pc = "woken"
  BY DEF EndWait, SameRound, IInv, PingOK, PingTypes
<1>2. PingOK'
  BY <1>1 DEF EndWait, PingOK, SameRound, IInv
<1>3. CountOK'
  BY <1>1, <1>2, SameRoundKeeps DEF EndWait
<1> QED
  BY <1>2, <1>3, PingAlone DEF EndWait

\* The only step that counts: the probe judged now is one more than all counted
\* before, and its reply has come in.
LEMMA JudgeInv ==
    ASSUME IInv, Judge
    PROVE  IInv'
<1> DEFINE k == ping.seq
<1>1. k \in 1 .. Count /\ k \in Nat \ {0} /\ ping.received \in Nat
  BY NetAssumption DEF Judge, IInv, PingOK, PingTypes
<1>2. /\ ping' \in PingTypes /\ ping'.pc = "pause" /\ ping'.dst = ping.dst /\ ping'.seq = k
      /\ ping'.received = IF got = k THEN ping.received + 1 ELSE ping.received
  <2> DEFINE r == IF got = k THEN ping.received + 1 ELSE ping.received
  <2>1. r \in Nat
    BY <1>1
  <2>2. ping' = [ping EXCEPT !.pc = "pause", !.received = r]
    BY DEF Judge, Counts, IInv, PingOK, PingTypes
  <2>3. ping \in PingTypes
    BY DEF IInv, PingOK
  <2> HIDE DEF r
  <2>4. /\ ping' \in PingTypes /\ ping'.pc = "pause" /\ ping'.dst = ping.dst /\ ping'.seq = ping.seq
        /\ ping'.received = r
    BY <2>1, <2>2, <2>3 DEF PingTypes
  <2> QED
    BY <2>4 DEF r
<1>3. PingOK'
  BY <1>2 DEF Judge, PingOK, IInv
<1>4. Judged(ping) = k - 1 /\ Judged(ping') = k
  BY <1>2 DEF Judge, Judged
<1>5. /\ ping.received <= k - 1
      /\ ~mistaken => ping.received <= Cardinality(answered \cap (1 .. k - 1))
      /\ ~mistaken /\ got = k => k \in answered
  BY <1>4 DEF Judge, IInv, CountOK, GotInTime, CountedInTime, Probing
<1>6. UNCHANGED <<got, answered, mistaken>>
  BY DEF Judge, replyVars
<1> HIDE DEF k
<1>7. ping'.received <= k
  BY <1>1, <1>2, <1>5
<1>8. ~mistaken => ping'.received <= Cardinality(answered \cap (1 .. k))
  <2> SUFFICES ASSUME ~mistaken PROVE ping'.received <= Cardinality(answered \cap (1 .. k))
    OBVIOUS
  <2> DEFINE j == k - 1
  <2>1. j \in Nat /\ k \in Nat /\ j <= k
    BY <1>1
  <2> HIDE DEF j
  <2>2. /\ Cardinality(answered \cap (1 .. k)) \in Nat
        /\ Cardinality(answered \cap (1 .. j)) \in Nat
        /\ Cardinality(answered \cap (1 .. j)) <= Cardinality(answered \cap (1 .. k))
    BY <2>1, CountType, CountGrows
  <2>3. /\ Cardinality(answered \cap (1 .. k)) \in Nat
        /\ Cardinality(answered \cap (1 .. k - 1)) \in Nat
        /\ Cardinality(answered \cap (1 .. k - 1)) <= Cardinality(answered \cap (1 .. k))
    BY <2>2 DEF j
  <2>4. CASE got = k
    <3>1. k \in answered
      BY <1>5, <2>4
    <3>2. Cardinality(answered \cap (1 .. k)) = Cardinality(answered \cap (1 .. k - 1)) + 1
      BY <1>1, <3>1, CountsAnswered
    <3> QED
      BY <1>1, <1>2, <1>5, <2>3, <2>4, <3>2
  <2>5. CASE got # k
    BY <1>1, <1>2, <1>5, <2>3, <2>5
  <2> QED
    BY <2>4, <2>5
<1>9. CountOK'
  <2>1. Judged(ping)' = k
    BY <1>4
  <2>2. ~mistaken' => CountedInTime(ping)' /\ GotInTime(ping)'
    BY <1>2, <1>6, <1>8, <2>1 DEF CountedInTime, GotInTime, Probing
  <2> QED
    BY <1>6, <1>7, <2>1, <2>2 DEF IInv, CountOK
<1> QED
  BY <1>3, <1>9, PingAlone DEF Judge

(* Steps of the receive interrupt *)

\* An ARP packet updates the cache and may be answered.
LEMMA ArpInInv ==
    ASSUME IInv, NEW host \in Local, NEW asks \in BOOLEAN, ArpIn(host, asks)
    PROVE  IInv'
<1>1. /\ CacheOK'
      /\ DOMAIN arp_cache \subseteq DOMAIN arp_cache'
      /\ displaced => displaced'
      /\ ~displaced' => \A i \in DOMAIN arp_cache : arp_cache'[i].ip = arp_cache[i].ip
  BY UpdateKeepsCache DEF ArpIn, IInv
<1>2. PingOK'
  <2>1. ping' = ping /\ (displaced => displaced')
    BY <1>1 DEF ArpIn
  <2> QED
    BY <1>1, <2>1 DEF IInv, PingOK
<1>3. TxOK' /\ AddressedRight'
  <2>1. CASE rtl8139_send(Frame("is", host, host, 0))
    <3> DEFINE f == Frame("is", host, host, 0)
    <3>1. f \in Frames /\ Numbered(f) /\ Addressed(f)
      BY FrameType, NetAssumption DEF Frame, Numbered, Addressed
    <3>2. rtl8139_send(f)
      BY <2>1
    <3> HIDE DEF f
    <3> QED
      BY <1>1, <3>1, <3>2, SendKeepsBuffers DEF IInv, AddressedRight, Addressed
  <2>2. CASE UNCHANGED txVars
    BY <1>1, <2>2 DEF IInv, TxOK, txVars, AddressedRight
  <2> QED
    BY <2>1, <2>2 DEF ArpIn
<1>4. RxOK'
  BY DEF ArpIn, Raised, IInv, RxOK, WaitsInVain
<1>5. CountOK'
  BY CountSame DEF ArpIn, IInv
<1> QED
  BY <1>1, <1>2, <1>3, <1>4, <1>5 DEF IInv

\* An echo reply is noted; one that will be counted is an answer to this ping, or
\* a mistake.
LEMMA ReplyInInv ==
    ASSUME IInv, NEW s \in 1 .. Count, NEW own \in BOOLEAN, ReplyIn(s, own)
    PROVE  IInv'
<1>1. s \in 0 .. Count /\ got' = s /\ ping' = ping
  BY NetAssumption DEF ReplyIn
<1>2. PingOK'
  BY DEF ReplyIn, IInv, PingOK
<1>3. CountOK'
  <2>1. Judged(ping) <= Judged(ping')
    BY DEF ReplyIn, IInv, PingOK, PingTypes, Judged
  <2>2. answered \subseteq answered' /\ answered' \subseteq 1 .. Count
    BY DEF ReplyIn, IInv, CountOK
  <2>3. mistaken' \in BOOLEAN /\ (mistaken => mistaken')
    BY DEF ReplyIn, IInv, CountOK
  <2>4. ~mistaken' => GotInTime(ping)'
    BY <1>1 DEF ReplyIn, GotInTime, Probing, Expected
  <2> QED
    BY <1>1, <1>2, <2>1, <2>2, <2>3, <2>4, CountKept DEF IInv
<1> QED
  BY <1>2, <1>3, PingAlone DEF ReplyIn

\* A step that only sends.
LEMMA OnlySends ==
    ASSUME IInv, NEW frame \in Frames, Numbered(frame), Addressed(frame), rtl8139_send(frame),
           UNCHANGED <<arp_cache, displaced, ping, got, replyVars>>, RxOK'
    PROVE  IInv'
<1>2. CountOK'
  BY CountSame DEF IInv
<1>1. TxOK' /\ AddressedRight'
  BY SendKeepsBuffers DEF IInv, AddressedRight, Addressed
<1> QED
  BY <1>1, <1>2 DEF IInv, CacheOK, EntriesTrue, OneEntryPerHost, PingOK

\* An echo request is answered at once.
LEMMA EchoInInv ==
    ASSUME IInv, NEW host \in Host, EchoIn(host)
    PROVE  IInv'
<1> DEFINE hop == NextHop(host)
           mac == arp_cache[Lookup(hop)].mac
<1>1. hop \in Local /\ Cached(hop)
  BY NextHopLocal DEF EchoIn
<1>2. mac = hop
  BY <1>1, LookupFinds DEF IInv, CacheOK, EntriesTrue
<1> DEFINE f == Frame("reply", hop, mac, 0)
<1>3. rtl8139_send(f)
  BY DEF EchoIn
<1>4. RxOK'
  BY DEF EchoIn, IInv, RxOK, WaitsInVain, Cached
<1> HIDE DEF hop, mac
<1>5. f \in Frames /\ Numbered(f) /\ Addressed(f)
  BY <1>1, <1>2, FrameType, NetAssumption DEF Frame, Numbered, Addressed
<1> HIDE DEF f
<1> QED
  BY <1>3, <1>4, <1>5, OnlySends DEF EchoIn

\* The interrupt asks for the next hop of an echo request and polls.
LEMMA EchoInUnresolvedInv ==
    ASSUME IInv, NEW host \in Host, EchoInUnresolved(host)
    PROVE  IInv'
<1> DEFINE hop == NextHop(host)
           f == Who(hop)
<1>1. hop \in Local
  BY NextHopLocal
<1>2. rtl8139_send(f)
  BY DEF EchoInUnresolved
<1> HIDE DEF f
<1>3. RxOK'
  <2>1. PICK over \in BOOLEAN : rx' = [busy |-> TRUE, over |-> over, hop |-> hop]
    BY DEF EchoInUnresolved
  <2>2. ~Cached(hop)'
    BY DEF EchoInUnresolved, Cached
  <2> HIDE DEF hop
  <2> QED
    BY <1>1, <2>1, <2>2 DEF RxOK, WaitsInVain, Cached
<1> USE DEF f
<1> HIDE DEF hop
<1>4. f \in Frames /\ Numbered(f) /\ Addressed(f)
  BY <1>1, FrameType, NetAssumption DEF Who, Frame, Numbered, Addressed
<1> HIDE DEF f
<1> QED
  BY <1>2, <1>3, <1>4, OnlySends DEF EchoInUnresolved

\* The interrupt's polling ends after 500 ticks.
LEMMA GiveUpInv ==
    ASSUME IInv, GiveUp
    PROVE  IInv'
<1>1. RxOK'
  BY DEF GiveUp, RxOK, WaitsInVain
<1> QED
  BY <1>1, CountSame
     DEF GiveUp, IInv, CacheOK, EntriesTrue, OneEntryPerHost, TxOK, txVars, AddressedRight, PingOK

----------------------------------------------------------------------------
(* The theorems *)

\* The invariant is inductive: it holds in every state of the system.
THEOREM Invariance == Spec => []IInv
<1>1. IInv /\ [Next]_vars => IInv'
  <2> SUFFICES ASSUME IInv, [Next]_vars PROVE IInv'
    OBVIOUS
  <2>1. CASE \E ip \in Host : Start(ip)
    BY <2>1, StartInv
  <2>2. CASE PingStep
    BY <2>2, ProbeInv, ResolvedInv, NotResolvedInv, CopyMacInv, PollTxInv, FillTxInv, NotSentInv,
       FireTxInv, EndWaitInv, JudgeInv DEF PingStep
  <2>3. CASE Receive
    BY <2>3, ArpInInv, ReplyInInv, EchoInInv, EchoInUnresolvedInv DEF Receive
  <2>4. CASE GiveUp
    BY <2>4, GiveUpInv
  <2>5. CASE UNCHANGED vars
    BY <2>5, PingAlone, CountSame DEF vars, IInv, PingOK
  <2> QED
    BY <2>1, <2>2, <2>3, <2>4, <2>5 DEF Next
<1> QED
  BY <1>1, InitInv, PTL DEF Spec

\* The properties of Net follow from the invariant.
LEMMA InvImplies ==
    ASSUME IInv
    PROVE  TypeOK /\ OneEntryPerHost /\ AddressedRight /\ CountedWereAnswered /\ WaitsInVain
<1>1. Judged(ping) \in Nat /\ Judged(ping) <= Count /\ ping.received \in Nat
  BY NetAssumption DEF IInv, PingOK, PingTypes, Judged
<1>2. TypeOK
  <2>1. ping.received \in 0 .. Count
    BY <1>1, NetAssumption DEF IInv, CountOK
  <2>2. ping \in [pc : {"idle", "probe", "resolve", "copy", "built", "polled", "filled", "wait", "woken", "pause"},
                   on : BOOLEAN, dst : Host \cup {Nobody}, seq : 0 .. Count, received : 0 .. Count,
                   entry : 1 .. CacheSize, mac : Local \cup {Nobody}, slot : 0 .. TxSlots - 1]
    BY <2>1 DEF IInv, PingOK, PingTypes
  <2> QED
    BY <2>2 DEF IInv, TypeOK, CacheOK, TxOK, RxOK, CountOK
<1>3. CountedWereAnswered
  <2> SUFFICES ASSUME ~mistaken PROVE ping.received <= Cardinality(answered)
    BY DEF CountedWereAnswered
  <2> DEFINE k == Judged(ping)
  <2>1. answered \cap (1 .. k) \subseteq answered
    OBVIOUS
  <2>2. IsFiniteSet(answered)
    <3>1. Count \in Int /\ IsFiniteSet(1 .. Count)
      BY NetAssumption, FS_Interval
    <3> QED
      BY <3>1, FS_Subset DEF IInv, CountOK
  <2>3. /\ Cardinality(answered \cap (1 .. k)) <= Cardinality(answered)
        /\ Cardinality(answered) \in Nat /\ Cardinality(answered \cap (1 .. k)) \in Nat
    BY <2>1, <2>2, FS_Subset, FS_CardinalityType
  <2> QED
    BY <1>1, <2>3 DEF IInv, CountOK, CountedInTime
<1> QED
  BY <1>2, <1>3 DEF IInv, CacheOK, RxOK

\* Every variable keeps its type; the probes counted never exceed those sent.
THEOREM TypeCorrect == Spec => []TypeOK
BY Invariance, InvImplies, PTL

\* However packets come, a host is in the ARP cache at most once.
THEOREM CacheUnique == Spec => []OneEntryPerHost
BY Invariance, InvImplies, PTL

\* While the cache has not been overfull, frames carry the hardware address of
\* their next hop, although ping copies it with interrupts on.
THEOREM FramesAddressed == Spec => []AddressedRight
BY Invariance, InvImplies, PTL

\* Unless a reply to another ping came in during a probe of its number, ping counts
\* no more probes than were answered, each by its own reply and in its own time.
THEOREM RepliesCountedOnce == Spec => []CountedWereAnswered
BY Invariance, InvImplies, PTL

\* The receive interrupt never finds the address it polls for.
THEOREM InterruptWaitsInVain == Spec => []WaitsInVain
BY Invariance, InvImplies, PTL
=============================================================================
