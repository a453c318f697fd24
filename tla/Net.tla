-------------------------------- MODULE Net --------------------------------
(***************************************************************************)
(* Network: ARP cache and resolution, IP, ICMP echo and ping (src/net/net.c)*)
(* over the transmit descriptors of src/drivers/rlt8139.c.                  *)
(*                                                                          *)
(* Two activations share this state: ping, in a system call, and the        *)
(* receive interrupt.  A system call runs with interrupts off, but          *)
(* arp_resolve and ping turn them on to poll, and arp_resolve leaves them   *)
(* on when it succeeds: ping.on is the interrupt flag of ping.  The         *)
(* interrupt handler runs to its end in one step, unless it answers an echo *)
(* request of a host it must resolve first: then it polls (rx.busy) inside  *)
(* the interrupt, which the PIC does not raise again before the EOI.        *)
(*                                                                          *)
(* A host stands for its IP address and, if local, its MAC address.  The    *)
(* network may answer late, twice or never.  Ticks are not counted: a       *)
(* deadline may pass at any time.                                           *)
(***************************************************************************)
EXTENDS Integers, FiniteSets, Sequences

CONSTANTS
    Local,          \* hosts of the same /24 network
    Remote,         \* hosts behind the gateway
    Gateway,        \* gateway, one of Local
    CacheSize,      \* ARP_CACHE_SIZE
    TxSlots,        \* RTL_TX_BUF_COUNT
    Count           \* bound: the echo requests of one ping

ASSUME NetAssumption ==
    /\ Gateway \in Local /\ Local \cap Remote = {}
    /\ CacheSize \in Nat \ {0} /\ TxSlots \in Nat \ {0} /\ Count \in Nat \ {0}

VARIABLES
    arp_cache,      \* the valid entries
    displaced,      \* history: a full cache has overwritten an entry
    tx_buf,         \* the frame in each transmit buffer
    tx_next,        \* the descriptor of the next frame
    ping,           \* the system call: where it is and its variables
    rx,             \* the receive interrupt, when it waits in arp_resolve
    got,            \* ping_reply_seq, or 0 while ~ping_got_reply
    asked,          \* history: the echo requests this ping had the card send
    answered,       \* history: the probes of this ping answered while they were on
    mistaken        \* history: a reply to another ping came in for such a probe

txVars == <<tx_buf, tx_next, asked>>
replyVars == <<answered, mistaken>>
vars == <<arp_cache, displaced, txVars, ping, rx, got, replyVars>>

Host == Local \cup Remote
Nobody == "nobody"
Everybody == "everybody"

\* ip_send: a host outside the /24 network is reached through the gateway.
NextHop(ip) == IF ip \in Local THEN ip ELSE Gateway

----------------------------------------------------------------------------
\* The ARP cache: entries are found by a linear search; a full cache gives up
\* its first entry.
Cached(ip) == \E i \in DOMAIN arp_cache : arp_cache[i].ip = ip
LookupFirst(ip) == 1
Lookup(ip) == CHOOSE i \in DOMAIN arp_cache : arp_cache[i].ip = ip

UpdatedBlind(ip) ==
    LET e == [ip |-> ip, mac |-> ip]
    IN  IF Len(arp_cache) < CacheSize THEN Append(arp_cache, e) ELSE [arp_cache EXCEPT ![1] = e]
UpdatedUnbounded(ip) ==
    LET e == [ip |-> ip, mac |-> ip]
    IN  IF Cached(ip) THEN [arp_cache EXCEPT ![Lookup(ip)] = e] ELSE Append(arp_cache, e)
Updated(ip) ==
    LET e == [ip |-> ip, mac |-> ip]
    IN  IF Cached(ip) THEN [arp_cache EXCEPT ![Lookup(ip)] = e]
        ELSE IF Len(arp_cache) < CacheSize THEN Append(arp_cache, e)
        ELSE [arp_cache EXCEPT ![1] = e]

arp_cache_update(ip) ==
    /\ arp_cache' = Updated(ip)
    /\ displaced' = (displaced \/ (~Cached(ip) /\ Len(arp_cache) = CacheSize))

\* A frame to mac, meant for the next hop, of one of four kinds: the ARP
\* request "who", the ARP reply "is", and the ICMP messages "echo" and "reply".
Frame(kind, hop, mac, seq) == [kind |-> kind, hop |-> hop, mac |-> mac, seq |-> seq]
Who(hop) == Frame("who", hop, Everybody, 0)

Sent(frame) == asked' = IF frame.kind = "echo" THEN asked \cup {frame.seq} ELSE asked

\* rtl8139_send with interrupts off; a card that never gives the descriptor
\* back makes it return without sending.
rtl8139_send(frame) ==
    \/ /\ tx_buf' = [tx_buf EXCEPT ![tx_next] = frame]
       /\ tx_next' = (tx_next + 1) % TxSlots
       /\ Sent(frame)
    \/ UNCHANGED txVars

----------------------------------------------------------------------------
\* ping.  It goes on unless the receive interrupt waits on top of it.
Runs == ~(rx.busy /\ rx.over)
PingFrame == Frame("echo", NextHop(ping.dst), ping.mac, ping.seq)

Start(ip) ==
    /\ Runs /\ ping.pc = "idle"
    /\ ping' = [ping EXCEPT !.pc = "probe", !.on = FALSE, !.dst = ip, !.seq = 1]
    /\ asked' = {} /\ answered' = {} /\ mistaken' = FALSE
    /\ UNCHANGED <<arp_cache, displaced, tx_buf, tx_next, rx, got>>

\* The local variables of ip_send and rtl8139_send end with them.
Returned(p) == [p EXCEPT !.entry = 1, !.mac = Nobody, !.slot = 0]

\* The next round of ping's loop, or its end.
NextProbe(p) ==
    IF p.seq < Count THEN [p EXCEPT !.pc = "probe", !.seq = @ + 1]
    ELSE [p EXCEPT !.pc = "idle", !.on = FALSE, !.dst = Nobody, !.seq = 0, !.received = 0]

\* icmp_send_echo and ip_send up to arp_resolve's first look into the cache.
Probe ==
    /\ Runs /\ ping.pc = "probe"
    /\ got' = 0
    /\ LET hop == NextHop(ping.dst)
       IN  \/ /\ Cached(hop)
              /\ ping' = [ping EXCEPT !.pc = "copy", !.entry = Lookup(hop)]
              /\ UNCHANGED txVars
           \/ /\ ~Cached(hop)
              /\ ping' = [ping EXCEPT !.pc = "resolve", !.on = TRUE]
              /\ rtl8139_send(Who(hop))
    /\ UNCHANGED <<arp_cache, displaced, rx, replyVars>>

\* arp_resolve's polling finds the entry, or its 500 ticks pass: only then are
\* interrupts turned off again.
Resolved ==
    /\ Runs /\ ping.pc = "resolve" /\ Cached(NextHop(ping.dst))
    /\ ping' = [ping EXCEPT !.pc = "copy", !.entry = Lookup(NextHop(ping.dst))]
    /\ UNCHANGED <<arp_cache, displaced, txVars, rx, got, replyVars>>

NotResolvedNever == FALSE /\ UNCHANGED vars
NotResolved ==
    /\ Runs /\ ping.pc = "resolve"
    /\ ping' = NextProbe([ping EXCEPT !.on = FALSE])
    /\ UNCHANGED <<arp_cache, displaced, txVars, rx, got, replyVars>>

\* The address is copied out of the entry found a moment ago.
CopyMac ==
    /\ Runs /\ ping.pc = "copy"
    /\ ping' = [ping EXCEPT !.pc = "built", !.mac = arp_cache[ping.entry].mac]
    /\ UNCHANGED <<arp_cache, displaced, txVars, rx, got, replyVars>>

\* rtl8139_send of the echo request, step by step.  It reads tx_next to poll
\* that descriptor, which the card may not give back in time, ...
PollTx ==
    /\ Runs /\ ping.pc = "built"
    /\ ping' = [ping EXCEPT !.pc = "polled", !.slot = tx_next]
    /\ UNCHANGED <<arp_cache, displaced, txVars, rx, got, replyVars>>

NotSent ==
    /\ Runs /\ ping.pc = "polled"
    /\ ping' = NextProbe(Returned(ping))
    /\ UNCHANGED <<arp_cache, displaced, txVars, rx, got, replyVars>>

\* ... copies the frame to the buffer of tx_next, which the compiler may have
\* kept in a register or read again, ...
FillTx ==
    /\ Runs /\ ping.pc = "polled"
    /\ \E n \in {ping.slot, tx_next} :
          /\ tx_buf' = [tx_buf EXCEPT ![n] = PingFrame]
          /\ ping' = [ping EXCEPT !.pc = "filled", !.slot = n]
    /\ UNCHANGED <<arp_cache, displaced, tx_next, asked, rx, got, replyVars>>

\* ... and tells the card the address of a buffer to send, again that of
\* tx_next.  ping then waits with interrupts on.
FireTx ==
    /\ Runs /\ ping.pc = "filled"
    /\ \E n, m \in {ping.slot, tx_next} :
          /\ Sent(tx_buf[n])
          /\ tx_next' = (m + 1) % TxSlots
    /\ ping' = [Returned(ping) EXCEPT !.pc = "wait", !.on = TRUE]
    /\ UNCHANGED <<arp_cache, displaced, tx_buf, rx, got, replyVars>>

\* A reply ends the wait, whichever it is, or the deadline passes.
EndWait ==
    /\ Runs /\ ping.pc = "wait"
    /\ ping' = [ping EXCEPT !.pc = "woken"]
    /\ UNCHANGED <<arp_cache, displaced, txVars, rx, got, replyVars>>

\* With interrupts off, ping looks at the reply; then it pauses with interrupts
\* on for about a second, after which they are off.
CountsAny == got # 0
Counts == got = ping.seq

Judge ==
    /\ Runs /\ ping.pc = "woken"
    /\ ping' = [ping EXCEPT !.pc = "pause", !.received = IF Counts THEN @ + 1 ELSE @]
    /\ UNCHANGED <<arp_cache, displaced, txVars, rx, got, replyVars>>

EndPause ==
    /\ Runs /\ ping.pc = "pause"
    /\ ping' = NextProbe([ping EXCEPT !.on = FALSE])
    /\ UNCHANGED <<arp_cache, displaced, txVars, rx, got, replyVars>>

PingStep ==
    \/ Probe \/ Resolved \/ NotResolved \/ CopyMac \/ PollTx \/ FillTx \/ NotSent \/ FireTx
    \/ EndWait \/ Judge \/ EndPause

----------------------------------------------------------------------------
\* The receive interrupt: rtl8139_handler, net_receive and below.  The CPU
\* takes it with interrupts on, in ping or in anything else that runs; the PIC
\* raises it again only after irq_handler's EOI.
InterruptsOn == ping.pc = "idle" \/ ping.on
RaisedEarly == InterruptsOn
Raised == InterruptsOn /\ ~rx.busy

\* arp_handle: learn the sender, and answer if it asked for our address.
ArpIn(host, asks) ==
    /\ Raised
    /\ arp_cache_update(host)
    /\ IF asks THEN rtl8139_send(Frame("is", host, host, 0)) ELSE UNCHANGED txVars
    /\ UNCHANGED <<ping, rx, got, replyVars>>

\* icmp_handle, an echo reply: note it for ping.  Every ping uses the same
\* identifier and numbers its probes from 1, and the sender is not looked at: a
\* reply that is not this ping's own, but late from an earlier ping (of any host,
\* perhaps before a restart), looks the same.
Expected(seq) == ping.pc \notin {"idle", "probe", "pause"} /\ seq = ping.seq

ReplyIn(seq, own) ==
    /\ Raised
    /\ own => seq \in asked
    /\ got' = seq
    /\ answered' = IF own /\ Expected(seq) THEN answered \cup {seq} ELSE answered
    /\ mistaken' = (mistaken \/ (~own /\ Expected(seq)))
    /\ UNCHANGED <<arp_cache, displaced, txVars, ping, rx>>

\* icmp_handle, an echo request: answer at once if the next hop is cached ...
EchoIn(host) ==
    /\ Raised /\ Cached(NextHop(host))
    /\ LET hop == NextHop(host)
       IN  rtl8139_send(Frame("reply", hop, arp_cache[Lookup(hop)].mac, 0))
    /\ UNCHANGED <<arp_cache, displaced, ping, rx, got, replyVars>>

\* ... and otherwise ask for it and poll, in the context the interrupt came in,
\* which may be ping's, ...
EchoInUnresolved(host) ==
    /\ Raised /\ ~Cached(NextHop(host))
    /\ rtl8139_send(Who(NextHop(host)))
    /\ \E over \in IF ping.pc = "idle" THEN {FALSE} ELSE BOOLEAN :
          rx' = [busy |-> TRUE, over |-> over, hop |-> NextHop(host)]
    /\ UNCHANGED <<arp_cache, displaced, ping, got, replyVars>>

\* ... until 500 ticks have passed.  That the polling finds the entry is ruled
\* out by WaitsInVain.
GiveUp ==
    /\ rx.busy /\ InterruptsOn
    /\ rx' = [busy |-> FALSE, over |-> FALSE, hop |-> Nobody]
    /\ UNCHANGED <<arp_cache, displaced, txVars, ping, got, replyVars>>

Receive ==
    \/ \E h \in Local, asks \in BOOLEAN : ArpIn(h, asks)
    \/ \E s \in 1 .. Count, own \in BOOLEAN : ReplyIn(s, own)
    \/ \E h \in Host : EchoIn(h) \/ EchoInUnresolved(h)

----------------------------------------------------------------------------
Init ==
    /\ arp_cache = <<>> /\ displaced = FALSE
    /\ tx_buf = [n \in 0 .. TxSlots - 1 |-> Frame("none", Nobody, Nobody, 0)] /\ tx_next = 0
    /\ ping = [pc |-> "idle", on |-> FALSE, dst |-> Nobody, seq |-> 0, received |-> 0,
               entry |-> 1, mac |-> Nobody, slot |-> 0]
    /\ rx = [busy |-> FALSE, over |-> FALSE, hop |-> Nobody]
    /\ got = 0 /\ asked = {} /\ answered = {} /\ mistaken = FALSE

Next ==
    \/ \E ip \in Host : Start(ip)
    \/ PingStep
    \/ Receive
    \/ GiveUp

\* The CPU and the timer go on, and the network does not interrupt ping so
\* densely that it never executes an instruction.
Fairness == SF_vars(PingStep) /\ WF_vars(GiveUp)

Spec == Init /\ [][Next]_vars /\ Fairness

----------------------------------------------------------------------------
Frames ==
    [kind : {"none", "who", "is", "echo", "reply"}, hop : Local \cup {Nobody},
     mac : Local \cup {Nobody, Everybody}, seq : 0 .. Count]

TypeOK ==
    /\ arp_cache \in Seq([ip : Local, mac : Local]) /\ Len(arp_cache) <= CacheSize
    /\ displaced \in BOOLEAN
    /\ tx_buf \in [0 .. TxSlots - 1 -> Frames] /\ tx_next \in 0 .. TxSlots - 1
    /\ ping \in [pc : {"idle", "probe", "resolve", "copy", "built", "polled", "filled", "wait", "woken", "pause"},
                 on : BOOLEAN, dst : Host \cup {Nobody}, seq : 0 .. Count, received : 0 .. Count,
                 entry : 1 .. CacheSize, mac : Local \cup {Nobody}, slot : 0 .. TxSlots - 1]
    /\ rx \in [busy : BOOLEAN, over : BOOLEAN, hop : Local \cup {Nobody}]
    /\ got \in 0 .. Count /\ mistaken \in BOOLEAN
    /\ asked \subseteq 1 .. Count /\ answered \subseteq 1 .. Count

\* However packets and interrupts come, a host has at most one entry in the
\* ARP cache, so that a new address replaces the old one for good.
OneEntryPerHost ==
    \A i, j \in DOMAIN arp_cache : arp_cache[i].ip = arp_cache[j].ip => i = j

\* A frame waiting in a transmit buffer goes to the hardware address of the hop
\* it was routed to, also when ping is interrupted between finding the entry
\* and copying the address - as long as the cache has never been overfull.
AddressedRight ==
    ~displaced =>
        \A n \in DOMAIN tx_buf :
            tx_buf[n].kind \in {"is", "echo", "reply"} => tx_buf[n].mac = tx_buf[n].hop

\* The probes ping reports as received are no more than those of this ping whose
\* own reply came in while it was waiting for it: late and repeated replies to its
\* other probes are not counted, nor is what an earlier ping left behind - unless
\* a reply to another ping arrives during the probe of the same number.
CountedWereAnswered == ~mistaken => ping.received <= Cardinality(answered)

\* While the receive interrupt polls for the address of a next hop, no answer
\* can reach the cache: the wait always takes its full 500 ticks.
WaitsInVain == rx.busy => ~Cached(rx.hop)

\* Every ping returns, whatever the network does.
PingEnds == ping.pc # "idle" ~> ping.pc = "idle"

\* When the card is told to send, the buffer holds the frame that was built.
SentAsBuilt == ping.pc = "filled" => tx_buf[ping.slot] = PingFrame
=============================================================================
