# TLA+ verification of networking-from-scratch

The repository is a curriculum: about 120 lessons under `src/phases/`, each a small C library
(`x.c`, `x.h`), a demonstration (`main.c`) and unit tests. A lesson implements one mechanism of a
network stack (a window, a table, a state machine, a codec) and does not link with the others. What a
lesson's tests show is a handful of call sequences; what is hard in these mechanisms is the other
sequences: segments that overtake each other, acknowledgements that arrive twice, tables swept while
entries move, both ends closing at once, a counter at its wrap; and, for the lessons that only build and
parse, the inputs nobody wrote down. This project models the lessons that keep state, with the
network, the peer and the clock around them, and the message formats as functions on octets; it checks
them with TLC, and proves with TLAPS, for all parameters, what the transport phase is for, that paths are
discovered, and what the tables of every phase promise.

Files: one module per mechanism, three modules of formats, four `MC*` suites that instantiate them for
TLC, one `.cfg` per run, five modules with proofs (`RdtProofs`, `FlowProofs`, `ProtocolProofs`,
`ForwardingProofs`, `TableProofs`), and `PROJECT.json`, which maps every definition to source lines.


## 1. Inventory

Phases 08 to 15 of the curriculum hold text only. The state-keeping parts, with their operations and what
makes them correct:

| part (source under `src/phases/`) | state | operations | must hold |
|---|---|---|---|
| Go-Back-N (`04/16 rdt.c`) | segment array, `base`, `next_seq`; `expected_seq`, receive buffer | send, ack, timeout, free; receive | what is received is a prefix of what was sent; an acknowledged byte is held where there was room; everything is acknowledged in the end |
| Send window (`04/13`) | ring buffer, `base`, `next_seq` | send, ack, get_data | what is in flight can be fetched again; counters never underflow |
| Retransmission queue (`04/18`) | queue of segments with send times | push, ack, timeout | what the peer lacks is queued; what is acknowledged is gone |
| Receive window, probe timer (`04/21`) | flat buffer, `rcv_nxt`; probe timer | receive, read; start, check, stop | what was advertised fits; a closed window opens again |
| Nagle, delayed ACK (`04/20`) | `snd_una`, `snd_nxt`; pending, deadline, count | can_send, sent, acked; receive, check, sent | one short segment outstanding; the two never wait for each other |
| TCB (`04/11`), sequence numbers (`04/12`) | `snd_una`, `snd_nxt`, `rcv_nxt` | advance, ack, data | comparisons follow the circle; `snd_una` only moves forward |
| SACK scoreboard (`04/19`) | up to four blocks, `cum_ack` | add_block, advance, holes | no byte is reported that the peer lacks; the latest report is first; holes are exact |
| Retransmission timer (`04/17`) | SRTT, RTTVAR, RTO | update, backoff | within limits, covers the last sample |
| Congestion control (`04/24`, `25`, `26`, `27`, `28`) | windows, thresholds, duplicates, recovery; epoch of CUBIC; filter and state of BBR | on_ack, on_dup_ack, on_loss, on_timeout | one reduction per loss event; windows never stall |
| Handshake (`04/09`), ECN (`04/31`) | client and server contexts; negotiation | build/accept SYN, SYN-ACK, ACK; process flags, mark | nobody is open on an old answer or speaks ECN alone |
| State machine (`04/10`), teardown (`04/22`) | state of each end, sequence numbers, time in TIME_WAIT | handle event; close, recv_fin, recv_ack, expired | ends agree about FINs; both close; TIME_WAIT outlives segments |
| Keepalive (`04/32`), connection tracking (`04/33`) | idle time, probes; table of connections and its counter | data, check; process, expire | judged on what was seen only |
| ARP cache (`02/07`), MAC table (`02/10`), bridge (`02/17`), switch (`02/18`) | arrays of entries with ages; ports, VLAN masks | insert, learn, remove, age, forward, add and remove port | traffic follows hosts, stays in its VLAN, sweeps miss nothing |
| Spanning tree (`02/09`) | believed root, cost, root port | init, process BPDU | beliefs are sound and converge |
| Fragmentation (`03/07`) | none; sets of fragments in the network | fragment, reassemble | what comes out is what went in |
| NAT (`03/17`), routing tables (`03/04`, `03/05`) | arrays with swap-removal, `next_port` | outbound, inbound, expire; add, remove, lookup | replies reach their host; the best configured route is found |
| Path MTU (`03/08`), traceroute (`03/06`) | cache with ages; loop variables | update, lookup, next_lower, should_probe; simulate | estimates fit the path; the answers are the path |
| HPACK table (`06/13`), HTTP connection (`06/10`), cookies (`06/28`), readiness (`05/04`, `05/05`) | ring with byte limit; pipeline ring and flags; jar; descriptors | add, lookup; request, response, enqueue; add, expire, header; inject, read, select, poll | order survives wrapping; callers are told the truth |
| Virtual wire (`01/12`), frame filter (`02/11`) | counters of the wire; mode and counters of the card | transmit, reset; accept, reset | every frame is accounted for; only a counted bit error makes the card misjudge one |
| DNS zone (`06/03`), virtual hosts (`06/25`) | table of records; table of hosts and aliases | add, look up, answer; add, add alias, route | a question gets the records of its name, a request the first host that has its name |
| Codecs (`01/05`, `01/08`, `01/09`, `01/10`, `02/15`, `06/11`) | none | encode, decode | decode inverts encode, delimiters stay out, errors are noticed |
| Headers and frames (`01/01`, `01/11`, `02/01`, `02/03` to `02/06`, `02/08`, `02/12` to `02/16`, `03/01`, `03/09` to `03/16`, `03/19`, `04/02` to `04/09`, `04/15`, `04/36`, `06/12`, `06/16`, `06/20`, `07/07`, `07/08`) | none | build, parse, iterate over options | parse inverts build through every layer; cut or damaged input is refused; readers of lists end |
| Arithmetic (`01/02`, `01/04`, `03/02`, `03/03`, `04/03`, `04/08`, `04/14`) | none | swap, mask, sum, scale | two ways to the same number agree |
| Addresses and text (`02/02`, `03/13`, `03/15`, `06/02`, `06/27`, `05/11`) | none | parse, format, encode, scatter | what is written is read back |

How they interact. Lessons do not call one another. The interaction is between two copies of a mechanism
over a network (Go-Back-N, handshake, teardown, state machine, spanning tree), between a mechanism and
its peer (queue and receiver, Nagle and delayed ACK, receive window and sender), and between a table and
hosts, ports and clocks that change around it. There are no threads; the concurrency is that of the
network, the peer and time. That is what the modules add around the code, and `PROJECT.json` lists,
under "hazards", where it bites.

Hard behaviours: loss, repetition and reordering (Rdt, RetxQueue, RecvWindow, Handshake, Fragment, Stp);
timers against late answers (Keepalive, Teardown, RetxQueue, Rto); waiting on each other (Nagle,
RecvWindow, TcpFsm); numbers that wrap (SendWindow, Tcb, Seqnum, Sack, Fragment, NatTable); arrays that move entries
during a sweep (ArpCache, MacTable, NatTable, CookieJar); rings at their limit (SendWindow, Bbr, Hpack,
HttpConn); long sequences of events that must not be counted twice (Reno, FastRecovery, Cubic); input that
is cut short, damaged or refers to itself (PacketFormats, AppFormats).


## 2. How the modules correspond to the code

Every module names its source file in its head, keeps the C names of the fields as variables and has one
action per exported function that changes state; functions that only read are operators. Conventions:

- Times (`send_time`, `last_seen`, `last_data_time`, ...) are kept relative to now, as an age or a time
  left that saturates where the code no longer tells larger values apart. A `Tick` action lets time pass.
- `uint32_t` arithmetic where a wrap matters is modulo a constant (`Word`, or `2 * Half`).
- A payload is a model value, a small number or the position of the byte, so that a buffer shows which
  bytes it holds. Formatting, printing and statistics nothing reads are left out.
- A parameter that is invalid for every state (NULL, a negative index) and makes a function return -1
  without a change is left out: such a call is a stuttering step.
- Double arithmetic is done in integers: exactly in `Rto` (the estimates are fractions over a common
  denominator, so no division is rounded), rounded down in `Cubic` (cube root and products).
- History variables (`sent`, `off`, `flight`, `held`, `fresh`, `heard`, `finSeen`, `expected`, ...) record
  what really happened and appear in no guard of an operation.
- In the format modules a buffer is a sequence of octets, and a function that can fail yields a set: `Refused`
  (the empty set) for a negative return value, `{x}` for success with `x`. `room` is the size of the output
  buffer, so that a builder's check of it is part of the model. A header is a layout, a sequence of
  `<<name, octets, kind>>` read off the packed struct, which `Pack` and `Unpack` put into network or
  little-endian order. Words of 32 bits whose value nothing computes with (addresses, sequence numbers, times
  to live) stay octets, as TLC's integers have 31 bits; a loop over options is `Walk` with a step that yields an
  item, a skip or the end.
- `Mutant` definitions are plausible faults of a definition (a dropped guard, an off-by-one). No
  specification uses them; each shows that a property notices the fault.

| module | models |
|---|---|
| `Rdt` | both ends of `rdt.c` and a network that loses, repeats and reorders; it implements `BytePipe` |
| `BytePipe` | abstract: what comes out is always a prefix of what went in, and only grows |
| `SendWindow`, `RetxQueue`, `RecvWindow`, `Nagle`, `Tcb`, `Sack` | the byte accounting of the transport phase, each with its peer |
| `Congestion`, `Reno`, `FastRecovery`, `Cubic`, `Bbr`, `Rto` | the controllers and the timer; the first three implement `Aimd` |
| `Aimd` | abstract: at most one MSS more per acknowledgement, half the window on congestion |
| `Handshake`, `Ecn`, `TcpFsm`, `Teardown`, `Keepalive`, `Conntrack` | the life of a connection |
| `ArpCache`, `MacTable`, `Bridge`, `L2Switch`, `Stp` | the link layer, with hosts that speak and move |
| `Fragment`, `NatTable`, `RouteTables`, `Pmtud`, `Traceroute` | the network layer |
| `Hpack`, `HttpConn`, `CookieJar`, `Descriptors` | the application and socket phases |
| `VirtualWire` | `vwire.c` and, at its end, the frame filter of `promisc.c` |
| `LineCodes` | byte and bit stuffing, COBS, SLIP, PPP frames, chunks, line codes, Hamming, CRCs |
| `Seqnum` | comparisons on the circle of sequence numbers |
| `PacketFormats` | byte order, bit fields, layouts, option walks and the Internet checksum, then the formats below the applications: frames, tags, addresses, IPv4, IPv6, ICMP, NDP, DHCP, tunnels, UDP, TCP and its options, BPDUs, I/O vectors |
| `AppFormats` | TFTP, QUIC, DNS with zone and transport, EDNS, HTTP/2, HPACK integers, WebSocket, NTP, URLs, virtual hosts, TLS |

**Suites.** Lessons are separate programs, and a state space that is their product would say nothing
more. A suite `MCx` therefore has a variable `which` that is chosen in the initial state and never changes;
a step is a step of that part and leaves the others in their initial states. The state space is the
sum, and an invariant of the suite is the conjunction of the invariants of its parts under a name for
what they have in common. Each part's own properties, with their own comments, are in its module. For the
proofs this means that a part's inductive invariant is one of the suite too: a step of the suite is, for each
part, a step of that part or a stutter (`PartSteps`, `ConnectionSteps`, `FlowSteps`, `TableSteps`). The sizes of
`MCFlow`, `MCProtocols` and `MCTables` are CONSTANTS of the suite, given in its `.cfg`; its named `ASSUME` repeats
what the parts ask of them.

**Loops.** A loop of the code that goes over a table (the sweeps of `arp_cache.c`, `mac_table.c`, `nat.c` and
`cookie.c`, which take an entry out and look again at the one that took its place; the eviction of `hpack.c`; the
lookups of `lpm.c` and `rtable.c`; the header that `cookie.c` builds) is a function on the number of turns,
`turns[n] == IF n = 0 THEN <<the state before>> ELSE one turn of turns[n - 1]`, with the turn an operator of
its own. Where a function of the C library leaves a choice open, the model has a set: `Fragment!Sorted` holds every
arrangement that `qsort` may produce for fragments of the same offset. A reference is stated apart from the
algorithm it judges: the distance to a root (`Stp!Distance`) is the largest function that no link contradicts, not the
result of another search.


## 3. Runs

| run | module / cfg | states | question |
|---|---|---|---|
| `rdt` | `Rdt` | 172,898 | Go-Back-N, three segments of up to two bytes, window 2, receive buffer of 4 (smaller than the stream of 6, so that the cut happens): prefix, base, acknowledged bytes, refinement of `BytePipe`; under fairness everything is acknowledged |
| `flow` | `MCFlow` | 84,638 | bytes kept, released, counted, promised, and through; the SACK board is exact below the wrap |
| `protocols` | `MCProtocols` | 29,368 | controllers and timer: windows accounted for, `Aimd` implemented, nothing stalls; connections: opened together, closed together, judged on evidence; path MTUs are found, traces name the path |
| `tables` | `MCTables` | 241,283 | elections converge on sound beliefs, traffic follows hosts and stays inside, packets come whole and to the right place, order in rings, truth of answers |
| `codecs` | `MCCodecs` | 23,165 | all short messages over the symbols a code treats apart, in every format that carries them |
| `bbr_drain` | `Bbr` / `BbrDrain.cfg` | violation | DRAIN is never left |
| `retx_queue_partial` | `RetxQueue` / `RetxQueuePartial.cfg` | violation | a partial acknowledgement drops needed bytes |
| `sack_wrap` | `Sack` / `SackWrap.cfg` | violation | a reported block that crosses the wrap is not found |
| `hpack_long_header` | `Hpack` / `HpackLong.cfg` | violation | `current_size` is not the sum of the sizes |

**Bounds, and why they are enough.** A bound is a constant of the module or a value given to it by the
suite. They are the smallest at which the interesting case happens: a receive buffer shorter than the
stream and a window shorter than the segment array (`Rdt`); a ring larger than the window by one and a stream long enough to reuse its
slots (`SendWindow`); an initial number just below the wrap (`Tcb`); a table one entry short of the hosts (`MacTable`,
`ArpCache`, `Conntrack`), so that it is full, and one more, so that a sweep moves an entry it then has to
look at; a triangle of bridges whose direct link to the root costs more than the detour (`Stp`); 28 bytes,
an array of 24 and MTUs of 19, 20, 31, 36 and 48, so that one MTU comes round, one carries nothing, a fragment is cut
again, one cut needs too many and one packet would pass whole but does not fit its array, with buffers of the receiver
that are too small, just too small and large enough (`Fragment`); a block limit of three and a stream that ends at the
last number (`Sack`), in `sack_wrap` one that begins two below it; three slots and 110 bytes, so that either limit of the HPACK table can be the one that is met;
three ports, starting at the last, for
two entries that may be kept alive and four mappings, so that the ports go round onto a live one (`NatTable`); ports that are
removed and named again (`Bridge`); COBS blocks of three instead of 254 bytes, so that full
blocks occur. For the formats, `MCCodecs` grows a short payload octet by octet, `data`, from those a format
treats apart (0, 1, 255; the kinds and lengths of options; the characters a URL escapes; entries of a
zone or of a table of hosts; numbers at the edge of an encoding) and checks in each state everything built
around that payload: all headers with it, all cuts of the result, all flips of one bit. Counters that grow without bound in the code are cut in the guards (`MaxCwnd`, `MaxSent`,
`MaxSeq`, `MaxDups`, `MaxTime`, `MaxSamples`, `MaxChanges`, `MaxOpens`, `MaxSyns`, `MaxMade`, `MaxNow`).

Deadlock checking is off where the system may stop: a bounded stream has been sent, both ends are
closed, a message has reached its length. That nobody stops early is what the liveness properties say.

**Fairness.** The code gives none by itself: its functions are called. What is assumed is that the caller
calls them, as every `main.c` does in its loop:

- timers: weak fairness of `Tick` and of the timeout, probe or check that becomes due (`RetxQueue`,
  `RecvWindow`, `Nagle`, `Keepalive`, `Teardown`, `Rdt`);
- applications read what is there and close what they opened: weak fairness (`RecvWindow`, `TcpFsm`, `Teardown`);
- networks: over the ordered, reliable channels of `TcpFsm`, `Teardown` and `Nagle` what was sent arrives
  (weak); over the lossy ones, a message that is put into the network again and again gets through (strong:
  `Rdt`, `RetxQueue`, `RecvWindow`, `Stp`, `Pmtud`). `TcpFsm` and `Teardown` have no retransmission in
  the code, so a lossy network is out of their scope;
- acknowledgements keep coming for the statements that a window does not stall (`Congestion`, `Cubic`, `Bbr`).

No fairness is assumed of `Send`, of losses, of crashes of a peer or of a second `open`.

**What the violation runs show.**

- `bbr_drain`: `bbr.c:131` passes `cwnd` as the bytes in flight; in DRAIN `cwnd` is 2.885 times the
  bandwidth-delay product, so the test for leaving DRAIN (at most the product) never holds, against
  the life cycle STARTUP, DRAIN, PROBE_BW in `bbr.h:17`.
- `retx_queue_partial`: `retx_queue.c:65` removes a segment whose first byte is acknowledged although the rest is
  not; the comment above it gives the rule as `seq + data_len <= ack_num` and calls the test a simplification.
- `sack_wrap`: `sack.c` compares sequence numbers as plain `uint32_t` in all its loops (lines 34, 51, 105, 116, 124, 214). A
  block with its left edge below 2^32 and its right edge past it covers no number, so `nfs_sack_is_sacked` returns 0 for
  bytes that `sack.h:15` and `sack.h:49` say it returns 1 for.
- `hpack_long_header`: `hpack.c` cuts a long name or value to its field but adds its full length to
  `current_size`; eviction subtracts the stored length, so the sum drifts from `hpack.h:58`.

**Other differences met while modelling.** They are part of the models where they matter, and the
properties say what holds in their presence:

- `sliding_window.c`, `retx_queue.c` and `sack.c` compare sequence numbers as plain unsigned numbers: an acknowledgement
  of a flight that crosses 2^32 is refused (window) or not recognised (queue), a block that does is sorted, merged and
  looked up wrongly and a cumulative ACK past it refused (SACK board). All three models compute modulo the word and
  compare as the code does; what they promise is checked and proved below the wrap, and `sack_wrap` shows what happens at it.
- `rdt.c` computes `base + window_size` modulo 2^32, and acknowledges a segment of which it kept only what fitted: with the
  sizes of `rdt.h` the segment array holds four times what the receive buffer does. `AckedBytesAreHeld` says that nothing is
  missing for another reason.
- `conntrack.c:86` promotes a TCP entry on any ACK, also one of the end that opened; its comment says "SYN+ACK or ACK on
  NEW". So nothing is claimed of established TCP connections; the direction is compared for UDP only, and
  `TableIsConsistent` says what follows from that.
- `bridge.c` looks at `active` only to remove a port. A frame that comes from a removed port, or one not yet added, is learned from, and
  a static entry may name any number: frames are then sent there. `RemovalIsClean` says that this happens only to a
  port that was named again after its removal (`named`), never because of what the database held before.
- `fragment.c:84` cuts `mtu - 20` to 16 bits, so an MTU below 20 gives a payload of 65512 bytes or more, and every copy goes into
  `payload[1480]` (`fragment.h:46`) without a check. For an MTU below 20 or above 1500 a long packet is written past the
  array; what follows is undefined, and the model stops there (`spilt`). `FragmentsFit` says that no other MTU leads there.
- `nagle.c` sets `snd_una` to whatever acknowledgement comes last, so an overtaken one moves it back;
  `Nagle` has a constant for this (`Reorders`) and is checked with ordered acknowledgements.
- `keepalive.c` fires a burst of probes to a caller that is late, and gives up with the last probe instead of after it.
- `congestion.c` stays in slow start after a triple duplicate ACK when it was there.
- `tcp_cubic.c` raises the window on a loss when it is below two segments.
- `teardown.c` takes any ACK for the ACK of its FIN; `tcp_fsm.c` has no transition for a FIN in SYN_RCVD or a
  crossing SYN in SYN_RCVD, so the runs close only established connections and open from one side.
- `nat.c` never updates `last_used`: only a caller that writes it keeps an entry from the sweep. And `next_port` gives a port out again
  after a round of the ports, whether or not an entry still has it. Both are in `NatTable`, which runs past the round;
  replies are promised to reach their flow as long as the mapping and the entries in the table are within one round
  of each other (`WithinARound`), and without that condition TLC finds a reply that reaches another host.
- `fragment.c` accepts a set whose last fragment is missing, as a shorter packet: `ReassemblyIsFaithful` says that
  the result is a beginning of the packet, and the whole of it when the last fragment is there.
- `bridge.c` lets learning override a static entry; `l2switch.c` keeps its MAC table when a port changes
  its mode, and never reads its table of VLANs; `stp.c` has `nfs_bpdu_superior`, which nothing calls.
- `ttl.c` keeps the TTL in eight bits: a probe numbered 256 has none. `chunked.c` takes a body that ends at a chunk
  boundary for a complete one. `http_conn.c` does not announce the close that its request limit causes.
- `promisc.c` counts frames for other hosts in both modes; the comment at `promisc.h:50` says "only in promisc".
- `sack.c` replaces the block with the highest left edge, where its comment says the least recent.


## 4. Proofs

Everything below holds for every value of the constants that meets the named assumptions (`RdtConstants`,
`ProtocolSuiteConstants`, `FlowSuiteConstants`, `TableSuiteConstants`: sizes are naturals, what the code divides by is not zero, an
array is smaller than the modulus of its indices). TLC evaluates the assumptions in every run. A hypothesis of a theorem
that is not such an assumption is a condition under which the code keeps its promise; TLC or the code
shows that it is needed, and the table says which.

| theorem | states | hypotheses |
|---|---|---|
| **`RdtProofs`** | | |
| `TypeCorrect` | `[]TypeOK`: no array of `rdt.c` is written past its end | |
| `PrefixDelivery` | `[]DeliveredIsPrefix` | |
| `BaseSafety` | `[]BaseFollowsReceiver` | |
| `ImplementsPipe` | `PipeSpec`: Go-Back-N implements `BytePipe` | |
| `AckedBytes` | `[]AckedBytesAreHeld` | |
| **`ProtocolProofs`** | | |
| `ImplementsAimd` | `AimdSpec`: `congestion.c`, `tcp_reno.c`, `fast_recovery.c` implement `Aimd` | |
| `WindowsAccounted` | `[]WindowsAreAccounted` | |
| `TimerFollows` | `[]TimerFollowsSamples` | |
| `PathsKnown` | `[]PathsAreKnown` | |
| `ConnectionsJudged` | `[]JudgedOnEvidence` | |
| `ConnectionsMutual` | `[]EstablishedIsMutual` | `OneOpener` |
| `FinsAgreed` | `[]FinsAreAgreed` | `OneOpener`, `DataAcks = 0` |
| `QuietTimeWait` | `QuietAfterTimeWait`, an action property | `DataAcks = 0` |
| `ProtocolTypes` | `[]TypeOK` of the whole suite | |
| **`FlowProofs`** | | |
| `PromisesKept` | `[]PromisesAreKept` | `Reorders = FALSE` |
| `CountersExact` | `[]CountersAreExact` | |
| `AckedOnlyGrows` | `Tcb!AckedNeverShrinks`, an action property | |
| `AcksDoTheirWork` | `[]AcksRelease` | `NoWrap` |
| `NeededBytesHeld` | `[]NeededBytesAreHeld` | `NoWrap`, `WholeSegments` |
| `BoardExact` | `[]BoardIsExact`: SACK scoreboard, any number of blocks and room for holes | `NumbersDoNotWrap` |
| `FlowIsTyped` | `[]TypeOK` of the whole suite | |
| **`ForwardingProofs`** | | |
| `HostsAreFollowed` | `[]TrafficFollowsTheHosts`: ARP cache, MAC table, bridge, switch | |
| `FramesAreContained` | `[]FramesStayInside`: bridge, switch | |
| `PacketsArriveRight` | `[]PacketsGoWhereTheyShould`: fragments, NAT, both routing tables | |
| **`TableProofs`** | | |
| `OrderIsKept` | `[]QueuesKeepOrder`: HPACK table, HTTP pipeline, descriptors | `NoLongHeaders` |
| `CallersAreToldTheTruth` | `[]ViewsAreCurrent`: HTTP connection, cookie jar, descriptors, spanning tree | |
| `TablesAreTyped` | `[]TypeOK` of the whole suite | |

Why the hypotheses are there:

- `OneOpener` (one end opens actively, connections are closed in ESTABLISHED or CLOSE_WAIT): `tcp_fsm.c` has no transition
  for a SYN that crosses its own in SYN_RCVD nor for a FIN in SYN_RCVD, and drops the segment.
- `DataAcks = 0` (no acknowledgement of data is still under way at the close): `teardown.c` takes any ACK for the ACK of its FIN.
- `Reorders = FALSE`: `nagle.c` sets `snd_una` to whatever comes last, so an overtaken ACK moves it back.
- `NoWrap` (the flight ends below the modulus): `sliding_window.c` and `retx_queue.c` compare sequence numbers as plain
  unsigned numbers. `CountersExact` needs no such hypothesis: the differences are right across the wrap, only the comparisons are not.
- `NumbersDoNotWrap` (the stream ends below the modulus): `sack.c` does the same (run `sack_wrap`).
- `WholeSegments`: `retx_queue.c` drops a segment of which only a part is acknowledged (run `retx_queue_partial`).
- `NoLongHeaders` (no name or value is longer than its field): `hpack.c` stores such a header cut and counts it whole (run
  `hpack_long_header`). The types of the table hold without it (`HpTypes`, part of `TablesAreTyped`).

Three properties carry their condition themselves, because it is about the state and not about the constants: an acknowledged
byte may be missing behind a full receive buffer (`AckedBytesAreHeld`), a reply is promised within a round of the ports
(`WithinARound`), and a copy fits its array for an MTU between the header and the array (`FragmentsFit`).

**The inductive invariants.** None of the properties is inductive as it stands.

*Go-Back-N.* That the receive buffer is a prefix says nothing about the segments under way, and a step that
takes one from the network needs to know which bytes it carries. `IInv` ties the three copies of a segment, in
the sender's array, in the network and in the buffer, to the history of accepted bytes: `off[k]` is the length
of the stream before segment `k - 1`; every segment in the array or in the network `Carries` the bytes of the
stream at its offset (`SenderInv`, `NetInv`); the buffer is exactly as long as the offset of `expected_seq`, cut
to its size, and holds the stream's bytes (`ReceiverInv`); no acknowledgement exceeds `expected_seq` (`NetInv`),
which keeps `base` at or below it. After `nfs_rdt_sender_free` the array is empty and the network still holds
old segments: their bytes are described by the history, not by the array. `AckedBytes` adds `GrowthInv`:
the offsets ascend, so that the bytes below `base` lie before those up to `expected_seq`, all of which the buffer holds unless it is full.

*Controllers.* Each window invariant (`BasicInv`, `RenoInv`, `FastRecoveryInv`, `CubicInv`) adds what the windows
have to do with the thresholds and with the duplicates counted since the loss; the increase of one ACK is
bounded by `SmallIncrease`, whatever the integer division rounds. For `Bbr` the invariant `BbrRing` says which slot of the ring
holds the i-th latest sample (`SlotOf`) and that the filter's answer is their maximum. For `Rto`, `RtoInv` keeps the
smoothed value between the smallest and the largest sample (`Measured`) through the update
with weights 1/8 and 1/4. `TraceInv` ties the answers so far to the routers at those distances, `PathInv` says
that neither the cached estimate nor the packet under way is below the plateau under the narrowest link.

*Connections.* Both state machines are proved by position: `Handshaking` and `Closing` list what the two states and the two
channels may be together, as a relation symmetric in the ends (`Closes`), and each event moves from one position
to another. `TcpFsm` and `Teardown` share the positions of the close; `Teardown` adds the age of the segments in each
channel against the time spent in TIME_WAIT (`TdAges`). `HandshakeInv` says which context a segment under way was
sent from; `NegotiationInv` does that for ECN. `ConntrackInv` has the counter equal to the cardinality of
the used slots, and every used slot with the direction that opened it heard (`WasHeard`): the packet that establishes a UDP entry comes from the other one.

*Flow.* `TcbInv` and `SwInv` say that a sequence number is its position in the stream plus the initial number, modulo the word
(lemmas `DivMod` to `ModFollows` are the arithmetic of that); `SwHeld`, that every position in flight has its
byte in its slot of the ring, and two positions in flight never share a slot. `RqInv` says that the queue is in order,
covers everything between the acknowledged position and the last one sent, and that every acknowledgement
under way falls on a boundary between segments. `AcksPromise`, for the receive window, ties each
advertisement under way to the space there will be when it arrives; `NagleInv` ties the short segment outstanding to the acknowledgement owed.
`SackInv` says that the blocks are apart, not empty and hold only what was received, and that the first one has what was
reported last, for positions below the word, where a number is its position. Its three loops have an invariant each: after n blocks `SkMerged` has a list in order, apart, that covers the n
(it needs them sorted: `SkArranged`, and `SkSorts` that they can be), `SkTrimmed` what is left of each above the
cumulative ACK, and `SkHoled` the bytes below the cursor that are in none of them, or as many holes as there is room for. The types of `nagle.c` need that
what was received and what is under way add up to what was sent: `NgPositions` has the positions at which the segments begin.

*Forwarding.* What a sweep leaves is proved once for all tables: `IsTurn` says that a turn either goes on after an
entry that is settled or takes one out and stays, `SwapRemoval` that removal keeps the entries before the hole where they were,
`SweepResult` that as many turns as there are entries leave settled ones only. The prover cannot instantiate an induction
theorem that takes a predicate, so the induction is done on sets: `LeastNatural` gives the first turn at
which a loop leaves the set of its states, and `LoopExists` builds the loop itself, so that the recursive function of the
model, a CHOOSE, is known to be one. `ArpInv` and `MacInv`: an address has one entry at most, and it says what was learned
last. `BrInv` and `SwitchInv` add that the database names only ports that were named since their last removal and nobody that was not heard in the VLAN.
`FragGood` says which bytes of the packet a fragment carries, however often it was cut; a set that tiles the payload is
in order exactly when each fragment begins where the one before it ends (`FragTiles`, by counting nothing: the first byte
after one fragment is in the next), `FragRoom` says when a copy
fits its array, the wrap of the MTU included, and `FragAssembled` is the loop that puts fragments together. `NatInv` says that every
entry is one of the mappings made and that mapping k has port `PortStart + k - 1` modulo the number of ports, so that two
mappings with the same port are a round apart (`NatSamePort`). For the routing tables `RtBlock`
is the arithmetic of masks, and `LpBest` and `RtBest` say what a lookup has found after n routes; `RtInv` keeps the
number of routes of a prefix equal to what was added and not removed.

*Tables.* `HpackInv` reads the ring backwards from `head` (`HpPlace`) and finds the table of RFC 7541 there;
`HpTotals` are the sums its sizes are made of, and `HpMost` is the number of entries the eviction loop ends with. `HttpInv` and
`NbInv` say the same of the pipeline's ring and of a descriptor's buffer with the history of what went in. `JarInv` has one
cookie for a key, the one set last, and every one that has not expired; `JarHeaderIs` says what the header holds after n
cookies. `StpInv` bounds what a bridge believes, and what is under way to one, by every potential of the root it names
(`StpBounded`), so no order of BPDUs gives a path cheaper than the cheapest.

**Checked by TLC only.** Liveness (`EverythingAcked`, `BytesGetThrough`, `ControllersMakeProgress`,
`ConnectionsComplete`, `ProbingSucceeds`, `ElectionConverges`): fairness and ENABLED are out of the prover's reach.
The codecs (`MCCodecs`): their encoders are folds and recursive operators over octets, with which the prover loses its
SMT backend.


## 5. Not modelled

Each part has its entry in `PROJECT.json`.

*Whole lessons:* text and formatting only (hex dump, syslog, the toy HTTP server), floating point (modulation,
channel capacity), wrappers of the C library's address records (`05/01`, `05/02`), the UDP echo server (a copy of
the payload and three counters), the Python scripts and the website.

*Parts of modelled lessons:* the system calls of the sniffer and of TUN; delay and reordering of the virtual
wire, which are answers to the caller; the 8b/10b tests and the times of `wire.c`; efficiencies and NTP's
conversion to and from a double (floating point); constant lists (HPACK's static table, MIME types); parsing of
`Set-Cookie`, chunk extensions and trailer fields; `nfs_bpdu_superior` and `nfs_stp_path_cost`, which the election
does not call; the VLAN names and counters of the layer-2 switch.

*Formats:* where text is parsed a character is its code; printing of flags and summaries is left out. Cryptography in the TLS and QUIC lessons is opaque bytes in the code as well.


## 6. Plan

In order of importance:

1. The codecs without state that take no fold (`Seqnum`, the bit fields and shifts of `PacketFormats`): lemmas for every width.
2. Compositions: window scaling with the receive window, and SACK with the retransmission queue.
