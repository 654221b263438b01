------------------------------ MODULE MCTables ------------------------------
(***************************************************************************)
(* The tables and queues of the link, network, socket and application      *)
(* phases, and the spanning tree, on small instances.  They are separate   *)
(* programs: `which' is chosen once and a behaviour takes the steps of     *)
(* that part only.                                                         *)
(***************************************************************************)
EXTENDS Integers, Sequences, FiniteSets

CONSTANTS
    Ip, Mac, ArpCapacity, ArpTimeout,                           \* ArpCache
    Host, Group,                                                \* hosts, a group address
    Visitor, FdbPorts, FdbCapacity, FdbMaxAge,                  \* MacTable; one more host
    BridgePorts, BridgeSlots, BridgeAging,                      \* Bridge
    Vlan, SwConfigs, SwMaskBits, SwPorts, SwSlots,              \* L2Switch
    FragSize, FragMtus, FragCap, MaxFrags, MaxGot, FragOutSizes, \* Fragment
    Inside, Remote, NatCapacity, PortStart, NatPorts, Timeout,  \* NatTable
    NatMade, NatNow,
    LpmWidth, NextHop, LpmCapacity,                             \* Lpm
    RtWidth, Gateway, Metrics, RtCapacity,                      \* Rtable
    Headers, HpackSlots, FieldMax, TableMax,                    \* Hpack
    Uri, Ring, MaxRequests, MaxSent,                            \* HttpConn
    CookieName, CookieValue, CookieDomains, CookiePaths,        \* CookieJar
    RequestHosts, RequestPaths, Ages, JarCapacity, OutSizes,
    MaxFds, BufSize, MaxBytes, MaxWritten,                      \* Descriptors
    Bridges, Links, Cost, Horizon                               \* Stp

VARIABLES
    which,
    arp_entries, arp_told, arp_swept,                              \* ArpCache
    entries, at, fresh, out, swept,                                \* MacTable
    num_ports, active, fdb, br_at, br_fresh, named, br_out,        \* Bridge
    ports, mac_table, sw_at, heard, result,                        \* L2Switch
    net, got, spilt,                                               \* Fragment
    nat_entries, next_port, now, made,                             \* NatTable
    routes, configured,                                            \* Lpm
    rt_entries, balance,                                           \* Rtable
    hp_entries, count, head, current_size, expected,               \* Hpack
    version, max_requests, state, keep_alive_explicit,             \* HttpConn
    close_explicit, request_count,
    pipeline, pipeline_head, pipeline_tail, pipeline_count, asked, sent,
    cookies, latest,                                               \* CookieJar
    sp_next, sp_active, ready_events,                              \* Descriptors
    nb_next, nb_active, nonblocking, readable, writable, read_buf,
    read_total, write_total, injected, consumed,
    root_id, root_path_cost, root_port, role, bpdu                 \* Stp

ArpCache == INSTANCE ArpCache WITH Capacity <- ArpCapacity, MaxAge <- ArpTimeout,
                entries <- arp_entries, told <- arp_told, swept <- arp_swept
MacTable == INSTANCE MacTable WITH Host <- Host \cup {Visitor}, Port <- FdbPorts,
                Capacity <- FdbCapacity, MaxAge <- FdbMaxAge
Bridge == INSTANCE Bridge WITH Broadcast <- Group, MaxPorts <- BridgePorts,
                Slots <- BridgeSlots, Aging <- BridgeAging,
                at <- br_at, fresh <- br_fresh, out <- br_out
L2Switch == INSTANCE L2Switch WITH Configs <- SwConfigs, MaskBits <- SwMaskBits,
                MaxPorts <- SwPorts, Slots <- SwSlots, at <- sw_at
Fragment == INSTANCE Fragment WITH Size <- FragSize, Mtus <- FragMtus, OutSizes <- FragOutSizes
NatTable == INSTANCE NatTable WITH Capacity <- NatCapacity, Ports <- NatPorts,
                MaxMade <- NatMade, MaxNow <- NatNow, entries <- nat_entries
Lpm == INSTANCE RouteTables WITH Width <- LpmWidth, Capacity <- LpmCapacity, entries <- rt_entries
Rtable == INSTANCE RouteTables WITH Width <- RtWidth, Capacity <- RtCapacity, entries <- rt_entries
Hpack == INSTANCE Hpack WITH Header <- Headers, Slots <- HpackSlots, entries <- hp_entries
HttpConn == INSTANCE HttpConn
CookieJar == INSTANCE CookieJar WITH Name <- CookieName, Value <- CookieValue,
                Domains <- CookieDomains, Paths <- CookiePaths,
                Hosts <- RequestHosts, Targets <- RequestPaths, Capacity <- JarCapacity
Descriptors == INSTANCE Descriptors
Stp == INSTANCE Stp

ASSUME TableSuiteConstants ==
    /\ ArpCache!ArpCacheConstants /\ MacTable!MacTableConstants /\ Bridge!BridgeConstants
    /\ L2Switch!L2SwitchConstants
    /\ Fragment!FragmentConstants /\ NatTable!NatTableConstants
    /\ Lpm!RouteTablesConstants /\ Rtable!RouteTablesConstants
    /\ Hpack!HpackConstants /\ HttpConn!HttpConnConstants
    /\ CookieJar!CookieJarConstants /\ Descriptors!DescriptorsConstants
    /\ Stp!StpConstants

\* Values of the constants that are records, tuples or functions.
PortConfigs == {<<"ACCESS", 1>>, <<"TRUNK", 2>>}
\* With three slots and 110 bytes either limit may be the one that is met, one
\* header takes two others' place and one does not fit at all.
SomeHeaders == {<<1, 2>>, <<2, 4>>, <<3, 40>>, <<4, 80>>}
Domain(dot, labels) == [dot |-> dot, labels |-> labels]
Path(segments, slash) == [segments |-> segments, slash |-> slash]
SetDomains == {Domain(FALSE, <<>>), Domain(FALSE, <<"com">>), Domain(TRUE, <<"com">>)}
AskedDomains == {Domain(FALSE, <<"com">>), Domain(FALSE, <<"com", "a">>)}
SetPaths == {Path(<<"x">>, FALSE), Path(<<"x">>, TRUE)}
AskedPaths == {Path(<<>>, TRUE), Path(<<"x">>, FALSE), Path(<<"x", "y">>, FALSE)}
SomeAges == {-1, 0}
TriangleCost == [l \in Links |-> IF l = {1, 3} THEN 3 ELSE 1]

arpVars == <<arp_entries, arp_told, arp_swept>>
macVars == <<entries, at, fresh, out, swept>>
brVars == <<num_ports, active, fdb, br_at, br_fresh, named, br_out>>
swVars == <<ports, mac_table, sw_at, heard, result>>
fragVars == <<net, got, spilt>>
natVars == <<nat_entries, next_port, now, made>>
lpmVars == <<routes, configured>>
rtVars == <<rt_entries, balance>>
hpackVars == <<hp_entries, count, head, current_size, expected>>
httpVars == <<version, max_requests, state, keep_alive_explicit, close_explicit, request_count,
              pipeline, pipeline_head, pipeline_tail, pipeline_count, asked, sent>>
jarVars == <<cookies, latest>>
pollVars == <<sp_next, sp_active, ready_events>>
nbVars == <<nb_next, nb_active, nonblocking, readable, writable, read_buf, read_total, write_total,
            injected, consumed>>
stpVars == <<root_id, root_path_cost, root_port, role, bpdu>>

vars == <<which, arpVars, macVars, brVars, swVars, fragVars, natVars, lpmVars, rtVars,
          hpackVars, httpVars, jarVars, pollVars, nbVars, stpVars>>

Init ==
    /\ which \in {"arp_cache", "mac_table", "bridge", "l2switch", "fragment",
                  "nat", "lpm", "rtable", "hpack", "http_conn",
                  "cookie_jar", "select_poll", "nonblock", "stp"}
    /\ ArpCache!Init /\ MacTable!Init /\ Bridge!Init /\ L2Switch!Init
    /\ Fragment!Init /\ NatTable!Init /\ Lpm!LpmInit /\ Rtable!RtableInit
    /\ Hpack!Init /\ HttpConn!Init
    /\ CookieJar!Init /\ Descriptors!SpInit /\ Descriptors!NbInit /\ Stp!Init

\* A step of one part leaves the state of the others alone.
Only(part) ==
    /\ which = part /\ UNCHANGED which
    /\ IF part = "arp_cache" THEN TRUE ELSE UNCHANGED arpVars
    /\ IF part = "mac_table" THEN TRUE ELSE UNCHANGED macVars
    /\ IF part = "bridge" THEN TRUE ELSE UNCHANGED brVars
    /\ IF part = "l2switch" THEN TRUE ELSE UNCHANGED swVars
    /\ IF part = "fragment" THEN TRUE ELSE UNCHANGED fragVars
    /\ IF part = "nat" THEN TRUE ELSE UNCHANGED natVars
    /\ IF part = "lpm" THEN TRUE ELSE UNCHANGED lpmVars
    /\ IF part = "rtable" THEN TRUE ELSE UNCHANGED rtVars
    /\ IF part = "hpack" THEN TRUE ELSE UNCHANGED hpackVars
    /\ IF part = "http_conn" THEN TRUE ELSE UNCHANGED httpVars
    /\ IF part = "cookie_jar" THEN TRUE ELSE UNCHANGED jarVars
    /\ IF part = "select_poll" THEN TRUE ELSE UNCHANGED pollVars
    /\ IF part = "nonblock" THEN TRUE ELSE UNCHANGED nbVars
    /\ IF part = "stp" THEN TRUE ELSE UNCHANGED stpVars

Next ==
    \/ Only("arp_cache") /\ ArpCache!Next
    \/ Only("mac_table") /\ MacTable!Next
    \/ Only("bridge") /\ Bridge!Next
    \/ Only("l2switch") /\ L2Switch!Next
    \/ Only("fragment") /\ Fragment!Next
    \/ Only("nat") /\ NatTable!Next
    \/ Only("lpm") /\ Lpm!LpmNext
    \/ Only("rtable") /\ Rtable!RtableNext
    \/ Only("hpack") /\ Hpack!Next
    \/ Only("http_conn") /\ HttpConn!Next
    \/ Only("cookie_jar") /\ CookieJar!Next
    \/ Only("select_poll") /\ Descriptors!SpNext
    \/ Only("nonblock") /\ Descriptors!NbNext
    \/ Only("stp") /\ Stp!Next

OnStp(Act) == which = "stp" /\ UNCHANGED which /\ Act

\* Hello timers do not stop, and a link that loses messages lets one through
\* that is sent again and again.
Spec ==
    /\ Init /\ [][Next]_vars
    /\ WF_stpVars(OnStp(Stp!TellNews))
    /\ SF_stpVars(OnStp(Stp!HearNews))

-----------------------------------------------------------------------------
TypeOK ==
    /\ which = "arp_cache" => ArpCache!TypeOK
    /\ which = "mac_table" => MacTable!TypeOK
    /\ which = "bridge" => Bridge!TypeOK
    /\ which = "l2switch" => L2Switch!TypeOK
    /\ which = "fragment" => Fragment!TypeOK
    /\ which = "nat" => NatTable!TypeOK
    /\ which = "lpm" => Lpm!LpmTypeOK
    /\ which = "rtable" => Rtable!RtableTypeOK
    /\ which = "hpack" => Hpack!TypeOK
    /\ which = "http_conn" => HttpConn!TypeOK
    /\ which = "cookie_jar" => CookieJar!TypeOK
    /\ which = "select_poll" => Descriptors!SpTypeOK
    /\ which = "nonblock" => Descriptors!NbTypeOK
    /\ which = "stp" => Stp!TypeOK

\* Frames and lookups follow the hosts: whoever has spoken since it moved is
\* reached (mac_table.c, bridge.c, l2switch.c), an ARP lookup gives the address
\* learned last (arp_cache.c), whatever was moved, aged or refused, and a sweep
\* misses no entry, the one it has just moved into a hole included.
TrafficFollowsTheHosts ==
    /\ which = "arp_cache" => ArpCache!LookupIsLatest /\ ArpCache!SweepIsComplete
    /\ which = "mac_table" => MacTable!FreshHostsAreReached /\ MacTable!SweepIsComplete
    /\ which = "bridge" => Bridge!FreshHostsAreReached
    /\ which = "l2switch" => L2Switch!FreshHostsAreReached

\* Frames stay where they belong: none goes to a removed port because of what
\* the bridge learned before the removal (bridge.c), and none is forwarded to a
\* host in a VLAN it was never heard in (l2switch.c).
FramesStayInside ==
    /\ which = "bridge" => Bridge!RemovalIsClean
    /\ which = "l2switch" => L2Switch!ForwardingStaysInTheVlan

\* Packets arrive as they were sent and where they should: fragments that were
\* cut again, repeated or overtaken are put together to the packet that was
\* cut, and fit their arrays for every MTU between the smallest and the one
\* that fills an array (fragment.c); a reply to a translated port reaches the
\* endpoint that was given it, while the ports have not gone round since
\* (nat.c); and a lookup finds the best of the routes that are configured
\* (lpm.c, rtable.c), whatever entries were removed, replaced or moved into a
\* hole.
PacketsGoWhereTheyShould ==
    /\ which = "fragment" => Fragment!ReassemblyIsFaithful /\ Fragment!FragmentsFit
    /\ which = "nat" => NatTable!RepliesReachTheirFlow /\ NatTable!FlowsKeepTheirPort
    /\ which = "lpm" => Lpm!LookupIsLongestMatch
    /\ which = "rtable" => Rtable!LookupIsBest

\* Rings and buffers keep their order when they wrap and when entries are
\* evicted: an index of the dynamic table means the header that RFC 7541
\* gives it (hpack.c), pipelined requests are answered first come first
\* served (http_conn.c), bytes are read as they were written (nonblock.c).
QueuesKeepOrder ==
    /\ which = "hpack" => Hpack!IndicesAgree /\ Hpack!SizeIsExact
    /\ which = "http_conn" => HttpConn!PipelineIsFifo
    /\ which = "nonblock" => Descriptors!BytesAreReadInOrder

\* What a caller is told is what holds: whether the connection will close
\* (http_conn.c), which cookies a request carries after any additions,
\* replacements and sweeps (cookie.c), which descriptors are ready
\* (selectpoll.c, nonblock.c), and no bridge believes in a root or a path that
\* does not exist (stp.c).
ViewsAreCurrent ==
    /\ which = "http_conn" => HttpConn!CloseIsPredicted
    /\ which = "cookie_jar" => CookieJar!HeaderIsCurrent /\ CookieJar!JarIsExact
    /\ which = "select_poll" => Descriptors!SelectAgreesWithPoll
    /\ which = "nonblock" => Descriptors!ReadableMeansBytes
    /\ which = "stp" => Stp!BeliefsAreSound

\* Every bridge ends up with the lowest root at the cheapest cost (stp.c).
ElectionConverges == which = "stp" => Stp!ElectionConverges
=============================================================================
