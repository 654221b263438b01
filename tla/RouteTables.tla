----------------------------- MODULE RouteTables ----------------------------
(***************************************************************************)
(* Two tables of routes.  The forwarding table (phases/03-network-layer/   *)
(* 04-longest-prefix-match-routing/lpm.c) has one route per prefix.  The   *)
(* routing table (05-the-routing-table/rtable.c) keeps several, with a     *)
(* metric and an UP flag, and removes one at a time; its gateway stands    *)
(* for the gateway, the interface and the other flags.  Both are arrays    *)
(* searched from end to end.  Addresses are Width bits wide.               *)
(***************************************************************************)
EXTENDS Naturals, Sequences, FiniteSets

CONSTANTS
    Width,             \* 32
    NextHop,           \* lpm.c
    Gateway, Metrics,  \* rtable.c
    Capacity

RouteTablesConstants == Width \in Nat \ {0} /\ Metrics \subseteq Nat /\ Capacity \in Nat

VARIABLES
    routes,      \* lpm.c: the first count elements of the array
    configured,  \* history: <<prefix, length>> -> next hop, as add and remove were called
    entries,     \* rtable.c: the first count elements of the array
    balance      \* history: routes added less routes removed, per prefix

vars == <<routes, configured, entries, balance>>

Addr == 0..(2^Width - 1)

-----------------------------------------------------------------------------
(* The forwarding table of lpm.c.                                          *)

\* Mutant: no case for length 0; the shift by the full width changes nothing.
PrefixMaskPlain(len) == IF len = 0 THEN 1 ELSE 2^(Width - len)

\* prefix_mask, as the number of addresses of a prefix; length 0 has its own
\* branch because the shift would be by the full width.
PrefixMask(len) == 2^(Width - len)

\* a & mask
Masked(a, len) == (a \div PrefixMask(len)) * PrefixMask(len)

LpmInit == routes = <<>> /\ configured = <<>>

\* The test for a duplicate.
SamePrefix(r, prefix, len) == r.len = len /\ Masked(r.prefix, len) = Masked(prefix, len)

Find(prefix, len) == {i \in DOMAIN routes :
    /\ SamePrefix(routes[i], prefix, len)
    /\ \A j \in 1..(i - 1) : ~SamePrefix(routes[j], prefix, len)}

\* Mutant: the array is taken for one longer than it is.
HasRoomLate == Len(routes) <= Capacity

HasRoom == Len(routes) < Capacity

\* nfs_route_add: replaces the route of the same prefix; -1 when full.
RouteAdd(prefix, len, hop) ==
    LET new == [prefix |-> Masked(prefix, len), len |-> len, hop |-> hop]
        key == <<(prefix \div 2^(Width - len)) * 2^(Width - len), len>>
    IN
    /\ \/ /\ Find(prefix, len) # {}
          /\ routes' = [i \in DOMAIN routes |-> IF i \in Find(prefix, len) THEN new ELSE routes[i]]
       \/ /\ Find(prefix, len) = {} /\ HasRoom
          /\ routes' = Append(routes, new)
    /\ configured' = [k \in DOMAIN configured \cup {key} |-> IF k = key THEN hop ELSE configured[k]]

\* nfs_route_remove: the last route takes the place.
RouteRemove(prefix, len) ==
    LET key == <<(prefix \div 2^(Width - len)) * 2^(Width - len), len>>
    IN
    /\ \E i \in Find(prefix, len) :
           routes' = SubSeq([routes EXCEPT ![i] = routes[Len(routes)]], 1, Len(routes) - 1)
    /\ configured' = [k \in DOMAIN configured \ {key} |-> configured[k]]

LpmNext ==
    \E prefix \in Addr, len \in 0..Width :
        RouteRemove(prefix, len) \/ \E hop \in NextHop : RouteAdd(prefix, len, hop)

\* The loop of nfs_route_lookup: a longer match replaces the best so far.
\* The result is the set of the route found, empty for NULL.
RouteLookup(dst) ==
    LET Matches(r) == Masked(dst, r.len) = Masked(r.prefix, r.len)
        f[i \in 0..Len(routes)] ==
            IF i = 0 THEN {}
            ELSE IF /\ Matches(routes[i])
                    /\ \A b \in f[i - 1] : routes[i].len > b.len
                 THEN {routes[i]} ELSE f[i - 1]
    IN f[Len(routes)]

LpmTypeOK ==
    /\ routes \in Seq([prefix : Addr, len : 0..Width, hop : NextHop])
    /\ Len(routes) <= Capacity

\* The configured prefixes that contain an address.
Covering(dst) ==
    {k \in DOMAIN configured : k[1] <= dst /\ dst < k[1] + 2^(Width - k[2])}

\* A lookup gives the next hop of the longest prefix that was configured and
\* not removed, the default route included, in whatever order the calls came.
LookupIsLongestMatch ==
    \A dst \in Addr :
        {r.hop : r \in RouteLookup(dst)} =
        {configured[k] : k \in {c \in Covering(dst) : \A d \in Covering(dst) : d[2] <= c[2]}}

-----------------------------------------------------------------------------
(* The routing table of rtable.c.                                          *)

\* dest & nfs_prefix_mask(len)
Net(a, len) == (a \div 2^(Width - len)) * 2^(Width - len)
Prefixes == {<<Net(a, len), len>> : a \in Addr, len \in 0..Width}

RtableInit == entries = <<>> /\ balance = [p \in Prefixes |-> 0]

\* nfs_rtable_add; -1 when full.
RtableAdd(dest, len, gw, metric, up) ==
    /\ Len(entries) < Capacity
    /\ entries' = Append(entries, [dest |-> Net(dest, len), len |-> len, gw |-> gw,
                                   metric |-> metric, up |-> up])
    /\ balance' = [balance EXCEPT ![<<Net(dest, len), len>>] = @ + 1]

\* The comparison of nfs_rtable_remove.
IsRoute(e, dest, len) == e.dest = Net(dest, len) /\ e.len = len

\* nfs_rtable_remove: the first route of the prefix; the last one takes its place.
RtableRemove(dest, len) ==
    /\ \E i \in DOMAIN entries :
           /\ IsRoute(entries[i], dest, len)
           /\ \A j \in 1..(i - 1) : ~IsRoute(entries[j], dest, len)
           /\ entries' = SubSeq([entries EXCEPT ![i] = entries[Len(entries)]], 1, Len(entries) - 1)
    /\ balance' = [balance EXCEPT ![<<Net(dest, len), len>>] = @ - 1]

RtableNext ==
    \E p \in Prefixes :
        \/ RtableRemove(p[1], p[2])
        \/ \E gw \in Gateway, metric \in Metrics, up \in BOOLEAN :
               RtableAdd(p[1], p[2], gw, metric, up)

\* Mutant: the metric decides before the length.
BetterByMetric(e, b) == e.metric < b.metric \/ (e.metric = b.metric /\ e.len > b.len)

\* Longer prefix wins, then the lower metric.
Better(e, b) == e.len > b.len \/ (e.len = b.len /\ e.metric < b.metric)

\* The loop of nfs_rtable_lookup: the set of the route found, empty for NULL.
RtableLookup(dst) ==
    LET f[i \in 0..Len(entries)] ==
            IF i = 0 THEN {}
            ELSE IF /\ entries[i].up
                    /\ Net(dst, entries[i].len) = entries[i].dest
                    /\ \A b \in f[i - 1] : Better(entries[i], b)
                 THEN {entries[i]} ELSE f[i - 1]
    IN f[Len(entries)]

RtableTypeOK ==
    /\ entries \in Seq([dest : Addr, len : 0..Width, gw : Gateway, metric : Metrics, up : BOOLEAN])
    /\ Len(entries) <= Capacity

Usable(dst) ==
    {i \in DOMAIN entries : /\ entries[i].up /\ entries[i].dest <= dst
                            /\ dst < entries[i].dest + 2^(Width - entries[i].len)}

\* A route is found whenever one that is up contains the address, none that
\* is longer exists, and none as long with a lower metric; removing a prefix
\* takes away one of its own routes.
LookupIsBest ==
    /\ \A dst \in Addr :
           /\ RtableLookup(dst) = {} <=> Usable(dst) = {}
           /\ \A r \in RtableLookup(dst), i \in Usable(dst) :
                  /\ entries[i].len <= r.len
                  /\ entries[i].len = r.len => r.metric <= entries[i].metric
    /\ \A p \in Prefixes :
           balance[p] = Cardinality({i \in DOMAIN entries : <<entries[i].dest, entries[i].len>> = p})
=============================================================================
