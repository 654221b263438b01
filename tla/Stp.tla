-------------------------------- MODULE Stp ---------------------------------
(***************************************************************************)
(* Spanning-tree root election (phases/02-link-layer/                      *)
(* 09-spanning-tree-stp-intuition/stp.c): bridges that tell their          *)
(* neighbours, on every port and again and again, which root they know and *)
(* at what cost.  Bridge identifiers are numbers: nfs_bridge_id_cmp orders *)
(* them by priority and then by MAC address.  A port is the link it is     *)
(* connected to; a newer BPDU takes the place of one still under way.      *)
(***************************************************************************)
EXTENDS Naturals, FiniteSets, FiniteSetsExt

CONSTANTS
    Bridges,  \* identifiers, numbers above zero
    Links,    \* sets of two bridges
    Cost,     \* path_cost of both ports of a link
    Horizon   \* bound of the reference: no bridge is further from another

StpConstants ==
    /\ Bridges \subseteq Nat \ {0}
    /\ \A l \in Links : l \subseteq Bridges /\ Cardinality(l) = 2
    /\ Cost \in [Links -> Nat \ {0}] /\ Horizon \in Nat

VARIABLES
    root_id, root_path_cost, root_port,  \* struct nfs_stp_bridge
    role,                                \* role[b][l]: role of b's port on l
    bpdu                                 \* bpdu[b][l]: under way to b on l, or NoBpdu

vars == <<root_id, root_path_cost, root_port, role, bpdu>>

PortsOf(b) == {l \in Links : b \in l}
Other(b, l) == CHOOSE c \in l : c # b
NoBpdu == [root |-> 0, cost |-> 0]
NoPort == {}

\* nfs_stp_bridge_init and nfs_stp_port_init.
Init ==
    /\ root_id = [b \in Bridges |-> b]
    /\ root_path_cost = [b \in Bridges |-> 0]
    /\ root_port = [b \in Bridges |-> NoPort]
    /\ role = [b \in Bridges |-> [l \in PortsOf(b) |-> "DESIGNATED"]]
    /\ bpdu = [b \in Bridges |-> [l \in PortsOf(b) |-> NoBpdu]]

Claim(b) == [root |-> root_id[b], cost |-> root_path_cost[b]]

Hello(b, l) ==
    /\ bpdu' = [bpdu EXCEPT ![Other(b, l)][l] = Claim(b)]
    /\ UNCHANGED <<root_id, root_path_cost, root_port, role>>

\* Mutant: a path on another port is taken whatever it costs.
BetterAny(new, old) == TRUE

Better(new, old) == new < old

\* Mutant: the cost of the port is forgotten.
ThroughFree(m, l) == m.cost

Through(m, l) == m.cost + Cost[l]

\* nfs_stp_process_bpdu with m on port l: the root, cost, root port and roles
\* after it.
After(b, l, m) ==
    LET new == Through(m, l)
        Keep(r) == [root |-> root_id[b], cost |-> root_path_cost[b], port |-> root_port[b],
                    role |-> r]
        Adopt(r) == [root |-> m.root, cost |-> new, port |-> l, role |-> r]
    IN
    IF m.root < root_id[b]
    THEN Adopt([k \in PortsOf(b) |-> IF k = l THEN "ROOT" ELSE "DESIGNATED"])
    ELSE IF m.root > root_id[b] \/ root_port[b] = NoPort THEN Keep(role[b])
    ELSE IF root_port[b] = l THEN Adopt(role[b])
    ELSE IF Better(new, root_path_cost[b])
    THEN Adopt([role[b] EXCEPT ![root_port[b]] = "DESIGNATED", ![l] = "ROOT"])
    ELSE Keep([role[b] EXCEPT ![l] = "ALTERNATE"])

Process(b, l) ==
    /\ bpdu[b][l] # NoBpdu
    /\ LET a == After(b, l, bpdu[b][l])
       IN  /\ root_id' = [root_id EXCEPT ![b] = a.root]
           /\ root_path_cost' = [root_path_cost EXCEPT ![b] = a.cost]
           /\ root_port' = [root_port EXCEPT ![b] = a.port]
           /\ role' = [role EXCEPT ![b] = a.role]
    /\ bpdu' = [bpdu EXCEPT ![b][l] = NoBpdu]

LoseBpdu(b, l) ==
    /\ bpdu[b][l] # NoBpdu
    /\ bpdu' = [bpdu EXCEPT ![b][l] = NoBpdu]
    /\ UNCHANGED <<root_id, root_path_cost, root_port, role>>

Next ==
    \E b \in Bridges : \E l \in PortsOf(b) : Hello(b, l) \/ Process(b, l) \/ LoseBpdu(b, l)

\* b would learn a better root or cost from m on l.
Teaches(b, l, m) ==
    m # NoBpdu /\ LET a == After(b, l, m)
                  IN  <<a.root, a.cost>> # <<root_id[b], root_path_cost[b]>>

\* The progress that hello timers and links that lose some, not all, BPDUs
\* give: news is sent, and received.
TellNews ==
    \E b \in Bridges : \E l \in PortsOf(b) : Teaches(b, l, Claim(Other(b, l))) /\ Hello(Other(b, l), l)
HearNews ==
    \E b \in Bridges : \E l \in PortsOf(b) : Teaches(b, l, bpdu[b][l]) /\ Process(b, l)

Spec == Init /\ [][Next]_vars /\ WF_vars(TellNews) /\ SF_vars(HearNews)

-----------------------------------------------------------------------------
TypeOK ==
    /\ root_id \in [Bridges -> Bridges] /\ root_path_cost \in [Bridges -> Nat]
    /\ \A b \in Bridges :
           /\ root_port[b] \in PortsOf(b) \cup {NoPort}
           /\ role[b] \in [PortsOf(b) -> {"ROOT", "DESIGNATED", "ALTERNATE"}]
           /\ bpdu[b] \in [PortsOf(b) -> [root : Bridges, cost : Nat] \cup {NoBpdu}]

\* Reference: the distance from r is the largest function that is 0 at r and
\* differs by no more than a link's cost between the ends of the link.
Potentials(r) ==
    {d \in [Bridges -> 0..Horizon] :
        d[r] = 0 /\ \A l \in Links : \A a, b \in l : d[a] <= d[b] + Cost[l]}
Distance == [r \in Bridges |-> [b \in Bridges |-> Max({d[b] : d \in Potentials(r)})]]
TrueCost(b, r) == Distance[r][b]

Lowest == CHOOSE b \in Bridges : \A c \in Bridges : b <= c

\* No bridge believes in a root worse than itself or in a path cheaper than
\* the cheapest there is, and its roles name its root port, whatever order
\* the BPDUs come in.
BeliefsAreSound ==
    \A b \in Bridges :
        /\ root_id[b] <= b
        /\ root_path_cost[b] >= TrueCost(b, root_id[b])
        /\ root_port[b] = NoPort <=> root_id[b] = b
        /\ \A l \in PortsOf(b) : role[b][l] = "ROOT" <=> root_port[b] = l

\* The election ends: every bridge comes to know the lowest identifier as
\* the root, for good, at the cost of a cheapest path.
ElectionConverges ==
    <>[](\A b \in Bridges : root_id[b] = Lowest /\ root_path_cost[b] = TrueCost(b, Lowest))
=============================================================================
