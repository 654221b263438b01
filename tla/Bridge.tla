------------------------------- MODULE Bridge -------------------------------
(***************************************************************************)
(* A bridge with ports that come and go and static entries                 *)
(* (phases/02-link-layer/17-bridges-in-linux/bridge.c), with hosts that    *)
(* speak and move.  The slots of the forwarding database are searched by   *)
(* address only, so it is a partial function from addresses, with at most  *)
(* Slots of them.  clock - timestamp is kept as an age, up to Aging + 1.   *)
(* Frame and byte counters are left out.                                   *)
(*                                                                         *)
(* A frame may come from any port, also from one that was removed or not   *)
(* yet added, and an entry may be made for any: bridge.c looks at no port's*)
(* `active' except to remove it.                                           *)
(***************************************************************************)
EXTENDS Naturals, FiniteSets

CONSTANTS
    Host, Broadcast,  \* addresses
    MaxPorts,         \* NFS_BRIDGE_MAX_PORTS
    Slots,            \* NFS_FDB_MAX_ENTRIES
    Aging             \* aging_time

BridgeConstants ==
    Broadcast \notin Host /\ MaxPorts \in Nat /\ Slots \in Nat /\ Aging \in Nat

VARIABLES
    num_ports, active,  \* ports added so far, and those not removed
    fdb,
    at,                 \* the port each host is connected to, or NoPort
    fresh,              \* history: hosts that have spoken since they last moved
    named,              \* history: ports a frame came from or an entry was made for
                        \* since they were removed
    out                 \* the last frame: destination, ingress port, action and port

vars == <<num_ports, active, fdb, at, fresh, named, out>>

PortNumber == 0..(MaxPorts - 1)
NoPort == MaxPorts
NoFrame == [dst |-> Broadcast, src_port |-> NoPort, action |-> "NONE", port |-> NoPort]

\* nfs_bridge_init.
Init ==
    /\ num_ports = 0
    /\ active = {}
    /\ fdb = <<>>
    /\ at = [h \in Host |-> NoPort]
    /\ fresh = {}
    /\ named = {}
    /\ out = NoFrame

\* nfs_bridge_add_port: a number is never used again.
AddPort ==
    /\ num_ports < MaxPorts
    /\ active' = active \cup {num_ports}
    /\ num_ports' = num_ports + 1
    /\ out' = NoFrame
    /\ UNCHANGED <<fdb, at, fresh, named>>

Only(S) == [m \in S |-> fdb[m]]

\* Mutant: the database is not cleaned.
KeptOnRemovalAll(p) == DOMAIN fdb

KeptOnRemoval(p) == {m \in DOMAIN fdb : fdb[m].port # p}

\* nfs_bridge_remove_port.
RemovePort(p) ==
    /\ p \in active
    /\ active' = active \ {p}
    /\ fdb' = Only(KeptOnRemoval(p))
    /\ named' = named \ {p}
    /\ out' = NoFrame
    /\ UNCHANGED <<num_ports, at, fresh>>

With(db, mac, entry) == [m \in DOMAIN db \cup {mac} |-> IF m = mac THEN entry ELSE db[m]]

\* Mutant: a full database is not noticed.
LearnedWhenFull(mac, p) ==
    IF mac \in DOMAIN fdb THEN With(fdb, mac, [fdb[mac] EXCEPT !.port = p, !.age = 0])
    ELSE With(fdb, mac, [port |-> p, age |-> 0, static |-> FALSE])

\* nfs_fdb_learn: a static entry keeps its mark and takes the new port.
Learned(mac, p) ==
    IF mac \in DOMAIN fdb THEN With(fdb, mac, [fdb[mac] EXCEPT !.port = p, !.age = 0])
    ELSE IF Cardinality(DOMAIN fdb) < Slots
         THEN With(fdb, mac, [port |-> p, age |-> 0, static |-> FALSE])
    ELSE fdb

\* nfs_bridge_forward and nfs_bridge_forward_port.
Forward(h, dst) ==
    LET p == at[h]
        Act(action, port) == [dst |-> dst, src_port |-> p, action |-> action, port |-> port]
    IN
    /\ p # NoPort
    /\ fdb' = Learned(h, p)
    /\ out' = IF dst = Broadcast \/ dst \notin DOMAIN fdb' THEN Act("FLOOD", NoPort)
              ELSE IF fdb'[dst].port = p THEN Act("DROP", NoPort)
              ELSE Act("FORWARD", fdb'[dst].port)
    /\ fresh' = fresh \cup {h}
    /\ named' = named \cup {p}
    /\ UNCHANGED <<num_ports, active, at>>

\* nfs_fdb_add_static: an entry for another port than the host's says nothing
\* of where the host is until it speaks again.
AddStatic(h, p) ==
    /\ \/ /\ h \in DOMAIN fdb
          /\ fdb' = With(fdb, h, [fdb[h] EXCEPT !.port = p, !.static = TRUE])
       \/ /\ h \notin DOMAIN fdb /\ Cardinality(DOMAIN fdb) < Slots
          /\ fdb' = With(fdb, h, [port |-> p, age |-> 0, static |-> TRUE])
    /\ fresh' = {g \in fresh : g # h \/ at[h] = p}
    /\ named' = named \cup {p}
    /\ out' = NoFrame
    /\ UNCHANGED <<num_ports, active, at>>

\* nfs_fdb_flush and nfs_fdb_age.
Drops(S) ==
    /\ fdb' = Only({m \in DOMAIN fdb : fdb[m].static \/ m \notin S})
    /\ out' = NoFrame
    /\ UNCHANGED <<num_ports, active, at, fresh, named>>

Flush == Drops(DOMAIN fdb)

Age == Drops({m \in DOMAIN fdb : fdb[m].age > Aging})

Tick ==
    /\ fdb' = [m \in DOMAIN fdb |-> [fdb[m] EXCEPT !.age = IF @ <= Aging THEN @ + 1 ELSE @]]
    /\ out' = NoFrame
    /\ UNCHANGED <<num_ports, active, at, fresh, named>>

Connect(h, p) ==
    /\ at' = [at EXCEPT ![h] = p]
    /\ fresh' = fresh \ {h}
    /\ out' = NoFrame
    /\ UNCHANGED <<num_ports, active, fdb, named>>

Next ==
    \/ AddPort
    \/ \E p \in active : RemovePort(p)
    \/ \E h \in Host, dst \in Host \cup {Broadcast} : Forward(h, dst)
    \/ \E h \in Host, p \in PortNumber : AddStatic(h, p)
    \/ Flush
    \/ Age
    \/ Tick
    \/ \E h \in Host, p \in PortNumber : Connect(h, p)

Spec == Init /\ [][Next]_vars

-----------------------------------------------------------------------------
TypeOK ==
    /\ num_ports \in 0..MaxPorts /\ active \subseteq 0..(num_ports - 1)
    /\ DOMAIN fdb \subseteq Host /\ Cardinality(DOMAIN fdb) <= Slots
    /\ at \in [Host -> PortNumber \cup {NoPort}] /\ fresh \subseteq Host
    /\ named \subseteq PortNumber

\* A removed port gets no frame because of what was learned or entered before
\* (nfs_bridge_remove_port): the database names only ports that a frame came
\* from or an entry was made for since, and no frame goes to another.  A
\* removed port that is named again does get frames.
RemovalIsClean ==
    /\ \A m \in DOMAIN fdb : fdb[m].port \in named
    /\ out.action = "FORWARD" => out.port \in named

\* A host that has spoken since it was connected gets its frames, even where
\* a static entry names an earlier port.
FreshHostsAreReached ==
    out.dst \in fresh =>
        \/ out.action = "FLOOD"
        \/ out.action = "FORWARD" /\ out.port = at[out.dst]
        \/ out.action = "DROP" /\ out.src_port = at[out.dst]
=============================================================================
