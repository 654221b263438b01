------------------------------ MODULE L2Switch ------------------------------
(***************************************************************************)
(* The layer-2 switch with VLANs (phases/02-link-layer/                    *)
(* 18-capstone-a-tiny-l2-switch/l2switch.c), with hosts that speak and     *)
(* move.  The MAC table is searched by address and VLAN, so it is a        *)
(* partial function of both with at most Slots entries; its clock is left  *)
(* out and a sweep may find any entry expired.  The list of VLAN names,    *)
(* which forwarding never reads, and the counters are left out.            *)
(***************************************************************************)
EXTENDS Naturals, FiniteSets

CONSTANTS
    Host, Group,  \* unicast addresses and a broadcast or multicast address
    Vlan,         \* VLAN numbers in use
    Configs,      \* port configurations in use: mode and pvid
    MaskBits,     \* VLANs from here on do not fit the allowed_vlans mask (64)
    MaxPorts,     \* NFS_SW_MAX_PORTS
    Slots         \* NFS_SW_MAC_TABLE

Mode == {"ACCESS", "TRUNK"}

L2SwitchConstants ==
    Group \notin Host /\ Vlan \subseteq Nat \ {0} /\ Configs \subseteq Mode \X Vlan /\ MaxPorts \in Nat \ {0} /\ Slots \in Nat

VARIABLES
    ports,      \* the ports added, in order: mode, pvid, allowed_vlans
    mac_table,
    at,         \* the port each host is connected to
    heard,      \* history: host and VLAN, "never" spoken in, or "fresh": since the
                \* host or its port changed, or "before" that
    result      \* the last frame: destination, ingress port and struct nfs_sw_result

vars == <<ports, mac_table, at, heard, result>>

Untagged == 0
NoResult == [dst |-> Group, src_port |-> 0, action |-> "NONE", dst_port |-> 0, vlan |-> Untagged]

\* nfs_sw_init.
Init ==
    /\ ports = <<>>
    /\ mac_table = <<>>
    /\ at = [h \in Host |-> 1]
    /\ heard = [k \in Host \X Vlan |-> "never"]
    /\ result = NoResult

Outdated(S) == [k \in Host \X Vlan |-> IF k[1] \in S /\ heard[k] = "fresh" THEN "before" ELSE heard[k]]

Mask(v) == IF v < MaskBits THEN {v} ELSE {}
Configured(mode, pvid) == [mode |-> mode, pvid |-> pvid, allowed |-> Mask(pvid)]

\* nfs_sw_add_port.
AddPort(mode, pvid) ==
    /\ Cardinality(DOMAIN ports) < MaxPorts
    /\ ports' = [p \in 1..(Cardinality(DOMAIN ports) + 1) |->
                   IF p \in DOMAIN ports THEN ports[p] ELSE Configured(mode, pvid)]
    /\ result' = NoResult
    /\ UNCHANGED <<mac_table, at, heard>>

\* nfs_sw_set_port_mode: the MAC table keeps what it knows of the port.
SetPortMode(p, mode, pvid) ==
    /\ ports' = [ports EXCEPT ![p] = Configured(mode, pvid)]
    /\ heard' = Outdated({h \in Host : at[h] = p})
    /\ result' = NoResult
    /\ UNCHANGED <<mac_table, at>>

\* nfs_sw_port_allow_vlan.
AllowVlan(p, v) ==
    /\ v < MaskBits
    /\ ports' = [ports EXCEPT ![p].allowed = @ \cup {v}]
    /\ result' = NoResult
    /\ UNCHANGED <<mac_table, at, heard>>

\* Mutant: the table does not tell VLANs apart.
KeyAnyVlan(mac, v) == <<mac, Untagged>>

Key(mac, v) == <<mac, v>>

\* nfs_sw_mac_learn.
Learned(mac, p, v) ==
    IF Key(mac, v) \in DOMAIN mac_table \/ Cardinality(DOMAIN mac_table) < Slots
    THEN [k \in DOMAIN mac_table \cup {Key(mac, v)} |-> IF k = Key(mac, v) THEN p ELSE mac_table[k]]
    ELSE mac_table

\* The VLAN of a frame: its tag counts on a trunk only.
VlanOf(p, tag) == IF ports[p].mode = "TRUNK" /\ tag # Untagged THEN tag ELSE ports[p].pvid

\* nfs_sw_process_frame, for a frame of host h.
ProcessFrame(h, dst, tag) ==
    LET p == at[h]
        v == VlanOf(p, tag)
        Is(action, port) ==
            [dst |-> dst, src_port |-> p, action |-> action, dst_port |-> port, vlan |-> v]
    IN
    /\ p \in DOMAIN ports
    /\ \/ /\ v \notin ports[p].allowed
          /\ result' = Is("DROP", 0)
          /\ UNCHANGED <<mac_table, heard>>
       \/ /\ v \in ports[p].allowed
          /\ mac_table' = Learned(h, p, v)
          /\ heard' = [heard EXCEPT ![<<h, v>>] = "fresh"]
          /\ result' = IF dst = Group \/ Key(dst, v) \notin DOMAIN mac_table' THEN Is("FLOOD", 0)
                       ELSE IF mac_table'[Key(dst, v)] = p THEN Is("DROP", 0)
                       ELSE Is("FORWARD", mac_table'[Key(dst, v)])
    /\ UNCHANGED <<ports, at>>

\* nfs_sw_mac_flush, and nfs_sw_mac_age for whatever has expired.
Expire(due) ==
    /\ mac_table' = [k \in DOMAIN mac_table \ due |-> mac_table[k]]
    /\ result' = NoResult
    /\ UNCHANGED <<ports, at, heard>>

Move(h, p) ==
    /\ at' = [at EXCEPT ![h] = p]
    /\ heard' = Outdated({h})
    /\ result' = NoResult
    /\ UNCHANGED <<ports, mac_table>>

Next ==
    \/ \E c \in Configs : AddPort(c[1], c[2])
    \/ \E p \in DOMAIN ports, c \in Configs : SetPortMode(p, c[1], c[2])
    \/ \E p \in DOMAIN ports, v \in Vlan : AllowVlan(p, v)
    \/ \E h \in Host, dst \in Host \cup {Group}, tag \in Vlan \cup {Untagged} :
           ProcessFrame(h, dst, tag)
    \/ \E due \in SUBSET DOMAIN mac_table : Expire(due)
    \/ \E h \in Host, p \in DOMAIN ports : Move(h, p)

Spec == Init /\ [][Next]_vars

-----------------------------------------------------------------------------
TypeOK ==
    /\ DOMAIN ports \subseteq 1..MaxPorts
    /\ \A p \in DOMAIN ports :
           ports[p] \in [mode : Mode, pvid : Vlan, allowed : SUBSET {v \in Vlan : v < MaskBits}]
    /\ Cardinality(DOMAIN mac_table) <= Slots

\* A host that has spoken in a VLAN since it moved gets its frames of that
\* VLAN, unless the sender's port is not in it: they are flooded, sent to the
\* host's port, or came from there.
FreshHostsAreReached ==
    LET k == <<result.dst, result.vlan>>
    IN
    k \in DOMAIN heard /\ heard[k] = "fresh" /\ result.vlan \in ports[result.src_port].allowed =>
        \/ result.action = "FLOOD"
        \/ result.action = "FORWARD" /\ result.dst_port = at[result.dst]
        \/ result.action = "DROP" /\ result.src_port = at[result.dst]

\* VLANs are kept apart: a frame is forwarded to a host only in a VLAN in
\* which that host was heard, by a port that is in the VLAN.
ForwardingStaysInTheVlan ==
    result.action = "FORWARD" =>
        /\ heard[<<result.dst, result.vlan>>] # "never"
        /\ result.vlan \in ports[result.src_port].allowed
=============================================================================
