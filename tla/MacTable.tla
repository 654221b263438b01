------------------------------ MODULE MacTable ------------------------------
(***************************************************************************)
(* MAC learning and forwarding (phases/02-link-layer/                      *)
(* 10-switching-tables-and-mac-learning/mac_table.c), with hosts that      *)
(* speak and move.  A frame is learned from and then forwarded, as in      *)
(* main.c.  The array shrinks by moving its last entry into the hole;      *)
(* now - last_seen is kept as the entry's age, up to MaxAge + 1.           *)
(***************************************************************************)
EXTENDS Naturals, Sequences, FiniteSets

CONSTANTS
    Host,      \* unicast addresses
    Group,     \* a broadcast or multicast address
    Port,      \* ports
    Capacity,  \* capacity
    MaxAge     \* max_age_sec of every sweep

MacTableConstants ==
    Group \notin Host /\ Port # {} /\ Capacity \in Nat /\ MaxAge \in Nat

VARIABLES
    entries,  \* the first count elements of the array
    at,       \* the port each host is connected to
    fresh,    \* history: hosts that have spoken since they last moved
    out,      \* the last frame: its destination, where it came in and went out
    swept     \* history: nothing happened since the last sweep

vars == <<entries, at, fresh, out, swept>>

NoFrame == [dst |-> Group, src_port |-> 0, ports |-> {}]

\* nfs_fdb_init; every host starts at the same port.
Init ==
    /\ entries = <<>>
    /\ at = [h \in Host |-> CHOOSE p \in Port : TRUE]
    /\ fresh = {}
    /\ out = NoFrame
    /\ swept = FALSE

IndexOf(mac, s) == {i \in DOMAIN s : s[i].mac = mac}

\* Mutant: a known address keeps its port.
LearnedKeeps(s, mac, port) ==
    IF IndexOf(mac, s) # {} THEN s
    ELSE IF Len(s) < Capacity THEN Append(s, [mac |-> mac, port |-> port, age |-> 0])
    ELSE s

\* nfs_fdb_learn: an update in place, a new entry, or -1 when there is no room.
Learned(s, mac, port) ==
    IF IndexOf(mac, s) # {}
    THEN [i \in DOMAIN s |-> IF s[i].mac = mac THEN [mac |-> mac, port |-> port, age |-> 0] ELSE s[i]]
    ELSE IF Len(s) < Capacity THEN Append(s, [mac |-> mac, port |-> port, age |-> 0])
    ELSE s

\* nfs_fdb_lookup and nfs_fdb_forward: flood a group or an unknown address,
\* forward a known one, and send nothing back to where it came from.
Ports(s, dst, src_port) ==
    IF dst = Group \/ IndexOf(dst, s) = {} THEN Port \ {src_port}
    ELSE {s[i].port : i \in IndexOf(dst, s)} \ {src_port}

Frame(h, dst) ==
    /\ entries' = Learned(entries, h, at[h])
    /\ out' = [dst |-> dst, src_port |-> at[h], ports |-> Ports(entries', dst, at[h])]
    /\ fresh' = fresh \cup {h}
    /\ swept' = FALSE
    /\ UNCHANGED at

Move(h, port) ==
    /\ at' = [at EXCEPT ![h] = port]
    /\ fresh' = fresh \ {h}
    /\ out' = NoFrame
    /\ UNCHANGED <<entries, swept>>

Without(s, i) == SubSeq([s EXCEPT ![i] = s[Len(s)]], 1, Len(s) - 1)

\* One turn of the loop of nfs_fdb_age: the array and the index after it.
AgeTurn(c) ==
    IF c.i > Len(c.array) THEN c
    ELSE IF c.array[c.i].age > MaxAge THEN [c EXCEPT !.array = Without(@, c.i)]
    ELSE [c EXCEPT !.i = @ + 1]

\* The loop, which takes as many turns as there are entries.
Aged(s) ==
    LET turns[n \in 0..Len(s)] ==
            IF n = 0 THEN [array |-> s, i |-> 1] ELSE AgeTurn(turns[n - 1])
    IN turns[Len(s)].array

Age ==
    /\ entries' = Aged(entries)
    /\ swept' = TRUE
    /\ out' = NoFrame
    /\ UNCHANGED <<at, fresh>>

Tick ==
    /\ entries' = [i \in DOMAIN entries |->
                     [entries[i] EXCEPT !.age = IF @ <= MaxAge THEN @ + 1 ELSE @]]
    /\ swept' = FALSE
    /\ out' = NoFrame
    /\ UNCHANGED <<at, fresh>>

Next ==
    \/ \E h \in Host, dst \in Host \cup {Group} : Frame(h, dst)
    \/ \E h \in Host, p \in Port : Move(h, p)
    \/ Age
    \/ Tick

Spec == Init /\ [][Next]_vars

-----------------------------------------------------------------------------
TypeOK ==
    /\ entries \in Seq([mac : Host, port : Port, age : 0..(MaxAge + 1)])
    /\ Len(entries) <= Capacity
    /\ at \in [Host -> Port] /\ fresh \subseteq Host

\* A host that has spoken since it moved gets its frames, whatever the table
\* still remembers, has aged out or had no room for: it is among the ports
\* the frame goes to, or on the segment it came from.
FreshHostsAreReached ==
    out.dst \in fresh => at[out.dst] \in out.ports \cup {out.src_port}

\* A sweep misses no entry, the one it has just moved included.
SweepIsComplete == swept => \A i \in DOMAIN entries : entries[i].age <= MaxAge
=============================================================================
