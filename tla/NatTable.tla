------------------------------ MODULE NatTable ------------------------------
(***************************************************************************)
(* Port translation (phases/03-network-layer/17-nat-what-really-happens/   *)
(* nat.c).  A flow is a pair of an inside endpoint (address and port) and  *)
(* a remote one (address, port, protocol).  The table never writes         *)
(* last_used after it makes an entry, with 0.0: a caller that keeps an     *)
(* entry alive sets it in the array, as tests/test_nat.c does.             *)
(*                                                                         *)
(* next_port is a word that comes round: nobody looks whether an entry     *)
(* still has the port it comes to.                                         *)
(***************************************************************************)
EXTENDS Naturals, Sequences

CONSTANTS
    Inside, Remote,  \* endpoints
    Capacity,        \* capacity
    PortStart,       \* port_start
    Ports,           \* number of ports, 65536
    Timeout,         \* timeout of the sweeps
    MaxMade,         \* bound: entries made in all
    MaxNow           \* bound on the clock

NatTableConstants ==
    /\ Capacity \in Nat /\ Ports \in Nat \ {0} /\ PortStart \in 0..(Ports - 1)
    /\ Timeout \in Nat \ {0} /\ MaxMade \in Nat /\ MaxNow \in Nat

VARIABLES
    entries,    \* the first count elements of the array
    next_port,
    now,        \* seconds since nfs_nat_init
    made        \* history: the mappings made, the oldest first

vars == <<entries, next_port, now, made>>

Port == 0..(Ports - 1)
Mapping == [in : Inside, rem : Remote, port : Port]

\* nfs_nat_init.
Init ==
    /\ entries = <<>>
    /\ next_port = PortStart
    /\ now = 0
    /\ made = <<>>

\* find_entry.
Find(in, rem) == {i \in DOMAIN entries : entries[i].in = in /\ entries[i].rem = rem}

\* Mutant: the port is worked out from the number of entries.
AllocatedByCount == (PortStart + Len(entries)) % Ports

\* next_port++
Allocated == next_port

\* nfs_nat_outbound: a known flow keeps its entry, and a new one is refused
\* (-1) when the array is full.  born is history: the place in made.
Outbound(in, rem) ==
    \/ /\ Find(in, rem) # {} \/ Len(entries) >= Capacity
       /\ UNCHANGED vars
    \/ /\ Find(in, rem) = {} /\ Len(entries) < Capacity /\ Len(made) < MaxMade
       /\ entries' = Append(entries, [in |-> in, rem |-> rem, port |-> Allocated, last_used |-> 0,
                                      born |-> Len(made) + 1])
       /\ next_port' = (next_port + 1) % Ports
       /\ made' = Append(made, [in |-> in, rem |-> rem, port |-> Allocated])
       /\ UNCHANGED now

\* The caller keeps an entry alive.
Use(i) ==
    /\ entries' = [entries EXCEPT ![i].last_used = now]
    /\ UNCHANGED <<next_port, now, made>>

\* The last entry takes the place.
Without(s, i) == SubSeq([s EXCEPT ![i] = s[Len(s)]], 1, Len(s) - 1)

\* One turn of the loop of nfs_nat_expire: the array and the index after it.
SweepTurn(c) ==
    IF c.i > Len(c.array) THEN c
    ELSE IF now - c.array[c.i].last_used >= Timeout THEN [c EXCEPT !.array = Without(@, c.i)]
    ELSE [c EXCEPT !.i = @ + 1]

\* The loop, which takes as many turns as there are entries.
Swept(s) ==
    LET turns[n \in 0..Len(s)] ==
            IF n = 0 THEN [array |-> s, i |-> 1] ELSE SweepTurn(turns[n - 1])
    IN turns[Len(s)].array

Expire ==
    /\ entries' = Swept(entries)
    /\ UNCHANGED <<next_port, now, made>>

Tick ==
    /\ now < MaxNow
    /\ now' = now + 1
    /\ UNCHANGED <<entries, next_port, made>>

Next ==
    \/ \E in \in Inside, rem \in Remote : Outbound(in, rem)
    \/ \E i \in DOMAIN entries : Use(i)
    \/ Expire
    \/ Tick

Spec == Init /\ [][Next]_vars

\* The comparison of nfs_nat_inbound.
ReplyMatches(e, rem, port) == e.port = port /\ e.rem = rem

\* nfs_nat_inbound: the first entry that matches, here as the set of its
\* inside endpoint, empty for -1.
Inbound(rem, port) ==
    {entries[i].in : i \in {j \in DOMAIN entries :
        /\ ReplyMatches(entries[j], rem, port)
        /\ \A k \in 1..(j - 1) : ~ReplyMatches(entries[k], rem, port)}}

-----------------------------------------------------------------------------
TypeOK ==
    /\ entries \in Seq([in : Inside, rem : Remote, port : Port, last_used : 0..MaxNow, born : 1..MaxMade])
    /\ Len(entries) <= Capacity
    /\ next_port \in Port /\ now \in 0..MaxNow
    /\ made \in Seq(Mapping) /\ Len(made) <= MaxMade

\* No entry was made a whole round of the ports before or after mapping k.
WithinARound(k) ==
    \A i \in DOMAIN entries : entries[i].born < k + Ports /\ k < entries[i].born + Ports

\* A reply to a port goes to the endpoint that was given it or to nobody,
\* also when it is late and entries were swept, moved and made since
\* (nfs_nat_inbound, nfs_nat_expire), as long as the ports have not gone
\* round between that mapping and one in the table.
RepliesReachTheirFlow ==
    \A k \in DOMAIN made :
        WithinARound(k) => Inbound(made[k].rem, made[k].port) \subseteq {made[k].in}

\* A flow in the table is reached, on the same condition, and it has one
\* entry only: outbound packets of a known flow reuse its mapping.
FlowsKeepTheirPort ==
    \A i \in DOMAIN entries :
        /\ WithinARound(entries[i].born) =>
              Inbound(entries[i].rem, entries[i].port) = {entries[i].in}
        /\ \A j \in DOMAIN entries :
               entries[j].in = entries[i].in /\ entries[j].rem = entries[i].rem => j = i
=============================================================================
