----------------------------- MODULE Conntrack ------------------------------
(***************************************************************************)
(* Connection tracking (phases/04-transport/                               *)
(* 33-connection-tracking-from-outside/conntrack.c): a table of Slots      *)
(* entries that watches the packets of both directions of some             *)
(* connections.  A connection is a model value, and a packet one of its    *)
(* two directions: tuple_match takes a tuple and its reverse for the same. *)
(* now - last_seen is kept as the entry's idle time, up to IdleLimit;      *)
(* packet and byte counts are left out.                                    *)
(***************************************************************************)
EXTENDS Naturals, FiniteSets

CONSTANTS
    TcpConn, UdpConn,  \* connections, by protocol; their two hosts differ
    Slots,             \* NFS_CT_MAX_ENTRIES
    IdleLimit          \* timeout

ConntrackConstants ==
    TcpConn \cap UdpConn = {} /\ Slots \in Nat /\ IdleLimit \in Nat \ {0}

VARIABLES
    entries, count,  \* struct nfs_conntrack
    heard,           \* history: what was heard of a connection since its entry was made
    verdict          \* the classification of the last packet, and its connection

vars == <<entries, count, heard, verdict>>

Conn == TcpConn \cup UdpConn
Dir == {"orig", "reply"}
Free == [active |-> FALSE]
Entry == {Free} \cup [active : {TRUE}, conn : Conn, dir : Dir,
                      state : {"NEW", "ESTABLISHED"}, idle : 0..IdleLimit]

\* nfs_conntrack_init.
Init ==
    /\ entries = [i \in 1..Slots |-> Free]
    /\ count = 0
    /\ heard = {}
    /\ verdict = <<>>

\* find_entry, find_free: the lowest index.
Matching(c) == {i \in 1..Slots : entries[i].active /\ entries[i].conn = c}
FreeSlots == {i \in 1..Slots : ~entries[i].active}
Lowest(S) == CHOOSE i \in S : \A j \in S : i <= j

Of(c) == {c} \X Dir

\* Mutant: the direction of a UDP packet is not compared.
PromotesAnyWay(c, d, flags, e) == e.state = "NEW" /\ (c \in TcpConn => "ACK" \in flags)

\* What promotes an entry: for UDP a packet of the other direction, for TCP
\* an ACK of either direction, also of the one that opened the connection.
Promotes(c, d, flags, e) ==
    e.state = "NEW" /\ IF c \in TcpConn THEN "ACK" \in flags ELSE d # e.dir

\* nfs_conntrack_process with an entry: RST frees it, a SYN is invalid once
\* it is established, and whatever else refreshes it.
ProcessKnown(c, d, flags) ==
    LET i == Lowest(Matching(c))
        e == entries[i]
        refreshed == [entries EXCEPT ![i].idle = 0]
        Is(v) == verdict' = <<c, v>>
    IN
    /\ Matching(c) # {}
    /\ heard' = IF c \in TcpConn /\ "RST" \in flags THEN heard \ Of(c) ELSE heard \cup {<<c, d>>}
    /\ \/ /\ c \in TcpConn /\ "RST" \in flags
          /\ entries' = [entries EXCEPT ![i] = Free]
          /\ count' = count - 1
          /\ Is("INVALID")
       \/ /\ c \in TcpConn /\ flags = {"SYN"} /\ e.state = "ESTABLISHED"
          /\ entries' = refreshed
          /\ Is("INVALID")
          /\ UNCHANGED count
       \/ /\ ~(c \in TcpConn /\ "RST" \in flags)
          /\ ~(c \in TcpConn /\ flags = {"SYN"} /\ e.state = "ESTABLISHED")
          /\ entries' = IF Promotes(c, d, flags, e) THEN [refreshed EXCEPT ![i].state = "ESTABLISHED"]
                        ELSE refreshed
          /\ Is(entries'[i].state)
          /\ UNCHANGED count

\* Only a bare SYN opens a TCP connection; any UDP packet does.
Opens(c, flags) == c \in TcpConn => "SYN" \in flags /\ "ACK" \notin flags

\* ... and without an entry: a new one, unless the table is full.
ProcessUnknown(c, d, flags) ==
    /\ Matching(c) = {}
    /\ IF Opens(c, flags) /\ FreeSlots # {}
       THEN /\ entries' = [entries EXCEPT ![Lowest(FreeSlots)] =
                               [active |-> TRUE, conn |-> c, dir |-> d, state |-> "NEW", idle |-> 0]]
            /\ count' = count + 1
            /\ verdict' = <<c, "NEW">>
            /\ heard' = (heard \ Of(c)) \cup {<<c, d>>}
       ELSE /\ verdict' = <<c, "INVALID">>
            /\ UNCHANGED <<entries, count, heard>>

Process(c, d, flags) == ProcessKnown(c, d, flags) \/ ProcessUnknown(c, d, flags)

\* Mutant: expiry forgets to count.
CountAfterExpiryKept(expired) == count

CountAfterExpiry(expired) == count - Cardinality(expired)

\* nfs_conntrack_expire.
Expire ==
    LET expired == {i \in 1..Slots : entries[i].active /\ entries[i].idle >= IdleLimit}
    IN
    /\ expired # {}
    /\ entries' = [i \in 1..Slots |-> IF i \in expired THEN Free ELSE entries[i]]
    /\ count' = CountAfterExpiry(expired)
    /\ heard' = heard \ UNION {Of(entries[i].conn) : i \in expired}
    /\ verdict' = <<>>

Tick ==
    /\ entries' = [i \in 1..Slots |->
                     IF entries[i].active /\ entries[i].idle < IdleLimit
                     THEN [entries[i] EXCEPT !.idle = @ + 1] ELSE entries[i]]
    /\ UNCHANGED <<count, heard, verdict>>

Flags == {{"SYN"}, {"SYN", "ACK"}, {"ACK"}, {"RST"}, {"RST", "ACK"}, {"FIN"}}

Next ==
    \/ \E c \in TcpConn, d \in Dir, f \in Flags : Process(c, d, f)
    \/ \E c \in UdpConn, d \in Dir : Process(c, d, {})
    \/ Expire
    \/ Tick

Spec == Init /\ [][Next]_vars

-----------------------------------------------------------------------------
TypeOK ==
    /\ entries \in [1..Slots -> Entry] /\ count \in 0..Slots /\ heard \subseteq Conn \X Dir
    /\ verdict = <<>> \/ verdict \in Conn \X {"NEW", "ESTABLISHED", "INVALID"}

\* The table and its counter agree, a connection has at most one entry,
\* whichever of its directions came first, and no UDP entry or packet counts
\* as ESTABLISHED unless both directions were heard since the entry was made:
\* expiry takes that back and a slot used again starts anew
\* (nfs_conntrack_process, nfs_conntrack_expire).  Of TCP nothing of the kind
\* holds: the ACK that promotes an entry may be the opener's own.
TableIsConsistent ==
    /\ count = Cardinality({i \in 1..Slots : entries[i].active})
    /\ \A c \in Conn : Cardinality(Matching(c)) <= 1
    /\ \A i \in 1..Slots :
          /\ entries[i].active /\ entries[i].state = "ESTABLISHED"
          /\ entries[i].conn \in UdpConn
          => Of(entries[i].conn) \subseteq heard
    /\ \A c \in UdpConn : verdict = <<c, "ESTABLISHED">> => Of(c) \subseteq heard
=============================================================================
