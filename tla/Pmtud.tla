------------------------------- MODULE Pmtud --------------------------------
(***************************************************************************)
(* Path MTU discovery (phases/03-network-layer/                            *)
(* 08-path-mtu-discovery-rfc-1191/pmtud.c): the cache of path MTUs, the    *)
(* plateau table and the probe timer, with the sender the lesson's main.c  *)
(* plays around them.  It sends with DF set, one packet at a time to a     *)
(* destination, and learns from the routers' "fragmentation needed", which *)
(* names the MTU of the next hop or not.  now - last_updated is kept as    *)
(* the entry's age, up to Interval.                                        *)
(***************************************************************************)
EXTENDS Naturals, Sequences, FiniteSetsExt

CONSTANTS
    Dest,
    Capacity,   \* capacity
    Plateaus,   \* the values of plateau_table
    LinkMtu,    \* MTU of the sender's own link
    PathMtus,   \* MTUs the narrowest link of a path may have
    Interval,   \* probe_interval
    MaxChanges  \* bound: changes of a path

Floor == Min(Plateaus)

PmtudConstants ==
    /\ Capacity \in Nat /\ Plateaus \subseteq Nat /\ Plateaus # {}
    /\ PathMtus \subseteq Nat /\ PathMtus # {} /\ LinkMtu \in Nat
    /\ \A m \in PathMtus : m >= Floor /\ m <= LinkMtu
    /\ Interval \in Nat \ {0} /\ MaxChanges \in Nat

VARIABLES
    entries,   \* the first count elements of the cache
    path,      \* the path MTU of every destination now
    flight,    \* the size sent to a destination and not answered, 0 for none
    reached,   \* the last packet to a destination arrived
    narrowest, \* history: the smallest MTU the path has had
    changes

vars == <<entries, path, flight, reached, narrowest, changes>>

Widest == Max(PathMtus)

\* nfs_pmtu_cache_init.
Init ==
    /\ entries = <<>>
    /\ path = [d \in Dest |-> Widest]
    /\ flight = [d \in Dest |-> 0]
    /\ reached = [d \in Dest |-> FALSE]
    /\ narrowest = [d \in Dest |-> Widest]
    /\ changes = 0

Find(d) == {i \in DOMAIN entries : entries[i].dest = d}

\* nfs_pmtu_cache_lookup: 0 for an unknown destination.
CacheLookup(d) == IF Find(d) = {} THEN 0 ELSE entries[CHOOSE i \in Find(d) : TRUE].pmtu

\* nfs_pmtu_cache_update: the cache after it; unchanged where it returns -1.
CacheUpdate(d, mtu) ==
    LET new == [dest |-> d, pmtu |-> mtu, age |-> 0]
    IN IF Find(d) # {} THEN [i \in DOMAIN entries |-> IF i \in Find(d) THEN new ELSE entries[i]]
       ELSE IF Len(entries) < Capacity THEN Append(entries, new)
       ELSE entries

\* Mutant: a plateau equal to the MTU that failed is tried again.
NextLowerOrSame(mtu) ==
    LET lower == {p \in Plateaus : p <= mtu} IN IF lower = {} THEN Floor ELSE Max(lower)

\* Mutant: the walk starts at the small end of the table.
NextLowerFromEnd(mtu) == Floor

\* nfs_pmtu_next_lower: the first value of the descending table below mtu.
NextLower(mtu) ==
    LET lower == {p \in Plateaus : p < mtu} IN IF lower = {} THEN Floor ELSE Max(lower)

\* nfs_pmtu_should_probe.
ShouldProbe(e) == e.age >= Interval

\* The sender uses what the cache says; when the probe timer is up it tries
\* the size of its own link again.
SizeFor(d) ==
    IF Find(d) = {} \/ \E i \in Find(d) : ShouldProbe(entries[i]) THEN LinkMtu ELSE CacheLookup(d)

Send(d) ==
    /\ flight[d] = 0
    /\ flight' = [flight EXCEPT ![d] = SizeFor(d)]
    /\ UNCHANGED <<entries, path, reached, narrowest, changes>>

\* The packet arrives: its size is what the path carries.
Deliver(d) ==
    /\ flight[d] # 0 /\ flight[d] <= path[d]
    /\ entries' = CacheUpdate(d, flight[d])
    /\ flight' = [flight EXCEPT ![d] = 0]
    /\ reached' = [reached EXCEPT ![d] = TRUE]
    /\ UNCHANGED <<path, narrowest, changes>>

\* A router drops it and answers, with its next-hop MTU or (old routers) without.
FragNeeded(d, named) ==
    /\ flight[d] > path[d]
    /\ entries' = CacheUpdate(d, IF named THEN path[d] ELSE NextLower(flight[d]))
    /\ flight' = [flight EXCEPT ![d] = 0]
    /\ reached' = [reached EXCEPT ![d] = FALSE]
    /\ UNCHANGED <<path, narrowest, changes>>

\* The packet, or the answer, is lost.
Lose(d) ==
    /\ flight[d] # 0
    /\ flight' = [flight EXCEPT ![d] = 0]
    /\ UNCHANGED <<entries, path, reached, narrowest, changes>>

\* The route changes.
Reroute(d, mtu) ==
    /\ changes < MaxChanges
    /\ changes' = changes + 1
    /\ path' = [path EXCEPT ![d] = mtu]
    /\ narrowest' = [narrowest EXCEPT ![d] = Min({@, mtu})]
    /\ reached' = [reached EXCEPT ![d] = FALSE]
    /\ UNCHANGED <<entries, flight>>

\* Interval (ten minutes) is long against the search for an MTU: it does not
\* pass while a search is under way.
Tick ==
    /\ \A d \in Dest : Find(d) # {} => reached[d]
    /\ \E i \in DOMAIN entries : entries[i].age < Interval
    /\ entries' = [i \in DOMAIN entries |->
                     [entries[i] EXCEPT !.age = IF @ < Interval THEN @ + 1 ELSE @]]
    /\ UNCHANGED <<path, flight, reached, narrowest, changes>>

Refuse(d) == \E named \in BOOLEAN : FragNeeded(d, named)

Next ==
    \/ \E d \in Dest : Send(d) \/ Deliver(d) \/ Refuse(d) \/ Lose(d)
    \/ \E d \in Dest, mtu \in PathMtus : Reroute(d, mtu)
    \/ Tick

\* A sender keeps sending, and a network that loses packets lets one through
\* that is sent again and again.
Fairness == \A d \in Dest : WF_vars(Send(d)) /\ SF_vars(Deliver(d)) /\ SF_vars(Refuse(d))

Spec == Init /\ [][Next]_vars /\ Fairness

-----------------------------------------------------------------------------
TypeOK ==
    /\ entries \in Seq([dest : Dest, pmtu : Plateaus \cup PathMtus \cup {LinkMtu}, age : 0..Interval])
    /\ Len(entries) <= Capacity
    /\ path \in [Dest -> PathMtus] /\ flight \in [Dest -> Nat] /\ reached \in [Dest -> BOOLEAN]

\* The estimate does not fall below the plateau under the narrowest link the
\* path has had: a search for the MTU ends there, whichever routers answer
\* with a number and whichever without (nfs_pmtu_next_lower).
EstimateIsNotTooLow ==
    \A d \in Dest : CacheLookup(d) # 0 =>
        CacheLookup(d) >= Max({p \in Plateaus : p <= narrowest[d]})

\* Packets with DF get through again after the path has narrowed, from
\* whatever the cache held.
PacketsGetThrough == \A d \in Dest : []<>reached[d]
=============================================================================
