------------------------------ MODULE ArpCache ------------------------------
(***************************************************************************)
(* The ARP cache (phases/02-link-layer/07-the-arp-cache/arp_cache.c): an   *)
(* array of entries that is searched from the front, grows at the end and  *)
(* is shrunk by moving the last entry into the hole.  difftime(now,        *)
(* timestamp) is kept as the entry's age, up to MaxAge.                    *)
(***************************************************************************)
EXTENDS Naturals, Sequences

CONSTANTS
    Ip, Mac,
    Capacity,  \* capacity
    MaxAge     \* timeout_sec of every sweep

ArpCacheConstants == Capacity \in Nat /\ MaxAge \in Nat \ {0}

VARIABLES
    entries,  \* the first count elements of the array
    told,     \* history: the address each IP was last given, and in which state
    swept     \* history: nothing happened since the last sweep

vars == <<entries, told, swept>>

State == {"INCOMPLETE", "REACHABLE", "STALE", "FAILED"}

\* nfs_arp_cache_init.
Init ==
    /\ entries = <<>>
    /\ told = <<>>
    /\ swept = FALSE

\* find_index: the set holds at most the lowest index.
Find(ip) == {i \in DOMAIN entries : entries[i].ip = ip
                 /\ \A j \in 1..(i - 1) : entries[j].ip # ip}

\* nfs_arp_cache_insert; it returns -1 when a new entry finds the array full.
Insert(ip, mac, state) ==
    LET new == [ip |-> ip, mac |-> mac, state |-> state, age |-> 0]
    IN
    /\ \/ /\ Find(ip) # {}
          /\ entries' = [i \in DOMAIN entries |-> IF i \in Find(ip) THEN new ELSE entries[i]]
       \/ /\ Find(ip) = {} /\ Len(entries) < Capacity
          /\ entries' = Append(entries, new)
    /\ told' = [x \in DOMAIN told \cup {ip} |-> IF x = ip THEN mac ELSE told[x]]
    /\ swept' = FALSE

\* Removal by index: the last entry takes the place.
Without(s, i) == SubSeq([s EXCEPT ![i] = s[Len(s)]], 1, Len(s) - 1)

\* nfs_arp_cache_remove.
Remove(ip) ==
    /\ Find(ip) # {}
    /\ entries' = Without(entries, CHOOSE i \in Find(ip) : TRUE)
    /\ swept' = FALSE
    /\ UNCHANGED told

\* Mutant: the loop goes on after the entry that was moved.
AfterRemovalSkips(i) == i + 1

\* The entry that was moved into the hole is looked at next.
AfterRemoval(i) == i

\* One turn of the loop of nfs_arp_cache_age: the array and the index after it.
AgeTurn(c) ==
    LET s == c.array
        i == c.i
        At(t, j) == [array |-> t, i |-> j]
    IN
    IF i > Len(s) THEN c
    ELSE IF s[i].age < MaxAge THEN At(s, i + 1)
    ELSE CASE s[i].state = "REACHABLE" -> At([s EXCEPT ![i].state = "STALE", ![i].age = 0], i + 1)
           [] s[i].state = "STALE" -> At(Without(s, i), AfterRemoval(i))
           [] OTHER -> At(s, i + 1)

\* The loop.  A turn goes on to the next index or leaves one entry less, so
\* that there are as many turns as entries.
Aged(s) ==
    LET turns[n \in 0..Len(s)] ==
            IF n = 0 THEN [array |-> s, i |-> 1] ELSE AgeTurn(turns[n - 1])
    IN turns[Len(s)].array

Age ==
    /\ entries' = Aged(entries)
    /\ swept' = TRUE
    /\ UNCHANGED told

Tick ==
    /\ entries' = [i \in DOMAIN entries |->
                     [entries[i] EXCEPT !.age = IF @ < MaxAge THEN @ + 1 ELSE @]]
    /\ swept' = FALSE
    /\ UNCHANGED told

Next ==
    \/ \E ip \in Ip, mac \in Mac, s \in State : Insert(ip, mac, s)
    \/ \E ip \in Ip : Remove(ip)
    \/ Age
    \/ Tick

Spec == Init /\ [][Next]_vars

-----------------------------------------------------------------------------
TypeOK ==
    /\ entries \in Seq([ip : Ip, mac : Mac, state : State, age : 0..MaxAge])
    /\ Len(entries) <= Capacity
    /\ swept \in BOOLEAN

\* A lookup returns what was learned last: an IP has one entry and it holds
\* the address given to it most recently, however entries were moved about.
LookupIsLatest ==
    \A i \in DOMAIN entries :
        /\ entries[i].mac = told[entries[i].ip]
        /\ \A j \in DOMAIN entries : entries[j].ip = entries[i].ip => j = i

\* A sweep misses no entry, the one it has just moved included: right after
\* nfs_arp_cache_age nothing is left that is due to become stale or to go.
SweepIsComplete ==
    swept => \A i \in DOMAIN entries :
        entries[i].state \in {"REACHABLE", "STALE"} => entries[i].age < MaxAge
=============================================================================
