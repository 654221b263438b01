----------------------------- MODULE Traceroute -----------------------------
(***************************************************************************)
(* The traceroute simulation (phases/03-network-layer/                     *)
(* 06-ttl-and-the-traceroute-trick/ttl.c): probes with a TTL of 1, 2, ...  *)
(* walk along the routers, a step each, until one expires or arrives.  The *)
(* TTL of a probe is the low bits of the probe's number.                   *)
(***************************************************************************)
EXTENDS Naturals, Sequences, SequencesExt

CONSTANTS
    Routers,     \* the routers a path may lead through
    MaxHops,     \* bound: routers on a path
    MaxResults,  \* max_results
    TtlMod       \* 256: a TTL is a uint8_t

Dst == "dst"

\* Some TTL leads to the end of every path, or there is no room for as many
\* answers as there are TTLs.
TracerouteConstants ==
    /\ Dst \notin Routers /\ MaxHops \in Nat /\ MaxResults \in Nat
    /\ TtlMod \in Nat \ {0} /\ (MaxHops + 1 < TtlMod \/ MaxResults < TtlMod)

VARIABLES hops, probe_ttl, ttl, i, results, phase

vars == <<hops, probe_ttl, ttl, i, results, phase>>

\* A call of nfs_traceroute_sim is made over some path.
Init ==
    /\ hops = <<>> /\ probe_ttl = 0 /\ ttl = 0 /\ i = 0 /\ results = <<>>
    /\ phase = "idle"

Call(path) ==
    /\ phase = "idle"
    /\ hops' = path
    /\ phase' = "probe"
    /\ probe_ttl' = 1
    /\ UNCHANGED <<ttl, i, results>>

\* Mutant: one result too many is written.
NoRoomLate == Len(results) > MaxResults

NoRoom == Len(results) >= MaxResults

\* The head of the outer loop.
Probe ==
    /\ phase = "probe"
    /\ IF NoRoom
       THEN phase' = "done" /\ UNCHANGED <<ttl, i>>
       ELSE /\ ttl' = probe_ttl % TtlMod
            /\ i' = 1
            /\ phase' = "walk"
    /\ UNCHANGED <<hops, probe_ttl, results>>

\* Mutant: a probe expires at a router that finds a TTL of 0.
ExpiresLate == ttl = 0

\* nfs_ttl_decrement, inlined: the TTL reaches 0 here.
Expires == ttl = 1

Hop(responder, reached) == [responder |-> responder, reached |-> reached]

\* Router i: a probe that came with 0 is dropped unanswered, one that falls
\* to 0 is answered, any other goes on.
Router ==
    /\ phase = "walk" /\ i <= Len(hops)
    /\ \/ /\ Expires
          /\ results' = Append(results, Hop(hops[i], FALSE))
          /\ phase' = "probe" /\ probe_ttl' = probe_ttl + 1
          /\ UNCHANGED <<ttl, i>>
       \/ /\ ~Expires /\ ttl = 0
          /\ phase' = "probe" /\ probe_ttl' = probe_ttl + 1
          /\ UNCHANGED <<ttl, i, results>>
       \/ /\ ~Expires /\ ttl # 0
          /\ ttl' = ttl - 1
          /\ i' = i + 1
          /\ UNCHANGED <<probe_ttl, results, phase>>
    /\ UNCHANGED hops

\* Past the routers: the destination does not decrement.
Destination ==
    /\ phase = "walk" /\ i > Len(hops)
    /\ results' = Append(results, Hop(Dst, TRUE))
    /\ phase' = "done"
    /\ UNCHANGED <<hops, probe_ttl, ttl, i>>

Step == Probe \/ Router \/ Destination

Next == Step \/ \E path \in BoundedSeq(Routers, MaxHops) : Call(path)

Spec == Init /\ [][Next]_vars /\ WF_vars(Step)

-----------------------------------------------------------------------------
TypeOK ==
    /\ ttl \in 0..(TtlMod - 1) /\ Len(results) <= MaxResults
    /\ phase \in {"idle", "probe", "walk", "done"}

\* The answers name the routers in the order of the path, each once, and
\* then the destination (nfs_traceroute_sim).
AnswersAreThePath ==
    LET whole == [k \in 1..(Len(hops) + 1) |->
                    IF k <= Len(hops) THEN Hop(hops[k], FALSE) ELSE Hop(Dst, TRUE)]
    IN IsPrefix(results, whole)

\* A trace ends, with the whole path or with as much as results holds.
TraceEnds ==
    phase = "probe" ~> /\ phase = "done"
                       /\ \/ Len(results) = MaxResults
                          \/ Last(results).reached
=============================================================================
