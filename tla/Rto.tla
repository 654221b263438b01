-------------------------------- MODULE Rto ---------------------------------
(***************************************************************************)
(* The RFC 6298 retransmission timer                                       *)
(* (phases/04-transport/17-the-retransmission-timer-rfc-6298/rto.c).       *)
(* The program's doubles are exact rationals here: a sample is a number of *)
(* 1/Scale seconds, and every update makes the unit of the times that are  *)
(* kept, 1/(Scale * grain) seconds, eight times finer, so that no division *)
(* ever rounds.                                                            *)
(***************************************************************************)
EXTENDS Naturals, Sequences, Functions

CONSTANTS
    Scale,      \* a sample's units per second
    Samples,    \* round-trip times measured
    MaxSamples  \* bound: number of samples

RtoConstants ==
    Scale \in Nat \ {0} /\ Samples \subseteq Nat /\ MaxSamples \in Nat

RtoMin == 1 * Scale
RtoMax == 60 * Scale
K == 4
G == 0

VARIABLES
    srtt, rttvar, rto, initialized,
    grain,  \* units kept to one unit of a sample
    seen    \* history: the samples so far, last one first

vars == <<srtt, rttvar, rto, initialized, grain, seen>>

Larger(a, b) == IF a > b THEN a ELSE b
Smaller(a, b) == IF a < b THEN a ELSE b
Distance(a, b) == IF a > b THEN a - b ELSE b - a

\* clamp_rto.
Clamp(t, g) == Larger(RtoMin * g, Smaller(RtoMax * g, t))

Init ==
    /\ srtt = 0 /\ rttvar = 0
    /\ rto = RtoMin
    /\ initialized = FALSE
    /\ grain = 1
    /\ seen = <<>>

\* Mutant: the variance is not weighed by K.
TimeoutWithoutK(s, v, g) == Clamp(s + Larger(G, v), g)

TimeoutFor(s, v, g) == Clamp(s + Larger(G, K * v), g)

\* 7/8 of the old estimate and 1/8 of the sample, in units eight times finer.
Smoothed(s, r) == 7 * s + r

\* 3/4 of the old variance and 1/4 of the deviation, in units eight times finer.
Deviation(v, d) == 6 * v + 2 * d

\* nfs_rto_update: RTTVAR first, from the old SRTT.
Update(r) ==
    /\ grain' = 8 * grain
    /\ IF initialized
       THEN /\ rttvar' = Deviation(rttvar, Distance(srtt, r * grain))
            /\ srtt' = Smoothed(srtt, r * grain)
       ELSE /\ srtt' = 8 * (r * grain)
            /\ rttvar' = 4 * (r * grain)
    /\ initialized' = TRUE
    /\ rto' = TimeoutFor(srtt', rttvar', grain')
    /\ seen' = <<r>> \o seen

BackedOff == Clamp(rto * 2, grain)

\* nfs_rto_backoff.
Backoff ==
    /\ rto' = BackedOff
    /\ UNCHANGED <<srtt, rttvar, initialized, grain, seen>>

Next ==
    \/ \E r \in Samples : /\ Len(seen) < MaxSamples
                          /\ Update(r)
    \/ Backoff

Spec == Init /\ [][Next]_vars /\ WF_vars(Backoff)

-----------------------------------------------------------------------------
\* Types; the timer stays within [1 s, 60 s] through updates and backoffs.
TypeOK ==
    /\ srtt \in Nat /\ rttvar \in Nat /\ grain \in Nat \ {0}
    /\ rto \in (RtoMin * grain)..(RtoMax * grain)
    /\ initialized \in BOOLEAN
    /\ seen \in Seq(Nat)

\* The smoothed round-trip time lies between the shortest and the longest
\* sample, and the variance never exceeds their spread or half the first one.
EstimateWithinSamples ==
    seen # <<>> =>
        LET lo == CHOOSE x \in Range(seen) : \A y \in Range(seen) : x <= y
            hi == CHOOSE x \in Range(seen) : \A y \in Range(seen) : x >= y
        IN  /\ srtt \in (lo * grain)..(hi * grain)
            /\ 2 * rttvar <= Larger(2 * (hi - lo), seen[Len(seen)]) * grain

\* A sudden delay is covered at once: the timer is never shorter than the
\* round trip measured last, whatever was measured before it and however
\* often the timer backed off since, unless it is at its limit of 60 s.
TimerCoversLastSample ==
    seen # <<>> => rto >= Smaller(RtoMax, seen[1]) * grain

\* Repeated timeouts always drive the timer to its limit.
BackoffReachesLimit == <>[][Backoff]_vars => <>(rto = RtoMax * grain)
=============================================================================
