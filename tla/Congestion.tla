----------------------------- MODULE Congestion -----------------------------
(***************************************************************************)
(* Slow start and congestion avoidance                                     *)
(* (phases/04-transport/24-slow-start-and-congestion-avoidance/            *)
(* congestion.c).                                                          *)
(***************************************************************************)
EXTENDS Naturals

CONSTANTS
    Mss,           \* maximum segment size
    InitSsthresh,  \* 65535
    MaxCwnd        \* bound: the window stays below it

CongestionConstants ==
    /\ Mss \in Nat \ {0}
    /\ InitSsthresh \in Nat /\ InitSsthresh >= 2 * Mss
    /\ MaxCwnd \in Nat /\ MaxCwnd >= Mss

VARIABLES cwnd, ssthresh, phase

vars == <<cwnd, ssthresh, phase>>

Larger(a, b) == IF a > b THEN a ELSE b

Init ==
    /\ cwnd = Mss
    /\ ssthresh = InitSsthresh
    /\ phase = "slow_start"

\* Mutant: no floor of one byte, and growth stops.
AdditiveIncreaseNoFloor == (Mss * Mss) \div cwnd

\* The increase per acknowledgement in congestion avoidance.
AdditiveIncrease == Larger((Mss * Mss) \div cwnd, 1)

OnAck ==
    /\ cwnd + Mss <= MaxCwnd
    /\ IF phase = "slow_start"
       THEN /\ cwnd' = cwnd + Mss
            /\ phase' = IF cwnd' >= ssthresh THEN "avoidance" ELSE phase
       ELSE /\ cwnd' = cwnd + AdditiveIncrease
            /\ UNCHANGED phase
    /\ UNCHANGED ssthresh

\* Mutant: half the window without the floor of two segments.
HalvedNoFloor == cwnd \div 2

Halved == Larger(cwnd \div 2, 2 * Mss)

PhaseAfterLoss == "slow_start"

OnLoss ==
    /\ ssthresh' = Halved
    /\ cwnd' = Mss
    /\ phase' = PhaseAfterLoss

\* Fast retransmit: the phase is not touched.
OnTripleDupAck ==
    /\ ssthresh' = Halved
    /\ cwnd' = ssthresh' + 3 * Mss
    /\ cwnd' <= MaxCwnd
    /\ UNCHANGED phase

Next == OnAck \/ OnLoss \/ OnTripleDupAck

Spec == Init /\ [][Next]_vars /\ WF_vars(OnAck)

-----------------------------------------------------------------------------
TypeOK ==
    /\ cwnd \in Mss..MaxCwnd
    /\ ssthresh \in (2 * Mss)..Larger(InitSsthresh, MaxCwnd)
    /\ phase \in {"slow_start", "avoidance"}

\* The remembered phase and the two windows agree: linear growth is only used
\* at or above the threshold, in whatever order losses, triple duplicate ACKs
\* and ACKs arrive.
AvoidanceAboveThreshold ==
    phase = "avoidance" => cwnd >= ssthresh

\* congestion.h: "Slow Start:  cwnd grows by MSS per ACK (exponential growth
\* per RTT) until cwnd >= ssthresh": above the threshold nfs_cong_on_ack no
\* longer grows exponentially.
SlowStartBelowThreshold ==
    phase = "slow_start" => cwnd < ssthresh

\* ACKs never stop opening the window: from any window the bound is reached
\* unless congestion intervenes, whatever the integer division rounds to.
GrowthNeverStalls ==
    <>[][OnAck]_vars => <>(cwnd + Mss > MaxCwnd)

\* congestion.c implements additive increase, multiplicative decrease.
Controller == INSTANCE Aimd
AimdSpec == Controller!Spec
=============================================================================
