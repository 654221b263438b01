-------------------------------- MODULE Bbr --------------------------------
(***************************************************************************)
(* The BBR congestion controller (phases/04-transport/                     *)
(* 28-tcp-bbr-with-software-pacing/bbr.c).  Times are kept relative to     *)
(* now: the age of the round-trip estimate and the time left in PROBE_RTT. *)
(* delivered and next_send_time are never read; the pacing rate is a       *)
(* function of the state (PacingRate).                                     *)
(***************************************************************************)
EXTENDS Naturals, Sequences, FiniteSetsExt

CONSTANTS
    Rates, Rtts,   \* delivery rates and round-trip times that are measured
    Unit,          \* 1000000, microseconds in a second
    FilterLen,     \* NFS_BBR_BW_FILTER_LEN, 10
    RtWindow,      \* NFS_BBR_RTPROP_WINDOW_US
    ProbeRttTime,  \* 200 ms
    Mss

BbrConstants ==
    /\ Rates \subseteq Nat \ {0} /\ Rtts \subseteq Nat \ {0}
    /\ {Unit, FilterLen, RtWindow, ProbeRttTime, Mss} \subseteq Nat \ {0}

VARIABLES
    state, samples, head, count, btl_bw, rt_prop, rt_age,
    probe_bw_phase, filled_pipe, full_bw, full_bw_count,
    probe_rtt_pending, probe_rtt_left, cwnd,
    recent    \* history: the last FilterLen samples, newest first

vars == <<state, samples, head, count, btl_bw, rt_prop, rt_age, probe_bw_phase,
          filled_pipe, full_bw, full_bw_count, probe_rtt_pending, probe_rtt_left,
          cwnd, recent>>

Phases == 8
MinCwnd == 4 * Mss
Unknown == 0    \* rt_prop = UINT64_MAX

Init ==
    /\ state = "STARTUP"
    /\ samples = [i \in 0..(FilterLen - 1) |-> 0] /\ head = 0 /\ count = 0
    /\ btl_bw = 0 /\ rt_prop = Unknown /\ rt_age = 0
    /\ probe_bw_phase = 0
    /\ filled_pipe = FALSE /\ full_bw = 0 /\ full_bw_count = 0
    /\ probe_rtt_pending = FALSE /\ probe_rtt_left = 0
    /\ cwnd = MinCwnd
    /\ recent = <<>>

\* nfs_bbr_probe_bw_gain, nfs_bbr_pacing_gain, nfs_bbr_cwnd_gain, times 1000.
PacingGain(s, phase) ==
    CASE s = "STARTUP" -> 2885
      [] s = "DRAIN" -> 347
      [] s = "PROBE_BW" -> <<1250, 750, 1000, 1000, 1000, 1000, 1000, 1000>>[phase + 1]
      [] s = "PROBE_RTT" -> 1000

CwndGain(s) ==
    CASE s \in {"STARTUP", "DRAIN"} -> 2885
      [] s = "PROBE_BW" -> 2000
      [] s = "PROBE_RTT" -> 1000

\* nfs_bbr_bdp.
Bdp(bw, rtt) == (bw * rtt) \div Unit

PacingRate == (btl_bw * PacingGain(state, probe_bw_phase)) \div 1000

\* Mutant: the circular buffer starts again one slot too early.
NextHeadEarly == IF head + 2 >= FilterLen THEN 0 ELSE head + 1

NextHead == (head + 1) % FilterLen

\* bw_filter_add, bw_filter_max.
AddSample(rate) ==
    /\ samples' = [samples EXCEPT ![head] = rate]
    /\ head' = NextHead
    /\ count' = IF count < FilterLen THEN count + 1 ELSE count
    /\ btl_bw' = Max({samples'[i] : i \in 0..(count' - 1)} \cup {0})
    /\ recent' = SubSeq(<<rate>> \o recent, 1, count')

\* bbr_check_startup_done: three ACKs without a quarter more bandwidth.
Plateau == btl_bw' > 0 /\ full_bw > 0 /\ btl_bw' <= full_bw + full_bw \div 4

CheckStartup ==
    IF state # "STARTUP" THEN UNCHANGED <<full_bw, full_bw_count, filled_pipe>>
    ELSE /\ IF Plateau
            THEN full_bw_count' = full_bw_count + 1 /\ UNCHANGED full_bw
            ELSE /\ full_bw' = btl_bw'
                 /\ full_bw_count' = IF btl_bw' > 0 /\ full_bw > 0 THEN 0 ELSE full_bw_count
         /\ filled_pipe' = (filled_pipe \/ full_bw_count' >= 3)

\* bbr_check_drain_done: cwnd stands for the bytes in flight.
Drained == LET bdp == Bdp(btl_bw', rt_prop') IN cwnd <= bdp \/ bdp = 0

\* now_us >= probe_rtt_done_stamp.
ProbeRttOver == probe_rtt_left = 0

Expired == rt_age > RtWindow

\* The states nfs_bbr_on_ack passes through, in the order of its checks.
AfterStartup == IF state = "STARTUP" /\ filled_pipe' THEN "DRAIN" ELSE state
AfterDrain == IF AfterStartup = "DRAIN" /\ Drained THEN "PROBE_BW" ELSE AfterStartup
EntersProbeRtt == AfterDrain = "PROBE_BW" /\ (probe_rtt_pending \/ Expired)
LeavesProbeRtt == state = "PROBE_RTT" /\ ProbeRttOver

PhaseBefore == IF state # "PROBE_BW" THEN 0 ELSE probe_bw_phase

\* nfs_bbr_on_ack; zero is an ACK without a sample.
OnAck(rtt, rate) ==
    /\ IF rtt > 0 /\ (rtt < rt_prop \/ rt_prop = Unknown \/ Expired)
       THEN rt_prop' = rtt /\ rt_age' = 0
       ELSE UNCHANGED <<rt_prop, rt_age>>
    /\ IF rate > 0 THEN AddSample(rate)
       ELSE UNCHANGED <<samples, head, count, btl_bw, recent>>
    /\ CheckStartup
    /\ probe_rtt_pending' = ((probe_rtt_pending \/ Expired) /\ ~EntersProbeRtt)
    /\ probe_rtt_left' = IF EntersProbeRtt THEN ProbeRttTime ELSE probe_rtt_left
    /\ state' = IF EntersProbeRtt THEN "PROBE_RTT"
                ELSE IF LeavesProbeRtt THEN "PROBE_BW" ELSE AfterDrain
    /\ probe_bw_phase' = IF state' = "PROBE_BW" THEN (PhaseBefore + 1) % Phases
                         ELSE IF AfterDrain = "PROBE_BW" THEN PhaseBefore
                         ELSE probe_bw_phase
    /\ cwnd' = LET bdp == IF rt_prop' = Unknown THEN 0 ELSE Bdp(btl_bw', rt_prop')
               IN  Max({MinCwnd, (bdp * CwndGain(state')) \div 1000})

\* Time passes; beyond the two limits it makes no difference.
Tick ==
    /\ rt_age' = IF rt_age <= RtWindow THEN rt_age + 1 ELSE rt_age
    /\ probe_rtt_left' = IF probe_rtt_left > 0 THEN probe_rtt_left - 1 ELSE 0
    /\ UNCHANGED <<state, samples, head, count, btl_bw, rt_prop, probe_bw_phase,
                   filled_pipe, full_bw, full_bw_count, probe_rtt_pending, cwnd, recent>>

AckArrives == \E rtt \in Rtts \cup {0}, rate \in Rates \cup {0} : OnAck(rtt, rate)

Next == AckArrives \/ Tick

\* Time passes and ACKs keep coming.
Spec == Init /\ [][Next]_vars /\ WF_vars(Tick) /\ WF_vars(AckArrives)

-----------------------------------------------------------------------------
TypeOK ==
    /\ state \in {"STARTUP", "DRAIN", "PROBE_BW", "PROBE_RTT"}
    /\ head \in 0..(FilterLen - 1) /\ count \in 0..FilterLen
    /\ samples \in [0..(FilterLen - 1) -> Rates \cup {0}]
    /\ probe_bw_phase \in 0..(Phases - 1) /\ full_bw_count \in 0..3
    /\ probe_rtt_left \in 0..ProbeRttTime
    /\ cwnd >= MinCwnd

\* The bottleneck bandwidth is the maximum of the last FilterLen samples,
\* however often the circular buffer of bw_filter_add has gone round.
BandwidthIsRecentMax ==
    /\ btl_bw = Max({recent[i] : i \in DOMAIN recent} \cup {0})
    /\ filled_pipe <=> state # "STARTUP"

\* PROBE_RTT, in which the window is small, is always left again.
ProbeRttEnds == state = "PROBE_RTT" ~> state # "PROBE_RTT"

\* bbr.h: "STARTUP  -> DRAIN -> PROBE_BW -> (occasionally) PROBE_RTT": a
\* sender that drains its queue goes on to probe for bandwidth.
DrainEnds == state = "DRAIN" ~> state = "PROBE_BW"
=============================================================================
