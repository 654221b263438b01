-------------------------------- MODULE Aimd --------------------------------
(***************************************************************************)
(* What every loss-based congestion controller of the transport phase      *)
(* promises: additive increase, at most one MSS per acknowledgement, and   *)
(* multiplicative decrease, half the window but at least two segments, on  *)
(* every sign of congestion.  congestion.c, fast_recovery.c and tcp_reno.c *)
(* are shown to implement it.                                              *)
(***************************************************************************)
EXTENDS Naturals

CONSTANTS Mss
VARIABLES cwnd, ssthresh

vars == <<cwnd, ssthresh>>

Larger(a, b) == IF a > b THEN a ELSE b

Init == cwnd >= Mss /\ ssthresh >= 2 * Mss

Grow ==
    /\ cwnd' \in (cwnd + 1)..(cwnd + Mss)
    /\ UNCHANGED ssthresh

Congestion ==
    /\ ssthresh' = Larger(cwnd \div 2, 2 * Mss)
    /\ cwnd' \in {Mss, ssthresh' + 3 * Mss}

Deflate ==
    /\ cwnd' = ssthresh
    /\ cwnd' < cwnd
    /\ UNCHANGED ssthresh

Next == Grow \/ Congestion \/ Deflate

Spec == Init /\ [][Next]_vars
=============================================================================
