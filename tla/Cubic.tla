------------------------------- MODULE Cubic -------------------------------
(***************************************************************************)
(* The CUBIC congestion controller (phases/04-transport/                   *)
(* 27-tcp-cubic-rfc-8312/tcp_cubic.c).  The code's doubles are integers    *)
(* here: the cube root and the products with C = 0.4 and beta = 0.7 round  *)
(* down.  Time is kept as the time since epoch_start.                      *)
(***************************************************************************)
EXTENDS Integers

CONSTANTS
    Mss,           \* maximum segment size
    InitSsthresh,  \* 65535
    MaxCwnd,       \* bound: the window stays below it
    MaxTime        \* bound: length of an epoch

CubicConstants ==
    /\ Mss \in Nat \ {0} /\ InitSsthresh \in Nat /\ InitSsthresh >= 2 * Mss
    /\ MaxCwnd \in Nat /\ MaxCwnd >= 2 * Mss /\ MaxTime \in Nat

VARIABLES
    cwnd, ssthresh, wmax, K,
    epoch,     \* time since epoch_start, None before the first epoch
    lossCwnd   \* history: the window just after the last loss, 0 before

vars == <<cwnd, ssthresh, wmax, K, epoch, lossCwnd>>

None == -1
Larger(a, b) == IF a > b THEN a ELSE b
Cube(x) == x * x * x
CubeRoot(x) == CHOOSE r \in 0..x : Cube(r) <= x /\ x < Cube(r + 1)

Init ==
    /\ cwnd = Mss /\ ssthresh = InitSsthresh
    /\ wmax = 0 /\ K = 0 /\ epoch = None
    /\ lossCwnd = 0

\* cbrt(wmax * (1 - beta) / C): the time to grow back to wmax.
RegrowthTime(w) == CubeRoot((w * 3) \div 4)

\* W_cubic(t) = C * (t - K)^3 + Wmax, at least one segment.
Target(t, k) == Larger((4 * Cube(t - k) + 10 * wmax) \div 10, Mss)

\* Mutant: no increase once the target is reached.
IncreaseNone(target) == IF target > cwnd THEN (target - cwnd) \div (cwnd \div Mss) ELSE 0

\* The increase of one ACK: towards the target, and never nothing.
Increase(target) ==
    IF target > cwnd THEN Larger((target - cwnd) \div Larger(cwnd \div Mss, 1), 1) ELSE 1

SlowStartAck ==
    /\ cwnd < ssthresh
    /\ cwnd + Mss <= MaxCwnd
    /\ cwnd' = cwnd + Mss
    /\ UNCHANGED <<ssthresh, wmax, K, epoch, lossCwnd>>

\* nfs_cubic_on_ack in congestion avoidance: the first ACK starts an epoch.
AvoidanceAck ==
    /\ cwnd >= ssthresh
    /\ epoch' = IF epoch = None THEN 0 ELSE epoch
    /\ K' = IF epoch = None THEN RegrowthTime(wmax) ELSE K
    /\ cwnd' = cwnd + Increase(Target(epoch', K'))
    /\ cwnd' <= MaxCwnd
    /\ UNCHANGED <<ssthresh, wmax, lossCwnd>>

Reduced == Larger((cwnd * 7) \div 10, 2 * Mss)

\* nfs_cubic_on_loss.
OnLoss ==
    /\ wmax' = cwnd
    /\ ssthresh' = Reduced
    /\ cwnd' = ssthresh'
    /\ epoch' = 0
    /\ K' = RegrowthTime(cwnd)
    /\ lossCwnd' = cwnd'

Tick ==
    /\ epoch \in 0..(MaxTime - 1)
    /\ epoch' = epoch + 1
    /\ UNCHANGED <<cwnd, ssthresh, wmax, K, lossCwnd>>

OnAck == SlowStartAck \/ AvoidanceAck

Next == OnAck \/ OnLoss \/ Tick

Spec == Init /\ [][Next]_vars /\ WF_vars(OnAck)

-----------------------------------------------------------------------------
\* Types; the window is never below a segment, by which nfs_cubic_on_ack
\* divides it.
TypeOK ==
    /\ cwnd \in Mss..MaxCwnd
    /\ ssthresh \in (2 * Mss)..Larger(MaxCwnd, InitSsthresh)
    /\ wmax \in 0..MaxCwnd /\ K \in 0..MaxCwnd /\ epoch \in None..MaxTime

\* After a loss CUBIC never falls back into slow start: the window only grows
\* from what the loss left, and in the concave part of the epoch, before K,
\* the target never leads it past the window at which the loss happened.
ConcaveBelowWmax ==
    lossCwnd > 0 =>
        /\ cwnd >= ssthresh /\ cwnd >= lossCwnd
        /\ epoch <= K => Target(epoch, K) <= Larger(wmax, Mss)

\* ACKs never stop opening the window.
GrowthNeverStalls ==
    <>[][OnAck \/ Tick]_vars => <>(cwnd + Mss > MaxCwnd \/ ~ENABLED OnAck)
=============================================================================
