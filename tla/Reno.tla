-------------------------------- MODULE Reno --------------------------------
(***************************************************************************)
(* The TCP Reno congestion controller                                      *)
(* (phases/04-transport/26-tcp-reno/tcp_reno.c).  recover_seq is written   *)
(* by nobody and read by nobody.                                           *)
(***************************************************************************)
EXTENDS Naturals

CONSTANTS
    Mss,           \* maximum segment size
    InitSsthresh,  \* 65535
    MaxCwnd        \* bound: the window stays below it

RenoConstants ==
    /\ Mss \in Nat \ {0}
    /\ InitSsthresh \in Nat /\ InitSsthresh >= 2 * Mss
    /\ MaxCwnd \in Nat /\ MaxCwnd >= Mss

VARIABLES cwnd, ssthresh, dup_ack_count, in_recovery

vars == <<cwnd, ssthresh, dup_ack_count, in_recovery>>

Larger(a, b) == IF a > b THEN a ELSE b

Init ==
    /\ cwnd = Mss
    /\ ssthresh = InitSsthresh
    /\ dup_ack_count = 0
    /\ in_recovery = FALSE

Halved == Larger(cwnd \div 2, 2 * Mss)

DupsAfterRecovery == 0

\* nfs_reno_exit_recovery.
ExitRecovery ==
    /\ cwnd' = ssthresh
    /\ dup_ack_count' = DupsAfterRecovery
    /\ in_recovery' = FALSE
    /\ UNCHANGED ssthresh

\* Mutant: slow start while the threshold is already reached.
WindowAfterAckSlowStart == cwnd + 2 * Mss

WindowAfterAck ==
    cwnd + IF cwnd < ssthresh THEN Mss ELSE Larger((Mss * Mss) \div cwnd, 1)

\* nfs_reno_on_ack.
OnAck ==
    \/ in_recovery /\ ExitRecovery
    \/ /\ ~in_recovery
       /\ cwnd + Mss <= MaxCwnd
       /\ dup_ack_count' = 0
       /\ cwnd' = WindowAfterAck
       /\ UNCHANGED <<ssthresh, in_recovery>>

\* Mutant: every duplicate after the second enters recovery again.
EntersAgain == dup_ack_count' >= 3

EntersRecovery == dup_ack_count' = 3 /\ ~in_recovery

\* nfs_reno_on_dup_ack.
OnDupAck ==
    /\ dup_ack_count' = dup_ack_count + 1
    /\ IF EntersRecovery
       THEN /\ ssthresh' = Halved
            /\ cwnd' = ssthresh' + 3 * Mss
            /\ in_recovery' = TRUE
       ELSE /\ cwnd' = IF dup_ack_count' > 3 /\ in_recovery THEN cwnd + Mss ELSE cwnd
            /\ UNCHANGED <<ssthresh, in_recovery>>
    /\ cwnd' <= MaxCwnd

\* nfs_reno_on_timeout.
OnTimeout ==
    /\ ssthresh' = Halved
    /\ cwnd' = Mss
    /\ dup_ack_count' = 0
    /\ in_recovery' = FALSE

Next == OnAck \/ OnDupAck \/ OnTimeout

Spec == Init /\ [][Next]_vars

-----------------------------------------------------------------------------
\* Types; the window is never below one segment (nfs_reno_on_ack divides by
\* it) nor the threshold below two, and outside recovery fewer than three
\* duplicates are counted.
TypeOK ==
    /\ cwnd \in Mss..MaxCwnd
    /\ ssthresh \in (2 * Mss)..Larger(InitSsthresh, MaxCwnd)
    /\ dup_ack_count \in Nat
    /\ in_recovery \in BOOLEAN
    /\ ~in_recovery => dup_ack_count < 3

\* During recovery the window is the threshold plus one segment for every
\* duplicate ACK counted, the three that started it included, so that leaving
\* recovery takes back exactly what the duplicates lent.
InflationIsAccounted ==
    in_recovery => /\ dup_ack_count >= 3
                   /\ cwnd = ssthresh + dup_ack_count * Mss

\* tcp_reno.c implements additive increase, multiplicative decrease.
Controller == INSTANCE Aimd
AimdSpec == Controller!Spec
=============================================================================
