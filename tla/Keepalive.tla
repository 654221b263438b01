----------------------------- MODULE Keepalive ------------------------------
(***************************************************************************)
(* TCP keepalive (phases/04-transport/32-tcp-keepalive/keepalive.c): a     *)
(* connection whose peer may fall silent, checked by a caller that may be  *)
(* late.  now - last_data_time is kept as `idle', which saturates once     *)
(* every threshold has passed.                                             *)
(***************************************************************************)
EXTENDS Naturals

CONSTANTS
    IdleTimeout,  \* idle_timeout
    Interval,     \* interval
    MaxProbes     \* max_probes

KeepaliveConstants ==
    IdleTimeout \in Nat /\ Interval \in Nat \ {0} /\ MaxProbes \in Nat \ {0}

VARIABLES
    idle, probes_sent, enabled,
    peerUp,     \* the peer still answers
    went,       \* history: probes the caller was told to send since the last data
    sinceProbe  \* history: time since the last of them

vars == <<idle, probes_sent, enabled, peerUp, went, sinceProbe>>

LastThreshold == IdleTimeout + MaxProbes * Interval

\* nfs_keepalive_init: disabled.
Init ==
    /\ idle = 0
    /\ probes_sent = 0
    /\ enabled = FALSE
    /\ peerUp = TRUE
    /\ went = 0
    /\ sinceProbe = Interval

SetEnabled(on) ==
    /\ enabled' = on
    /\ UNCHANGED <<idle, probes_sent, peerUp, went, sinceProbe>>

\* nfs_keepalive_data_received.
DataReceived ==
    /\ peerUp
    /\ idle' = 0
    /\ probes_sent' = 0
    /\ went' = 0
    /\ sinceProbe' = Interval
    /\ UNCHANGED <<enabled, peerUp>>

\* Mutant: off by one.
IsDeadLate == probes_sent > MaxProbes

\* nfs_keepalive_is_dead, also the first test of nfs_keepalive_check.
IsDead == probes_sent >= MaxProbes

\* Mutant: every probe is due at the idle timeout.
ThresholdFlat == IdleTimeout

\* The first probe is due at idle_timeout, number n one interval later each.
Threshold == IdleTimeout + probes_sent * Interval

\* Mutant: nothing is due while probes are out.
DueFirstOnly == probes_sent = 0 /\ idle >= Threshold

ProbeDue == idle >= Threshold

\* nfs_keepalive_check: the last probe counted is reported as death (-1), any
\* other as a probe to send (1), except that a first probe is always sent.
Check ==
    /\ enabled
    /\ ~IsDead
    /\ ProbeDue
    /\ probes_sent' = probes_sent + 1
    /\ IF probes_sent > 0 /\ probes_sent' >= MaxProbes
       THEN UNCHANGED <<went, sinceProbe>>
       ELSE went' = went + 1 /\ sinceProbe' = 0
    /\ UNCHANGED <<idle, enabled, peerUp>>

PeerDies ==
    /\ peerUp
    /\ peerUp' = FALSE
    /\ UNCHANGED <<idle, probes_sent, enabled, went, sinceProbe>>

Tick ==
    /\ idle' = IF idle < LastThreshold THEN idle + 1 ELSE idle
    /\ sinceProbe' = IF sinceProbe < Interval THEN sinceProbe + 1 ELSE sinceProbe
    /\ UNCHANGED <<probes_sent, enabled, peerUp, went>>

Next ==
    \/ \E on \in BOOLEAN : SetEnabled(on)
    \/ DataReceived
    \/ Check
    \/ PeerDies
    \/ Tick

\* Time passes and the caller keeps checking.
Spec == Init /\ [][Next]_vars /\ WF_vars(Tick) /\ WF_vars(Check)

-----------------------------------------------------------------------------
TypeOK ==
    /\ idle \in 0..LastThreshold
    /\ probes_sent \in 0..MaxProbes
    /\ enabled \in BOOLEAN /\ peerUp \in BOOLEAN
    /\ went \in 0..MaxProbes /\ sinceProbe \in 0..Interval

\* No connection is given up before its time: a counted probe means that the
\* peer has been silent for its whole threshold, so death takes at least
\* idle_timeout + (max_probes - 1) * interval of silence.
ProbesFollowSilence ==
    probes_sent > 0 => idle >= IdleTimeout + (probes_sent - 1) * Interval

\* A silent peer is found out: once the peer is gone and keepalive stays
\* enabled, nfs_keepalive_is_dead becomes true and stays so.
SilentPeerIsDetected == <>[](~peerUp /\ enabled) => <>[]IsDead

\* keepalive.h: "double interval;       /* seconds between probes */".
ProbesAreSpaced ==
    [][went' > went => sinceProbe >= Interval]_vars

\* keepalive.h: "int max_probes;        /* max probes before declaring dead */":
\* all of them are sent before the connection is dead.
DeathAfterAllProbes == IsDead => went = MaxProbes
=============================================================================
