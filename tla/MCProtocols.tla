---------------------------- MODULE MCProtocols -----------------------------
(***************************************************************************)
(* The congestion controllers, the timer estimator, the parts that open,   *)
(* watch and close connections, and those that learn of a network through  *)
(* messages that may be lost (the path MTU, the trace of a path).  They    *)
(* are separate programs: `which' is chosen once and a behaviour takes the *)
(* steps of that part only.                                                *)
(***************************************************************************)
EXTENDS Naturals, Sequences, FiniteSets

CONSTANTS
    Mss, InitSsthresh, MaxCwnd,             \* Congestion, Reno, FastRecovery
    InitCwnd, MaxSeq, MaxDups,              \* FastRecovery
    CubicMss, CubicSsthresh, CubicMaxCwnd, MaxTime,
    BbrMss, Rates, Rtts, Unit, FilterLen, RtWindow, ProbeRttTime,
    Scale, Samples, MaxSamples,             \* Rto
    A, B,                                   \* the two ends
    ActiveOpeners, ClosesIn, MaxOpens,      \* TcpFsm
    Msl, DataAcks,                          \* Teardown
    IdleTimeout, Interval, MaxProbes,       \* Keepalive
    Word, Isns, MaxSyns, MaxAnswers,        \* Handshake
    Dscp, NoDscp,                           \* Ecn
    TcpConn, UdpConn, Slots, IdleLimit,     \* Conntrack
    Dest, Capacity, Plateaus, LinkMtu,      \* Pmtud
    PathMtus, PmtudInterval, MaxChanges,
    Routers, MaxHops, MaxResults, TtlMod    \* Traceroute

VARIABLES
    which,
    cwnd, ssthresh, phase,                                               \* Congestion
    reno_cwnd, reno_ssthresh, reno_dups, reno_recovery,                  \* Reno
    fr_cwnd, fr_ssthresh, fr_dups, last_ack, fr_recovery,                \* FastRecovery
    recovery_point, snd_nxt, reducedAt,
    cubic_cwnd, cubic_ssthresh, wmax, K, epoch, lossCwnd,                \* Cubic
    bbr_state, samples, head, bbr_count, btl_bw, rt_prop, rt_age,        \* Bbr
    probe_bw_phase, filled_pipe, full_bw, full_bw_count,
    probe_rtt_pending, probe_rtt_left, bbr_cwnd, recent,
    srtt, rttvar, rto, initialized, grain, seen,                         \* Rto
    fsm_state, fsm_chan, opens, finSeen,                                 \* TcpFsm
    state, local_seq, remote_seq, waited, chan, finAcked,                \* Teardown
    idle, probes_sent, enabled, peerUp, went, sinceProbe,                \* Keepalive
    client, server, net, syns, answers, built,                           \* Handshake
    initiator, responder, kind, seg, packet, sent,                       \* Ecn
    entries, count, heard, verdict,                                      \* Conntrack
    pm_entries, path, flight, reached, narrowest, changes,               \* Pmtud
    hops, probe_ttl, ttl, tr_i, results, tr_phase                        \* Traceroute

Basic == INSTANCE Congestion
Reno == INSTANCE Reno WITH cwnd <- reno_cwnd, ssthresh <- reno_ssthresh,
            dup_ack_count <- reno_dups, in_recovery <- reno_recovery
FastRecovery == INSTANCE FastRecovery WITH cwnd <- fr_cwnd, ssthresh <- fr_ssthresh,
            dup_ack_count <- fr_dups, in_recovery <- fr_recovery
Cubic == INSTANCE Cubic WITH Mss <- CubicMss, InitSsthresh <- CubicSsthresh,
            MaxCwnd <- CubicMaxCwnd, cwnd <- cubic_cwnd, ssthresh <- cubic_ssthresh
Bbr == INSTANCE Bbr WITH Mss <- BbrMss, cwnd <- bbr_cwnd, state <- bbr_state, count <- bbr_count
Rto == INSTANCE Rto
TcpFsm == INSTANCE TcpFsm WITH state <- fsm_state, chan <- fsm_chan
Teardown == INSTANCE Teardown
Keepalive == INSTANCE Keepalive
Handshake == INSTANCE Handshake
Ecn == INSTANCE Ecn
Conntrack == INSTANCE Conntrack
Pmtud == INSTANCE Pmtud WITH Interval <- PmtudInterval, entries <- pm_entries
Traceroute == INSTANCE Traceroute WITH i <- tr_i, phase <- tr_phase

ASSUME ProtocolSuiteConstants ==
    /\ Basic!CongestionConstants /\ Reno!RenoConstants /\ FastRecovery!FastRecoveryConstants
    /\ Cubic!CubicConstants /\ Bbr!BbrConstants /\ Rto!RtoConstants
    /\ TcpFsm!TcpFsmConstants /\ Teardown!TeardownConstants /\ Keepalive!KeepaliveConstants
    /\ Handshake!HandshakeConstants /\ Ecn!EcnConstants /\ Conntrack!ConntrackConstants
    /\ Pmtud!PmtudConstants /\ Traceroute!TracerouteConstants

basicVars == <<cwnd, ssthresh, phase>>
renoVars == <<reno_cwnd, reno_ssthresh, reno_dups, reno_recovery>>
frVars == <<fr_cwnd, fr_ssthresh, fr_dups, last_ack, fr_recovery, recovery_point, snd_nxt, reducedAt>>
cubicVars == <<cubic_cwnd, cubic_ssthresh, wmax, K, epoch, lossCwnd>>
bbrVars == <<bbr_state, samples, head, bbr_count, btl_bw, rt_prop, rt_age, probe_bw_phase, filled_pipe,
             full_bw, full_bw_count, probe_rtt_pending, probe_rtt_left, bbr_cwnd, recent>>
rtoVars == <<srtt, rttvar, rto, initialized, grain, seen>>
fsmVars == <<fsm_state, fsm_chan, opens, finSeen>>
tdVars == <<state, local_seq, remote_seq, waited, chan, finAcked>>
kaVars == <<idle, probes_sent, enabled, peerUp, went, sinceProbe>>
hsVars == <<client, server, net, syns, answers, built>>
ecnVars == <<initiator, responder, kind, seg, packet, sent>>
ctVars == <<entries, count, heard, verdict>>
pmVars == <<pm_entries, path, flight, reached, narrowest, changes>>
trVars == <<hops, probe_ttl, ttl, tr_i, results, tr_phase>>

vars == <<which, basicVars, renoVars, frVars, cubicVars, bbrVars, rtoVars, fsmVars,
          tdVars, kaVars, hsVars, ecnVars, ctVars, pmVars, trVars>>

Init ==
    /\ which \in {"basic", "reno", "fast_recovery", "cubic", "bbr", "rto", "tcp_fsm",
                  "teardown", "keepalive", "handshake", "ecn", "conntrack",
                  "pmtud", "traceroute"}
    /\ Basic!Init /\ Reno!Init /\ FastRecovery!Init /\ Cubic!Init /\ Bbr!Init
    /\ Rto!Init /\ TcpFsm!Init /\ Teardown!Init /\ Keepalive!Init /\ Handshake!Init
    /\ Ecn!Init /\ Conntrack!Init /\ Pmtud!Init /\ Traceroute!Init

\* A step of one part leaves the state of the others alone.
Only(part) ==
    /\ which = part /\ UNCHANGED which
    /\ IF part = "basic" THEN TRUE ELSE UNCHANGED basicVars
    /\ IF part = "reno" THEN TRUE ELSE UNCHANGED renoVars
    /\ IF part = "fast_recovery" THEN TRUE ELSE UNCHANGED frVars
    /\ IF part = "cubic" THEN TRUE ELSE UNCHANGED cubicVars
    /\ IF part = "bbr" THEN TRUE ELSE UNCHANGED bbrVars
    /\ IF part = "rto" THEN TRUE ELSE UNCHANGED rtoVars
    /\ IF part = "tcp_fsm" THEN TRUE ELSE UNCHANGED fsmVars
    /\ IF part = "teardown" THEN TRUE ELSE UNCHANGED tdVars
    /\ IF part = "keepalive" THEN TRUE ELSE UNCHANGED kaVars
    /\ IF part = "handshake" THEN TRUE ELSE UNCHANGED hsVars
    /\ IF part = "ecn" THEN TRUE ELSE UNCHANGED ecnVars
    /\ IF part = "conntrack" THEN TRUE ELSE UNCHANGED ctVars
    /\ IF part = "pmtud" THEN TRUE ELSE UNCHANGED pmVars
    /\ IF part = "traceroute" THEN TRUE ELSE UNCHANGED trVars

Next ==
    \/ Only("basic") /\ Basic!Next
    \/ Only("reno") /\ Reno!Next
    \/ Only("fast_recovery") /\ FastRecovery!Next
    \/ Only("cubic") /\ Cubic!Next
    \/ Only("bbr") /\ Bbr!Next
    \/ Only("rto") /\ Rto!Next
    \/ Only("tcp_fsm") /\ TcpFsm!Next
    \/ Only("teardown") /\ Teardown!Next
    \/ Only("keepalive") /\ Keepalive!Next
    \/ Only("handshake") /\ Handshake!Next
    \/ Only("ecn") /\ Ecn!Next
    \/ Only("conntrack") /\ Conntrack!Next
    \/ Only("pmtud") /\ Pmtud!Next
    \/ Only("traceroute") /\ Traceroute!Next

liveVars ==
    CASE which = "basic" -> <<which, basicVars>>
      [] which = "cubic" -> <<which, cubicVars>>
      [] which = "bbr" -> <<which, bbrVars>>
      [] which = "rto" -> <<which, rtoVars>>
      [] which = "tcp_fsm" -> <<which, fsmVars>>
      [] which = "teardown" -> <<which, tdVars>>
      [] which = "keepalive" -> <<which, kaVars>>
      [] which = "pmtud" -> <<which, pmVars>>
      [] which = "traceroute" -> <<which, trVars>>
      [] OTHER -> which

Of(part, Act) == which = part /\ UNCHANGED which /\ Act

\* ACKs keep coming, time passes, segments arrive, timers fire, the
\* applications close what they opened, callers keep calling and sending, and
\* a link or a network that loses messages lets one through that is sent again
\* and again (strong fairness).  `which' never changes, so fairness to a
\* disjunction of steps of different parts is fairness to each of them.
Liveness ==
    /\ WF_liveVars(\/ Of("basic", Basic!OnAck)
                   \/ Of("cubic", Cubic!OnAck)
                   \/ Of("bbr", Bbr!Tick)
                   \/ Of("rto", Rto!Backoff)
                   \/ Of("teardown", Teardown!Tick)
                   \/ Of("keepalive", Keepalive!Tick)
                   \/ Of("traceroute", Traceroute!Step))
    /\ WF_liveVars(\/ Of("bbr", Bbr!AckArrives)
                   \/ Of("keepalive", Keepalive!Check)
                   \/ Of("tcp_fsm", TcpFsm!Receive(A))
                   \/ Of("teardown", Teardown!Deliver(A)))
    /\ WF_liveVars(Of("tcp_fsm", TcpFsm!Receive(B)) \/ Of("teardown", Teardown!Deliver(B)))
    /\ WF_liveVars(Of("tcp_fsm", TcpFsm!Close(A)) \/ Of("teardown", Teardown!Close(A)))
    /\ WF_liveVars(Of("tcp_fsm", TcpFsm!Close(B)) \/ Of("teardown", Teardown!Close(B)))
    /\ WF_liveVars(\/ Of("tcp_fsm", TcpFsm!Timeout(A))
                   \/ Of("teardown", Teardown!TimeWaitExpired(A)))
    /\ WF_liveVars(\/ Of("tcp_fsm", TcpFsm!Timeout(B))
                   \/ Of("teardown", Teardown!TimeWaitExpired(B)))
    /\ \A d \in Dest :
           /\ WF_liveVars(Of("pmtud", Pmtud!Send(d)))
           /\ SF_liveVars(Of("pmtud", Pmtud!Deliver(d)))
           /\ SF_liveVars(Of("pmtud", Pmtud!Refuse(d)))

Spec == Init /\ [][Next]_vars /\ Liveness

-----------------------------------------------------------------------------
TypeOK ==
    CASE which = "basic" -> Basic!TypeOK
      [] which = "reno" -> Reno!TypeOK
      [] which = "fast_recovery" -> FastRecovery!TypeOK
      [] which = "cubic" -> Cubic!TypeOK
      [] which = "bbr" -> Bbr!TypeOK
      [] which = "rto" -> Rto!TypeOK
      [] which = "keepalive" -> Keepalive!TypeOK
      [] which = "ecn" -> Ecn!TypeOK
      [] which = "conntrack" -> Conntrack!TypeOK
      [] which = "pmtud" -> Pmtud!TypeOK
      [] which = "traceroute" -> Traceroute!TypeOK
      [] OTHER -> TRUE

\* What a controller remembers about the past agrees with the windows it has
\* set, in whatever order ACKs, duplicates, losses and timeouts come: the
\* phase (congestion.c), the inflation lent to duplicates (tcp_reno.c), one
\* reduction for one loss event (fast_recovery.c), the window at which a loss
\* happened (tcp_cubic.c), the bandwidth filter (bbr.c).
WindowsAreAccounted ==
    /\ which = "basic" => Basic!AvoidanceAboveThreshold
    /\ which = "reno" => Reno!InflationIsAccounted
    /\ which = "fast_recovery" => FastRecovery!OneReductionPerWindow
    /\ which = "cubic" => Cubic!ConcaveBelowWmax
    /\ which = "bbr" => Bbr!BandwidthIsRecentMax

\* congestion.c, tcp_reno.c and fast_recovery.c implement additive increase,
\* multiplicative decrease.
Controller ==
    INSTANCE Aimd WITH
        cwnd <- CASE which = "reno" -> reno_cwnd
                  [] which = "fast_recovery" -> fr_cwnd [] OTHER -> cwnd,
        ssthresh <- CASE which = "reno" -> reno_ssthresh
                      [] which = "fast_recovery" -> fr_ssthresh [] OTHER -> ssthresh
AimdSpec == Controller!Spec

\* The timer estimator never leaves the range of what was measured, and a
\* sudden delay is covered at once (nfs_rto_update).
TimerFollowsSamples ==
    which = "rto" => Rto!EstimateWithinSamples /\ Rto!TimerCoversLastSample

\* No rounding and no state is a dead end: ACKs open the window for ever
\* (congestion.c, tcp_cubic.c), PROBE_RTT is left again (bbr.c), and timeouts
\* alone bring the timer to its limit (rto.c).
ControllersMakeProgress ==
    /\ which = "basic" => Basic!GrowthNeverStalls
    /\ which = "cubic" => Cubic!GrowthNeverStalls
    /\ which = "bbr" => Bbr!ProbeRttEnds
    /\ which = "rto" => Rto!BackoffReachesLimit

\* Nobody is in a connection alone: an established end of tcp_fsm.c has a
\* peer that takes part, a client of tcp.c is established only on an answer to
\* its own latest SYN, and ECN is on only when both ends of ecn.c agreed.
EstablishedIsMutual ==
    /\ which = "tcp_fsm" => TcpFsm!NoHalfOpen
    /\ which = "handshake" => Handshake!EstablishedOnItsOwnSyn
    /\ which = "ecn" => Ecn!CapableMeansAgreed

\* The ends agree where the streams end: who has left FIN_WAIT_1 knows that
\* its FIN was seen (tcp_fsm.c, teardown.c), and each FIN is counted once.
FinsAreAgreed ==
    /\ which = "tcp_fsm" => TcpFsm!OurFinWasSeen
    /\ which = "teardown" => Teardown!FinWait2MeansAcked /\ Teardown!FinsAreCountedOnce

\* No connection is misjudged from outside: keepalive.c counts a probe only
\* after the silence it stands for, and conntrack.c has one entry for a
\* connection, a counter that agrees with the table, and calls no UDP exchange
\* established before both ends were heard.
JudgedOnEvidence ==
    /\ which = "keepalive" => Keepalive!ProbesFollowSilence
    /\ which = "conntrack" => Conntrack!TableIsConsistent

\* When TIME_WAIT ends nothing of the connection is under way any more.
QuietAfterTimeWait == Teardown!QuietAfterTimeWait

\* What was begun is finished: a handshake leaves SYN_RCVD, a connection that
\* was opened closes, both ends of a teardown close, and a peer that has
\* fallen silent is found out.
ConnectionsComplete ==
    /\ which = "tcp_fsm" => TcpFsm!HandshakeCompletes /\ TcpFsm!EveryConnectionCloses
    /\ which = "teardown" => Teardown!BothEndsClose
    /\ which = "keepalive" => Keepalive!SilentPeerIsDetected

\* What is believed of a path is true of it: the answers of a trace are the
\* routers of the path in order (ttl.c), and the path MTU is not searched below
\* the plateau under its narrowest link (pmtud.c).
PathsAreKnown ==
    /\ which = "traceroute" => Traceroute!AnswersAreThePath
    /\ which = "pmtud" => Pmtud!EstimateIsNotTooLow

\* Packets with DF get through again after a path has narrowed (pmtud.c) and
\* a trace ends with the whole path or with all it has room for (ttl.c).
ProbingSucceeds ==
    /\ which = "pmtud" => Pmtud!PacketsGetThrough
    /\ which = "traceroute" => Traceroute!TraceEnds
=============================================================================
