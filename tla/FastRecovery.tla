---------------------------- MODULE FastRecovery ----------------------------
(***************************************************************************)
(* Fast retransmit and fast recovery (phases/04-transport/                 *)
(* 25-fast-retransmit-and-fast-recovery/fast_recovery.c) of a sender whose *)
(* acknowledgements arrive late, twice and out of order.  Sequence numbers *)
(* count segments.  As the comment in nfs_fr_on_ack asks, the caller sets  *)
(* recovery_point to snd_nxt when it is told to retransmit.                *)
(***************************************************************************)
EXTENDS Naturals

CONSTANTS
    Mss,           \* maximum segment size
    InitCwnd,      \* initial_cwnd
    InitSsthresh,  \* 65535
    MaxSeq,        \* bound: segments sent
    MaxDups        \* bound: duplicates counted in a row

FastRecoveryConstants ==
    /\ Mss \in Nat \ {0}
    /\ InitCwnd \in Nat /\ InitCwnd >= Mss
    /\ InitSsthresh \in Nat /\ InitSsthresh >= 2 * Mss
    /\ MaxSeq \in Nat /\ MaxDups \in Nat

VARIABLES
    cwnd, ssthresh, dup_ack_count, last_ack, in_recovery, recovery_point,
    snd_nxt,    \* the caller: next segment to send
    reducedAt   \* history: snd_nxt when the window was last reduced

vars == <<cwnd, ssthresh, dup_ack_count, last_ack, in_recovery, recovery_point,
          snd_nxt, reducedAt>>

Init ==
    /\ cwnd = InitCwnd
    /\ ssthresh = InitSsthresh
    /\ dup_ack_count = 0
    /\ last_ack = 0
    /\ in_recovery = FALSE
    /\ recovery_point = 0
    /\ snd_nxt = 0
    /\ reducedAt = 0

\* The caller sends a segment the window has room for.
SendSegment ==
    /\ (snd_nxt - last_ack + 1) * Mss <= cwnd
    /\ snd_nxt < MaxSeq
    /\ snd_nxt' = snd_nxt + 1
    /\ UNCHANGED <<cwnd, ssthresh, dup_ack_count, last_ack, in_recovery,
                   recovery_point, reducedAt>>

\* Mutant: any new ACK ends recovery.
AnyAckIsFull(ack_num) == TRUE

FullAck(ack_num) == ack_num >= recovery_point

\* nfs_fr_on_ack with ack_num > last_ack.
NewAck(ack_num) ==
    /\ ack_num > last_ack
    /\ last_ack' = ack_num
    /\ dup_ack_count' = 0
    /\ IF in_recovery /\ FullAck(ack_num)
       THEN cwnd' = ssthresh /\ in_recovery' = FALSE
       ELSE UNCHANGED <<cwnd, in_recovery>>
    /\ UNCHANGED <<ssthresh, recovery_point, snd_nxt, reducedAt>>

EntersRecovery == ~in_recovery /\ dup_ack_count' = 3

Halved == IF cwnd \div 2 < 2 * Mss THEN 2 * Mss ELSE cwnd \div 2

\* nfs_fr_on_ack with ack_num = last_ack; a smaller number is ignored.
DupAck(ack_num) ==
    /\ ack_num = last_ack
    /\ dup_ack_count < MaxDups
    /\ dup_ack_count' = dup_ack_count + 1
    /\ IF EntersRecovery
       THEN /\ ssthresh' = Halved
            /\ cwnd' = ssthresh' + 3 * Mss
            /\ in_recovery' = TRUE
            /\ recovery_point' = snd_nxt
            /\ reducedAt' = snd_nxt
       ELSE /\ cwnd' = IF in_recovery THEN cwnd + Mss ELSE cwnd
            /\ UNCHANGED <<ssthresh, in_recovery, recovery_point, reducedAt>>
    /\ UNCHANGED <<last_ack, snd_nxt>>

Next ==
    \/ SendSegment
    \/ \E ack_num \in 0..snd_nxt : NewAck(ack_num)
    \/ \E ack_num \in 0..snd_nxt : DupAck(ack_num)

Spec == Init /\ [][Next]_vars

-----------------------------------------------------------------------------
\* Types, and the window never falls below two segments once it was reduced.
TypeOK ==
    /\ cwnd \in Nat /\ cwnd >= Mss
    /\ ssthresh \in Nat /\ ssthresh >= 2 * Mss
    /\ dup_ack_count \in 0..MaxDups
    /\ last_ack \in 0..snd_nxt /\ snd_nxt \in 0..MaxSeq
    /\ in_recovery \in BOOLEAN
    /\ recovery_point \in 0..snd_nxt /\ reducedAt \in 0..snd_nxt

\* One loss event costs one reduction: recovery is left only when everything
\* that was outstanding when it began is acknowledged, so the losses of one
\* window never halve the window twice.
OneReductionPerWindow ==
    /\ ~in_recovery => last_ack >= reducedAt
    /\ in_recovery => recovery_point = reducedAt

\* A third duplicate ACK seen during recovery does not reduce the window a
\* second time, also after a partial ACK has restarted the count.
NoReductionInRecovery == [][in_recovery => ssthresh' = ssthresh]_vars

\* fast_recovery.c implements additive increase, multiplicative decrease.
Controller == INSTANCE Aimd
AimdSpec == Controller!Spec
=============================================================================
