------------------------------ MODULE Teardown ------------------------------
(***************************************************************************)
(* Connection teardown and TIME_WAIT (phases/04-transport/                 *)
(* 22-connection-teardown-and-time-wait/teardown.c): two connections that  *)
(* close, over ordered channels that deliver a segment within Msl ticks.   *)
(* As the comments in teardown.c ask, the caller stores the time when it   *)
(* enters TIME_WAIT; it is kept as the time spent there.                   *)
(***************************************************************************)
EXTENDS Naturals, Sequences

CONSTANTS
    A, B,      \* the two ends
    Msl,       \* maximum segment lifetime in ticks
    DataAcks   \* acknowledgements of data under way when the run starts

TeardownConstants ==
    A # B /\ Msl \in Nat \ {0} /\ DataAcks \in Nat

VARIABLES
    state, local_seq, remote_seq, waited,  \* nfs_tcp_conn of each end
    chan,                                  \* chan[e]: segments under way to e
    finAcked                               \* history: e got the ACK of its FIN

vars == <<state, local_seq, remote_seq, waited, chan, finAcked>>

End == {A, B}
Peer(e) == IF e = A THEN B ELSE A
Segment(kind) == [kind |-> kind, age |-> 0]

\* nfs_conn_init, with initial sequence numbers of zero.
Init ==
    /\ state = [e \in End |-> "ESTABLISHED"]
    /\ local_seq = [e \in End |-> 0]
    /\ remote_seq = [e \in End |-> 0]
    /\ waited = [e \in End |-> 0]
    /\ chan = [e \in End |-> [i \in 1..DataAcks |-> Segment("DATA_ACK")]]
    /\ finAcked = [e \in End |-> FALSE]

Goto(e, next) ==
    /\ state' = [state EXCEPT ![e] = next]
    /\ waited' = [waited EXCEPT ![e] = 0]

\* Mutant: closing does not wait for the acknowledgement of the FIN.
AfterCloseUnacked ==
    [s \in {"ESTABLISHED", "CLOSE_WAIT"} |->
        IF s = "ESTABLISHED" THEN "FIN_WAIT_2" ELSE "LAST_ACK"]

AfterClose ==
    [s \in {"ESTABLISHED", "CLOSE_WAIT"} |->
        IF s = "ESTABLISHED" THEN "FIN_WAIT_1" ELSE "LAST_ACK"]

\* nfs_conn_close: a FIN that takes one sequence number.
Close(e) ==
    /\ state[e] \in DOMAIN AfterClose
    /\ Goto(e, AfterClose[state[e]])
    /\ local_seq' = [local_seq EXCEPT ![e] = @ + 1]
    /\ chan' = [chan EXCEPT ![Peer(e)] = Append(@, Segment("FIN"))]
    /\ UNCHANGED <<remote_seq, finAcked>>

\* Mutant: no entry for a FIN that crosses ours.
AfterFinNoCrossing ==
    [s \in {"ESTABLISHED", "FIN_WAIT_2"} |->
        IF s = "ESTABLISHED" THEN "CLOSE_WAIT" ELSE "TIME_WAIT"]

\* nfs_conn_recv_fin: the next state, for the states that take a FIN.
AfterFin ==
    [s \in {"ESTABLISHED", "FIN_WAIT_1", "FIN_WAIT_2"} |->
        CASE s = "ESTABLISHED" -> "CLOSE_WAIT"
          [] s = "FIN_WAIT_1" -> "CLOSING"
          [] s = "FIN_WAIT_2" -> "TIME_WAIT"]

\* nfs_conn_recv_ack.
AfterAck ==
    [s \in {"FIN_WAIT_1", "CLOSING", "LAST_ACK"} |->
        CASE s = "FIN_WAIT_1" -> "FIN_WAIT_2"
          [] s = "CLOSING" -> "TIME_WAIT"
          [] s = "LAST_ACK" -> "CLOSED"]

SeqAfterFin(seq) == seq + 1

RecvFin(e) ==
    /\ chan[e] # <<>> /\ Head(chan[e]).kind = "FIN"
    /\ IF state[e] \in DOMAIN AfterFin
       THEN /\ Goto(e, AfterFin[state[e]])
            /\ remote_seq' = [remote_seq EXCEPT ![e] = SeqAfterFin(@)]
            /\ chan' = [chan EXCEPT ![e] = Tail(@),
                                    ![Peer(e)] = Append(@, Segment("ACK"))]
       ELSE /\ chan' = [chan EXCEPT ![e] = Tail(@)]
            /\ UNCHANGED <<state, waited, remote_seq>>
    /\ UNCHANGED <<local_seq, finAcked>>

\* The function sees an ACK, not what it acknowledges.
RecvAck(e) ==
    /\ chan[e] # <<>> /\ Head(chan[e]).kind \in {"ACK", "DATA_ACK"}
    /\ IF state[e] \in DOMAIN AfterAck
       THEN Goto(e, AfterAck[state[e]])
       ELSE UNCHANGED <<state, waited>>
    /\ chan' = [chan EXCEPT ![e] = Tail(@)]
    /\ finAcked' = [finAcked EXCEPT ![e] = @ \/ Head(chan[e]).kind = "ACK"]
    /\ UNCHANGED <<local_seq, remote_seq>>

\* Mutant: the start of TIME_WAIT is left at 0.0 and any clock is past it.
ExpiredAtOnce(e) == waited[e] >= 0

Expired(e) == waited[e] >= 2 * Msl

\* nfs_conn_time_wait_expired.
TimeWaitExpired(e) ==
    /\ state[e] = "TIME_WAIT"
    /\ Expired(e)
    /\ Goto(e, "CLOSED")
    /\ UNCHANGED <<local_seq, remote_seq, chan, finAcked>>

\* Time passes; a segment Msl old is delivered first.
Tick ==
    /\ \A e \in End : \A i \in DOMAIN chan[e] : chan[e][i].age < Msl
    /\ chan' = [e \in End |-> [i \in DOMAIN chan[e] |-> [chan[e][i] EXCEPT !.age = @ + 1]]]
    /\ waited' = [e \in End |-> IF state[e] = "TIME_WAIT" /\ waited[e] < 2 * Msl
                                THEN waited[e] + 1 ELSE waited[e]]
    /\ UNCHANGED <<state, local_seq, remote_seq, finAcked>>

\* The network delivers, and the state machine takes, the oldest segment.
Deliver(e) == RecvFin(e) \/ RecvAck(e)

Next ==
    \/ Tick
    \/ \E e \in End : Close(e) \/ Deliver(e) \/ TimeWaitExpired(e)

\* Time passes, segments arrive, both applications close.
Spec ==
    /\ Init /\ [][Next]_vars
    /\ WF_vars(Tick)
    /\ \A e \in End : /\ WF_vars(Close(e))
                      /\ WF_vars(Deliver(e))
                      /\ WF_vars(TimeWaitExpired(e))

-----------------------------------------------------------------------------
\* TIME_WAIT protects the next connection: when it ends, nothing of this
\* connection is under way any more, so no old segment can meet a new one
\* (teardown.h: "to ensure old duplicate segments have expired").
QuietAfterTimeWait ==
    [][\A e \in End : TimeWaitExpired(e) => chan = [d \in End |-> <<>>]]_vars

\* The ends never disagree about the stream's end: a FIN is counted by its
\* receiver once, after its sender counted it, and when both are closed the
\* numbers agree.
FinsAreCountedOnce ==
    \A e \in End :
        /\ remote_seq[Peer(e)] <= local_seq[e]
        /\ (\A d \in End : state[d] = "CLOSED") => remote_seq[Peer(e)] = local_seq[e]

\* teardown.h: "FIN_WAIT_1  -> FIN_WAIT_2  (our FIN was ACKed)".
FinWait2MeansAcked ==
    \A e \in End : state[e] = "FIN_WAIT_2" => finAcked[e]

\* Whoever closes first, or both at once, both ends reach CLOSED.
BothEndsClose == <>[](\A e \in End : state[e] = "CLOSED")
=============================================================================
