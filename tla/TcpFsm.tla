------------------------------- MODULE TcpFsm -------------------------------
(***************************************************************************)
(* The 11-state TCP state machine                                          *)
(* (phases/04-transport/10-the-tcp-state-machine-11-states/tcp_fsm.c): two *)
(* endpoints, each driven by nfs_tcp_fsm_handle, whose SEND actions put a  *)
(* segment into a reliable, ordered channel to the other.  There is no     *)
(* retransmission in the table, so a lossy network is out of its scope.    *)
(***************************************************************************)
EXTENDS Naturals, Sequences

CONSTANTS
    A, B,           \* the endpoints
    ActiveOpeners,  \* endpoints that open actively; the others listen
    ClosesIn,       \* states in which an application calls CLOSE
    MaxOpens        \* bound: connections each endpoint opens

TcpFsmConstants ==
    /\ A # B /\ ActiveOpeners \subseteq {A, B} /\ MaxOpens \in Nat
    /\ ClosesIn \subseteq {"ESTABLISHED", "CLOSE_WAIT", "SYN_RCVD", "SYN_SENT"}

VARIABLES
    state,   \* fsm->state of each endpoint
    chan,    \* chan[e]: segments on their way to e
    opens,   \* history: connections opened by each endpoint
    finSeen  \* history: e has processed the peer's FIN of this connection

vars == <<state, chan, opens, finSeen>>

Endpoint == {A, B}
Peer(e) == IF e = A THEN B ELSE A

Row(from, event, next, action) ==
    [from |-> from, event |-> event, next |-> next, action |-> action]

\* Mutant: a close skips FIN_WAIT_1.
CloseInEstablishedSkips == Row("ESTABLISHED", "CLOSE", "FIN_WAIT_2", "FIN")

CloseInEstablished == Row("ESTABLISHED", "CLOSE", "FIN_WAIT_1", "FIN")

\* table[state][event]; an event is an application call, a received segment
\* or TIMEOUT, an action is the segment to send.  A pair that is missing is
\* INVALID.
Table == {
    Row("CLOSED", "OPEN_PASSIVE", "LISTEN", "NONE"),
    Row("CLOSED", "OPEN_ACTIVE", "SYN_SENT", "SYN"),
    Row("LISTEN", "CLOSE", "CLOSED", "NONE"),
    Row("LISTEN", "SYN", "SYN_RCVD", "SYNACK"),
    Row("SYN_SENT", "CLOSE", "CLOSED", "NONE"),
    Row("SYN_SENT", "SYN", "SYN_RCVD", "SYNACK"),
    Row("SYN_SENT", "SYNACK", "ESTABLISHED", "ACK"),
    Row("SYN_RCVD", "CLOSE", "FIN_WAIT_1", "FIN"),
    Row("SYN_RCVD", "ACK", "ESTABLISHED", "NONE"),
    CloseInEstablished,
    Row("ESTABLISHED", "FIN", "CLOSE_WAIT", "ACK"),
    Row("FIN_WAIT_1", "ACK", "FIN_WAIT_2", "NONE"),
    Row("FIN_WAIT_1", "FIN", "CLOSING", "ACK"),
    Row("FIN_WAIT_1", "FINACK", "TIME_WAIT", "ACK"),
    Row("FIN_WAIT_2", "FIN", "TIME_WAIT", "ACK"),
    Row("CLOSE_WAIT", "CLOSE", "LAST_ACK", "FIN"),
    Row("CLOSING", "ACK", "TIME_WAIT", "NONE"),
    Row("LAST_ACK", "ACK", "CLOSED", "NONE"),
    Row("TIME_WAIT", "TIMEOUT", "CLOSED", "NONE")}

\* nfs_tcp_fsm_init.
Init ==
    /\ state = [e \in Endpoint |-> "CLOSED"]
    /\ chan = [e \in Endpoint |-> <<>>]
    /\ opens = [e \in Endpoint |-> 0]
    /\ finSeen = [e \in Endpoint |-> FALSE]

\* The queue after the action of a transition.
Emit(queue, action) == IF action = "NONE" THEN queue ELSE Append(queue, action)

Transitions(s, event) == {t \in Table : t.from = s /\ t.event = event}

\* nfs_tcp_fsm_handle; queue[e] has lost the segment that is the event.
Handle(e, event, queue) ==
    IF Transitions(state[e], event) = {}
    THEN state' = state /\ chan' = queue
    ELSE \E t \in Transitions(state[e], event) :
             /\ state' = [state EXCEPT ![e] = t.next]
             /\ chan' = [queue EXCEPT ![Peer(e)] = Emit(@, t.action)]

\* A listener waits for its peer to open; an active opener may be refused by
\* a peer that is not there yet, so it waits for the listener.
Open(e) ==
    /\ state[e] = "CLOSED"
    /\ opens[e] < MaxOpens
    /\ ActiveOpeners # Endpoint => chan[e] = <<>>
    /\ IF e \in ActiveOpeners
       THEN /\ Peer(e) \notin ActiveOpeners => state[Peer(e)] = "LISTEN"
            /\ Handle(e, "OPEN_ACTIVE", chan)
       ELSE Handle(e, "OPEN_PASSIVE", chan)
    /\ opens' = [opens EXCEPT ![e] = @ + 1]
    /\ finSeen' = [finSeen EXCEPT ![e] = FALSE]

\* The application closes its side of a connection.
Close(e) ==
    /\ state[e] \in ClosesIn
    /\ Handle(e, "CLOSE", chan)
    /\ UNCHANGED <<opens, finSeen>>

\* A server that gives up listening.
CloseListener(e) ==
    /\ state[e] = "LISTEN"
    /\ chan[e] = <<>>
    /\ state[Peer(e)] \in {"CLOSED", "LISTEN"}
    /\ Handle(e, "CLOSE", chan)
    /\ UNCHANGED <<opens, finSeen>>

Receive(e) ==
    /\ chan[e] # <<>>
    /\ Handle(e, Head(chan[e]), [chan EXCEPT ![e] = Tail(@)])
    /\ finSeen' = [finSeen EXCEPT ![e] = @ \/ Head(chan[e]) = "FIN"]
    /\ UNCHANGED opens

\* 2 MSL have passed: nothing of the connection is left in the network.
Timeout(e) ==
    /\ state[e] = "TIME_WAIT"
    /\ chan[Peer(e)] = <<>>
    /\ chan[e] = <<>>
    /\ Handle(e, "TIMEOUT", chan)
    /\ UNCHANGED <<opens, finSeen>>

Next ==
    \E e \in Endpoint :
        \/ Open(e)
        \/ Close(e)
        \/ CloseListener(e)
        \/ Receive(e)
        \/ Timeout(e)

Spec == Init /\ [][Next]_vars

\* Segments arrive, timers fire and the applications close what they opened.
FairSpec ==
    /\ Spec
    /\ \A e \in Endpoint : /\ WF_vars(Receive(e))
                           /\ WF_vars(Timeout(e))
                           /\ WF_vars(Close(e))

-----------------------------------------------------------------------------
\* One side is never alone in a connection: when an endpoint is established,
\* its peer is in the handshake's last step, established, or closing, never
\* back at the beginning.
NoHalfOpen ==
    \A e \in Endpoint : state[e] = "ESTABLISHED" =>
        state[Peer(e)] \notin {"CLOSED", "LISTEN", "SYN_SENT", "TIME_WAIT", "FIN_WAIT_2"}

\* The states mean what they say: FIN_WAIT_2 and TIME_WAIT are reached only
\* when the peer has processed our FIN, and may have opened anew since
\* (tests/test_tcp_fsm.c:144, FIN_WAIT_1 to FIN_WAIT_2: "Receive ACK of our
\* FIN").
OurFinWasSeen ==
    \A e \in Endpoint : state[e] \in {"FIN_WAIT_2", "TIME_WAIT"} =>
        finSeen[Peer(e)] \/ opens[Peer(e)] > opens[e]

\* Whoever has answered a SYN gets out of SYN_RCVD: the handshake completes
\* (tcp_fsm.c also lists "RECV_SYN     -> SYN_RCVD (send SYN,ACK) --
\* simultaneous open" under SYN_SENT).
HandshakeCompletes ==
    \A e \in Endpoint : state[e] = "SYN_RCVD" ~> state[e] # "SYN_RCVD"

\* Every connection that was opened is closed on both sides, through an
\* active, a passive or a simultaneous close.
EveryConnectionCloses ==
    \A e \in Endpoint : state[e] \notin {"CLOSED", "LISTEN"} ~> state[e] = "CLOSED"
=============================================================================
