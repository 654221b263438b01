------------------------------- MODULE MCFlow -------------------------------
(***************************************************************************)
(* The parts of the transport phase that move bytes and account for them.  *)
(* They are separate programs: `which' is chosen once and a behaviour      *)
(* takes the steps of that part only.                                      *)
(***************************************************************************)
EXTENDS Naturals, Sequences

CONSTANTS
    Byte,                                            \* the values of one byte
    SwWord, SwIsns, WindowSize, BufCap, MaxSent,     \* SendWindow
    RqMss, RqCapacity, RqWord, Isn, Rtos, RqBytes,   \* RetxQueue
    PartialAcks,
    Capacity, Interval, Total,                       \* RecvWindow
    Mss, Delay, MaxBytes, Reorders,                  \* Nagle
    Half, SndWnd, Isns, TcbBytes,                    \* Tcb
    MaxBlocks, SackWord, InitialAck, MaxSeq          \* Sack

VARIABLES
    which,
    base, next_seq, sw_buffer, sw_acked, flight, sw_sent,             \* SendWindow
    q, rq_nxt, una, rq_rcv, rq_wire, rq_acks,                         \* RetxQueue
    buffer, rw_nxt, consumed, active, elapsed, rw_una, rw_wnd,        \* RecvWindow
    segs, rw_acks,
    enabled, snd_una, snd_nxt, pending, left, seg_count, queued,      \* Nagle
    written, wire, acks, rcv, acked, smalls,
    iss, tcb_una, tcb_nxt, snd_wnd, irs, rcv_nxt, tcb_acks,           \* Tcb
    sent, got, done,
    blocks, cum_ack, held, latest                                     \* Sack

SendWindow == INSTANCE SendWindow WITH Word <- SwWord, Isns <- SwIsns,
                  buffer <- sw_buffer, acked <- sw_acked, sent <- sw_sent
RetxQueue == INSTANCE RetxQueue WITH Mss <- RqMss, Capacity <- RqCapacity, Word <- RqWord,
                  MaxBytes <- RqBytes,
                  snd_nxt <- rq_nxt, rcv <- rq_rcv, wire <- rq_wire, acks <- rq_acks
RecvWindow == INSTANCE RecvWindow WITH
                  rcv_nxt <- rw_nxt, snd_una <- rw_una, snd_wnd <- rw_wnd, acks <- rw_acks
Nagle == INSTANCE Nagle
Tcb == INSTANCE Tcb WITH MaxBytes <- TcbBytes,
                  snd_una <- tcb_una, snd_nxt <- tcb_nxt, acks <- tcb_acks
Sack == INSTANCE Sack WITH Word <- SackWord

ASSUME FlowSuiteConstants ==
    /\ SendWindow!SendWindowConstants /\ RetxQueue!RetxQueueConstants
    /\ RecvWindow!RecvWindowConstants /\ Nagle!NagleConstants
    /\ Tcb!SeqnumConstants /\ Tcb!TcbConstants /\ Sack!SackConstants

swVars == <<base, next_seq, sw_buffer, sw_acked, flight, sw_sent>>
rqVars == <<q, rq_nxt, una, rq_rcv, rq_wire, rq_acks>>
rwVars == <<buffer, rw_nxt, consumed, active, elapsed, rw_una, rw_wnd, segs, rw_acks>>
nagleVars == <<enabled, snd_una, snd_nxt, pending, left, seg_count, queued, written, wire, acks,
               rcv, acked, smalls>>
tcbVars == <<iss, tcb_una, tcb_nxt, snd_wnd, irs, rcv_nxt, tcb_acks, sent, got, done>>
sackVars == <<blocks, cum_ack, held, latest>>

vars == <<which, swVars, rqVars, rwVars, nagleVars, tcbVars, sackVars>>

Init ==
    /\ which \in {"send_window", "retx_queue", "recv_window", "nagle", "tcb", "sack"}
    /\ SendWindow!Init /\ RetxQueue!Init /\ RecvWindow!Init
    /\ Nagle!Init /\ Tcb!Init /\ Sack!Init

Next ==
    \/ /\ which = "send_window" /\ SendWindow!Next
       /\ UNCHANGED <<which, rqVars, rwVars, nagleVars, tcbVars, sackVars>>
    \/ /\ which = "retx_queue" /\ RetxQueue!Next
       /\ UNCHANGED <<which, swVars, rwVars, nagleVars, tcbVars, sackVars>>
    \/ /\ which = "recv_window" /\ RecvWindow!Next
       /\ UNCHANGED <<which, swVars, rqVars, nagleVars, tcbVars, sackVars>>
    \/ /\ which = "nagle" /\ Nagle!Next
       /\ UNCHANGED <<which, swVars, rqVars, rwVars, tcbVars, sackVars>>
    \/ /\ which = "tcb" /\ Tcb!Next
       /\ UNCHANGED <<which, swVars, rqVars, rwVars, nagleVars, sackVars>>
    \/ /\ which = "sack" /\ Sack!Next
       /\ UNCHANGED <<which, swVars, rqVars, rwVars, nagleVars, tcbVars>>

liveVars ==
    CASE which = "retx_queue" -> <<which, rqVars>>
      [] which = "recv_window" -> <<which, rwVars>>
      [] which = "nagle" -> <<which, nagleVars>>
      [] OTHER -> which

OnRetx(A) == which = "retx_queue" /\ UNCHANGED which /\ A
OnRecv(A) == which = "recv_window" /\ UNCHANGED which /\ A
OnNagle(A) == which = "nagle" /\ UNCHANGED which /\ A

\* Clocks and applications do not stop (weak fairness), and a network that
\* loses messages lets one through that is sent again and again (strong
\* fairness).  `which' never changes, so fairness to a disjunction of steps
\* of different parts is fairness to each of them.
Liveness ==
    /\ WF_liveVars(\/ OnRetx(RetxQueue!Tick)
                   \/ OnRecv(RecvWindow!Tick)
                   \/ OnNagle(Nagle!Tick))
    /\ WF_liveVars(\/ OnRetx(RetxQueue!SomeTimeout)
                   \/ OnRecv(RecvWindow!Probe)
                   \/ OnNagle(Nagle!DelayedAck))
    /\ WF_liveVars(OnRecv(RecvWindow!SomeRead) \/ OnNagle(Nagle!SendData))
    /\ WF_liveVars(OnNagle(Nagle!SomeAckArrives))
    /\ WF_liveVars(OnNagle(Nagle!Receive))
    /\ SF_liveVars(OnRetx(RetxQueue!ReceiveNew) \/ OnRecv(RecvWindow!SomeReceiveInOrder))
    /\ SF_liveVars(OnRetx(RetxQueue!ReceiveOld) \/ OnRecv(RecvWindow!SomeReceiveOther))
    /\ SF_liveVars(OnRetx(RetxQueue!AckNew) \/ OnRecv(RecvWindow!AckNew))
    /\ SF_liveVars(OnRecv(RecvWindow!AckOpens))
    /\ SF_liveVars(OnRecv(RecvWindow!SomeSend))

Spec == Init /\ [][Next]_vars /\ Liveness

-----------------------------------------------------------------------------
TypeOK ==
    /\ SendWindow!TypeOK /\ RetxQueue!TypeOK /\ RecvWindow!TypeOK
    /\ Nagle!TypeOK /\ Tcb!TypeOK /\ Sack!TypeOK

\* No byte that may still be needed is given up: what is in flight can be
\* fetched again (sliding_window.c), what the peer lacks is queued
\* (retx_queue.c), and what the application has not read is in the buffer
\* (recv_win.c).
NeededBytesAreHeld ==
    /\ SendWindow!RetransmitsWhatWasSent
    /\ RetxQueue!UnheldBytesAreQueued
    /\ RecvWindow!BufferHoldsTheUnread

\* What the scoreboard of sack.c claims is true, and what it does not claim is
\* a hole, however late, merged, trimmed or displaced the blocks are.
BoardIsExact == Sack!BoardIsExact

\* An acknowledgement does its work, and only once: bytes acknowledged are
\* released, the newest acknowledgement is always taken, and an old or
\* repeated one changes nothing.
AcksRelease ==
    /\ SendWindow!EveryFlightAckAccepted
    /\ RetxQueue!AckedIsGone
    /\ Tcb!LatestAckIsTaken

\* The unsigned counters denote the true positions, so neither the space
\* available nor the bytes in flight wrap below zero.
CountersAreExact == SendWindow!CountersAreExact /\ Tcb!NumbersDenotePositions

\* What one side was promised by the other holds when it is used: the space
\* advertised is there (recv_win.c), and an ACK the receiver of nagle.c owes
\* has a timer, while at most one short segment is outstanding.
PromisesAreKept ==
    /\ RecvWindow!AdvertisedSpaceIsThere
    /\ Nagle!OwedAckHasATimer
    /\ Nagle!OneShortSegment

\* Nobody waits for ever: lost segments are resent until acknowledged, a lost
\* window update is repaired by the zero-window probe, and Nagle's algorithm
\* and the delayed ACK never wait for each other.
BytesGetThrough ==
    /\ which = "retx_queue" => RetxQueue!EverythingGetsThrough
    /\ which = "recv_window" => RecvWindow!EverythingIsRead
    /\ which = "nagle" => Nagle!EverythingIsSent
=============================================================================
