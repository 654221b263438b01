-------------------------------- MODULE Tcb ---------------------------------
(***************************************************************************)
(* The transmission control block                                          *)
(* (phases/04-transport/11-tcb-transmission-control-block/tcb.c): one TCB  *)
(* sends, the other receives in order, and acknowledgements come back      *)
(* repeated and reordered.  The initial sequence number is arbitrary, so   *)
(* the numbers wrap.  `sent', `got' and `done' are the true positions.     *)
(* The 4-tuple (nfs_tcb_matches) is constant and left out.                 *)
(***************************************************************************)
EXTENDS Seqnum

CONSTANTS
    SndWnd,    \* the initial and largest snd_wnd (65535 in nfs_tcb_init)
    Isns,      \* initial send sequence numbers tried
    MaxBytes   \* bound: the SYN and the bytes sent

TcbConstants == Isns \subseteq Seqnums /\ SndWnd \in 1..(Half - 1) /\ MaxBytes \in Nat \ {0}

VARIABLES
    iss, snd_una, snd_nxt, snd_wnd,  \* the sending TCB
    irs, rcv_nxt,                    \* the receiving TCB
    acks,                            \* acknowledgement numbers in the network
    sent, got, done                  \* history: SYN and bytes sent, received, acknowledged

vars == <<iss, snd_una, snd_nxt, snd_wnd, irs, rcv_nxt, acks, sent, got, done>>

\* nfs_tcb_init, nfs_tcb_set_iss and the peer's nfs_tcb_set_irs: the SYN is
\* sent, received and not yet acknowledged.
Init ==
    /\ iss \in Isns
    /\ snd_una = iss
    /\ snd_nxt = SeqAdd(iss, 1)
    /\ snd_wnd = SndWnd
    /\ irs = iss
    /\ rcv_nxt = SeqAdd(irs, 1)
    /\ acks = {}
    /\ sent = 1 /\ got = 1 /\ done = 0

InFlight == (snd_nxt - snd_una) % Word

\* Mutant: the subtraction without the test for a full window.
SndAvailableUnchecked == (snd_wnd - InFlight) % Word

\* nfs_tcb_snd_available.
SndAvailable == IF InFlight >= snd_wnd THEN 0 ELSE snd_wnd - InFlight

\* The caller sends no more than nfs_tcb_snd_available, then
\* nfs_tcb_advance_snd.
AdvanceSnd(nbytes) ==
    /\ nbytes <= SndAvailable
    /\ sent + nbytes <= MaxBytes
    /\ snd_nxt' = SeqAdd(snd_nxt, nbytes)
    /\ sent' = sent + nbytes
    /\ UNCHANGED <<iss, snd_una, snd_wnd, irs, rcv_nxt, acks, got, done>>

\* nfs_tcb_data_received, then an acknowledgement of rcv_nxt.
DataReceived(nbytes) ==
    /\ got + nbytes <= sent
    /\ rcv_nxt' = SeqAdd(rcv_nxt, nbytes)
    /\ got' = got + nbytes
    /\ acks' = acks \cup {[num |-> SeqAdd(rcv_nxt, nbytes), pos |-> got + nbytes]}
    /\ UNCHANGED <<iss, snd_una, snd_nxt, snd_wnd, irs, sent, done>>

\* Mutant: a plain comparison.
AdvancesPlain(num) == num > snd_una

Advances(num) == SeqDiff(num, snd_una) > 0

\* nfs_tcb_ack_received.  The network does not keep an acknowledgement for
\* half the sequence space (the maximum segment lifetime).
AckReceived(a) ==
    /\ a \in acks
    /\ Advances(a.num)
    /\ snd_una' = a.num
    /\ done' = a.pos
    /\ acks' = {b \in acks : a.pos - b.pos < Half}
    /\ UNCHANGED <<iss, snd_nxt, snd_wnd, irs, rcv_nxt, sent, got>>

\* The caller stores the window the peer advertises; it may be smaller than
\* what is in flight.
WindowUpdate(wnd) ==
    /\ snd_wnd' = wnd
    /\ UNCHANGED <<iss, snd_una, snd_nxt, irs, rcv_nxt, acks, sent, got, done>>

Next ==
    \/ \E nbytes \in 1..SndWnd : AdvanceSnd(nbytes)
    \/ \E nbytes \in 0..SndWnd : DataReceived(nbytes)
    \/ \E a \in acks : AckReceived(a)
    \/ \E wnd \in 0..SndWnd : WindowUpdate(wnd)

Spec == Init /\ [][Next]_vars

-----------------------------------------------------------------------------
\* Types; no more is in flight than the peer's window, whatever the sequence
\* numbers wrap to.
TypeOK ==
    /\ {iss, snd_una, snd_nxt, irs, rcv_nxt} \subseteq Seqnums
    /\ sent \in 1..MaxBytes /\ got \in 1..sent /\ done \in 0..got
    /\ acks \subseteq [num : Seqnums, pos : 1..MaxBytes]
    /\ snd_wnd \in 0..SndWnd /\ sent - done <= SndWnd

\* The three 32-bit numbers denote the true positions, and the space
\* available is exact: an old or repeated ACK never moves snd_una back and
\* never opens the window, also across the wrap.
NumbersDenotePositions ==
    /\ snd_nxt = SeqAdd(iss, sent)
    /\ rcv_nxt = SeqAdd(iss, got)
    /\ snd_una = SeqAdd(iss, done)
    /\ SndAvailable = IF sent - done < snd_wnd THEN snd_wnd - (sent - done) ELSE 0

\* snd_una never moves backwards.
AckedNeverShrinks == [][done' >= done]_vars

\* An acknowledgement of new data is never ignored: when the peer's latest
\* acknowledgement is there and not processed, nfs_tcb_ack_received takes it.
LatestAckIsTaken ==
    \A a \in acks : a.pos > done => Advances(a.num)
=============================================================================
