----------------------------- MODULE SendWindow -----------------------------
(***************************************************************************)
(* The send-side sliding window                                            *)
(* (phases/04-transport/13-sliding-window-basics/sliding_window.c): bytes  *)
(* numbered from isn wait in a circular buffer for a cumulative ACK.       *)
(* `flight' is a history of what the buffer must still be able to resend.  *)
(***************************************************************************)
EXTENDS Naturals, Sequences

CONSTANTS
    Byte,        \* the values of one byte
    Word,        \* 2^32: sequence numbers are counted modulo Word
    Isns,        \* the initial sequence numbers tried
    WindowSize,  \* win_size, the advertised window
    BufCap,      \* buf_cap, the bytes in the circular buffer
    MaxSent      \* bound: bytes sent over the whole run

\* sliding_window.h: "buf_cap  = buffer capacity (must be >= win_size)".
SendWindowConstants ==
    /\ Byte # {} /\ Word \in Nat /\ WindowSize \in 1..(Word - 1)
    /\ Isns \subseteq 0..(Word - 1)
    /\ BufCap \in Nat /\ BufCap >= WindowSize
    /\ MaxSent \in Nat

VARIABLES base, next_seq, buffer, acked, flight, sent

vars == <<base, next_seq, buffer, acked, flight, sent>>

Seqnum == 0..(Word - 1)
Minus(a, b) == (a + Word - b) % Word

\* nfs_send_window_init; calloc zeroes both arrays.
Init ==
    /\ base \in Isns
    /\ next_seq = base
    /\ buffer = [i \in 0..(BufCap - 1) |-> CHOOSE b \in Byte : TRUE]
    /\ acked = [i \in 0..(BufCap - 1) |-> FALSE]
    /\ flight = <<>>
    /\ sent = 0

InFlight == Minus(next_seq, base)
Available == Minus(WindowSize, InFlight)

\* Mutant: one byte more than the window.
CanSendOneMore == InFlight <= WindowSize

CanSend == InFlight < WindowSize

Send(byte) ==
    /\ sent < MaxSent
    /\ CanSend
    /\ LET idx == next_seq % BufCap
       IN  /\ buffer' = [buffer EXCEPT ![idx] = byte]
           /\ acked' = [acked EXCEPT ![idx] = FALSE]
    /\ next_seq' = (next_seq + 1) % Word
    /\ flight' = Append(flight, byte)
    /\ sent' = sent + 1
    /\ UNCHANGED base

\* Plain unsigned comparisons, as the code has them.
AckInRange(n) == n >= base /\ n <= next_seq

\* nfs_send_window_ack; a refused number changes nothing.
Ack(n) ==
    /\ AckInRange(n)
    /\ acked' = [i \in DOMAIN acked |->
                   acked[i] \/ \E s \in Seqnum : base <= s /\ s < n /\ s % BufCap = i]
    /\ base' = n
    /\ flight' = SubSeq(flight, Minus(n, base) + 1, Len(flight))
    /\ UNCHANGED <<next_seq, buffer, sent>>

GetDataLen(seq) ==
    LET toEndOfBuf == BufCap - (seq % BufCap)
        toEndOfFlight == Minus(next_seq, seq)
    IN  IF toEndOfBuf < toEndOfFlight THEN toEndOfBuf ELSE toEndOfFlight

\* nfs_send_window_get_data: the bytes the caller may resend; <<>> for NULL.
GetData(seq) ==
    LET idx == seq % BufCap
        At(i) == IF i < BufCap THEN buffer[i] ELSE "out of bounds"
    IN  IF seq < base \/ seq >= next_seq THEN <<>>
        ELSE [k \in 1..GetDataLen(seq) |-> At(idx + k - 1)]

Next ==
    \/ \E byte \in Byte : Send(byte)
    \/ \E n \in Seqnum : Ack(n)

Spec == Init /\ [][Next]_vars

-----------------------------------------------------------------------------
\* Types, and no more than a window of bytes is ever unacknowledged
\* (nfs_send_window_send refuses the byte that would not fit).
TypeOK ==
    /\ base \in Seqnum /\ next_seq \in Seqnum
    /\ buffer \in [0..(BufCap - 1) -> Byte]
    /\ acked \in [0..(BufCap - 1) -> BOOLEAN]
    /\ flight \in Seq(Byte) /\ Len(flight) <= WindowSize
    /\ sent \in 0..MaxSent

\* The unsigned differences of nfs_send_window_in_flight and _available are
\* the true counts: neither wraps below zero, whatever ACK numbers arrive.
CountersAreExact ==
    /\ InFlight = Len(flight)
    /\ Available = WindowSize - Len(flight)

\* Any byte in flight can be fetched for retransmission: from every sequence
\* number in flight nfs_send_window_get_data yields a non-empty run of exactly
\* the bytes that were sent there, although the buffer is circular and reused.
RetransmitsWhatWasSent ==
    \A k \in 0..(Len(flight) - 1) :
        LET got == GetData((base + k) % Word)
        IN  /\ Len(got) \in 1..(Len(flight) - k)
            /\ got = SubSeq(flight, k + 1, k + Len(got))

\* nfs_send_window_ack accepts every acknowledgement of bytes in flight
\* (sliding_window.c:72, "ack_num must be within [base, next_seq]").
EveryFlightAckAccepted ==
    \A k \in 0..Len(flight) : AckInRange((base + k) % Word)
=============================================================================
