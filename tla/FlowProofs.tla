----------------------------- MODULE FlowProofs -----------------------------
(***************************************************************************)
(* Proofs about the flow suite: the receive window, Nagle's algorithm and  *)
(* the delayed ACK, the transmission control block, the send window, the   *)
(* retransmission queue and the SACK scoreboard.  Each part has an         *)
(* inductive invariant of its own; a step of the suite is a step of one    *)
(* part.                                                                   *)
(***************************************************************************)
EXTENDS MCFlow, SequenceTheorems, FiniteSetTheorems, WellFoundedInduction, TLAPS

\* A step of the suite is, for each part, a step of that part or one that
\* leaves it alone.
LEMMA FlowSteps ==
    ASSUME [Next]_vars
    PROVE  /\ [SendWindow!Next]_swVars
           /\ [RetxQueue!Next]_rqVars
           /\ [RecvWindow!Next]_rwVars
           /\ [Nagle!Next]_nagleVars
           /\ [Tcb!Next]_tcbVars
           /\ [Sack!Next]_sackVars
  <1>1. CASE Next
    BY <1>1 DEF Next
  <1>2. CASE UNCHANGED vars
    BY <1>2 DEF vars
  <1> QED BY <1>1, <1>2

-----------------------------------------------------------------------------
\* The assumptions on the constants of recv_win.c.
LEMMA RecvConstantsHold == Capacity \in Nat \ {0} /\ Interval \in Nat /\ Total \in Nat
  BY FlowSuiteConstants DEF RecvWindow!RecvWindowConstants

\* The n bytes of the stream from number c on.
Bytes(c, n) == [k \in 1..n |-> c + k - 1]

\* A run of bytes is a sequence.
LEMMA BytesFacts ==
    ASSUME NEW c \in Nat, NEW n \in Nat
    PROVE  /\ Bytes(c, n) \in Seq(Nat) /\ Len(Bytes(c, n)) = n
           /\ \A k \in 1..n : Bytes(c, n)[k] = c + k - 1
  <1>1. \A k \in 1..n : c + k - 1 \in Nat
    OBVIOUS
  <1>2. Bytes(c, n) \in [1..n -> Nat]
    BY <1>1 DEF Bytes
  <1>3. \A k \in 1..n : Bytes(c, n)[k] = c + k - 1
    BY DEF Bytes
  <1> HIDE DEF Bytes
  <1> QED BY <1>2, <1>3

\* A run followed by the next run is a run.
LEMMA BytesJoin ==
    ASSUME NEW c \in Nat, NEW n \in Nat, NEW m \in Nat
    PROVE  Bytes(c, n) \o Bytes(c + n, m) = Bytes(c, n + m)
  <1> DEFINE a == Bytes(c, n)
             b == Bytes(c + n, m)
             t == Bytes(c, n + m)
  <1>1. /\ a \in Seq(Nat) /\ Len(a) = n /\ \A k \in 1..n : a[k] = c + k - 1
        /\ b \in Seq(Nat) /\ Len(b) = m /\ \A k \in 1..m : b[k] = c + n + k - 1
        /\ t \in Seq(Nat) /\ Len(t) = n + m /\ \A k \in 1..(n + m) : t[k] = c + k - 1
    <2>1. c + n \in Nat /\ n + m \in Nat
      OBVIOUS
    <2> HIDE DEF Bytes
    <2> QED BY <2>1, BytesFacts, Zenon
  <1> HIDE DEF a, b, t
  <1>2. /\ a \o b \in Seq(Nat) /\ Len(a \o b) = n + m
        /\ \A k \in 1..(n + m) : (a \o b)[k] = IF k <= n THEN a[k] ELSE b[k - n]
    BY <1>1, ConcatProperties, SMTT(60)
  <1>3. ASSUME NEW k \in 1..(n + m) PROVE (a \o b)[k] = t[k]
    <2>1. CASE k <= n
      BY <1>1, <1>2, <2>1
    <2>2. CASE ~(k <= n)
      <3>1. k - n \in 1..m /\ c + n + (k - n) - 1 = c + k - 1
        BY <2>2
      <3>2. (a \o b)[k] = b[k - n]
        BY <1>2, <2>2
      <3>3. b[k - n] = c + n + (k - n) - 1 /\ t[k] = c + k - 1
        BY <1>1, <3>1
      <3> QED BY <3>1, <3>2, <3>3
    <2> QED BY <2>1, <2>2
  <1>4. a \o b = t
    BY <1>1, <1>2, <1>3, SeqEqual
  <1> QED BY <1>4 DEF a, b, t

\* A run without its first bytes is a run.
LEMMA BytesCut ==
    ASSUME NEW c \in Nat, NEW n \in Nat, NEW m \in Nat, m <= n
    PROVE  SubSeq(Bytes(c, n), m + 1, n) = Bytes(c + m, n - m)
  <1> DEFINE a == Bytes(c, n)
             t == Bytes(c + m, n - m)
             b == SubSeq(a, m + 1, n)
  <1>1. /\ a \in Seq(Nat) /\ Len(a) = n /\ \A k \in 1..n : a[k] = c + k - 1
        /\ t \in Seq(Nat) /\ Len(t) = n - m /\ \A k \in 1..(n - m) : t[k] = c + m + k - 1
    <2>1. c + m \in Nat /\ n - m \in Nat
      OBVIOUS
    <2> HIDE DEF Bytes
    <2> QED BY <2>1, BytesFacts, Zenon
  <1> HIDE DEF a, t
  <1>2. \A k \in (m + 1)..n : a[k] \in Nat
    BY <1>1
  <1>3. /\ b \in Seq(Nat) /\ Len(b) = IF m + 1 <= n THEN n - (m + 1) + 1 ELSE 0
        /\ \A k \in 1..(n - (m + 1) + 1) : b[k] = a[(m + 1) + k - 1]
    BY <1>2, SubSeqProperties
  <1> HIDE DEF b
  <1>4. Len(b) = n - m /\ \A k \in 1..(n - m) : b[k] = a[m + k]
    BY <1>3
  <1>5. \A k \in 1..(n - m) : b[k] = t[k]
    BY <1>1, <1>4
  <1>6. b = t
    BY <1>1, <1>3, <1>4, <1>5, SeqEqual
  <1> QED BY <1>6 DEF a, b, t

\* recv_win.c: what is in the buffer, and that no advertisement, in the
\* network or acted on, promises more than the application has made room for.
RecvTypes ==
    /\ rw_nxt \in Nat /\ consumed \in Nat /\ rw_una \in Nat /\ rw_wnd \in Nat
    /\ consumed <= rw_nxt /\ rw_nxt - consumed <= Capacity
    /\ rw_nxt <= Total /\ rw_una <= rw_nxt /\ rw_wnd <= Capacity
    /\ elapsed \in 0..Interval

SegsInStream == \A m \in segs : m \in [seq : Nat, len : 1..Capacity] /\ m.seq + m.len <= Total

AcksPromise ==
    \A a \in rw_acks : /\ a \in [ack : Nat, wnd : 0..Capacity] /\ a.ack <= rw_nxt
                       /\ a.ack + a.wnd <= consumed + Capacity

RecvInv ==
    /\ RecvTypes
    /\ active \in BOOLEAN
    /\ buffer = Bytes(consumed, rw_nxt - consumed)
    /\ rw_una + rw_wnd <= consumed + Capacity
    /\ SegsInStream
    /\ AcksPromise

\* Len(buffer).
LEMMA BufferLength ==
    ASSUME RecvInv
    PROVE  /\ Len(buffer) = rw_nxt - consumed /\ Len(buffer) \in 0..Capacity
           /\ buffer \in Seq(Nat)
  <1>1. rw_nxt - consumed \in Nat /\ consumed \in Nat /\ rw_nxt - consumed <= Capacity
    BY DEF RecvInv, RecvTypes
  <1>2. buffer = Bytes(consumed, rw_nxt - consumed)
    BY DEF RecvInv
  <1>3. Len(buffer) = rw_nxt - consumed /\ buffer \in Seq(Nat)
    BY <1>1, <1>2, BytesFacts
  <1> QED BY <1>1, <1>3, RecvConstantsHold

\* An acknowledgement after a receive or a read promises the room there is.
LEMMA Acknowledged ==
    ASSUME RecvInv, RecvWindow!Acknowledge, NEW n \in Nat, NEW c \in Nat, rw_nxt' = n, consumed' = c,
           rw_nxt <= n, consumed <= c, c <= n, n - c <= Capacity,
           buffer' = Bytes(c, n - c)
    PROVE  AcksPromise'
  <1>1. n - c \in Nat
    OBVIOUS
  <1>2. Len(buffer') = n - c
    BY <1>1, BytesFacts
  <1> DEFINE w == Capacity - (n - c)
             new == [ack |-> n, wnd |-> w]
  <1>3. rw_acks' = rw_acks \cup {new}
    BY <1>2 DEF RecvWindow!Acknowledge, RecvWindow!Advertised
  <1>4. w \in 0..Capacity /\ n + w <= c + Capacity
    BY <1>1, RecvConstantsHold
  <1> HIDE DEF w
  <1>5. new \in [ack : Nat, wnd : 0..Capacity] /\ new.ack <= n /\ new.ack + new.wnd <= c + Capacity
    BY <1>4, RecvConstantsHold
  <1> HIDE DEF new
  <1>6. ASSUME NEW a \in rw_acks
        PROVE  a \in [ack : Nat, wnd : 0..Capacity] /\ a.ack <= n /\ a.ack + a.wnd <= c + Capacity
    <2>1. /\ a \in [ack : Nat, wnd : 0..Capacity] /\ a.ack <= rw_nxt /\ a.ack + a.wnd <= consumed + Capacity
          /\ rw_nxt \in Nat /\ consumed \in Nat
      BY DEF RecvInv, AcksPromise, RecvTypes
    <2> QED BY <2>1, RecvConstantsHold
  <1> QED BY <1>3, <1>5, <1>6 DEF AcksPromise

\* recv_win.c and its sender keep what was promised.
LEMMA RecvStep ==
    ASSUME RecvInv, RecvWindow!Next
    PROVE  RecvInv'
  <1> USE RecvConstantsHold
  <1>0. /\ rw_nxt \in Nat /\ consumed \in Nat /\ rw_una \in Nat /\ rw_wnd \in Nat
        /\ consumed <= rw_nxt /\ rw_nxt - consumed <= Capacity
        /\ rw_nxt <= Total /\ rw_una <= rw_nxt /\ rw_wnd <= Capacity
        /\ elapsed \in 0..Interval /\ rw_una + rw_wnd <= consumed + Capacity
        /\ Len(buffer) = rw_nxt - consumed /\ Len(buffer) \in 0..Capacity
    BY BufferLength DEF RecvInv, RecvTypes
  <1>b. active \in BOOLEAN /\ SegsInStream /\ AcksPromise /\ buffer = Bytes(consumed, rw_nxt - consumed)
    BY DEF RecvInv
  <1>1. ASSUME NEW m \in segs, RecvWindow!ReceiveInOrder(m) PROVE RecvInv'
    <2> DEFINE n == RecvWindow!Accepted(m.len)
    <2>1. m.seq \in Nat /\ m.len \in 1..Capacity /\ m.seq + m.len <= Total
      BY <1>b DEF SegsInStream
    <2>2. n \in Nat /\ n <= m.len /\ n <= Capacity - Len(buffer)
      BY <1>0, <2>1 DEF RecvWindow!Accepted, RecvWindow!Smaller
    <2>3. /\ m.seq = rw_nxt /\ rw_nxt' = rw_nxt + n /\ RecvWindow!Acknowledge
          /\ UNCHANGED <<consumed, active, elapsed, rw_una, rw_wnd, segs>>
          /\ buffer' = buffer \o [k \in 1..n |-> m.seq + k - 1]
      BY <1>1 DEF RecvWindow!ReceiveInOrder, RecvWindow!zwpVars
    <2> HIDE DEF n
    <2>4. buffer' = Bytes(consumed, rw_nxt - consumed) \o Bytes(consumed + (rw_nxt - consumed), n)
      <3>1. consumed + (rw_nxt - consumed) = m.seq
        BY <1>0, <2>3
      <3> QED BY <1>b, <2>3, <3>1 DEF Bytes
    <2>5. /\ rw_nxt - consumed \in Nat /\ (rw_nxt - consumed) + n = (rw_nxt + n) - consumed
          /\ rw_nxt + n \in Nat /\ rw_nxt <= rw_nxt + n /\ consumed <= consumed
          /\ consumed <= rw_nxt + n /\ (rw_nxt + n) - consumed <= Capacity
      BY <1>0, <2>2
    <2>6. buffer' = Bytes(consumed, (rw_nxt + n) - consumed)
      <3>1. ASSUME NEW d \in Nat PROVE Bytes(consumed, d) \o Bytes(consumed + d, n) = Bytes(consumed, d + n)
        BY <1>0, <2>2, BytesJoin, ZenonT(60)
      <3>2. buffer' = Bytes(consumed, (rw_nxt - consumed) + n)
        BY <2>4, <2>5, <3>1
      <3> QED BY <2>5, <3>2
    <2>7. RecvTypes'
      BY <1>0, <2>1, <2>2, <2>3 DEF RecvTypes
    <2>8. AcksPromise'
      BY <1>0, <2>3, <2>5, <2>6, Acknowledged
    <2> QED BY <1>0, <1>b, <2>3, <2>6, <2>7, <2>8 DEF RecvInv, SegsInStream
  <1>2. ASSUME NEW m \in segs, RecvWindow!ReceiveOther(m) PROVE RecvInv'
    <2>1. /\ UNCHANGED <<buffer, rw_nxt, consumed, active, elapsed, rw_una, rw_wnd, segs>>
          /\ RecvWindow!Acknowledge
      BY <1>2 DEF RecvWindow!ReceiveOther, RecvWindow!recvVars, RecvWindow!zwpVars
    <2>2. AcksPromise'
      BY <1>0, <1>b, <2>1, Acknowledged
    <2> QED BY <1>0, <1>b, <2>1, <2>2 DEF RecvInv, RecvTypes, SegsInStream
  <1>3. ASSUME NEW max \in 1..Capacity, RecvWindow!Read(max) PROVE RecvInv'
    <2> DEFINE n == RecvWindow!Smaller(Len(buffer), max)
    <2>1. n \in Nat /\ n <= Len(buffer)
      BY <1>0 DEF RecvWindow!Smaller
    <2>2. /\ buffer' = SubSeq(buffer, n + 1, Len(buffer)) /\ consumed' = consumed + n
          /\ UNCHANGED <<rw_nxt, active, elapsed, rw_una, rw_wnd, segs>> /\ RecvWindow!Acknowledge
      BY <1>3 DEF RecvWindow!Read, RecvWindow!Remaining, RecvWindow!zwpVars
    <2> HIDE DEF n
    <2>3. buffer' = SubSeq(Bytes(consumed, rw_nxt - consumed), n + 1, rw_nxt - consumed)
      BY <1>0, <1>b, <2>2
    <2>4. /\ rw_nxt - consumed \in Nat /\ n <= rw_nxt - consumed
          /\ (rw_nxt - consumed) - n = rw_nxt - (consumed + n)
          /\ consumed + n \in Nat /\ rw_nxt <= rw_nxt /\ consumed <= consumed + n
          /\ consumed + n <= rw_nxt /\ rw_nxt - (consumed + n) <= Capacity
      BY <1>0, <2>1
    <2>5. buffer' = Bytes(consumed + n, rw_nxt - (consumed + n))
      <3>1. ASSUME NEW d \in Nat, n <= d
            PROVE  SubSeq(Bytes(consumed, d), n + 1, d) = Bytes(consumed + n, d - n)
        <4>1. consumed \in Nat /\ n \in Nat
          BY <1>0, <2>1
        <4> HIDE DEF Bytes
        <4> QED BY <3>1, <4>1, BytesCut, Zenon
      <3>2. buffer' = Bytes(consumed + n, (rw_nxt - consumed) - n)
        BY <2>3, <2>4, <3>1
      <3> QED BY <2>4, <3>2
    <2>6. RecvTypes'
      BY <1>0, <2>1, <2>2 DEF RecvTypes
    <2>7. AcksPromise'
      BY <1>0, <2>2, <2>4, <2>5, Acknowledged
    <2>8. rw_una' + rw_wnd' <= consumed' + Capacity
      BY <1>0, <2>1, <2>2
    <2> QED BY <1>0, <1>b, <2>2, <2>5, <2>6, <2>7, <2>8 DEF RecvInv, SegsInStream
  <1>4. ASSUME NEW len \in 1..Capacity, RecvWindow!Send(len) PROVE RecvInv'
    <2>1. /\ len <= rw_wnd /\ rw_una + len <= Total
          /\ segs' = segs \cup {[seq |-> rw_una, len |-> len]}
          /\ UNCHANGED <<buffer, rw_nxt, consumed, active, elapsed, rw_una, rw_wnd, rw_acks>>
      BY <1>4 DEF RecvWindow!Send, RecvWindow!recvVars, RecvWindow!zwpVars
    <2>2. SegsInStream'
      BY <1>0, <1>b, <2>1 DEF SegsInStream
    <2> QED BY <1>0, <1>b, <2>1, <2>2 DEF RecvInv, RecvTypes, AcksPromise
  <1>5. ASSUME NEW a \in rw_acks, RecvWindow!SenderAck(a) PROVE RecvInv'
    <2>1. /\ rw_una' = a.ack /\ rw_wnd' = a.wnd /\ active' = (a.wnd = 0)
          /\ elapsed' = IF active /\ a.wnd = 0 THEN elapsed ELSE 0
          /\ UNCHANGED <<buffer, rw_nxt, consumed, segs, rw_acks>>
      BY <1>5 DEF RecvWindow!SenderAck, RecvWindow!recvVars
    <2>2. a.ack \in Nat /\ a.wnd \in 0..Capacity /\ a.ack <= rw_nxt /\ a.ack + a.wnd <= consumed + Capacity
      BY <1>b DEF AcksPromise
    <2>3. elapsed' \in 0..Interval
      BY <1>0, <2>1
    <2>4. active' \in BOOLEAN
      BY <2>1, Zenon
    <2>5. RecvTypes' /\ rw_una' + rw_wnd' <= consumed' + Capacity
      BY <1>0, <2>1, <2>2, <2>3 DEF RecvTypes
    <2> QED BY <1>b, <2>1, <2>4, <2>5 DEF RecvInv, SegsInStream, AcksPromise
  <1>6. CASE RecvWindow!Probe
    <2>1. /\ elapsed' = 0
          /\ segs' = IF rw_una < Total THEN segs \cup {[seq |-> rw_una, len |-> 1]} ELSE segs
          /\ UNCHANGED <<buffer, rw_nxt, consumed, active, rw_una, rw_wnd, rw_acks>>
      BY <1>6 DEF RecvWindow!Probe, RecvWindow!recvVars
    <2>2. SegsInStream'
      BY <1>0, <1>b, <2>1 DEF SegsInStream
    <2>3. RecvTypes'
      BY <1>0, <2>1 DEF RecvTypes
    <2> QED BY <1>0, <1>b, <2>1, <2>2, <2>3 DEF RecvInv, AcksPromise
  <1>7. CASE RecvWindow!Tick
    <2>1. /\ elapsed < Interval /\ elapsed' = elapsed + 1
          /\ UNCHANGED <<buffer, rw_nxt, consumed, active, rw_una, rw_wnd, segs, rw_acks>>
      BY <1>7 DEF RecvWindow!Tick, RecvWindow!recvVars
    <2>2. RecvTypes'
      BY <1>0, <2>1 DEF RecvTypes
    <2> QED BY <1>0, <1>b, <2>1, <2>2 DEF RecvInv, SegsInStream, AcksPromise
  <1>8. CASE RecvWindow!Lose
    <2>1. /\ segs' \subseteq segs /\ rw_acks' \subseteq rw_acks
          /\ UNCHANGED <<buffer, rw_nxt, consumed, active, elapsed, rw_una, rw_wnd>>
      BY <1>8 DEF RecvWindow!Lose, RecvWindow!recvVars, RecvWindow!zwpVars
    <2>2. SegsInStream' /\ AcksPromise'
      BY <1>b, <2>1 DEF SegsInStream, AcksPromise
    <2> QED BY <1>0, <1>b, <2>1, <2>2 DEF RecvInv, RecvTypes
  <1> QED BY <1>1, <1>2, <1>3, <1>4, <1>5, <1>6, <1>7, <1>8 DEF RecvWindow!Next

\* recv_win.c keeps its promises and its buffer.
LEMMA RecvInvariant == Spec => []RecvInv
  <1>1. Init => RecvInv
    <2> SUFFICES ASSUME RecvWindow!Init PROVE RecvInv
      BY DEF Init
    <2>1. /\ buffer = <<>> /\ rw_nxt = 0 /\ consumed = 0 /\ active = FALSE /\ elapsed = 0
          /\ rw_una = 0 /\ rw_wnd = Capacity /\ segs = {} /\ rw_acks = {}
      BY DEF RecvWindow!Init
    <2>2. Bytes(0, 0) = <<>>
      <3>1. Bytes(0, 0) \in Seq(Nat) /\ Len(Bytes(0, 0)) = 0
        BY BytesFacts
      <3> HIDE DEF Bytes
      <3> QED BY <3>1, EmptySeq
    <2>3. buffer = Bytes(consumed, rw_nxt - consumed)
      BY <2>1, <2>2
    <2>4. RecvTypes /\ rw_una + rw_wnd <= consumed + Capacity /\ SegsInStream /\ AcksPromise
      BY <2>1, RecvConstantsHold DEF RecvTypes, SegsInStream, AcksPromise
    <2>5. active \in BOOLEAN
      BY <2>1
    <2> QED BY <2>3, <2>4, <2>5 DEF RecvInv
  <1>2. RecvInv /\ [Next]_vars => RecvInv'
    <2>1. RecvInv /\ UNCHANGED rwVars => RecvInv'
      BY DEF rwVars, RecvInv, RecvTypes, SegsInStream, AcksPromise, Bytes
    <2> QED BY <2>1, RecvStep, FlowSteps
  <1> QED BY <1>1, <1>2, PTL DEF Spec

\* The assumptions on the constants of nagle.c.
LEMMA NagleConstantsHold == Mss \in Nat \ {0} /\ Delay \in Nat /\ MaxBytes \in Nat
  BY FlowSuiteConstants DEF Nagle!NagleConstants

\* nagle.c: the receiver owes an acknowledgement only with a timer running.
DelackInv ==
    /\ rcv \in Nat /\ acked \in Nat /\ acked <= rcv
    /\ seg_count \in {0, 1} /\ pending \in BOOLEAN
    /\ wire \in Seq(Nat)
    /\ acked < rcv => pending /\ seg_count = 1

\* nagle.c: acknowledgements come back in order, none below snd_una.
AcksAscend ==
    /\ acks \in Seq(Nat) /\ snd_una \in Nat /\ snd_una <= acked
    /\ \A k \in 1..Len(acks) : snd_una <= acks[k] /\ acks[k] <= acked
    /\ \A k, l \in 1..Len(acks) : k < l => acks[k] <= acks[l]

\* nagle.c: the short segments that are not acknowledged.
SmallsInv ==
    /\ snd_nxt \in Nat /\ queued \in Nat /\ enabled \in BOOLEAN
    /\ smalls \subseteq Nat /\ \A e \in smalls : e <= snd_nxt
    /\ \A e, f \in smalls : e > snd_una /\ f > snd_una => e = f

NagleInv == DelackInv /\ AcksAscend /\ SmallsInv

\* An acknowledgement for all that was received goes to the end of the queue.
LEMMA AckAppended ==
    ASSUME DelackInv, AcksAscend, NEW n \in Nat, rcv <= n, acks' = Append(acks, n), acked' = n,
           UNCHANGED snd_una
    PROVE  AcksAscend'
  <1>1. acks \in Seq(Nat) /\ Len(acks) \in Nat /\ acked \in Nat /\ snd_una \in Nat /\ snd_una <= n /\ acked <= n
    BY DEF DelackInv, AcksAscend
  <1>2. /\ acks' \in Seq(Nat) /\ Len(acks') = Len(acks) + 1
        /\ \A k \in 1..Len(acks) : acks'[k] = acks[k]
        /\ acks'[Len(acks) + 1] = n
    BY <1>1, AppendProperties
  <1>3. \A k \in 1..Len(acks') : k \in 1..Len(acks) \/ k = Len(acks) + 1
    BY <1>1, <1>2
  <1>4. \A k \in 1..Len(acks) : acks[k] \in Nat /\ snd_una <= acks[k] /\ acks[k] <= acked
    BY <1>1, ElementOfSeq DEF AcksAscend
  <1>5. \A k \in 1..Len(acks) : snd_una <= acks[k] /\ acks[k] <= n
    BY <1>1, <1>4
  <1>6. \A k \in 1..Len(acks') : snd_una <= acks'[k] /\ acks'[k] <= n
    BY <1>1, <1>2, <1>3, <1>5
  <1>7. ASSUME NEW k \in 1..Len(acks'), NEW l \in 1..Len(acks'), k < l PROVE acks'[k] <= acks'[l]
    <2>1. CASE l = Len(acks) + 1
      BY <1>2, <1>6, <2>1
    <2>2. CASE l \in 1..Len(acks)
      <3>1. k \in 1..Len(acks)
        BY <1>1, <1>7, <2>2
      <3> QED BY <1>2, <1>7, <2>2, <3>1 DEF AcksAscend
    <2> QED BY <1>3, <2>1, <2>2
  <1> QED BY <1>1, <1>2, <1>6, <1>7 DEF AcksAscend

\* The first acknowledgement in the queue is taken.
LEMMA AckTaken ==
    ASSUME AcksAscend, Len(acks) > 0, snd_una' = acks[1], acks' = Nagle!RemoveAt(acks, 1), UNCHANGED acked
    PROVE  AcksAscend' /\ snd_una' \in Nat /\ snd_una <= snd_una'
  <1>1. acks \in Seq(Nat) /\ Len(acks) \in Nat /\ 1 \in 1..Len(acks)
    BY DEF AcksAscend
  <1>2. \A k \in 1..Len(acks) : acks[k] \in Nat
    BY <1>1, ElementOfSeq
  <1> DEFINE s == SubSeq(acks, 2, Len(acks))
  <1>3. acks' = s
    <2>1. SubSeq(acks, 1, 1 - 1) = <<>>
      BY SubSeqEmpty
    <2>2. /\ s \in Seq(Nat)
      BY <1>1, <1>2, SubSeqProperties
    <2>3. <<>> \o s = s
      BY <2>2, ConcatEmptySeq
    <2>4. acks' = SubSeq(acks, 1, 1 - 1) \o SubSeq(acks, 1 + 1, Len(acks))
      BY Zenon DEF Nagle!RemoveAt
    <2>5. 1 + 1 = 2
      OBVIOUS
    <2> HIDE DEF s
    <2> QED BY <2>1, <2>3, <2>4, <2>5, Zenon DEF s
  <1>4. /\ s \in Seq(Nat) /\ Len(s) = IF 2 <= Len(acks) THEN Len(acks) - 2 + 1 ELSE 0
        /\ \A k \in 1..(Len(acks) - 2 + 1) : s[k] = acks[2 + k - 1]
    BY <1>1, <1>2, SubSeqProperties
  <1> HIDE DEF s
  <1>5. Len(s) = Len(acks) - 1 /\ \A k \in 1..Len(s) : k + 1 \in 1..Len(acks) /\ s[k] = acks[k + 1]
    <2>1. Len(s) = Len(acks) - 1
      <3>1. \A n \in Nat : 1 \in 1..n => (IF 2 <= n THEN n - 2 + 1 ELSE 0) = n - 1
        OBVIOUS
      <3> QED BY <1>1, <1>4, <3>1
    <2>2. ASSUME NEW k \in 1..Len(s) PROVE k + 1 \in 1..Len(acks) /\ s[k] = acks[k + 1]
      <3>1. k \in 1..(Len(acks) - 2 + 1) /\ 2 + k - 1 = k + 1 /\ k + 1 \in 1..Len(acks)
        BY <1>1, <2>1
      <3> QED BY <1>4, <3>1
    <2> QED BY <2>1, <2>2
  <1>6. snd_una' \in Nat /\ snd_una <= snd_una' /\ snd_una' <= acked
    BY <1>1, <1>2 DEF AcksAscend
  <1>7. \A k \in 1..Len(s) : acks[1] <= s[k] /\ s[k] <= acked
    <2> SUFFICES ASSUME NEW k \in 1..Len(s) PROVE acks[1] <= s[k] /\ s[k] <= acked
      OBVIOUS
    <2>1. k + 1 \in 1..Len(acks) /\ s[k] = acks[k + 1] /\ 1 < k + 1
      BY <1>1, <1>5
    <2> QED BY <1>1, <2>1 DEF AcksAscend
  <1>8. \A k, l \in 1..Len(s) : k < l => s[k] <= s[l]
    <2> SUFFICES ASSUME NEW k \in 1..Len(s), NEW l \in 1..Len(s), k < l PROVE s[k] <= s[l]
      OBVIOUS
    <2>1. /\ k + 1 \in 1..Len(acks) /\ s[k] = acks[k + 1]
          /\ l + 1 \in 1..Len(acks) /\ s[l] = acks[l + 1] /\ k + 1 < l + 1
      BY <1>1, <1>5
    <2> QED BY <2>1 DEF AcksAscend
  <1> QED BY <1>3, <1>4, <1>6, <1>7, <1>8 DEF AcksAscend

\* nagle.c over a network that keeps the order of acknowledgements.
LEMMA NagleStep ==
    ASSUME Reorders = FALSE, NagleInv, Nagle!Next
    PROVE  NagleInv'
  <1> USE NagleConstantsHold DEF NagleInv
  <1>1. ASSUME NEW n \in 1..Mss, Nagle!Write(n) PROVE NagleInv'
    <2>1. queued' = queued + n /\ UNCHANGED <<enabled, snd_una, snd_nxt, smalls, pending, left, seg_count, rcv, acked, wire, acks>>
      BY <1>1 DEF Nagle!Write, Nagle!delackVars
    <2>2. queued' \in Nat
      BY <2>1 DEF SmallsInv
    <2> QED BY <2>1, <2>2 DEF DelackInv, AcksAscend, SmallsInv
  <1>2. CASE Nagle!SendData
    <2> DEFINE len == IF queued < Mss THEN queued ELSE Mss
    <2>1. /\ queued > 0 /\ Nagle!CanSend(len) /\ snd_nxt' = snd_nxt + len /\ queued' = queued - len
          /\ wire' = Append(wire, len)
          /\ smalls' = IF enabled /\ len < Mss THEN smalls \cup {snd_nxt'} ELSE smalls
          /\ UNCHANGED <<enabled, snd_una, pending, left, seg_count, rcv, acked, acks>>
      BY <1>2 DEF Nagle!SendData, Nagle!delackVars
    <2>2. queued \in Nat /\ snd_nxt \in Nat /\ snd_una \in Nat /\ len \in Nat /\ len > 0 /\ len <= queued
      BY <2>1 DEF SmallsInv, AcksAscend
    <2> HIDE DEF len
    <2>3. snd_nxt' \in Nat /\ snd_nxt <= snd_nxt' /\ queued' \in Nat
      BY <2>1, <2>2
    <2>4. wire' \in Seq(Nat)
      BY <2>1, <2>2, AppendProperties DEF DelackInv
    <2>5. \A e \in smalls : e \in Nat /\ e <= snd_nxt /\ e <= snd_nxt'
      BY <2>2, <2>3 DEF SmallsInv
    <2>6. SmallsInv'
      <3>1. CASE enabled /\ len < Mss
        <4>1. snd_una = snd_nxt
          BY <2>1, <2>2, <3>1 DEF Nagle!CanSend
        <4>2. smalls' = smalls \cup {snd_nxt'}
          BY <2>1, <3>1
        <4>3. \A e \in smalls : ~(e > snd_una)
          BY <2>2, <2>5, <4>1
        <4>4. \A e \in smalls' : e \in Nat /\ e <= snd_nxt'
          BY <2>3, <2>5, <4>2
        <4>5. \A e, f \in smalls' : e > snd_una /\ f > snd_una => e = f
          BY <4>2, <4>3
        <4> QED BY <2>1, <2>3, <4>4, <4>5 DEF SmallsInv
      <3>2. CASE ~(enabled /\ len < Mss)
        <4>1. smalls' = smalls
          BY <2>1, <3>2
        <4> QED BY <2>1, <2>3, <2>5, <4>1 DEF SmallsInv
      <3> QED BY <3>1, <3>2
    <2> QED BY <2>1, <2>4, <2>6 DEF DelackInv, AcksAscend
  <1>3. ASSUME NEW on \in BOOLEAN, Nagle!SetNagle(on) PROVE NagleInv'
    <2>1. enabled' = on /\ UNCHANGED <<snd_una, snd_nxt, queued, written, smalls, pending, left, seg_count, rcv, acked, wire, acks>>
      BY <1>3 DEF Nagle!SetNagle, Nagle!delackVars
    <2> QED BY <2>1 DEF DelackInv, AcksAscend, SmallsInv
  <1>4. ASSUME NEW k \in 1..Len(acks), Nagle!AckArrives(k) PROVE NagleInv'
    <2>1. /\ k = 1 /\ snd_una' = acks[1] /\ acks' = Nagle!RemoveAt(acks, 1)
          /\ UNCHANGED <<enabled, snd_nxt, queued, written, smalls, pending, left, seg_count, rcv, acked, wire>>
      BY <1>4 DEF Nagle!AckArrives, Nagle!delackVars
    <2>2. Len(acks) > 0
      BY <2>1 DEF AcksAscend
    <2>3. AcksAscend' /\ snd_una' \in Nat /\ snd_una <= snd_una'
      BY <2>1, <2>2, AckTaken
    <2>4. \A e \in smalls : e > snd_una' => e > snd_una
      BY <2>3 DEF SmallsInv, AcksAscend
    <2>5. SmallsInv'
      BY <2>1, <2>4 DEF SmallsInv
    <2> QED BY <2>1, <2>3, <2>5 DEF DelackInv
  <1>5. CASE Nagle!Receive
    <2>1. /\ wire # <<>> /\ rcv' = rcv + Head(wire) /\ wire' = Tail(wire)
          /\ UNCHANGED <<enabled, snd_una, snd_nxt, queued, written, smalls>>
      BY <1>5 DEF Nagle!Receive, Nagle!nagleVars
    <2>2. Head(wire) \in Nat /\ Tail(wire) \in Seq(Nat)
      BY <2>1, HeadTailProperties DEF DelackInv
    <2> DEFINE n == rcv + Head(wire)
    <2>3. n \in Nat /\ rcv <= n /\ wire' \in Seq(Nat) /\ rcv' = n
      <3>1. \A h \in Nat : rcv + h \in Nat /\ rcv <= rcv + h
        BY DEF DelackInv
      <3> QED BY <2>1, <2>2, <3>1
    <2> HIDE DEF n
    <2>4. SmallsInv'
      BY <2>1 DEF SmallsInv
    <2>5. CASE Nagle!AckNow
      <3>1. acks' = Append(acks, n) /\ acked' = n /\ pending' = FALSE /\ seg_count' = 0
        BY <1>5, <2>3, <2>5 DEF Nagle!Receive, Nagle!SendAck
      <3>2. AcksAscend'
        BY <2>1, <2>3, <3>1, AckAppended
      <3>3. DelackInv'
        <4>1. pending' \in BOOLEAN
          BY <3>1
        <4>2. acked' <= rcv' /\ ~(acked' < rcv')
          BY <2>3, <3>1
        <4> QED BY <2>3, <3>1, <4>1, <4>2 DEF DelackInv
      <3> QED BY <2>4, <3>2, <3>3
    <2>6. CASE ~Nagle!AckNow
      <3>1. seg_count' = seg_count + 1 /\ pending' = TRUE /\ UNCHANGED <<acks, acked>>
        BY <1>5, <2>6 DEF Nagle!Receive, Nagle!StartTimer
      <3>2. seg_count = 0
        BY <2>6 DEF Nagle!AckNow, DelackInv
      <3>3. acked \in Nat /\ acked <= n
        BY <2>3 DEF DelackInv
      <3>4. DelackInv'
        BY <2>3, <3>1, <3>2, <3>3 DEF DelackInv
      <3>5. AcksAscend'
        BY <2>1, <3>1 DEF AcksAscend
      <3> QED BY <2>4, <3>4, <3>5
    <2> QED BY <2>5, <2>6
  <1>6. CASE Nagle!DelayedAck
    <2>1. /\ rcv' = rcv /\ acks' = Append(acks, rcv) /\ acked' = rcv /\ pending' = FALSE /\ seg_count' = 0
          /\ UNCHANGED <<enabled, snd_una, snd_nxt, queued, written, smalls, wire>>
      BY <1>6 DEF Nagle!DelayedAck, Nagle!SendAck, Nagle!nagleVars
    <2>2. rcv \in Nat /\ rcv <= rcv
      BY DEF DelackInv
    <2>3. AcksAscend'
      BY <2>1, <2>2, AckAppended
    <2>4. DelackInv'
      <3>1. pending' \in BOOLEAN
        BY <2>1
      <3>2. acked' <= rcv' /\ ~(acked' < rcv')
        BY <2>1, <2>2
      <3> QED BY <2>1, <2>2, <3>1, <3>2 DEF DelackInv
    <2> QED BY <2>1, <2>3, <2>4 DEF SmallsInv
  <1>7. CASE Nagle!Tick
    <2>1. UNCHANGED <<enabled, snd_una, snd_nxt, queued, written, smalls, pending, seg_count, rcv, acked, wire, acks>>
      BY <1>7 DEF Nagle!Tick, Nagle!nagleVars
    <2> QED BY <2>1 DEF DelackInv, AcksAscend, SmallsInv
  <1> QED BY <1>1, <1>2, <1>3, <1>4, <1>5, <1>6, <1>7 DEF Nagle!Next

\* nagle.c keeps NagleInv.
LEMMA NagleInvariant == Reorders = FALSE /\ Spec => []NagleInv
  <1>1. Init => NagleInv
    <2> SUFFICES ASSUME Nagle!Init PROVE NagleInv
      BY DEF Init
    <2>1. /\ enabled = TRUE /\ snd_una = 0 /\ snd_nxt = 0 /\ pending = FALSE /\ seg_count = 0
          /\ queued = 0 /\ wire = <<>> /\ acks = <<>> /\ rcv = 0 /\ acked = 0 /\ smalls = {}
      BY DEF Nagle!Init
    <2>2. enabled \in BOOLEAN /\ pending \in BOOLEAN
      BY <2>1
    <2>3. Len(acks) = 0 /\ acks \in Seq(Nat) /\ wire \in Seq(Nat)
      BY <2>1, EmptySeq
    <2> QED BY <2>1, <2>2, <2>3 DEF NagleInv, DelackInv, AcksAscend, SmallsInv
  <1>2. Reorders = FALSE /\ NagleInv /\ [Next]_vars => NagleInv'
    <2>1. NagleInv /\ UNCHANGED nagleVars => NagleInv'
      BY DEF nagleVars, NagleInv, DelackInv, AcksAscend, SmallsInv
    <2> QED BY <2>1, NagleStep, FlowSteps
  <1>3. Reorders = FALSE => (Reorders = FALSE)'
    OBVIOUS
  <1> QED BY <1>1, <1>2, <1>3, PTL DEF Spec

\* The size of a set is the same inside and outside the part.
LEMMA SameSize == ASSUME NEW S PROVE Nagle!Cardinality(S) = Cardinality(S)
  BY Zenon DEF Nagle!Cardinality, Cardinality, Nagle!IsFiniteSet, IsFiniteSet

\* A set with at most one element.
LEMMA AtMostOne ==
    ASSUME NEW S, \A e, f \in S : e = f
    PROVE  Cardinality(S) <= 1
  <1>1. CASE S = {}
    BY <1>1, FS_EmptySet
  <1>2. CASE S # {}
    <2>1. PICK e \in S : TRUE
      BY <1>2
    <2>2. S = {e}
      BY <2>1
    <2> QED BY <2>2, FS_Singleton
  <1> QED BY <1>1, <1>2

\* What one side was promised by the other holds when it is used: the space
\* recv_win.c advertised is still in the buffer, whatever advertisement the
\* sender acts on; the delayed ACK of nagle.c owes nothing without a timer; and
\* Nagle's algorithm keeps at most one short segment outstanding.  Reorders is
\* FALSE because nfs_nagle_acked stores the number it is given: a late
\* acknowledgement would move snd_una back over a short segment.
THEOREM PromisesKept == Reorders = FALSE /\ Spec => []PromisesAreKept
  <1>1. RecvInv /\ NagleInv => PromisesAreKept
    <2> SUFFICES ASSUME RecvInv, NagleInv PROVE PromisesAreKept
      OBVIOUS
    <2>1. RecvWindow!AdvertisedSpaceIsThere
      BY DEF RecvInv, RecvWindow!AdvertisedSpaceIsThere
    <2>2. Nagle!OwedAckHasATimer
      BY DEF NagleInv, DelackInv, Nagle!OwedAckHasATimer
    <2>3. Nagle!OneShortSegment
      <3> DEFINE S == {e \in smalls : e > snd_una}
      <3>1. \A e, f \in S : e = f
        BY DEF NagleInv, SmallsInv
      <3> HIDE DEF S
      <3>2. Nagle!Cardinality(S) <= 1
        BY <3>1, SameSize, AtMostOne
      <3> QED BY <3>2 DEF S, Nagle!OneShortSegment
    <2> QED BY <2>1, <2>2, <2>3 DEF PromisesAreKept
  <1> QED BY <1>1, RecvInvariant, NagleInvariant, PTL

\* Quotient and remainder.
LEMMA DivMod ==
    ASSUME NEW m \in Nat \ {0}, NEW a \in Int
    PROVE  /\ (a \div m) \in Int /\ (a % m) \in 0..(m - 1)
           /\ a = (a \div m) * m + (a % m)
  OBVIOUS

\* A multiple of m between -m and m is 0.
LEMMA SmallMultiple ==
    ASSUME NEW m \in Nat \ {0}, NEW w \in Int, w * m < m, w * m > -m
    PROVE  w = 0
  <1>1. w >= 1 => w * m >= m
    OBVIOUS
  <1>2. w <= -1 => w * m <= -m
    OBVIOUS
  <1> QED BY <1>1, <1>2

\* The remainder is the only one of its kind.
LEMMA ModUnique ==
    ASSUME NEW m \in Nat \ {0}, NEW w \in Int, NEW r \in 0..(m - 1)
    PROVE  (w * m + r) % m = r
  <1> DEFINE a == w * m + r
             p == a \div m
             s == a % m
  <1>0. w * m \in Int
    OBVIOUS
  <1>1. a \in Int
    BY <1>0
  <1>2. p \in Int /\ s \in 0..(m - 1) /\ a = p * m + s
    BY <1>1, DivMod
  <1>3. p * m \in Int
    BY <1>2
  <1> HIDE DEF p, s
  <1>4. (w - p) * m = w * m - p * m
    BY <1>2
  <1>5. w * m + r = p * m + s
    BY <1>2
  <1>6. w * m - p * m = s - r
    BY <1>0, <1>2, <1>3, <1>5
  <1>7. (w - p) * m < m /\ (w - p) * m > -m
    BY <1>2, <1>4, <1>6
  <1>8. w - p \in Int
    BY <1>2
  <1>9. w - p = 0
    BY <1>7, <1>8, SmallMultiple
  <1>10. w * m - p * m = 0
    BY <1>4, <1>9
  <1>11. s = r
    BY <1>2, <1>6, <1>10
  <1> QED BY <1>11 DEF s

\* Whole turns do not matter.
LEMMA ModTurns ==
    ASSUME NEW m \in Nat \ {0}, NEW a \in Int, NEW w \in Int
    PROVE  (a + w * m) % m = a % m
  <1> DEFINE p == a \div m
             s == a % m
  <1>1. p \in Int /\ s \in 0..(m - 1) /\ a = p * m + s
    BY DivMod
  <1> HIDE DEF p, s
  <1>2. p + w \in Int /\ a + w * m = (p + w) * m + s
    BY <1>1
  <1>3. ((p + w) * m + s) % m = s
    BY <1>1, <1>2, ModUnique
  <1> QED BY <1>2, <1>3 DEF s

\* A number below m is its own remainder.
LEMMA ModSmall ==
    ASSUME NEW m \in Nat \ {0}, NEW r \in 0..(m - 1)
    PROVE  r % m = r
  <1>1. 0 \in Int /\ 0 * m + r = r
    OBVIOUS
  <1>2. (0 * m + r) % m = r
    BY <1>1, ModUnique
  <1> QED BY <1>1, <1>2

\* A remainder may be taken early.
LEMMA ModAdd ==
    ASSUME NEW m \in Nat \ {0}, NEW a \in Int, NEW d \in Int
    PROVE  ((a % m) + d) % m = (a + d) % m
  <1> DEFINE p == a \div m
             s == a % m
             n == -p
             c == s + d
  <1>1. p \in Int /\ s \in 0..(m - 1) /\ a = p * m + s
    BY DivMod
  <1> HIDE DEF p, s
  <1>2. c \in Int /\ p * m \in Int
    BY <1>1
  <1>3. a + d = c + p * m
    BY <1>1, <1>2
  <1> HIDE DEF c
  <1>4. (c + p * m) % m = c % m
    BY <1>1, <1>2, ModTurns
  <1> QED BY <1>3, <1>4 DEF c, s

\* Remainders may be taken before a difference.
LEMMA ModSub ==
    \A m \in Nat \ {0} : \A a, b, d \in Int : ((a % m) - (b % m) + d) % m = (a - b + d) % m
  <1> SUFFICES ASSUME NEW m \in Nat \ {0}, NEW a \in Int, NEW b \in Int, NEW d \in Int
               PROVE  ((a % m) - (b % m) + d) % m = (a - b + d) % m
    OBVIOUS
  <1> DEFINE p == a \div m
             s == a % m
             r == b \div m
             t == b % m
             c == s - t + d
             u == p - r
  <1>1. p \in Int /\ s \in 0..(m - 1) /\ a = p * m + s
    BY DivMod
  <1>2. r \in Int /\ t \in 0..(m - 1) /\ b = r * m + t
    BY DivMod
  <1> HIDE DEF p, s, r, t
  <1>3. c \in Int /\ p * m \in Int /\ r * m \in Int /\ u \in Int
    BY <1>1, <1>2
  <1>4. u * m = p * m - r * m
    BY <1>1, <1>2
  <1>5. a - b + d = c + u * m
    BY <1>1, <1>2, <1>3, <1>4
  <1> HIDE DEF c, u
  <1>6. (c + u * m) % m = c % m
    BY <1>3, ModTurns
  <1> QED BY <1>5, <1>6 DEF c, s, t

-----------------------------------------------------------------------------
\* The assumptions on the constants of tcb.c.
LEMMA TcbConstantsHold ==
    /\ Half \in Nat \ {0} /\ Isns \subseteq 0..(2 * Half - 1)
    /\ SndWnd \in 1..(Half - 1) /\ TcbBytes \in Nat \ {0}
  BY FlowSuiteConstants DEF Tcb!SeqnumConstants, Tcb!TcbConstants, Tcb!Seqnums, Tcb!Word

\* Moving on by d from the number of position k gives the number of k + d.
LEMMA AddMoves ==
    ASSUME NEW i \in Int, NEW k \in Int, NEW d \in Int
    PROVE  Tcb!SeqAdd(Tcb!SeqAdd(i, k), d) = Tcb!SeqAdd(i, k + d)
  <1> DEFINE W == 2 * Half
             x == i + k
  <1>1. W \in Nat \ {0} /\ x \in Int
    BY TcbConstantsHold
  <1> HIDE DEF W, x
  <1>2. ((x % W) + d) % W = (x + d) % W
    BY <1>1, ModAdd
  <1>3. x + d = i + (k + d)
    BY DEF x
  <1> QED BY <1>2, <1>3 DEF Tcb!SeqAdd, Tcb!Word, W, x

\* What nfs_seq_diff does with two remainders, for any word m and offset h.
WordDiff(m, x, y, h) == ((x % m) - (y % m) + h) % m

\* It is the difference of the numbers, when that fits.
LEMMA DiffInWord ==
    ASSUME NEW m \in Nat \ {0}, NEW x \in Int, NEW y \in Int, NEW h \in Int,
           x - y + h \in 0..(m - 1)
    PROVE  WordDiff(m, x, y, h) = x - y + h
  <1> DEFINE r == x - y + h
  <1>1. ((x % m) - (y % m) + h) % m = r % m
    BY ModSub
  <1>2. r \in 0..(m - 1)
    OBVIOUS
  <1> HIDE DEF r
  <1>3. r % m = r
    BY <1>2, ModSmall
  <1> QED BY <1>1, <1>3 DEF r, WordDiff

\* The same of two positions counted from i.
PositionDiff(m, i, a, b, h) == WordDiff(m, i + a, i + b, h)

\* The initial sequence number does not matter.
LEMMA DiffOfPositions ==
    ASSUME NEW m \in Nat \ {0}, NEW i \in Int, NEW a \in Int, NEW b \in Int, NEW h \in Int,
           a - b + h \in 0..(m - 1)
    PROVE  PositionDiff(m, i, a, b, h) = a - b + h
  <1>1. PICK x \in Int, y \in Int : x = i + a /\ y = i + b
    OBVIOUS
  <1>2. x - y + h = a - b + h
    BY <1>1
  <1>3. x - y + h \in 0..(m - 1)
    BY <1>2
  <1>4. WordDiff(m, x, y, h) = x - y + h
    BY <1>3, DiffInWord
  <1> QED BY <1>1, <1>2, <1>4 DEF PositionDiff

\* The signed difference of two numbers is that of their positions, when those
\* are less than half the sequence space apart.
LEMMA DiffIsExact ==
    ASSUME NEW i \in Int, NEW a \in Int, NEW b \in Int
    PROVE  a - b + Half \in 0..(2 * Half - 1)
              => Tcb!SeqDiff(Tcb!SeqAdd(i, a), Tcb!SeqAdd(i, b)) = a - b
  <1>0. SUFFICES ASSUME a - b + Half \in 0..(2 * Half - 1)
                 PROVE  Tcb!SeqDiff(Tcb!SeqAdd(i, a), Tcb!SeqAdd(i, b)) = a - b
    OBVIOUS
  <1>1. PICK m \in Nat \ {0}, h \in Int : m = 2 * Half /\ h = Half
    BY TcbConstantsHold
  <1>2. a - b + h \in 0..(m - 1)
    BY <1>0, <1>1, TcbConstantsHold
  <1>3. PositionDiff(m, i, a, b, h) = a - b + h
    BY <1>2, DiffOfPositions
  <1>4. (a - b + h) - h = a - b
    BY TcbConstantsHold
  <1> QED BY <1>1, <1>3, <1>4 DEF PositionDiff, WordDiff, Tcb!SeqDiff, Tcb!SeqAdd, Tcb!Word

\* The unsigned difference too, when it is not negative.
LEMMA FlightIsExact ==
    ASSUME NEW i \in Int, NEW a \in Int, NEW b \in Int
    PROVE  a - b + 0 \in 0..(2 * Half - 1)
              => (Tcb!SeqAdd(i, a) - Tcb!SeqAdd(i, b)) % Tcb!Word = a - b
  <1>0. SUFFICES ASSUME a - b + 0 \in 0..(2 * Half - 1)
                 PROVE  (Tcb!SeqAdd(i, a) - Tcb!SeqAdd(i, b)) % Tcb!Word = a - b
    OBVIOUS
  <1>1. PICK m \in Nat \ {0}, h \in Int : m = 2 * Half /\ h = 0
    BY TcbConstantsHold
  <1>2. a - b + h \in 0..(m - 1)
    BY <1>0, <1>1, TcbConstantsHold
  <1>6. a - b + h = a - b
    BY <1>1
  <1>3. PositionDiff(m, i, a, b, h) = a - b + h
    BY <1>2, DiffOfPositions
  <1>4. PICK u \in Int, v \in Int : u = (i + a) % m /\ v = (i + b) % m
    <2>1. PICK x \in Int, y \in Int : x = i + a /\ y = i + b
      OBVIOUS
    <2>2. (x % m) \in Int /\ (y % m) \in Int
      BY DivMod
    <2> QED BY <2>1, <2>2
  <1>5. u - v + h = u - v
    BY <1>1, TcbConstantsHold
  <1> QED BY <1>1, <1>3, <1>4, <1>5, <1>6 DEF PositionDiff, WordDiff, Tcb!SeqAdd, Tcb!Word

\* tcb.c: the true positions, and no more in flight than the largest window.
TcbPositions ==
    /\ iss \in Int /\ sent \in Nat /\ got \in Nat /\ done \in Nat /\ snd_wnd \in 0..SndWnd
    /\ done <= got /\ got <= sent /\ sent - done <= SndWnd

\* The numbers denote the positions.
TcbNumbers ==
    /\ tcb_nxt = Tcb!SeqAdd(iss, sent)
    /\ rcv_nxt = Tcb!SeqAdd(iss, got)
    /\ tcb_una = Tcb!SeqAdd(iss, done)

\* Every acknowledgement in the network denotes a position that was received
\* and is less than half the sequence space old.
TcbAcks ==
    \A a \in tcb_acks : /\ a.pos \in Nat /\ a.pos <= got /\ done - a.pos < Half
                        /\ a.num = Tcb!SeqAdd(iss, a.pos)

TcbInv == TcbPositions /\ TcbNumbers /\ TcbAcks

\* snd_nxt - snd_una, taken modulo the word, is what was sent and not
\* acknowledged.
LEMMA TcbFlight ==
    ASSUME TcbInv
    PROVE  Tcb!InFlight = sent - done
  <1> USE TcbConstantsHold
  <1>1. iss \in Int /\ sent \in Int /\ done \in Int /\ sent - done + 0 \in 0..(2 * Half - 1)
    BY DEF TcbInv, TcbPositions
  <1>2. (Tcb!SeqAdd(iss, sent) - Tcb!SeqAdd(iss, done)) % Tcb!Word = sent - done
    BY <1>1, FlightIsExact
  <1> QED BY <1>2 DEF TcbInv, TcbNumbers, Tcb!InFlight

\* nfs_tcb_ack_received takes an acknowledgement exactly when it is for
\* something new.
LEMMA TcbAdvances ==
    ASSUME TcbInv, NEW a \in tcb_acks
    PROVE  Tcb!Advances(a.num) <=> a.pos > done
  <1> USE TcbConstantsHold
  <1> DEFINE p == a.pos
  <1>1. iss \in Int /\ p \in Int /\ done \in Int /\ p - done + Half \in 0..(2 * Half - 1)
    BY DEF TcbInv, TcbPositions, TcbAcks
  <1> HIDE DEF p
  <1>2. Tcb!SeqDiff(Tcb!SeqAdd(iss, p), Tcb!SeqAdd(iss, done)) = p - done
    BY <1>1, DiffIsExact
  <1>3. a.num = Tcb!SeqAdd(iss, p) /\ tcb_una = Tcb!SeqAdd(iss, done)
    BY DEF TcbInv, TcbNumbers, TcbAcks, p
  <1>4. Tcb!Advances(a.num) <=> p - done > 0
    BY <1>2, <1>3 DEF Tcb!Advances
  <1> QED BY <1>1, <1>4 DEF p

\* TcbInv holds after nfs_tcb_init and the two handshake setters.
LEMMA TcbInitially == Tcb!Init => TcbInv
  <1> SUFFICES ASSUME Tcb!Init PROVE TcbInv
    OBVIOUS
  <1> USE TcbConstantsHold
  <1>1. iss \in 0..(2 * Half - 1) /\ sent = 1 /\ got = 1 /\ done = 0 /\ tcb_acks = {}
    BY DEF Tcb!Init
  <1>2. TcbPositions
    BY <1>1 DEF TcbPositions, Tcb!Init
  <1>3. (iss + 0) % (2 * Half) = iss
    <2>1. 2 * Half \in Nat \ {0} /\ iss + 0 = iss
      BY <1>1
    <2> QED BY <1>1, <2>1, ModSmall
  <1>4. TcbNumbers
    BY <1>1, <1>3 DEF TcbNumbers, Tcb!Init, Tcb!SeqAdd, Tcb!Word
  <1> QED BY <1>1, <1>2, <1>4 DEF TcbInv, TcbAcks

\* No step of tcb.c, its peer or the network breaks TcbInv.
LEMMA TcbStep == TcbInv /\ [Tcb!Next]_tcbVars => TcbInv'
  <1> SUFFICES ASSUME TcbInv, [Tcb!Next]_tcbVars PROVE TcbInv'
    OBVIOUS
  <1> USE TcbConstantsHold
  <1>1. ASSUME NEW n \in 1..SndWnd, Tcb!AdvanceSnd(n) PROVE TcbInv'
    <2>1. Tcb!InFlight = sent - done
      BY TcbFlight
    <2>2. n <= IF sent - done >= snd_wnd THEN 0 ELSE snd_wnd - (sent - done)
      BY <1>1, <2>1 DEF Tcb!AdvanceSnd, Tcb!SndAvailable
    <2>3. iss' = iss /\ got' = got /\ done' = done /\ snd_wnd' = snd_wnd /\ sent' = sent + n
          /\ tcb_acks' = tcb_acks /\ rcv_nxt' = rcv_nxt /\ tcb_una' = tcb_una
      BY <1>1 DEF Tcb!AdvanceSnd
    <2>4. TcbPositions'
      BY <2>2, <2>3 DEF TcbInv, TcbPositions
    <2>5. tcb_nxt' = Tcb!SeqAdd(Tcb!SeqAdd(iss, sent), n)
      BY <1>1 DEF Tcb!AdvanceSnd, TcbInv, TcbNumbers
    <2>6. iss \in Int /\ sent \in Int /\ n \in Int
      BY DEF TcbInv, TcbPositions
    <2>7. tcb_nxt' = Tcb!SeqAdd(iss, sent + n)
      BY <2>5, <2>6, AddMoves
    <2>8. TcbNumbers'
      BY <2>3, <2>7 DEF TcbInv, TcbNumbers, Tcb!SeqAdd
    <2> QED BY <2>3, <2>4, <2>8 DEF TcbInv, TcbAcks, Tcb!SeqAdd
  <1>2. ASSUME NEW n \in 0..SndWnd, Tcb!DataReceived(n) PROVE TcbInv'
    <2>1. /\ iss' = iss /\ sent' = sent /\ done' = done /\ snd_wnd' = snd_wnd /\ got' = got + n
          /\ tcb_nxt' = tcb_nxt /\ tcb_una' = tcb_una /\ got + n <= sent
      BY <1>2 DEF Tcb!DataReceived
    <2>2. TcbPositions'
      BY <2>1 DEF TcbInv, TcbPositions
    <2>3. iss \in Int /\ got \in Int /\ n \in Int
      BY DEF TcbInv, TcbPositions
    <2>4. Tcb!SeqAdd(rcv_nxt, n) = Tcb!SeqAdd(iss, got + n)
      BY <2>3, AddMoves DEF TcbInv, TcbNumbers
    <2>5. rcv_nxt' = Tcb!SeqAdd(iss, got + n)
      BY <1>2, <2>4 DEF Tcb!DataReceived
    <2>6. TcbNumbers'
      BY <2>1, <2>5 DEF TcbInv, TcbNumbers, Tcb!SeqAdd
    <2>7. tcb_acks' = tcb_acks \cup {[num |-> Tcb!SeqAdd(iss, got + n), pos |-> got + n]}
      BY <1>2, <2>4 DEF Tcb!DataReceived
    <2>8. ASSUME NEW a \in tcb_acks'
          PROVE  /\ a.pos \in Nat /\ a.pos <= got + n /\ done - a.pos < Half
                 /\ a.num = Tcb!SeqAdd(iss, a.pos)
      <3>1. CASE a \in tcb_acks
        <4>1. a.pos \in Nat /\ a.pos <= got /\ done - a.pos < Half /\ a.num = Tcb!SeqAdd(iss, a.pos)
          BY <3>1 DEF TcbInv, TcbAcks
        <4>2. got \in Nat
          BY DEF TcbInv, TcbPositions
        <4> QED BY <4>1, <4>2
      <3>2. CASE a = [num |-> Tcb!SeqAdd(iss, got + n), pos |-> got + n]
        <4>1. a.pos = got + n /\ a.num = Tcb!SeqAdd(iss, got + n)
          BY <3>2
        <4>2. got \in Nat /\ done \in Nat /\ done <= got
          BY DEF TcbInv, TcbPositions
        <4> QED BY <4>1, <4>2
      <3> QED BY <2>7, <3>1, <3>2
    <2>9. TcbAcks'
      BY <2>1, <2>8 DEF TcbAcks, Tcb!SeqAdd
    <2> QED BY <2>2, <2>6, <2>9 DEF TcbInv
  <1>3. ASSUME NEW a \in tcb_acks, Tcb!AckReceived(a) PROVE TcbInv'
    <2>1. /\ iss' = iss /\ sent' = sent /\ got' = got /\ snd_wnd' = snd_wnd /\ done' = a.pos
          /\ tcb_nxt' = tcb_nxt /\ rcv_nxt' = rcv_nxt /\ tcb_una' = a.num
          /\ tcb_acks' = {b \in tcb_acks : a.pos - b.pos < Half}
      BY <1>3 DEF Tcb!AckReceived
    <2>2. a.pos > done
      BY <1>3, TcbAdvances DEF Tcb!AckReceived
    <2>3. a.pos \in Nat /\ a.pos <= got /\ a.num = Tcb!SeqAdd(iss, a.pos)
      BY DEF TcbInv, TcbAcks
    <2>4. TcbPositions'
      BY <2>1, <2>2, <2>3 DEF TcbInv, TcbPositions
    <2>5. TcbNumbers'
      BY <2>1, <2>3 DEF TcbInv, TcbNumbers, Tcb!SeqAdd
    <2>6. TcbAcks'
      BY <2>1 DEF TcbInv, TcbAcks, Tcb!SeqAdd
    <2> QED BY <2>4, <2>5, <2>6 DEF TcbInv
  <1>4. ASSUME NEW w \in 0..SndWnd, Tcb!WindowUpdate(w) PROVE TcbInv'
    BY <1>4 DEF Tcb!WindowUpdate, TcbInv, TcbPositions, TcbNumbers, TcbAcks, Tcb!SeqAdd
  <1>5. CASE UNCHANGED tcbVars
    BY <1>5 DEF tcbVars, TcbInv, TcbPositions, TcbNumbers, TcbAcks, Tcb!SeqAdd
  <1> QED BY <1>1, <1>2, <1>3, <1>4, <1>5 DEF Tcb!Next

\* What TcbInv says of the numbers and of the acknowledgements.
LEMMA TcbConsequences ==
    ASSUME TcbInv
    PROVE  Tcb!NumbersDenotePositions /\ Tcb!LatestAckIsTaken
  <1>1. Tcb!LatestAckIsTaken
    BY TcbAdvances DEF Tcb!LatestAckIsTaken
  <1>2. Tcb!InFlight = sent - done
    BY TcbFlight
  <1>3. \A a, b \in Int : (IF a >= b THEN 0 ELSE b - a) = IF a < b THEN b - a ELSE 0
    OBVIOUS
  <1>4. sent - done \in Int /\ snd_wnd \in Int
    BY DEF TcbInv, TcbPositions
  <1>5. Tcb!SndAvailable = IF sent - done < snd_wnd THEN snd_wnd - (sent - done) ELSE 0
    BY <1>2, <1>3, <1>4 DEF Tcb!SndAvailable
  <1> QED BY <1>1, <1>5 DEF TcbInv, TcbNumbers, Tcb!NumbersDenotePositions

\* One turn is taken off.
LEMMA ModOnce ==
    ASSUME NEW m \in Nat \ {0}, NEW r \in 0..(m - 1)
    PROVE  (r + m) % m = r
  <1>1. r + m = r + 1 * m
    OBVIOUS
  <1>4. 1 \in Int /\ r \in Int
    OBVIOUS
  <1>2. (r + 1 * m) % m = r % m
    BY <1>4, ModTurns, Zenon
  <1>3. r % m = r
    BY ModSmall
  <1> QED BY <1>1, <1>2, <1>3

\* Two numbers less than m apart have different remainders.
LEMMA ModDiffers ==
    ASSUME NEW m \in Nat \ {0}, NEW a \in Nat, NEW d \in 1..(m - 1)
    PROVE  (a + d) % m # a % m
  <1> DEFINE x == a + d
             p == a \div m
             s == a % m
             r == x \div m
             t == x % m
  <1>0. x \in Int /\ a \in Int
    OBVIOUS
  <1>1. p \in Int /\ s \in 0..(m - 1) /\ a = p * m + s
    BY DivMod
  <1>2. r \in Int /\ t \in 0..(m - 1) /\ x = r * m + t
    BY <1>0, DivMod
  <1>3. x = a + d
    OBVIOUS
  <1> HIDE DEF p, s, r, t, x
  <1>4. SUFFICES ASSUME s = t PROVE FALSE
    BY DEF s, t, x
  <1>5. p * m \in Int /\ r * m \in Int /\ r - p \in Int
    BY <1>1, <1>2
  <1>6. (r - p) * m = r * m - p * m
    BY <1>1, <1>2
  <1>7. (r - p) * m = d
    BY <1>1, <1>2, <1>3, <1>4, <1>5, <1>6
  <1>8. (r - p) * m < m /\ (r - p) * m > -m
    BY <1>7
  <1>9. r - p = 0
    BY <1>5, <1>8, SmallMultiple
  <1> QED BY <1>7, <1>9

\* Within one turn the remainder follows.
LEMMA ModFollows ==
    ASSUME NEW m \in Nat \ {0}, NEW a \in Nat, NEW d \in Nat, (a % m) + d < m
    PROVE  (a + d) % m = (a % m) + d
  <1>1. PICK s \in 0..(m - 1) : s = a % m
    BY DivMod
  <1>0. a \in Int /\ d \in Int
    OBVIOUS
  <1>2. (s + d) % m = (a + d) % m
    BY <1>0, <1>1, ModAdd, Zenon
  <1>3. s + d \in 0..(m - 1)
    BY <1>1
  <1>4. (s + d) % m = s + d
    BY <1>3, ModSmall
  <1> QED BY <1>1, <1>2, <1>4

\* nfs_send_window_in_flight for any word size.
UnsignedMinus(m, a, b) == (a + m - b) % m

\* An unsigned difference that is not negative is exact.
LEMMA UnsignedMinusExact ==
    ASSUME NEW m \in Nat \ {0}, NEW a \in 0..(m - 1), NEW b \in 0..a
    PROVE  UnsignedMinus(m, a, b) = a - b
  <1>1. PICK r \in 0..(m - 1) : r = a - b
    OBVIOUS
  <1>2. a + m - b = r + m
    BY <1>1
  <1>3. (r + m) % m = r
    BY ModOnce
  <1> QED BY <1>1, <1>2, <1>3 DEF UnsignedMinus

\* From base to base + l, wrapped or not, it is l.
LEMMA UnsignedFlight ==
    ASSUME NEW m \in Nat \ {0}, NEW b \in 0..(m - 1), NEW l \in 0..(m - 1)
    PROVE  UnsignedMinus(m, (b + l) % m, b) = l
  <1>1. CASE b + l < m
    <2>1. PICK x \in 0..(m - 1) : x = b + l
      BY <1>1
    <2>2. x % m = x
      BY ModSmall
    <2>3. b \in 0..x
      BY <2>1
    <2>4. UnsignedMinus(m, x, b) = x - b
      BY <2>3, UnsignedMinusExact
    <2> QED BY <2>1, <2>2, <2>4
  <1>2. CASE ~(b + l < m)
    <2>1. PICK x \in 0..(m - 1) : x = b + l - m
      BY <1>2
    <2>2. (x + m) % m = x
      BY ModOnce
    <2>3. b + l = x + m
      BY <2>1
    <2>4. x + m - b = l
      BY <2>1
    <2>5. l % m = l
      BY ModSmall
    <2> QED BY <2>2, <2>3, <2>4, <2>5 DEF UnsignedMinus
  <1> QED BY <1>1, <1>2

\* An acknowledgement number between base and next_seq lies in the flight.
LEMMA AckInFlight ==
    ASSUME NEW m \in Nat \ {0}, NEW b \in 0..(m - 1), NEW l \in 0..(m - 1), NEW n \in 0..(m - 1),
           b <= n, n <= (b + l) % m
    PROVE  n - b \in 0..l /\ (b + l) % m = b + l
  <1>1. CASE b + l < m
    <2>1. PICK x \in 0..(m - 1) : x = b + l
      BY <1>1
    <2>2. x % m = x
      BY ModSmall
    <2> QED BY <2>1, <2>2
  <1>2. CASE ~(b + l < m)
    <2>1. PICK x \in 0..(m - 1) : x = b + l - m
      BY <1>2
    <2>2. (x + m) % m = x
      BY ModOnce
    <2>3. b + l = x + m
      BY <2>1
    <2>4. (b + l) % m = x
      BY <2>2, <2>3
    <2>5. x < b
      BY <2>1
    <2> QED BY <2>4, <2>5
  <1> QED BY <1>1, <1>2

\* The assumptions on the constants of sliding_window.c.
LEMMA SwConstantsHold ==
    /\ SwWord \in Nat \ {0} /\ WindowSize \in Nat \ {0} /\ WindowSize < SwWord
    /\ SwIsns \subseteq 0..(SwWord - 1)
    /\ BufCap \in Nat \ {0} /\ WindowSize <= BufCap /\ MaxSent \in Nat /\ Byte # {}
  BY FlowSuiteConstants DEF SendWindow!SendWindowConstants

\* The unsigned difference of sliding_window.c.
LEMMA SwMinus ==
    ASSUME NEW a, NEW b
    PROVE  SendWindow!Minus(a, b) = UnsignedMinus(SwWord, a, b)
  BY DEF SendWindow!Minus, UnsignedMinus

\* sliding_window.c: what is in flight is what lies between base and next_seq.
SwInv ==
    /\ base \in 0..(SwWord - 1)
    /\ flight \in Seq(Byte) /\ Len(flight) <= WindowSize
    /\ next_seq = (base + Len(flight)) % SwWord

\* nfs_send_window_in_flight counts the bytes in flight.
LEMMA SwInFlight ==
    ASSUME SwInv
    PROVE  SendWindow!InFlight = Len(flight)
  <1>1. PICK l \in 0..(SwWord - 1) : l = Len(flight)
    BY SwConstantsHold, LenProperties DEF SwInv
  <1>2. SwWord \in Nat \ {0} /\ base \in 0..(SwWord - 1)
    BY SwConstantsHold DEF SwInv
  <1>3. UnsignedMinus(SwWord, (base + l) % SwWord, base) = l
    BY <1>2, UnsignedFlight
  <1> QED BY <1>1, <1>3, SwMinus DEF SwInv, SendWindow!InFlight

\* What nfs_send_window_ack accepts acknowledges bytes in flight.
LEMMA SwAckInFlight ==
    ASSUME SwInv, NEW n \in SendWindow!Seqnum, SendWindow!AckInRange(n)
    PROVE  /\ n - base \in 0..Len(flight) /\ next_seq = base + Len(flight)
           /\ SendWindow!Minus(n, base) = n - base
  <1>1. PICK l \in 0..(SwWord - 1) : l = Len(flight)
    BY SwConstantsHold, LenProperties DEF SwInv
  <1>2. /\ SwWord \in Nat \ {0} /\ base \in 0..(SwWord - 1) /\ n \in 0..(SwWord - 1)
        /\ base <= n /\ n <= (base + l) % SwWord
    BY <1>1, SwConstantsHold DEF SwInv, SendWindow!AckInRange, SendWindow!Seqnum
  <1>3. n - base \in 0..l /\ (base + l) % SwWord = base + l
    BY <1>2, AckInFlight
  <1>4. base \in 0..n
    BY <1>2
  <1>5. UnsignedMinus(SwWord, n, base) = n - base
    BY <1>2, <1>4, UnsignedMinusExact
  <1> QED BY <1>1, <1>3, <1>5, SwMinus DEF SwInv

\* SwInv holds after nfs_send_window_init.
LEMMA SwInitially == SendWindow!Init => SwInv
  <1> SUFFICES ASSUME SendWindow!Init PROVE SwInv
    OBVIOUS
  <1>1. base \in 0..(SwWord - 1) /\ next_seq = base /\ flight = <<>>
    BY SwConstantsHold DEF SendWindow!Init
  <1>2. flight \in Seq(Byte) /\ Len(flight) = 0
    BY <1>1, EmptySeq
  <1>3. base % SwWord = base /\ base + 0 = base
    BY <1>1, SwConstantsHold, ModSmall
  <1> QED BY <1>1, <1>2, <1>3, SwConstantsHold DEF SwInv

\* nfs_send_window_send and nfs_send_window_ack keep SwInv.
LEMMA SwStep == SwInv /\ [SendWindow!Next]_swVars => SwInv'
  <1> SUFFICES ASSUME SwInv, [SendWindow!Next]_swVars PROVE SwInv'
    OBVIOUS
  <1>1. ASSUME NEW byte \in Byte, SendWindow!Send(byte) PROVE SwInv'
    <2>1. base' = base /\ flight' = Append(flight, byte) /\ next_seq' = (next_seq + 1) % SwWord
      BY <1>1 DEF SendWindow!Send
    <2>2. Len(flight) < WindowSize
      BY <1>1, SwInFlight DEF SendWindow!Send, SendWindow!CanSend
    <2>3. flight' \in Seq(Byte) /\ Len(flight') = Len(flight) + 1
      BY <2>1, AppendProperties DEF SwInv
    <2>4. PICK x \in Int : x = base + Len(flight)
      BY LenProperties, SwConstantsHold DEF SwInv
    <2>5. SwWord \in Nat \ {0} /\ 1 \in Int
      BY SwConstantsHold
    <2>6. ((x % SwWord) + 1) % SwWord = (x + 1) % SwWord
      BY <2>5, ModAdd, Zenon
    <2>7. x + 1 = base + (Len(flight) + 1)
      BY <2>4, LenProperties, SwConstantsHold DEF SwInv
    <2>8. next_seq' = (base + (Len(flight) + 1)) % SwWord
      BY <2>1, <2>4, <2>6, <2>7 DEF SwInv
    <2>9. Len(flight) + 1 <= WindowSize
      BY <2>2, LenProperties, SwConstantsHold DEF SwInv
    <2> QED BY <2>1, <2>3, <2>8, <2>9 DEF SwInv
  <1>2. ASSUME NEW n \in SendWindow!Seqnum, SendWindow!Ack(n) PROVE SwInv'
    <2>1. SendWindow!AckInRange(n) /\ base' = n /\ next_seq' = next_seq
          /\ flight' = SubSeq(flight, SendWindow!Minus(n, base) + 1, Len(flight))
      BY <1>2 DEF SendWindow!Ack
    <2>2. /\ n - base \in 0..Len(flight) /\ next_seq = base + Len(flight)
          /\ SendWindow!Minus(n, base) = n - base
      BY <2>1, SwAckInFlight
    <2>3. PICK d \in 0..Len(flight) : d = n - base
      BY <2>2
    <2>4. flight' = SubSeq(flight, d + 1, Len(flight))
      BY <2>1, <2>2, <2>3
    <2>5. flight \in Seq(Byte) /\ Len(flight) \in Nat /\ n \in 0..(SwWord - 1) /\ base \in 0..(SwWord - 1)
      BY LenProperties DEF SwInv, SendWindow!Seqnum
    <2>6. \A k \in (d + 1)..Len(flight) : flight[k] \in Byte
      BY <2>5, ElementOfSeq
    <2>7. flight' \in Seq(Byte) /\ Len(flight') = Len(flight) - d
      <3>1. d + 1 \in Int /\ Len(flight) \in Int
        BY <2>5
      <3>2. /\ SubSeq(flight, d + 1, Len(flight)) \in Seq(Byte)
            /\ Len(SubSeq(flight, d + 1, Len(flight)))
                  = IF d + 1 <= Len(flight) THEN Len(flight) - (d + 1) + 1 ELSE 0
        BY <2>6, <3>1, SubSeqProperties
      <3>3. \A l \in Nat : \A e \in 0..l : (IF e + 1 <= l THEN l - (e + 1) + 1 ELSE 0) = l - e
        OBVIOUS
      <3> QED BY <2>4, <2>5, <3>2, <3>3
    <2>8. PICK x \in 0..(SwWord - 1) : x = next_seq
      <3>1. PICK y \in Int : y = base + Len(flight)
        BY <2>5, SwConstantsHold
      <3>2. (y % SwWord) \in 0..(SwWord - 1)
        BY SwConstantsHold, DivMod
      <3> QED BY <3>1, <3>2 DEF SwInv
    <2>9. x % SwWord = x
      BY SwConstantsHold, ModSmall
    <2>10. n + (Len(flight) - d) = x
      BY <2>2, <2>3, <2>5, <2>8, SwConstantsHold
    <2>11. Len(flight) - d <= WindowSize
      BY <2>5, SwConstantsHold DEF SwInv
    <2> QED BY <2>1, <2>5, <2>7, <2>8, <2>9, <2>10, <2>11 DEF SwInv
  <1>3. CASE UNCHANGED swVars
    BY <1>3 DEF swVars, SwInv
  <1> QED BY <1>1, <1>2, <1>3 DEF SendWindow!Next

\* SwInv makes both counts exact.
LEMMA SwCounts ==
    ASSUME SwInv
    PROVE  SendWindow!CountersAreExact
  <1>1. SendWindow!InFlight = Len(flight)
    BY SwInFlight
  <1>2. /\ Len(flight) \in Nat /\ Len(flight) \in 0..WindowSize
        /\ WindowSize \in 0..(SwWord - 1) /\ SwWord \in Nat \ {0}
    BY LenProperties, SwConstantsHold DEF SwInv
  <1>3. UnsignedMinus(SwWord, WindowSize, Len(flight)) = WindowSize - Len(flight)
    BY <1>2, UnsignedMinusExact
  <1> QED BY <1>1, <1>3, SwMinus DEF SendWindow!CountersAreExact, SendWindow!Available

\* The sequence numbers of sliding_window.c do not reach the end of the word.
SwNoWrap == \A isn \in SwIsns : isn + MaxSent < SwWord

\* sliding_window.c without the wrap: the room left to the end of the word is
\* enough for what may still be sent.
SwPlain ==
    /\ sw_sent \in Nat /\ sw_sent <= MaxSent
    /\ next_seq = base + Len(flight)
    /\ next_seq + (MaxSent - sw_sent) < SwWord

\* Slot of the circular buffer that holds sequence number n.
Slot(n) == n % BufCap

\* Every byte in flight is in its slot of the circular buffer.
SwHeld ==
    /\ sw_buffer = [k \in 0..(BufCap - 1) |-> sw_buffer[k]]
    /\ \A k \in 0..(Len(flight) - 1) : sw_buffer[Slot(base + k)] = flight[k + 1]

SwData == SwInv /\ SwPlain /\ SwHeld

\* A slot is in the buffer.
LEMMA SlotInBuffer ==
    ASSUME NEW n \in Nat
    PROVE  Slot(n) \in 0..(BufCap - 1)
  BY SwConstantsHold, DivMod DEF Slot

\* Numbers less than the buffer apart have slots of their own.
LEMMA SlotsDiffer ==
    ASSUME NEW n \in Nat, NEW d \in 1..(BufCap - 1)
    PROVE  Slot(n + d) # Slot(n)
  BY SwConstantsHold, ModDiffers DEF Slot

\* Up to the end of the buffer the slots follow one another.
LEMMA SlotFollows ==
    ASSUME NEW n \in Nat, NEW d \in Nat, Slot(n) + d < BufCap
    PROVE  Slot(n + d) = Slot(n) + d
  <1>1. BufCap \in Nat \ {0} /\ (n % BufCap) + d < BufCap
    BY SwConstantsHold DEF Slot
  <1> QED BY <1>1, ModFollows, Zenon DEF Slot

\* SwData holds after nfs_send_window_init.
LEMMA SwDataInitially == SwNoWrap /\ SendWindow!Init => SwData
  <1> SUFFICES ASSUME SwNoWrap, SendWindow!Init PROVE SwData
    OBVIOUS
  <1>1. SwInv
    BY SwInitially
  <1>2. base \in SwIsns /\ next_seq = base /\ flight = <<>> /\ sw_sent = 0
    BY DEF SendWindow!Init
  <1>3. Len(flight) = 0
    BY <1>2, EmptySeq
  <1>4. base \in Nat /\ base + MaxSent < SwWord
    BY <1>2, SwConstantsHold DEF SwNoWrap
  <1>5. SwPlain
    BY <1>2, <1>3, <1>4, SwConstantsHold DEF SwPlain
  <1>6. sw_buffer = [k \in 0..(BufCap - 1) |-> sw_buffer[k]]
    <2> DEFINE c == CHOOSE b \in Byte : TRUE
    <2>1. sw_buffer = [k \in 0..(BufCap - 1) |-> c]
      BY Zenon DEF SendWindow!Init
    <2> HIDE DEF c
    <2> QED BY <2>1
  <1> QED BY <1>1, <1>3, <1>5, <1>6 DEF SwData, SwHeld

\* nfs_send_window_send overwrites no byte in flight, and
\* nfs_send_window_ack moves the flight along with base.
LEMMA SwDataStep == SwData /\ [SendWindow!Next]_swVars => SwData'
  <1> SUFFICES ASSUME SwData, [SendWindow!Next]_swVars PROVE SwData'
    OBVIOUS
  <1>1. SwInv'
    BY SwStep DEF SwData
  <1>2. /\ Len(flight) \in Nat /\ base \in Nat /\ next_seq \in Nat /\ Len(flight) <= WindowSize
        /\ flight \in Seq(Byte) /\ sw_sent \in Nat
    BY LenProperties, SwConstantsHold DEF SwData, SwInv, SwPlain
  <1>6. /\ next_seq = base + Len(flight)
        /\ next_seq + (MaxSent - sw_sent) < SwWord /\ sw_sent <= MaxSent
    BY DEF SwData, SwPlain
  <1>3. ASSUME NEW byte \in Byte, SendWindow!Send(byte) PROVE SwData'
    <2>1. /\ base' = base /\ flight' = Append(flight, byte) /\ next_seq' = (next_seq + 1) % SwWord
          /\ sw_sent' = sw_sent + 1 /\ sw_sent < MaxSent
          /\ sw_buffer' = [sw_buffer EXCEPT ![next_seq % BufCap] = byte]
      BY <1>3 DEF SendWindow!Send
    <2>2. Len(flight) < WindowSize
      BY <1>3, SwInFlight DEF SwData, SendWindow!Send, SendWindow!CanSend
    <2>3. /\ Len(flight') = Len(flight) + 1
          /\ \A k \in 1..Len(flight) : flight'[k] = flight[k]
          /\ flight'[Len(flight) + 1] = byte
      BY <1>2, <2>1, AppendProperties
    <2>4. PICK x \in 0..(SwWord - 1) : x = next_seq + 1
      <3>1. \A a, b, c, w \in Nat : a + (b - c) < w /\ c < b => a + 1 \in 0..(w - 1)
        OBVIOUS
      <3> QED BY <1>2, <1>6, <2>1, <3>1, SwConstantsHold
    <2>5. x % SwWord = x
      BY SwConstantsHold, ModSmall
    <2>6. next_seq' = next_seq + 1
      BY <2>1, <2>4, <2>5
    <2>7. SwPlain'
      BY <1>2, <2>1, <2>3, <2>6, SwConstantsHold DEF SwData, SwPlain
    <2>8. sw_buffer' = [sw_buffer EXCEPT ![Slot(next_seq)] = byte]
      BY <2>1 DEF Slot
    <2>9. sw_buffer' = [k \in 0..(BufCap - 1) |-> IF k = Slot(next_seq) THEN byte ELSE sw_buffer[k]]
      BY <2>8 DEF SwData, SwHeld
    <2>10. ASSUME NEW k \in 0..Len(flight) PROVE sw_buffer'[Slot(base + k)] = flight'[k + 1]
      <3>1. CASE k = Len(flight)
        <4>1. base + k = next_seq
          BY <3>1 DEF SwData, SwPlain
        <4>2. Slot(next_seq) \in 0..(BufCap - 1)
          BY <1>2, SlotInBuffer
        <4>3. sw_buffer'[Slot(next_seq)] = byte
          BY <2>9, <4>2
        <4> QED BY <2>3, <3>1, <4>1, <4>3
      <3>2. CASE k # Len(flight)
        <4>1. PICK n \in Nat, d \in 1..(BufCap - 1) : n = base + k /\ n + d = next_seq
          <5>1. base + k \in Nat /\ Len(flight) - k \in 1..(BufCap - 1)
            BY <1>2, <2>2, <3>2, SwConstantsHold
          <5>2. base + k + (Len(flight) - k) = next_seq
            BY <1>2 DEF SwData, SwPlain
          <5> QED BY <5>1, <5>2
        <4>2. Slot(n + d) # Slot(n) /\ Slot(n) \in 0..(BufCap - 1)
          BY SlotsDiffer, SlotInBuffer
        <4>3. sw_buffer'[Slot(n)] = sw_buffer[Slot(n)]
          BY <2>9, <4>1, <4>2
        <4>4. k \in 0..(Len(flight) - 1) /\ k + 1 \in 1..Len(flight)
          BY <1>2, <3>2
        <4>5. sw_buffer[Slot(base + k)] = flight[k + 1]
          BY <4>4 DEF SwData, SwHeld
        <4> QED BY <2>3, <4>1, <4>3, <4>4, <4>5
      <3> QED BY <3>1, <3>2
    <2>11. Len(flight') - 1 = Len(flight)
      BY <1>2, <2>3
    <2>12. sw_buffer' = [k \in 0..(BufCap - 1) |-> sw_buffer'[k]]
      BY <2>9
    <2>13. SwHeld'
      BY <2>1, <2>10, <2>11, <2>12 DEF SwHeld, Slot
    <2> QED BY <1>1, <2>7, <2>13 DEF SwData
  <1>4. ASSUME NEW n \in SendWindow!Seqnum, SendWindow!Ack(n) PROVE SwData'
    <2>1. /\ SendWindow!AckInRange(n) /\ base' = n /\ next_seq' = next_seq
          /\ sw_buffer' = sw_buffer /\ sw_sent' = sw_sent
          /\ flight' = SubSeq(flight, SendWindow!Minus(n, base) + 1, Len(flight))
      BY <1>4 DEF SendWindow!Ack
    <2>2. n - base \in 0..Len(flight) /\ SendWindow!Minus(n, base) = n - base
      BY <2>1, SwAckInFlight DEF SwData
    <2>3. PICK d \in 0..Len(flight) : d = n - base
      BY <2>2
    <2>4. flight' = SubSeq(flight, d + 1, Len(flight))
      BY <2>1, <2>2, <2>3
    <2>5. n \in Nat
      BY SwConstantsHold DEF SendWindow!Seqnum
    <2>6. \A k \in (d + 1)..Len(flight) : flight[k] \in Byte
      BY <1>2, ElementOfSeq
    <2>7. /\ Len(flight') = Len(flight) - d
          /\ \A k \in 1..(Len(flight) - d) : flight'[k] = flight[d + k]
      <3>1. d + 1 \in Int /\ Len(flight) \in Int
        BY <1>2
      <3>2. /\ Len(SubSeq(flight, d + 1, Len(flight)))
                  = IF d + 1 <= Len(flight) THEN Len(flight) - (d + 1) + 1 ELSE 0
            /\ \A k \in 1..(Len(flight) - (d + 1) + 1) :
                  SubSeq(flight, d + 1, Len(flight))[k] = flight[(d + 1) + k - 1]
        BY <2>6, <3>1, SubSeqProperties
      <3>3. \A l \in Nat : \A e \in 0..l : /\ (IF e + 1 <= l THEN l - (e + 1) + 1 ELSE 0) = l - e
                                           /\ l - (e + 1) + 1 = l - e
                                           /\ \A k \in 1..(l - e) : (e + 1) + k - 1 = e + k
        OBVIOUS
      <3> QED BY <1>2, <2>4, <3>2, <3>3
    <2>8. n = base + d /\ Len(flight) - d \in Nat
      BY <1>2, <2>3, <2>5
    <2>9. SwPlain'
      <3>1. base + Len(flight) = n + (Len(flight) - d)
        BY <1>2, <2>8
      <3> QED BY <1>2, <1>6, <2>1, <2>7, <3>1 DEF SwPlain
    <2>10. ASSUME NEW k \in 0..(Len(flight) - d - 1) PROVE sw_buffer[Slot(n + k)] = flight'[k + 1]
      <3>1. k + 1 \in 1..(Len(flight) - d) /\ d + k \in 0..(Len(flight) - 1) /\ n + k = base + (d + k)
            /\ d + (k + 1) = (d + k) + 1
        BY <1>2, <2>8
      <3>2. sw_buffer[Slot(base + (d + k))] = flight[(d + k) + 1]
        BY <3>1 DEF SwData, SwHeld
      <3> QED BY <2>7, <3>1, <3>2
    <2>11. SwHeld'
      BY <2>1, <2>7, <2>10 DEF SwData, SwHeld, Slot
    <2> QED BY <1>1, <2>9, <2>11 DEF SwData
  <1>5. CASE UNCHANGED swVars
    BY <1>5 DEF swVars, SwData, SwInv, SwPlain, SwHeld, Slot
  <1> QED BY <1>3, <1>4, <1>5 DEF SendWindow!Next

\* No number in flight is wrapped.
LEMMA SwPlainNumber ==
    ASSUME SwData, NEW k \in 0..Len(flight)
    PROVE  (base + k) % SwWord = base + k
  <1>1. PICK x \in 0..(SwWord - 1) : x = base + k
    BY LenProperties, SwConstantsHold DEF SwData, SwInv, SwPlain
  <1>2. x % SwWord = x
    BY SwConstantsHold, ModSmall
  <1> QED BY <1>1, <1>2

\* So every acknowledgement of bytes in flight is in range.
LEMMA SwAcksAccepted ==
    ASSUME SwData
    PROVE  SendWindow!EveryFlightAckAccepted
  <1> SUFFICES ASSUME NEW k \in 0..Len(flight)
               PROVE  SendWindow!AckInRange((base + k) % SwWord)
    BY DEF SendWindow!EveryFlightAckAccepted
  <1>1. (base + k) % SwWord = base + k
    BY SwPlainNumber
  <1>2. base <= base + k /\ base + k <= next_seq
    BY LenProperties, SwConstantsHold DEF SwData, SwInv, SwPlain
  <1> QED BY <1>1, <1>2 DEF SendWindow!AckInRange

\* nfs_send_window_get_data returns the bytes that were sent.
LEMMA SwRetransmits ==
    ASSUME SwData
    PROVE  SendWindow!RetransmitsWhatWasSent
  <1> SUFFICES ASSUME NEW k \in 0..(Len(flight) - 1)
               PROVE  LET got_ == SendWindow!GetData((base + k) % SwWord)
                      IN  /\ Len(got_) \in 1..(Len(flight) - k)
                          /\ got_ = SubSeq(flight, k + 1, k + Len(got_))
    BY DEF SendWindow!RetransmitsWhatWasSent
  <1>1. /\ Len(flight) \in Nat /\ base \in Nat /\ next_seq \in 0..(SwWord - 1)
        /\ flight \in Seq(Byte) /\ next_seq = base + Len(flight)
    <2>1. Len(flight) \in Nat /\ base \in Nat /\ flight \in Seq(Byte) /\ next_seq = base + Len(flight)
      BY LenProperties, SwConstantsHold DEF SwData, SwInv, SwPlain
    <2>2. next_seq + (MaxSent - sw_sent) < SwWord /\ sw_sent \in Nat /\ sw_sent <= MaxSent
      BY DEF SwData, SwPlain
    <2>3. \A a, b, c, w \in Nat : a + (b - c) < w /\ c <= b => a \in 0..(w - 1)
      OBVIOUS
    <2> QED BY <2>1, <2>2, <2>3, SwConstantsHold
  <1>2. PICK n \in 0..(SwWord - 1), l \in Nat : n = base + k /\ l = Len(flight) - k
    <2>1. \A b, f, w \in Nat : b + f \in 0..(w - 1) =>
             \A m \in 0..(f - 1) : b + m \in 0..(w - 1) /\ f - m \in Nat
      OBVIOUS
    <2>2. base + k \in 0..(SwWord - 1) /\ Len(flight) - k \in Nat
      BY <1>1, <2>1, SwConstantsHold
    <2> QED BY <2>2
  <1>3. (base + k) % SwWord = n
    BY <1>1, <1>2, SwPlainNumber
  <1>4. n >= base /\ n < next_seq /\ next_seq - n = l /\ l >= 1 /\ n \in 0..next_seq
    BY <1>1, <1>2
  <1>5. SendWindow!Minus(next_seq, n) = l
    <2>1. UnsignedMinus(SwWord, next_seq, n) = next_seq - n
      BY <1>1, <1>4, SwConstantsHold, UnsignedMinusExact
    <2> QED BY <1>4, <2>1, SwMinus
  <1>6. PICK s \in 0..(BufCap - 1) : s = Slot(n)
    BY SlotInBuffer, SwConstantsHold
  <1>7. PICK L \in 1..l : L = SendWindow!GetDataLen(n) /\ s + L <= BufCap
    <2>1. SendWindow!GetDataLen(n) = IF BufCap - s < l THEN BufCap - s ELSE l
      BY <1>5, <1>6 DEF SendWindow!GetDataLen, Slot
    <2> QED BY <1>4, <1>6, <2>1, SwConstantsHold
  <1>8. SendWindow!GetData(n) = [j \in 1..L |-> IF s + j - 1 < BufCap THEN sw_buffer[s + j - 1]
                                                ELSE "out of bounds"]
    <2>1. ~(n < base \/ n >= next_seq)
      BY <1>1, <1>2, <1>4
    <2> QED BY <1>6, <1>7, <2>1 DEF SendWindow!GetData, Slot
  <1> DEFINE g == SendWindow!GetData(n)
             t == SubSeq(flight, k + 1, k + L)
  <1>9. ASSUME NEW j \in 1..L PROVE g[j] = flight[k + j] /\ flight[k + j] \in Byte
    <2>1. g[j] = sw_buffer[s + j - 1]
      <3>1. s + j - 1 < BufCap
        BY <1>6, <1>7, SwConstantsHold
      <3> QED BY <1>8, <3>1
    <2>2. PICK d \in Nat : d = j - 1
      OBVIOUS
    <2>3. Slot(n) + d < BufCap /\ s + j - 1 = Slot(n) + d
      BY <1>6, <1>7, <2>2, SwConstantsHold
    <2>4. Slot(n + d) = Slot(n) + d
      BY <2>3, SlotFollows, SwConstantsHold
    <2>5. n + d = base + (k + d) /\ k + d \in 0..(Len(flight) - 1) /\ (k + d) + 1 = k + j
      BY <1>1, <1>2, <1>7, <2>2
    <2>6. sw_buffer[Slot(base + (k + d))] = flight[(k + d) + 1]
      BY <2>5 DEF SwData, SwHeld
    <2>7. k + j \in 1..Len(flight)
      BY <1>1, <1>2, <1>7
    <2>8. flight[k + j] \in Byte
      BY <1>1, <2>7, ElementOfSeq
    <2> QED BY <2>1, <2>3, <2>4, <2>5, <2>6, <2>8
  <1>10. g \in Seq(Byte) /\ Len(g) = L
    <2>1. g = [j \in 1..L |-> g[j]]
      BY <1>8
    <2> HIDE DEF g
    <2>2. g \in [1..L -> Byte]
      BY <1>9, <2>1
    <2> QED BY <2>2, <1>7
  <1>11. /\ t \in Seq(Byte) /\ Len(t) = L
         /\ \A j \in 1..L : t[j] = flight[k + j]
    <2>1. PICK a \in Int, b \in Int : a = k + 1 /\ b = k + L
      BY <1>7
    <2>2. \A j \in a..b : flight[j] \in Byte
      <3>1. \A j \in a..b : j \in 1..Len(flight)
        BY <1>1, <1>2, <1>7, <2>1
      <3> QED BY <1>1, <3>1, ElementOfSeq
    <2>3. /\ SubSeq(flight, a, b) \in Seq(Byte)
          /\ Len(SubSeq(flight, a, b)) = IF a <= b THEN b - a + 1 ELSE 0
          /\ \A j \in 1..(b - a + 1) : SubSeq(flight, a, b)[j] = flight[a + j - 1]
      BY <2>2, SubSeqProperties
    <2>4. b - a + 1 = L /\ a <= b /\ \A j \in 1..L : a + j - 1 = k + j
      BY <1>7, <2>1, SMTT(60)
    <2>5. t = SubSeq(flight, a, b)
      BY <2>1
    <2> HIDE DEF t
    <2> QED BY <2>3, <2>4, <2>5
  <1> HIDE DEF g, t
  <1>12. g = t
    BY <1>9, <1>10, <1>11, SeqEqual
  <1>13. L \in 1..(Len(flight) - k)
    BY <1>2, <1>7
  <1> QED BY <1>3, <1>10, <1>12, <1>13 DEF g, t

\* The assumptions on the constants of retx_queue.c.
LEMMA RqConstantsHold ==
    /\ RqMss \in Nat /\ RqCapacity \in Nat /\ RqWord \in Nat \ {0} /\ Isn \in Nat
    /\ Rtos \subseteq Nat \ {0} /\ RqBytes \in Nat
    /\ \E r \in Rtos : \A s \in Rtos : s <= r
  BY FlowSuiteConstants DEF RetxQueue!RetxQueueConstants

\* The sequence numbers of retx_queue.c do not reach the end of the word.
RqNoWrap == Isn + RqBytes < RqWord

\* nfs_retx_queue_ack then compares the positions themselves.
LEMMA CoversComparesPositions ==
    ASSUME RqNoWrap, NEW seg, NEW p \in 0..RqBytes, seg.pos = p, NEW n \in 0..RqBytes
    PROVE  RetxQueue!AckCovers(seg, n) <=> p < n
  <1>1. PICK x \in 0..(RqWord - 1), y \in 0..(RqWord - 1) : x = Isn + p /\ y = Isn + n
    BY RqConstantsHold DEF RqNoWrap
  <1>2. x % RqWord = x /\ y % RqWord = y
    BY RqConstantsHold, ModSmall
  <1>3. RetxQueue!AckCovers(seg, n) <=> x < y
    BY <1>1, <1>2 DEF RetxQueue!AckCovers, RetxQueue!SeqOf
  <1> QED BY <1>1, <1>3, RqConstantsHold

\* The segments of retx_queue.c.
Segs == [pos : Nat, len : Nat, age : Nat]

\* The peer acknowledges whole segments.
WholeSegments == PartialAcks = FALSE

\* No segment of s goes on past position b (when whole segments are
\* acknowledged).
Boundary(s, b) ==
    WholeSegments => \A k \in DOMAIN s : s[k].pos < b => s[k].pos + s[k].len <= b

\* Every byte from lo on and below hi is in a segment of s (likewise).
Covered(s, lo, hi) ==
    WholeSegments =>
        \A b \in lo..(hi - 1) : \E k \in DOMAIN s : s[k].pos <= b /\ b < s[k].pos + s[k].len

\* The segments of s are in stream order and do not overlap.
Ordered(s) == \A j, k \in DOMAIN s : j < k => s[j].pos + s[j].len <= s[k].pos

\* They lie between lo and hi.
Between(s, lo, hi) == \A k \in DOMAIN s : s[k].pos >= lo /\ s[k].pos + s[k].len <= hi

\* retx_queue.c: what is acknowledged was received, what was received was sent.
RqTypes ==
    /\ q \in Seq(Segs)
    /\ rq_nxt \in Nat /\ una \in Nat /\ rq_rcv \in Nat
    /\ una <= rq_rcv /\ rq_rcv <= rq_nxt /\ rq_nxt <= RqBytes

\* The queue holds all the peer lacks and nothing that was acknowledged.
RqQueue ==
    /\ Ordered(q) /\ Between(q, una, rq_nxt) /\ Covered(q, rq_rcv, rq_nxt)
    /\ Boundary(q, rq_rcv)

\* Acknowledgements in the network are at the end of a segment.
RqAcks == \A n \in rq_acks : n \in Nat /\ n <= rq_rcv /\ Boundary(q, n)

\* So are the ends of the segments in the network.
RqWire ==
    \A m \in rq_wire : /\ m.pos \in Nat /\ m.len \in Nat /\ m.pos + m.len <= rq_nxt
                       /\ Boundary(q, m.pos + m.len)

RqInv == RqTypes /\ RqQueue /\ RqAcks /\ RqWire

\* A segment of a sequence of segments.
LEMMA SegOf ==
    ASSUME NEW s \in Seq(Segs), NEW k \in DOMAIN s
    PROVE  s[k] \in Segs /\ s[k].pos \in Nat /\ s[k].len \in Nat /\ s[k].age \in Nat /\ k \in 1..Len(s)
  <1>1. k \in 1..Len(s)
    BY LenProperties
  <1>2. s[k] \in Segs
    BY <1>1, ElementOfSeq
  <1> QED BY <1>1, <1>2 DEF Segs

\* What is said of a queue is said of its places in the stream only.
LEMMA SamePlaces ==
    ASSUME NEW s, NEW t, DOMAIN t = DOMAIN s,
           \A k \in DOMAIN s : t[k].pos = s[k].pos /\ t[k].len = s[k].len
    PROVE  /\ Ordered(s) => Ordered(t)
           /\ \A b : Boundary(s, b) => Boundary(t, b)
           /\ \A lo, hi : Between(s, lo, hi) => Between(t, lo, hi)
           /\ \A lo, hi : Covered(s, lo, hi) => Covered(t, lo, hi)
  <1>1. Ordered(s) => Ordered(t)
    BY DEF Ordered
  <1>2. \A b : Boundary(s, b) => Boundary(t, b)
    BY DEF Boundary
  <1>3. \A lo, hi : Between(s, lo, hi) => Between(t, lo, hi)
    BY DEF Between
  <1>4. \A lo, hi : Covered(s, lo, hi) => Covered(t, lo, hi)
    BY DEF Covered
  <1> QED BY <1>1, <1>2, <1>3, <1>4

\* RqInv holds after nfs_retx_queue_init.
LEMMA RqInitially == RetxQueue!Init => RqInv
  <1> SUFFICES ASSUME RetxQueue!Init PROVE RqInv
    OBVIOUS
  <1>1. q = <<>> /\ rq_nxt = 0 /\ una = 0 /\ rq_rcv = 0 /\ rq_wire = {} /\ rq_acks = {}
    BY DEF RetxQueue!Init
  <1>2. q \in Seq(Segs) /\ DOMAIN q = {}
    BY <1>1
  <1> QED BY <1>1, <1>2, RqConstantsHold
          DEF RqInv, RqTypes, RqQueue, RqAcks, RqWire, Ordered, Between, Covered, Boundary

\* nfs_retx_queue_push.
LEMMA RqPush ==
    ASSUME RqInv, NEW len \in 0..RqMss, RetxQueue!Push(len)
    PROVE  RqInv'
  <1>1. /\ q' = Append(q, [pos |-> rq_nxt, len |-> len, age |-> 0])
        /\ rq_nxt' = rq_nxt + len /\ rq_nxt + len <= RqBytes
        /\ rq_wire' = rq_wire \cup {[pos |-> rq_nxt, len |-> len]}
        /\ una' = una /\ rq_rcv' = rq_rcv /\ rq_acks' = rq_acks
    BY DEF RetxQueue!Push
  <1>2. /\ q \in Seq(Segs) /\ rq_nxt \in Nat /\ una \in Nat /\ rq_rcv \in Nat
        /\ una <= rq_rcv /\ rq_rcv <= rq_nxt /\ len \in Nat
    BY RqConstantsHold DEF RqInv, RqTypes
  <1> DEFINE seg == [pos |-> rq_nxt, len |-> len, age |-> 0]
             L == Len(q)
  <1>3. seg \in Segs /\ seg.pos = rq_nxt /\ seg.len = len
    BY <1>2 DEF Segs
  <1> HIDE DEF seg
  <1>4. /\ q' \in Seq(Segs) /\ L \in Nat /\ DOMAIN q = 1..L /\ DOMAIN q' = 1..(L + 1)
        /\ \A k \in 1..L : q'[k] = q[k]
        /\ q'[L + 1] = seg
    <2>1. q' = Append(q, seg)
      BY <1>1 DEF seg
    <2>2. q' \in Seq(Segs) /\ Len(q') = L + 1
      BY <1>2, <1>3, <2>1, AppendProperties
    <2>3. \A k \in 1..L : q'[k] = q[k]
      BY <1>2, <1>3, <2>1, AppendProperties
    <2>4. q'[L + 1] = seg
      BY <1>2, <1>3, <2>1, AppendProperties
    <2> QED BY <1>2, <2>2, <2>3, <2>4, LenProperties
  <1> HIDE DEF L
  <1>5. \A k \in 1..L : q[k].pos \in Nat /\ q[k].len \in Nat /\ q[k].pos + q[k].len <= rq_nxt /\ q[k].pos >= una
    BY <1>2, <1>4, SegOf DEF RqInv, RqQueue, Between
  <1>6. ASSUME NEW b \in Nat, b <= rq_nxt, Boundary(q, b) PROVE Boundary(q', b)
    <2> SUFFICES ASSUME WholeSegments, NEW k \in 1..(L + 1), q'[k].pos < b
                 PROVE  q'[k].pos + q'[k].len <= b
      BY <1>4 DEF Boundary
    <2>1. k # L + 1
      BY <1>2, <1>3, <1>4, <1>6
    <2>2. k \in 1..L /\ q'[k] = q[k]
      BY <1>4, <2>1
    <2> QED BY <1>4, <1>6, <2>2 DEF Boundary
  <1>7. Boundary(q', rq_nxt + len)
    BY <1>2, <1>3, <1>4, <1>5 DEF Boundary
  <1>8. Ordered(q')
    <2> SUFFICES ASSUME NEW j \in 1..(L + 1), NEW k \in 1..(L + 1), j < k
                 PROVE  q'[j].pos + q'[j].len <= q'[k].pos
      BY <1>4 DEF Ordered
    <2>1. j \in 1..L /\ q'[j] = q[j]
      BY <1>4
    <2>2. CASE k = L + 1
      BY <1>3, <1>4, <1>5, <2>1, <2>2
    <2>3. CASE k # L + 1
      <3>1. k \in 1..L /\ q'[k] = q[k]
        BY <1>4, <2>3
      <3> QED BY <1>4, <2>1, <3>1 DEF RqInv, RqQueue, Ordered
    <2> QED BY <2>2, <2>3
  <1>9. Between(q', una, rq_nxt + len)
    <2> SUFFICES ASSUME NEW k \in 1..(L + 1)
                 PROVE  q'[k].pos >= una /\ q'[k].pos + q'[k].len <= rq_nxt + len
      BY <1>4 DEF Between
    <2>1. CASE k = L + 1
      BY <1>2, <1>3, <1>4, <2>1
    <2>2. CASE k # L + 1
      <3>1. k \in 1..L /\ q'[k] = q[k]
        BY <1>4, <2>2
      <3> QED BY <1>2, <1>5, <3>1
    <2> QED BY <2>1, <2>2
  <1>10. Covered(q', rq_rcv, rq_nxt + len)
    <2> SUFFICES ASSUME WholeSegments, NEW b \in rq_rcv..((rq_nxt + len) - 1)
                 PROVE  \E k \in 1..(L + 1) : q'[k].pos <= b /\ b < q'[k].pos + q'[k].len
      BY <1>4 DEF Covered
    <2>1. CASE b >= rq_nxt
      <3>1. L + 1 \in 1..(L + 1) /\ rq_nxt <= b /\ b < rq_nxt + len
        BY <1>2, <1>4, <2>1
      <3> QED BY <1>3, <1>4, <3>1
    <2>2. CASE b < rq_nxt
      <3>1. b \in rq_rcv..(rq_nxt - 1)
        BY <1>2, <2>2
      <3>2. PICK k \in 1..L : q[k].pos <= b /\ b < q[k].pos + q[k].len
        BY <1>4, <3>1 DEF RqInv, RqQueue, Covered
      <3>3. k \in 1..(L + 1) /\ q'[k] = q[k]
        BY <1>4
      <3> QED BY <3>2, <3>3
    <2> QED BY <1>2, <2>1, <2>2
  <1>11. RqTypes'
    BY <1>1, <1>2, <1>4 DEF RqTypes
  <1>12. RqQueue'
    BY <1>1, <1>2, <1>6, <1>8, <1>9, <1>10 DEF RqInv, RqQueue
  <1>13. RqAcks'
    <2>1. ASSUME NEW n \in rq_acks PROVE n \in Nat /\ n <= rq_rcv /\ Boundary(q', n)
      <3>1. n \in Nat /\ n <= rq_rcv /\ Boundary(q, n)
        BY DEF RqInv, RqAcks
      <3>2. n <= rq_nxt
        BY <1>2, <3>1
      <3> QED BY <1>6, <3>1, <3>2
    <2> QED BY <1>1, <2>1 DEF RqAcks
  <1>14. RqWire'
    <2>1. ASSUME NEW m \in rq_wire
          PROVE  m.pos \in Nat /\ m.len \in Nat /\ m.pos + m.len <= rq_nxt + len
                 /\ Boundary(q', m.pos + m.len)
      <3>1. m.pos \in Nat /\ m.len \in Nat /\ m.pos + m.len <= rq_nxt /\ Boundary(q, m.pos + m.len)
        BY DEF RqInv, RqWire
      <3>2. m.pos + m.len \in Nat /\ m.pos + m.len <= rq_nxt + len
        BY <1>2, <3>1
      <3> QED BY <1>6, <3>1, <3>2
    <2>2. ASSUME NEW m, m = [pos |-> rq_nxt, len |-> len]
          PROVE  m.pos \in Nat /\ m.len \in Nat /\ m.pos + m.len <= rq_nxt + len
                 /\ Boundary(q', m.pos + m.len)
      <3>1. m.pos = rq_nxt /\ m.len = len
        BY <2>2
      <3> QED BY <1>2, <1>7, <3>1
    <2> QED BY <1>1, <2>1, <2>2 DEF RqWire
  <1> QED BY <1>11, <1>12, <1>13, <1>14 DEF RqInv

\* The size of a set is the same inside and outside the part.
LEMMA RqSameCardinality == ASSUME NEW S PROVE RetxQueue!Cardinality(S) = Cardinality(S)
  BY Zenon DEF RetxQueue!Cardinality, Cardinality

\* Numbering a finite set of naturals upwards reaches every element.
LEMMA NumberingIsOnto ==
    ASSUME NEW K, IsFiniteSet(K), K \subseteq Nat,
           NEW place \in [1..Cardinality(K) -> K],
           \A j, k \in DOMAIN place : j < k => place[j] < place[k]
    PROVE  \A x \in K : \E j \in 1..Cardinality(K) : place[j] = x
  <1>1. Cardinality(K) \in Nat
    BY FS_CardinalityType
  <1>2. PICK c \in Nat : c = Cardinality(K)
    BY <1>1
  <1>3. IsFiniteSet(1..c) /\ Cardinality(1..c) = c
    <2>1. Cardinality(1..c) = IF 1 > c THEN 0 ELSE c - 1 + 1
      BY FS_Interval
    <2> QED BY <2>1, FS_Interval
  <1>4. place \in [1..c -> K]
    BY <1>2
  <1>5. \A j, k \in 1..c : place[j] = place[k] => j = k
    <2> SUFFICES ASSUME NEW j \in 1..c, NEW k \in 1..c, place[j] = place[k], j # k
                 PROVE  FALSE
      OBVIOUS
    <2>1. place[j] \in Nat /\ place[k] \in Nat
      BY <1>4
    <2>2. j < k \/ k < j
      OBVIOUS
    <2>3. DOMAIN place = 1..c
      BY <1>4
    <2>4. \A x, y \in 1..c : x < y => place[x] < place[y]
      BY <2>3, Zenon
    <2>5. \A x, y \in Nat : x < y => x # y
      OBVIOUS
    <2> QED BY <2>1, <2>2, <2>4, <2>5
  <1>6. place \in Injection(1..c, K)
    BY <1>4, <1>5, Zenon DEF Injection, IsInjective
  <1>7. place \in Surjection(1..c, K)
    BY <1>2, <1>3, <1>6, FS_Injection
  <1> QED BY <1>2, <1>7, Zenon DEF Surjection

\* nfs_retx_queue_ack: a segment that is dropped lies below an acknowledgement,
\* so no byte the peer lacks goes with it.
LEMMA RqAck ==
    ASSUME RqNoWrap, RqInv, NEW n \in rq_acks, RetxQueue!Ack(n)
    PROVE  RqInv'
  <1>1. /\ rq_nxt' = rq_nxt /\ rq_rcv' = rq_rcv /\ rq_wire' = rq_wire /\ rq_acks' = rq_acks
        /\ una' = IF n > una THEN n ELSE una
    BY DEF RetxQueue!Ack
  <1>2. /\ q \in Seq(Segs) /\ rq_nxt \in Nat /\ una \in Nat /\ rq_rcv \in Nat
        /\ una <= rq_rcv /\ rq_rcv <= rq_nxt /\ rq_nxt <= RqBytes
    BY DEF RqInv, RqTypes
  <1>3. n \in Nat /\ n <= rq_rcv /\ Boundary(q, n)
    BY DEF RqInv, RqAcks
  <1>4. \A k \in DOMAIN q : /\ q[k].pos \in Nat /\ q[k].len \in Nat /\ k \in Nat
                            /\ q[k].pos >= una /\ q[k].pos + q[k].len <= rq_nxt
    <2>1. \A k \in DOMAIN q : q[k].pos \in Nat /\ q[k].len \in Nat /\ k \in 1..Len(q)
      BY <1>2, SegOf
    <2> QED BY <1>2, <2>1, LenProperties DEF RqInv, RqQueue, Between
  <1> DEFINE K == {k \in DOMAIN q : q[k].pos >= n}
  <1>5. RetxQueue!Kept(n) = K
    <2>1. ASSUME NEW k \in DOMAIN q PROVE ~RetxQueue!AckCovers(q[k], n) <=> q[k].pos >= n
      <3>1. PICK p \in 0..RqBytes : p = q[k].pos
        BY <1>2, <1>4, RqConstantsHold
      <3>2. n \in 0..RqBytes
        BY <1>2, <1>3, RqConstantsHold
      <3>3. RetxQueue!AckCovers(q[k], n) <=> p < n
        BY <3>1, <3>2, CoversComparesPositions
      <3> QED BY <3>1, <3>2, <3>3, RqConstantsHold
    <2> QED BY <2>1 DEF RetxQueue!Kept
  <1>6. K \subseteq Nat /\ IsFiniteSet(K)
    <2>1. K \subseteq 1..Len(q) /\ Len(q) \in Nat
      BY <1>2, LenProperties
    <2>2. IsFiniteSet(1..Len(q))
      BY <2>1, FS_Interval
    <2> QED BY <2>1, <2>2, FS_Subset
  <1>7. PICK place \in [1..Cardinality(K) -> K] :
           /\ \A j, k \in DOMAIN place : j < k => place[j] < place[k]
           /\ q' = [j \in DOMAIN place |-> q[place[j]]]
    <2>1. RetxQueue!Cardinality(RetxQueue!Kept(n)) = Cardinality(K)
      BY <1>5, RqSameCardinality, Zenon
    <2> HIDE DEF K
    <2> QED BY <1>5, <2>1, Zenon DEF RetxQueue!Ack
  <1>8. PICK c \in Nat : c = Cardinality(K)
    BY <1>6, FS_CardinalityType
  <1>9. \A x \in K : \E j \in 1..c : place[j] = x
    <2> HIDE DEF K
    <2> QED BY <1>6, <1>7, <1>8, NumberingIsOnto, ZenonT(60)
  <1>10. /\ DOMAIN q' = 1..c
         /\ \A j \in 1..c : place[j] \in DOMAIN q /\ q[place[j]].pos >= n /\ q'[j] = q[place[j]]
         /\ \A j, k \in 1..c : j < k => place[j] < place[k]
    BY <1>7, <1>8
  <1> HIDE DEF K
  <1>11. q' \in Seq(Segs)
    <2>1. \A j \in 1..c : q'[j] \in Segs
      BY <1>2, <1>10, SegOf
    <2>2. q' \in [1..c -> Segs]
      BY <1>7, <1>8, <2>1
    <2> QED BY <2>2
  <1>12. \A b : Boundary(q, b) => Boundary(q', b)
    BY <1>10 DEF Boundary
  <1>13. Ordered(q')
    <2> SUFFICES ASSUME NEW j \in 1..c, NEW k \in 1..c, j < k
                 PROVE  q'[j].pos + q'[j].len <= q'[k].pos
      BY <1>10 DEF Ordered
    <2> QED BY <1>10 DEF RqInv, RqQueue, Ordered
  <1>14. Between(q', una', rq_nxt)
    BY <1>1, <1>4, <1>10 DEF Between
  <1>15. Covered(q', rq_rcv, rq_nxt)
    <2> SUFFICES ASSUME WholeSegments, NEW b \in rq_rcv..(rq_nxt - 1)
                 PROVE  \E j \in 1..c : q'[j].pos <= b /\ b < q'[j].pos + q'[j].len
      BY <1>10 DEF Covered
    <2>1. PICK k \in DOMAIN q : q[k].pos <= b /\ b < q[k].pos + q[k].len
      BY DEF RqInv, RqQueue, Covered
    <2>2. q[k].pos >= n
      BY <1>2, <1>3, <1>4, <2>1 DEF Boundary
    <2>3. PICK j \in 1..c : place[j] = k
      BY <1>9, <2>2 DEF K
    <2> QED BY <1>10, <2>1, <2>3
  <1>16. RqTypes'
    BY <1>1, <1>2, <1>3, <1>11 DEF RqTypes
  <1>17. RqQueue'
    BY <1>1, <1>12, <1>13, <1>14, <1>15 DEF RqInv, RqQueue
  <1>18. RqAcks' /\ RqWire'
    BY <1>1, <1>12 DEF RqInv, RqAcks, RqWire
  <1> QED BY <1>16, <1>17, <1>18 DEF RqInv

\* A step of the clock: the ages change.
LEMMA RqAges ==
    ASSUME RqInv, q' \in Seq(Segs), DOMAIN q' = DOMAIN q,
           \A k \in DOMAIN q : q'[k].pos = q[k].pos /\ q'[k].len = q[k].len,
           UNCHANGED <<rq_nxt, una, rq_rcv, rq_acks>>,
           \A m \in rq_wire' : m \in rq_wire \/ \E k \in DOMAIN q : m = RetxQueue!OnWire(q[k])
    PROVE  RqInv'
  <1>1. /\ Ordered(q) => Ordered(q')
        /\ \A b : Boundary(q, b) => Boundary(q', b)
        /\ \A lo, hi : Between(q, lo, hi) => Between(q', lo, hi)
        /\ \A lo, hi : Covered(q, lo, hi) => Covered(q', lo, hi)
    BY SamePlaces
  <1>2. RqTypes'
    BY DEF RqInv, RqTypes
  <1>3. RqQueue'
    BY <1>1 DEF RqInv, RqQueue
  <1>4. RqAcks'
    BY <1>1 DEF RqInv, RqAcks
  <1>5. RqWire'
    <2> SUFFICES ASSUME NEW m \in rq_wire'
                 PROVE  /\ m.pos \in Nat /\ m.len \in Nat /\ m.pos + m.len <= rq_nxt
                        /\ Boundary(q', m.pos + m.len)
      BY DEF RqWire
    <2>1. CASE m \in rq_wire
      BY <1>1, <2>1 DEF RqInv, RqWire
    <2>2. CASE \E k \in DOMAIN q : m = RetxQueue!OnWire(q[k])
      <3>1. PICK k \in DOMAIN q : m = RetxQueue!OnWire(q[k])
        BY <2>2
      <3>2. m.pos = q[k].pos /\ m.len = q[k].len
        BY <3>1 DEF RetxQueue!OnWire
      <3>3. \A j \in DOMAIN q : q[j].pos \in Nat /\ q[j].len \in Nat /\ j \in 1..Len(q)
        BY SegOf DEF RqInv, RqTypes
      <3>4. q[k].pos + q[k].len <= rq_nxt
        BY DEF RqInv, RqQueue, Between
      <3>5. Boundary(q, q[k].pos + q[k].len)
        <4> SUFFICES ASSUME WholeSegments, NEW j \in DOMAIN q, q[j].pos < q[k].pos + q[k].len
                     PROVE  q[j].pos + q[j].len <= q[k].pos + q[k].len
          BY DEF Boundary
        <4>1. j \in Int /\ k \in Int
          BY <3>3
        <4>2. CASE j = k
          BY <3>3, <4>2
        <4>3. CASE j < k
          <5>1. q[j].pos + q[j].len <= q[k].pos
            BY <4>3 DEF RqInv, RqQueue, Ordered
          <5> QED BY <3>3, <5>1
        <4>4. CASE k < j
          <5>1. q[k].pos + q[k].len <= q[j].pos
            BY <4>4 DEF RqInv, RqQueue, Ordered
          <5> QED BY <3>3, <5>1
        <4> QED BY <4>1, <4>2, <4>3, <4>4
      <3> QED BY <1>1, <3>2, <3>3, <3>4, <3>5
    <2> QED BY <2>1, <2>2
  <1> QED BY <1>2, <1>3, <1>4, <1>5 DEF RqInv

\* The peer only ever acknowledges what it holds.
LEMMA RqPeer ==
    ASSUME RqInv, NEW m \in rq_wire, RetxQueue!PeerReceive(m)
    PROVE  RqInv'
  <1>1. PICK end \in rq_rcv..RqBytes :
           /\ end = rq_rcv \/ (end \in Nat /\ end <= m.pos + m.len)
           /\ WholeSegments => end = rq_rcv \/ end = m.pos + m.len
           /\ rq_rcv' = end
           /\ rq_acks' = rq_acks \cup {end}
    <2>1. PICK end \in rq_rcv..RqBytes :
             /\ IF m.pos <= rq_rcv /\ rq_rcv < m.pos + m.len
                THEN IF PartialAcks THEN end \in (rq_rcv + 1)..(m.pos + m.len)
                                    ELSE end = m.pos + m.len
                ELSE end = rq_rcv
             /\ rq_rcv' = end
             /\ rq_acks' = rq_acks \cup {end}
      BY DEF RetxQueue!PeerReceive
    <2>2. /\ m.pos \in Nat /\ m.len \in Nat /\ rq_rcv \in Nat
      BY DEF RqInv, RqTypes, RqWire
    <2>3. end = rq_rcv \/ end \in (rq_rcv + 1)..(m.pos + m.len) \/ end = m.pos + m.len
      BY <2>1
    <2>4. end = rq_rcv \/ (end \in Nat /\ end <= m.pos + m.len)
      BY <2>2, <2>3
    <2>5. WholeSegments => end = rq_rcv \/ end = m.pos + m.len
      BY <2>1 DEF WholeSegments
    <2> QED BY <2>1, <2>4, <2>5
  <1>2. q' = q /\ rq_nxt' = rq_nxt /\ una' = una /\ rq_wire' = rq_wire
    BY DEF RetxQueue!PeerReceive
  <1>3. /\ m.pos \in Nat /\ m.len \in Nat /\ m.pos + m.len <= rq_nxt
        /\ Boundary(q, m.pos + m.len)
    BY DEF RqInv, RqWire
  <1>4. /\ rq_nxt \in Nat /\ una \in Nat /\ rq_rcv \in Nat
        /\ una <= rq_rcv /\ rq_rcv <= rq_nxt /\ rq_nxt <= RqBytes
    BY DEF RqInv, RqTypes
  <1>5. end \in Nat /\ end <= rq_nxt /\ rq_rcv <= end
    BY <1>1, <1>3, <1>4, RqConstantsHold
  <1>6. Boundary(q, end)
    <2>1. Boundary(q, rq_rcv)
      BY DEF RqInv, RqQueue
    <2>2. WholeSegments => Boundary(q, end)
      BY <1>1, <1>3, <2>1
    <2> QED BY <2>2 DEF Boundary
  <1>7. Covered(q, end, rq_nxt)
    <2>1. \A b \in end..(rq_nxt - 1) : b \in rq_rcv..(rq_nxt - 1)
      BY <1>4, <1>5
    <2> QED BY <2>1 DEF RqInv, RqQueue, Covered
  <1>8. RqTypes'
    BY <1>1, <1>2, <1>4, <1>5 DEF RqInv, RqTypes
  <1>9. RqQueue'
    BY <1>1, <1>2, <1>6, <1>7 DEF RqInv, RqQueue
  <1>10. RqAcks'
    <2> SUFFICES ASSUME NEW n \in rq_acks' PROVE n \in Nat /\ n <= end /\ Boundary(q, n)
      BY <1>1, <1>2 DEF RqAcks
    <2>1. CASE n \in rq_acks
      <3>1. n \in Nat /\ n <= rq_rcv /\ Boundary(q, n)
        BY <2>1 DEF RqInv, RqAcks
      <3> QED BY <1>4, <1>5, <3>1
    <2>2. CASE n = end
      BY <1>5, <1>6, <2>2
    <2> QED BY <1>1, <2>1, <2>2
  <1>11. RqWire'
    BY <1>2 DEF RqInv, RqWire
  <1> QED BY <1>8, <1>9, <1>10, <1>11 DEF RqInv

\* nfs_retx_queue_timeout resends what is in the queue.
LEMMA RqTimeout ==
    ASSUME RqInv, NEW rto \in Rtos, RetxQueue!Timeout(rto)
    PROVE  RqInv'
  <1>1. /\ q' = [k \in DOMAIN q |-> IF RetxQueue!Due(q[k], rto) THEN [q[k] EXCEPT !.age = 0] ELSE q[k]]
        /\ rq_wire' = rq_wire \cup {RetxQueue!OnWire(q[k]) :
                                      k \in {j \in DOMAIN q : RetxQueue!Due(q[j], rto)}}
        /\ UNCHANGED <<rq_nxt, una, rq_rcv, rq_acks>>
    BY DEF RetxQueue!Timeout
  <1>2. q \in Seq(Segs)
    BY DEF RqInv, RqTypes
  <1>3. ASSUME NEW k \in DOMAIN q
        PROVE  q'[k] \in Segs /\ q'[k].pos = q[k].pos /\ q'[k].len = q[k].len
    <2>1. q[k] \in Segs
      BY <1>2, SegOf
    <2>2. q'[k] = IF RetxQueue!Due(q[k], rto) THEN [q[k] EXCEPT !.age = 0] ELSE q[k]
      BY <1>1
    <2>3. [q[k] EXCEPT !.age = 0] \in Segs /\ [q[k] EXCEPT !.age = 0].pos = q[k].pos
          /\ [q[k] EXCEPT !.age = 0].len = q[k].len
      BY <2>1 DEF Segs
    <2> QED BY <2>1, <2>2, <2>3
  <1>4. q' \in Seq(Segs) /\ DOMAIN q' = DOMAIN q
    <2>1. DOMAIN q = 1..Len(q) /\ Len(q) \in Nat
      BY <1>2, LenProperties
    <2>2. q' \in [1..Len(q) -> Segs]
      BY <1>1, <1>3, <2>1
    <2> QED BY <2>1, <2>2
  <1>5. \A m \in rq_wire' : m \in rq_wire \/ \E k \in DOMAIN q : m = RetxQueue!OnWire(q[k])
    BY <1>1
  <1> QED BY <1>1, <1>3, <1>4, <1>5, RqAges

\* Time passes.
LEMMA RqTick ==
    ASSUME RqInv, RetxQueue!Tick
    PROVE  RqInv'
  <1> DEFINE Older(seg) == [seg EXCEPT !.age = @ + 1]
  <1>1. /\ q' = [k \in DOMAIN q |-> IF q[k].age < RetxQueue!MaxRto THEN Older(q[k]) ELSE q[k]]
        /\ UNCHANGED <<rq_nxt, una, rq_rcv, rq_wire, rq_acks>>
    BY DEF RetxQueue!Tick
  <1>2. q \in Seq(Segs)
    BY DEF RqInv, RqTypes
  <1>3. ASSUME NEW k \in DOMAIN q
        PROVE  q'[k] \in Segs /\ q'[k].pos = q[k].pos /\ q'[k].len = q[k].len
    <2>1. q[k] \in Segs
      BY <1>2, SegOf
    <2>2. Older(q[k]) \in Segs /\ Older(q[k]).pos = q[k].pos /\ Older(q[k]).len = q[k].len
      BY <2>1 DEF Segs
    <2> HIDE DEF Older
    <2>3. q'[k] = IF q[k].age < RetxQueue!MaxRto THEN Older(q[k]) ELSE q[k]
      BY <1>1, Zenon
    <2> QED BY <2>1, <2>2, <2>3
  <1> HIDE DEF Older
  <1>4. q' \in Seq(Segs) /\ DOMAIN q' = DOMAIN q
    <2>1. DOMAIN q = 1..Len(q) /\ Len(q) \in Nat
      BY <1>2, LenProperties
    <2>2. q' \in [1..Len(q) -> Segs]
      BY <1>1, <1>3, <2>1
    <2> QED BY <2>1, <2>2
  <1>5. \A m \in rq_wire' : m \in rq_wire \/ \E k \in DOMAIN q : m = RetxQueue!OnWire(q[k])
    BY <1>1
  <1> QED BY <1>1, <1>3, <1>4, <1>5, RqAges

\* No step of retx_queue.c, its peer or the network breaks RqInv.
LEMMA RqStep ==
    ASSUME RqNoWrap
    PROVE  RqInv /\ [RetxQueue!Next]_rqVars => RqInv'
  <1> SUFFICES ASSUME RqInv, [RetxQueue!Next]_rqVars PROVE RqInv'
    OBVIOUS
  <1>1. ASSUME NEW len \in 0..RqMss, RetxQueue!Push(len) PROVE RqInv'
    BY <1>1, RqPush
  <1>2. ASSUME NEW n \in rq_acks, RetxQueue!Ack(n) PROVE RqInv'
    BY <1>2, RqAck
  <1>3. ASSUME NEW rto \in Rtos, RetxQueue!Timeout(rto) PROVE RqInv'
    BY <1>3, RqTimeout
  <1>4. CASE RetxQueue!Tick
    BY <1>4, RqTick
  <1>5. ASSUME NEW m \in rq_wire, RetxQueue!PeerReceive(m) PROVE RqInv'
    BY <1>5, RqPeer
  <1>6. CASE RetxQueue!Lose
    <2>1. /\ UNCHANGED <<q, rq_nxt, una, rq_rcv>>
          /\ rq_wire' \subseteq rq_wire /\ rq_acks' \subseteq rq_acks
      BY <1>6 DEF RetxQueue!Lose
    <2> QED BY <2>1 DEF RqInv, RqTypes, RqQueue, RqAcks, RqWire
  <1>7. CASE UNCHANGED rqVars
    BY <1>7 DEF rqVars, RqInv, RqTypes, RqQueue, RqAcks, RqWire
  <1> QED BY <1>1, <1>2, <1>3, <1>4, <1>5, <1>6, <1>7 DEF RetxQueue!Next

\* What RqInv says of acknowledged and of missing bytes.
LEMMA RqConsequences ==
    ASSUME RqInv
    PROVE  RetxQueue!AckedIsGone /\ (WholeSegments => RetxQueue!UnheldBytesAreQueued)
  <1>1. RetxQueue!AckedIsGone
    BY DEF RqInv, RqQueue, Between, RetxQueue!AckedIsGone
  <1>2. Covered(q, rq_rcv, rq_nxt) /\ Ordered(q)
    BY DEF RqInv, RqQueue
  <1> QED BY <1>1, <1>2 DEF Covered, Ordered, RetxQueue!UnheldBytesAreQueued

-----------------------------------------------------------------------------
\* Neither sender's numbers reach the end of the word.
NoWrap == SwNoWrap /\ RqNoWrap

\* The counts that sliding_window.c and tcb.c compute by unsigned and signed
\* subtraction are the true ones, also when the numbers wrap: bytes in flight and
\* space available (nfs_send_window_in_flight, _available), and snd_una, snd_nxt,
\* rcv_nxt and nfs_tcb_snd_available after any order of segments and
\* acknowledgements.
THEOREM CountersExact == Spec => []CountersAreExact
  <1>1. Init => SwInv /\ TcbInv
    BY SwInitially, TcbInitially DEF Init
  <1>2. SwInv /\ TcbInv /\ [Next]_vars => (SwInv /\ TcbInv)'
    BY FlowSteps, SwStep, TcbStep
  <1>3. SwInv /\ TcbInv => CountersAreExact
    BY SwCounts, TcbConsequences DEF CountersAreExact
  <1> QED BY <1>1, <1>2, <1>3, PTL DEF Spec

\* An old or repeated acknowledgement never takes anything back: what
\* nfs_tcb_ack_received counts as acknowledged only grows, across the wrap too.
THEOREM AckedOnlyGrows == Spec => Tcb!AckedNeverShrinks
  <1>1. Init => TcbInv
    BY TcbInitially DEF Init
  <1>2. TcbInv /\ [Next]_vars => TcbInv'
    BY FlowSteps, TcbStep
  <1>3. ASSUME TcbInv, [Next]_vars PROVE [done' >= done]_(Tcb!vars)
    <2>1. [Tcb!Next]_tcbVars
      BY <1>3, FlowSteps
    <2>2. ASSUME NEW a \in tcb_acks, Tcb!AckReceived(a) PROVE done' >= done
      <3>1. a.pos > done /\ done' = a.pos /\ a.pos \in Nat /\ done \in Nat
        BY <1>3, <2>2, TcbAdvances
           DEF Tcb!AckReceived, TcbInv, TcbAcks, TcbPositions
      <3> QED BY <3>1
    <2>3. ASSUME done' = done PROVE done' >= done
      BY <1>3, <2>3 DEF TcbInv, TcbPositions
    <2>4. Tcb!vars = tcbVars
      BY DEF Tcb!vars, tcbVars
    <2> QED BY <2>1, <2>2, <2>3, <2>4
            DEF Tcb!Next, Tcb!AdvanceSnd, Tcb!DataReceived, Tcb!WindowUpdate, tcbVars, Tcb!vars
  <1> QED BY <1>1, <1>2, <1>3, PTL DEF Spec, Tcb!AckedNeverShrinks

\* The three senders together.
LEMMA SendersInvariant == NoWrap /\ Spec => [](SwData /\ RqInv /\ TcbInv)
  <1> DEFINE I == SwData /\ RqInv /\ TcbInv
  <1>1. NoWrap /\ Init => I
    BY SwDataInitially, RqInitially, TcbInitially DEF Init, NoWrap
  <1>2. NoWrap /\ I /\ [Next]_vars => I'
    BY FlowSteps, SwDataStep, RqStep, TcbStep DEF NoWrap
  <1>3. NoWrap => NoWrap'
    BY DEF NoWrap, SwNoWrap, RqNoWrap
  <1> HIDE DEF I
  <1>4. NoWrap /\ Spec => []I
    BY <1>1, <1>2, <1>3, PTL DEF Spec
  <1> QED BY <1>4 DEF I

\* An acknowledgement does its work: nfs_send_window_ack accepts every
\* acknowledgement of bytes in flight, nothing acknowledged stays in the queue of
\* retx_queue.c, and nfs_tcb_ack_received takes every acknowledgement of new
\* data.  NoWrap is needed because sliding_window.c and retx_queue.c compare
\* sequence numbers plainly.
THEOREM AcksDoTheirWork == NoWrap /\ Spec => []AcksRelease
  <1>1. SwData /\ RqInv /\ TcbInv => AcksRelease
    BY SwAcksAccepted, RqConsequences, TcbConsequences DEF AcksRelease
  <1> QED BY <1>1, SendersInvariant, PTL

\* No byte that may still be needed is given up: nfs_send_window_get_data
\* returns the bytes in flight although the buffer is reused, every byte the peer
\* lacks is in the queue of retx_queue.c, and what the application has not read
\* is in the buffer of recv_win.c.  WholeSegments is needed because
\* nfs_retx_queue_ack drops a segment whose first byte is acknowledged.
THEOREM NeededBytesHeld == NoWrap /\ WholeSegments /\ Spec => []NeededBytesAreHeld
  <1>1. ASSUME WholeSegments, SwData, RqInv, RecvInv PROVE NeededBytesAreHeld
    <2>1. RecvWindow!BufferHoldsTheUnread
      BY <1>1 DEF RecvInv, Bytes, RecvWindow!BufferHoldsTheUnread
    <2> QED BY <1>1, <2>1, SwRetransmits, RqConsequences DEF NeededBytesAreHeld
  <1>2. WholeSegments => WholeSegments'
    BY DEF WholeSegments
  <1> QED BY <1>1, <1>2, SendersInvariant, RecvInvariant, PTL

-----------------------------------------------------------------------------
\* A set of naturals that is not empty has a least element.
LEMMA LeastNatural ==
    ASSUME NEW T, T \subseteq Nat, T # {}
    PROVE  \E x \in T : \A y \in T : x <= y
  <1>1. \E x \in T : \A y \in T : ~(<<y, x>> \in OpToRel(<, Nat))
    BY NatLessThanWellFounded, WFMin
  <1>2. ASSUME NEW x \in T, NEW y \in T, ~(<<y, x>> \in OpToRel(<, Nat))
        PROVE  x <= y
    BY <1>2 DEF OpToRel
  <1> QED BY <1>1, <1>2

\* What holds before a loop and is kept by every turn holds after every turn:
\* J[n] is the set of states the loop may be in after n turns.
LEMMA LoopStays ==
    ASSUME NEW N \in Nat, NEW h, NEW J,
           h[0] \in J[0],
           \A n \in 1..N : h[n - 1] \in J[n - 1] => h[n] \in J[n]
    PROVE  \A n \in 0..N : h[n] \in J[n]
  <1> DEFINE T == {n \in 0..N : h[n] \notin J[n]}
  <1> SUFFICES ASSUME T # {} PROVE FALSE
    OBVIOUS
  <1>0. T \subseteq Nat
    OBVIOUS
  <1>1. PICK n \in T : \A k \in T : n <= k
    BY <1>0, LeastNatural
  <1>2. n \in 0..N /\ h[n] \notin J[n]
    OBVIOUS
  <1>3. n # 0
    BY <1>2
  <1>4. n - 1 \in 0..N /\ n \in 1..N
    BY <1>2, <1>3
  <1>5. n - 1 \notin T
    BY <1>1, <1>2
  <1>6. h[n - 1] \in J[n - 1]
    BY <1>4, <1>5
  <1> QED BY <1>2, <1>4, <1>6

\* g holds the states of a loop of N turns; F[n] is what the n-th does.
IsLoop(g, S, F, x, N) ==
    /\ g \in [0..N -> S] /\ g[0] = x
    /\ \A n \in 1..N : g[n] = F[n][g[n - 1]]

\* There is one, when every turn makes a state of S of a state of S.
LEMMA LoopExists ==
    ASSUME NEW S, NEW x \in S, NEW N \in Nat, NEW F, \A n \in 1..N : F[n] \in [S -> S]
    PROVE  \E g : IsLoop(g, S, F, x, N)
  <1> DEFINE Is(g, M) == g[0] = x /\ \A n \in 1..M : g[n] = F[n][g[n - 1]]
             T == {M \in 0..N : ~ \E g \in [0..M -> S] : Is(g, M)}
  <1> SUFFICES ASSUME T # {} PROVE FALSE
    <2>1. CASE T = {}
      <3>1. N \in 0..N
        OBVIOUS
      <3>2. PICK g \in [0..N -> S] : Is(g, N)
        BY <2>1, <3>1
      <3> QED BY <3>2 DEF IsLoop
    <2> QED BY <2>1
  <1>0. T \subseteq Nat
    OBVIOUS
  <1>1. PICK M \in T : \A k \in T : M <= k
    BY <1>0, LeastNatural
  <1>2. CASE M = 0
    <2>1. [n \in 0..0 |-> x] \in [0..0 -> S] /\ Is([n \in 0..0 |-> x], 0)
      OBVIOUS
    <2> QED BY <1>2, <2>1
  <1>3. CASE M # 0
    <2>1. M - 1 \in 0..N /\ M - 1 \notin T /\ M \in 1..N
      <3>1. M \in 0..N
        OBVIOUS
      <3> HIDE DEF T
      <3>2. M - 1 \in 0..N /\ M \in 1..N /\ ~(M <= M - 1)
        BY <1>3, <3>1
      <3> QED BY <1>1, <3>2
    <2>2. PICK g \in [0..(M - 1) -> S] : Is(g, M - 1)
      BY <2>1
    <2> DEFINE k == [n \in 0..M |-> IF n = M THEN F[M][g[M - 1]] ELSE g[n]]
    <2>3. g[M - 1] \in S
      BY <2>1, <2>2
    <2>4. F[M][g[M - 1]] \in S
      BY <2>1, <2>3
    <2>5. k \in [0..M -> S]
      BY <2>2, <2>4
    <2>6. k[0] = x
      BY <1>3, <2>2
    <2>7. ASSUME NEW n \in 1..M PROVE k[n] = F[n][k[n - 1]]
      <3>1. n - 1 \in 0..M /\ n - 1 # M /\ k[n - 1] = g[n - 1]
        OBVIOUS
      <3>2. CASE n = M
        BY <3>1, <3>2
      <3>3. CASE n # M
        <4>1. n \in 1..(M - 1)
          BY <3>3
        <4> QED BY <2>2, <3>1, <3>3, <4>1
      <3> QED BY <3>2, <3>3
    <2> QED BY <2>5, <2>6, <2>7
  <1> QED BY <1>2, <1>3

-----------------------------------------------------------------------------
\* The scoreboard of sack.c.
\* The greatest number.
SackTop == SackWord - 1

SkBlock == [left : 0..SackTop, right : 0..SackTop]

SkIn(x, b) == b.left <= x /\ x < b.right

SkApart(a, b) == a.right < b.left \/ b.right < a.left

\* A block that holds something, and nothing that is not in H.
SkGood(b, H) == b \in SkBlock /\ b.left < b.right /\ \A x \in Nat : SkIn(x, b) => x \in H

SkBoard(bs, H) ==
    /\ bs \in Seq(SkBlock)
    /\ \A i \in 1..Len(bs) : SkGood(bs[i], H)
    /\ \A i, j \in 1..Len(bs) : i # j => SkApart(bs[i], bs[j])

\* What was reported last is in the first block, as far as it is not below n.
SkKnown(bs, new, n) == \A x \in Nat : SkIn(x, new) /\ x >= n => bs # <<>> /\ SkIn(x, bs[1])

SackInv ==
    /\ SkBoard(blocks, held) /\ Len(blocks) <= MaxBlocks
    /\ cum_ack \in 0..SackTop /\ held \subseteq Sack!Positions
    /\ latest \in SkBlock /\ SkKnown(blocks, latest, cum_ack)

LEMMA SkConstantsHold ==
    /\ MaxBlocks \in Nat \ {0} /\ SackTop \in Nat /\ SackWord \in Nat \ {0} /\ SackTop = SackWord - 1
    /\ InitialAck \in Nat /\ MaxSeq \in Nat /\ InitialAck <= MaxSeq
  BY FlowSuiteConstants DEF Sack!SackConstants, SackTop

\* A position has a number, and while the numbers do not come round it is the
\* position itself.
LEMMA SkNumber ==
    ASSUME NEW p \in Nat
    PROVE  Sack!Number(p) \in 0..SackTop
  BY DivMod, SkConstantsHold DEF Sack!Number

LEMMA SkNumberIs ==
    ASSUME Sack!NumbersDoNotWrap
    PROVE  MaxSeq <= SackTop /\ \A p \in 0..MaxSeq : Sack!Number(p) = p
  <1>1. MaxSeq <= SackTop
    BY SkConstantsHold DEF Sack!NumbersDoNotWrap
  <1>2. ASSUME NEW p \in 0..MaxSeq PROVE Sack!Number(p) = p
    <2>1. p \in 0..(SackWord - 1)
      BY <1>1, SkConstantsHold
    <2> QED BY <2>1, ModSmall, SkConstantsHold DEF Sack!Number
  <1> QED BY <1>1, <1>2

LEMMA SkBlockIs == ASSUME NEW b \in SkBlock PROVE b.left \in Nat /\ b.right \in Nat /\ b.left <= SackTop /\ b.right <= SackTop
  BY SkConstantsHold DEF SkBlock

LEMMA SkLarger ==
    ASSUME NEW a \in Nat, NEW b \in Nat
    PROVE  /\ Sack!Larger(a, b) \in {a, b} /\ a <= Sack!Larger(a, b) /\ b <= Sack!Larger(a, b)
  BY DEF Sack!Larger

\* An arrangement of blocks.
SkArranged(s, bs, f) ==
    /\ s \in Seq(SkBlock) /\ Len(s) = Len(bs)
    /\ f \in [1..Len(bs) -> 1..Len(bs)]
    /\ \A i \in 1..Len(bs) : s[i] = bs[f[i]]
    /\ \A k \in 1..Len(bs) : \E i \in 1..Len(bs) : f[i] = k
    /\ \A i, j \in 1..Len(bs) : i < j => s[i].left <= s[j].left

LEMMA SkArrangement ==
    ASSUME NEW bs \in Seq(SkBlock), Len(bs) <= MaxBlocks, NEW s \in Sack!sort_blocks(bs)
    PROVE  \E f : SkArranged(s, bs, f)
  <1>1. PICK N : N = Len(bs)
    OBVIOUS
  <1>2. N \in Nat /\ N \in 0..MaxBlocks /\ DOMAIN bs = 1..N /\ Len(bs) = N
    BY <1>1, LenProperties, SkConstantsHold
  <1>3. Sack!Orders[N] = Sack!Bijection(1..N, 1..N)
    BY <1>2 DEF Sack!Orders
  <1>4. PICK f \in Sack!Bijection(1..N, 1..N) :
            /\ s = [i \in 1..N |-> bs[f[i]]]
            /\ \A i, j \in 1..N : i < j => Sack!Precedes(bs, f[i], f[j])
    BY <1>2, <1>3 DEF Sack!sort_blocks
  <1>5. /\ f \in [1..N -> 1..N]
        /\ \A k \in 1..N : \E i \in 1..N : f[i] = k
    BY Zenon DEF Sack!Bijection, Sack!Injection, Sack!Surjection, Sack!IsInjective
  <1>6. \A i \in 1..N : s[i] = bs[f[i]] /\ bs[f[i]] \in SkBlock
    <2>1. \A k \in 1..N : bs[k] \in SkBlock
      BY <1>2, ElementOfSeq
    <2> QED BY <1>4, <1>5, <2>1
  <1>7. s \in Seq(SkBlock) /\ Len(s) = N /\ DOMAIN s = 1..N
    <2>1. s = [i \in 1..N |-> bs[f[i]]]
      BY <1>4
    <2>2. s \in [1..N -> SkBlock]
      BY <1>6, <2>1
    <2> QED BY <1>2, <2>2
  <1>8. \A i, j \in 1..N : i < j => s[i].left <= s[j].left
    <2> TAKE i, j \in 1..N
    <2>1. bs[f[i]].left \in Nat /\ bs[f[j]].left \in Nat
      BY <1>6, SkBlockIs
    <2> QED BY <1>4, <1>6, <2>1 DEF Sack!Precedes
  <1>9. SkArranged(s, bs, f)
    BY <1>2, <1>4, <1>5, <1>6, <1>7, <1>8 DEF SkArranged
  <1> QED BY <1>9

-----------------------------------------------------------------------------
\* The list of blocks after the first n of s were merged.
SkMerged(m, n, s, H) ==
    /\ m \in Seq(SkBlock) /\ Len(m) <= n /\ (n > 0 => Len(m) > 0)
    /\ \A j \in 1..Len(m) : SkGood(m[j], H)
    /\ \A j, k \in 1..Len(m) : j < k => m[j].right < m[k].left
    /\ n > 0 => m[Len(m)].left <= s[n].left
    /\ \A k \in 1..n : \E j \in 1..Len(m) : m[j].left <= s[k].left /\ s[k].right <= m[j].right

\* Absorb makes a list of a list.
LEMMA SkAbsorbs ==
    ASSUME NEW m \in Seq(SkBlock), NEW b \in SkBlock
    PROVE  /\ Sack!Absorb(m, b) \in Seq(SkBlock)
           /\ \/ /\ m # <<>> /\ Len(m) > 0 /\ b.left <= m[Len(m)].right
                 /\ Len(Sack!Absorb(m, b)) = Len(m)
                 /\ \A j \in 1..(Len(m) - 1) : Sack!Absorb(m, b)[j] = m[j]
                 /\ Sack!Absorb(m, b)[Len(m)]
                      = [left |-> m[Len(m)].left, right |-> Sack!Larger(b.right, m[Len(m)].right)]
              \/ /\ m = <<>> \/ m[Len(m)].right < b.left
                 /\ Len(Sack!Absorb(m, b)) = Len(m) + 1
                 /\ \A j \in 1..Len(m) : Sack!Absorb(m, b)[j] = m[j]
                 /\ Sack!Absorb(m, b)[Len(m) + 1] = b
  <1> DEFINE a == Sack!Absorb(m, b)
             o == m[Len(m)]
             c == [left |-> o.left, right |-> Sack!Larger(b.right, o.right)]
  <1>1. Len(m) \in Nat /\ (m # <<>> => Len(m) \in 1..Len(m)) /\ (m = <<>> <=> Len(m) = 0)
    BY LenProperties, EmptySeq
  <1>2. CASE m # <<>> /\ b.left <= o.right
    <2>1. a = [m EXCEPT ![Len(m)] = c]
      BY <1>2 DEF Sack!Absorb, Sack!Touches, Sack!Block
    <2>2. o \in SkBlock
      BY <1>1, <1>2, ElementOfSeq
    <2>3. Sack!Larger(b.right, o.right) \in 0..SackTop
      BY <2>2 DEF Sack!Larger, SkBlock
    <2>4. c \in SkBlock
      BY <2>2, <2>3 DEF SkBlock
    <2> HIDE DEF a, c
    <2>5. a \in Seq(SkBlock) /\ Len(a) = Len(m) /\ a[Len(m)] = c /\ \A j \in 1..(Len(m) - 1) : a[j] = m[j]
      BY <1>1, <1>2, <2>1, <2>4, ExceptSeq
    <2> QED BY <1>1, <1>2, <2>5 DEF a, c
  <1>3. CASE ~(m # <<>> /\ b.left <= o.right)
    <2>1. a = Append(m, b)
      BY <1>3 DEF Sack!Absorb, Sack!Touches
    <2> HIDE DEF a
    <2>2. a \in Seq(SkBlock) /\ Len(a) = Len(m) + 1 /\ a[Len(m) + 1] = b /\ \A j \in 1..Len(m) : a[j] = m[j]
      BY <1>1, <2>1, AppendProperties
    <2>3. m = <<>> \/ o.right < b.left
      <3>1. CASE m # <<>>
        <4>1. o \in SkBlock /\ b \in SkBlock
          BY <1>1, <3>1, ElementOfSeq
        <4> QED BY <1>3, <4>1, SkBlockIs
      <3> QED BY <3>1
    <2> QED BY <2>2, <2>3 DEF a
  <1> QED BY <1>2, <1>3

\* One more block is merged.
LEMMA SkMergesOne ==
    ASSUME NEW H, NEW n \in Nat, NEW s \in Seq(SkBlock), n + 1 <= Len(s),
           NEW m, SkMerged(m, n, s, H), SkGood(s[n + 1], H),
           n > 0 => s[n].left <= s[n + 1].left
    PROVE  SkMerged(Sack!Absorb(m, s[n + 1]), n + 1, s, H)
  <1> DEFINE b == s[n + 1]
             a == Sack!Absorb(m, b)
             L == Len(m)
             o == m[L]
  <1>1. /\ m \in Seq(SkBlock) /\ L \in Nat /\ b \in SkBlock /\ L <= n /\ (n > 0 => L > 0)
        /\ \A j \in 1..L : m[j] \in SkBlock /\ SkGood(m[j], H)
        /\ \A j, k \in 1..L : j < k => m[j].right < m[k].left
        /\ \A k \in 1..n : \E j \in 1..L : m[j].left <= s[k].left /\ s[k].right <= m[j].right
    <2>1. L \in Nat /\ \A j \in 1..L : m[j] \in SkBlock
      BY LenProperties, ElementOfSeq DEF SkMerged
    <2>2. b \in SkBlock
      BY DEF SkGood
    <2> QED BY <2>1, <2>2 DEF SkMerged
  <1>2. b.left \in Nat /\ b.right \in Nat /\ b.left < b.right /\ \A x \in Nat : SkIn(x, b) => x \in H
    BY <1>1, SkBlockIs DEF SkGood
  <1>3. \A j \in 1..L : m[j].left \in Nat /\ m[j].right \in Nat
    BY <1>1, SkBlockIs
  <1>4. (m = <<>> <=> L = 0) /\ (n > 0 => o.left <= s[n].left) /\ (L > 0 => n > 0)
    BY <1>1, EmptySeq DEF SkMerged
  <1>5. n > 0 => s[n].left \in Nat
    <2>1. n > 0 => n \in 1..Len(s)
      BY LenProperties
    <2> QED BY <2>1, ElementOfSeq, SkBlockIs
  <1>6. L > 0 => o.left <= b.left /\ o.left \in Nat /\ o.right \in Nat /\ o.left < o.right /\ L \in 1..L
    <2> SUFFICES ASSUME L > 0 PROVE o.left <= b.left /\ o.left \in Nat /\ o.right \in Nat /\ o.left < o.right /\ L \in 1..L
      OBVIOUS
    <2>1. L \in 1..L
      BY <1>1
    <2>2. o.left \in Nat /\ o.right \in Nat /\ o.left < o.right
      BY <1>1, <1>3, <2>1 DEF SkGood
    <2>3. o.left <= s[n].left /\ s[n].left <= b.left /\ s[n].left \in Nat
      BY <1>1, <1>4, <1>5
    <2> QED BY <1>2, <2>1, <2>2, <2>3
  <1>7. \A k \in 1..(n + 1) : k \in 1..n \/ k = n + 1
    OBVIOUS
  <1> HIDE DEF b, L
  <1>8. /\ a \in Seq(SkBlock)
        /\ \/ /\ m # <<>> /\ L > 0 /\ b.left <= o.right /\ Len(a) = L
              /\ \A j \in 1..(L - 1) : a[j] = m[j]
              /\ a[L] = [left |-> o.left, right |-> Sack!Larger(b.right, o.right)]
           \/ /\ m = <<>> \/ o.right < b.left
              /\ Len(a) = L + 1
              /\ \A j \in 1..L : a[j] = m[j]
              /\ a[L + 1] = b
    BY <1>1, SkAbsorbs DEF L
  <1> HIDE DEF a
  <1>9. CASE /\ m # <<>> /\ L > 0 /\ b.left <= o.right /\ Len(a) = L
             /\ \A j \in 1..(L - 1) : a[j] = m[j]
             /\ a[L] = [left |-> o.left, right |-> Sack!Larger(b.right, o.right)]
    <2> DEFINE z == a[L]
    <2>1. /\ z.left = o.left /\ z.right \in {b.right, o.right} /\ b.right <= z.right /\ o.right <= z.right
      BY <1>2, <1>6, <1>9, SkLarger
    <2>2. z \in SkBlock
      <3>1. L \in 1..Len(a)
        BY <1>6, <1>9
      <3> QED BY <1>8, <3>1, ElementOfSeq
    <2>3. \A j \in 1..L : j = L \/ j \in 1..(L - 1)
      BY <1>1
    <2>4. \A j \in 1..(L - 1) : j \in 1..L /\ j < L
      BY <1>1
    <2> HIDE DEF z
    <2>5. SkGood(z, H)
      <3>1. z.left < z.right
        BY <1>2, <1>6, <1>9, <2>1
      <3>2. ASSUME NEW x \in Nat, SkIn(x, z) PROVE x \in H
        <4>1. SkIn(x, o) \/ SkIn(x, b)
          BY <1>2, <1>6, <1>9, <2>1, <3>2 DEF SkIn
        <4>2. SkIn(x, o) => x \in H
          BY <1>1, <1>6, <1>9 DEF SkGood
        <4> QED BY <1>2, <4>1, <4>2
      <3> QED BY <2>2, <3>1, <3>2 DEF SkGood
    <2>6. ASSUME NEW j \in 1..L PROVE SkGood(a[j], H)
      BY <1>1, <1>9, <2>3, <2>4, <2>5 DEF z
    <2>7. ASSUME NEW j \in 1..L, NEW k \in 1..L, j < k PROVE a[j].right < a[k].left
      <3>1. j \in 1..(L - 1)
        BY <1>1, <2>7
      <3>2. a[j] = m[j] /\ m[j].right < m[k].left
        BY <1>1, <1>9, <2>7, <3>1
      <3>3. a[k].left = m[k].left
        BY <1>9, <2>1, <2>3 DEF z
      <3> QED BY <3>2, <3>3
    <2>8. a[L].left <= s[n + 1].left
      BY <1>6, <1>9, <2>1 DEF z, b
    <2>9. ASSUME NEW k \in 1..(n + 1)
          PROVE  \E j \in 1..L : a[j].left <= s[k].left /\ s[k].right <= a[j].right
      <3>1. CASE k = n + 1
        <4>1. L \in 1..L /\ a[L].left <= b.left /\ b.right <= a[L].right
          BY <1>6, <1>9, <2>1 DEF z
        <4> QED BY <3>1, <4>1 DEF b
      <3>2. CASE k \in 1..n
        <4>1. PICK j \in 1..L : m[j].left <= s[k].left /\ s[k].right <= m[j].right
          BY <1>1, <3>2
        <4>2. s[k].right \in Nat
          <5>1. k \in 1..Len(s)
            BY <3>2, LenProperties
          <5> QED BY <5>1, ElementOfSeq, SkBlockIs
        <4>3. CASE j = L
          <5>1. a[j].left = m[j].left /\ m[j].right <= a[j].right
            BY <2>1, <4>3 DEF z
          <5>2. a[j].right \in Nat /\ m[j].right \in Nat
            BY <1>3, <2>2, <4>3, SkBlockIs DEF z
          <5>3. s[k].right <= a[j].right
            BY ONLY <4>1, <4>2, <5>1, <5>2
          <5> QED BY <4>1, <5>1, <5>3
        <4>4. CASE j \in 1..(L - 1)
          BY <1>9, <4>1, <4>4
        <4> QED BY <2>3, <4>3, <4>4
      <3> QED BY <1>7, <3>1, <3>2
    <2>10. Len(a) = L /\ L <= n + 1 /\ L > 0
      BY <1>1, <1>9
    <2> QED BY <1>8, <2>6, <2>7, <2>8, <2>9, <2>10 DEF SkMerged, a, b
  <1>10. CASE /\ m = <<>> \/ o.right < b.left
              /\ Len(a) = L + 1
              /\ \A j \in 1..L : a[j] = m[j]
              /\ a[L + 1] = b
    <2>1. \A j \in 1..(L + 1) : j = L + 1 \/ j \in 1..L
      BY <1>1
    <2>2. ASSUME NEW j \in 1..(L + 1) PROVE SkGood(a[j], H)
      <3>1. SkGood(b, H)
        BY DEF b
      <3> QED BY <1>1, <1>10, <2>1, <3>1
    <2>3. ASSUME NEW j \in 1..(L + 1), NEW k \in 1..(L + 1), j < k PROVE a[j].right < a[k].left
      <3>1. j \in 1..L
        BY <1>1, <2>3
      <3>2. CASE k \in 1..L
        BY <1>1, <1>10, <2>3, <3>1, <3>2
      <3>3. CASE k = L + 1
        <4>1. L > 0 /\ o.right < b.left
          BY <1>1, <1>4, <1>10, <3>1
        <4>2. CASE j = L
          BY <1>10, <3>1, <3>3, <4>1, <4>2
        <4>3. CASE j # L
          <5>1. j < L /\ L \in 1..L
            BY <1>1, <3>1, <4>3
          <5>2. m[j].right < o.left /\ m[j].right \in Nat
            BY <1>1, <1>3, <3>1, <5>1
          <5>3. m[j].right < b.left
            BY <1>2, <1>6, <4>1, <5>2
          <5> QED BY <1>10, <3>1, <3>3, <5>3
        <4> QED BY <4>2, <4>3
      <3> QED BY <2>1, <3>2, <3>3
    <2>4. a[L + 1].left <= s[n + 1].left
      BY <1>2, <1>10 DEF b
    <2>5. ASSUME NEW k \in 1..(n + 1)
          PROVE  \E j \in 1..(L + 1) : a[j].left <= s[k].left /\ s[k].right <= a[j].right
      <3>1. CASE k = n + 1
        <4>1. L + 1 \in 1..(L + 1) /\ a[L + 1].left <= b.left /\ b.right <= a[L + 1].right
          BY <1>1, <1>2, <1>10
        <4> QED BY <3>1, <4>1 DEF b
      <3>2. CASE k \in 1..n
        <4>1. PICK j \in 1..L : m[j].left <= s[k].left /\ s[k].right <= m[j].right
          BY <1>1, <3>2
        <4>2. j \in 1..(L + 1) /\ a[j] = m[j]
          BY <1>1, <1>10
        <4> QED BY <4>1, <4>2
      <3> QED BY <1>7, <3>1, <3>2
    <2>6. Len(a) = L + 1 /\ L + 1 <= n + 1 /\ L + 1 > 0
      BY <1>1, <1>10
    <2> QED BY <1>8, <2>2, <2>3, <2>4, <2>5, <2>6 DEF SkMerged, a, b
  <1> QED BY <1>8, <1>9, <1>10

\* The loop of merge_blocks.
LEMMA SkMergeLoop ==
    ASSUME NEW s \in Seq(SkBlock)
    PROVE  \E m : /\ Sack!merge_blocks(s) = m[Len(s)] /\ m[0] = <<>>
                  /\ \A n \in 1..Len(s) : m[n] = Sack!Absorb(m[n - 1], s[n])
  <1> DEFINE N == Len(s)
             S == Seq(SkBlock)
             F == [n \in 1..N |-> [m \in S |-> Sack!Absorb(m, s[n])]]
             turns[i \in 0..Len(s)] == IF i = 0 THEN <<>> ELSE Sack!Absorb(turns[i - 1], s[i])
             Is(h) == h = [i \in 0..Len(s) |-> IF i = 0 THEN <<>> ELSE Sack!Absorb(h[i - 1], s[i])]
  <1>1. Sack!merge_blocks(s) = turns[Len(s)]
    BY DEF Sack!merge_blocks
  <1>2. N \in Nat /\ <<>> \in S
    BY LenProperties, EmptySeq
  <1>3. \A n \in 1..N : F[n] \in [S -> S] /\ \A m \in S : F[n][m] = Sack!Absorb(m, s[n])
    <2> TAKE n \in 1..N
    <2>1. s[n] \in SkBlock
      BY ElementOfSeq
    <2>2. \A m \in S : Sack!Absorb(m, s[n]) \in S
      BY <2>1, SkAbsorbs
    <2> QED BY <2>2
  <1> HIDE DEF F
  <1>4. PICK g : IsLoop(g, S, F, <<>>, N)
    BY <1>2, <1>3, LoopExists
  <1>5. Is(g)
    <2>1. g \in [0..N -> S] /\ g[0] = <<>> /\ \A n \in 1..N : g[n] = F[n][g[n - 1]]
      BY <1>4 DEF IsLoop
    <2>2. ASSUME NEW n \in 0..N PROVE g[n] = IF n = 0 THEN <<>> ELSE Sack!Absorb(g[n - 1], s[n])
      <3>1. CASE n = 0
        BY <2>1, <3>1
      <3>2. CASE n # 0
        <4>1. n \in 1..N /\ n - 1 \in 0..N
          BY <1>2, <3>2
        <4>2. g[n - 1] \in S /\ g[n] = F[n][g[n - 1]]
          BY <2>1, <4>1
        <4> HIDE DEF S
        <4> QED BY <1>3, <3>2, <4>1, <4>2
      <3> QED BY <3>1, <3>2
    <2> HIDE DEF S
    <2> QED BY <2>1, <2>2
  <1>6. Is(turns)
    <2>1. turns = CHOOSE h : Is(h)
      OBVIOUS
    <2> HIDE DEF Is, turns
    <2> QED BY <1>5, <2>1
  <1> HIDE DEF turns
  <1>7. turns[0] = <<>>
    BY <1>2, <1>6
  <1>8. \A n \in 1..N : turns[n] = Sack!Absorb(turns[n - 1], s[n])
    <2> TAKE n \in 1..N
    <2>1. n \in 0..Len(s) /\ n # 0
      BY <1>2
    <2> QED BY <1>6, <2>1
  <1> HIDE DEF Is
  <1> QED BY <1>1, <1>7, <1>8

LEMMA SkMerge ==
    ASSUME NEW H, NEW s \in Seq(SkBlock), Len(s) > 0,
           \A i \in 1..Len(s) : SkGood(s[i], H),
           \A i, j \in 1..Len(s) : i < j => s[i].left <= s[j].left
    PROVE  SkMerged(Sack!merge_blocks(s), Len(s), s, H)
  <1> DEFINE N == Len(s)
             J == [n \in 0..N |-> {m \in Seq(SkBlock) : SkMerged(m, n, s, H)}]
  <1>1. N \in Nat
    BY LenProperties
  <1>2. PICK m : /\ Sack!merge_blocks(s) = m[N] /\ m[0] = <<>>
                 /\ \A n \in 1..N : m[n] = Sack!Absorb(m[n - 1], s[n])
    BY SkMergeLoop
  <1>3. m[0] \in J[0]
    <2>1. <<>> \in Seq(SkBlock) /\ Len(<<>>) = 0
      BY EmptySeq
    <2>2. SkMerged(<<>>, 0, s, H)
      BY <2>1 DEF SkMerged
    <2> QED BY <1>1, <1>2, <2>1, <2>2
  <1>4. ASSUME NEW n \in 1..N, m[n - 1] \in J[n - 1] PROVE m[n] \in J[n]
    <2>1. n - 1 \in Nat /\ n - 1 \in 0..N /\ n \in 0..N /\ (n - 1) + 1 = n /\ (n - 1) + 1 <= Len(s)
      BY <1>1
    <2>2. SkMerged(m[n - 1], n - 1, s, H)
      BY <1>4, <2>1
    <2>3. n - 1 > 0 => s[n - 1].left <= s[(n - 1) + 1].left
      <3>1. n - 1 > 0 => n - 1 \in 1..Len(s) /\ n - 1 < n
        BY <1>1
      <3> QED BY <2>1, <3>1
    <2>4. SkGood(s[(n - 1) + 1], H)
      BY <2>1
    <2> HIDE DEF J
    <2>5. SkMerged(Sack!Absorb(m[n - 1], s[(n - 1) + 1]), (n - 1) + 1, s, H)
      BY <2>1, <2>2, <2>3, <2>4, SkMergesOne
    <2>6. SkMerged(m[n], n, s, H)
      BY <1>2, <2>1, <2>5
    <2>7. m[n] \in Seq(SkBlock)
      BY <2>6 DEF SkMerged
    <2> QED BY <2>1, <2>6, <2>7 DEF J
  <1> HIDE DEF J
  <1>5. \A n \in 0..N : m[n] \in J[n]
    BY <1>1, <1>3, <1>4, LoopStays
  <1>6. N \in 0..N
    BY <1>1
  <1> QED BY <1>2, <1>5, <1>6 DEF J

-----------------------------------------------------------------------------
\* The block that goes first covers the new range when one does.
LEMMA SkRecent ==
    ASSUME NEW bs \in Seq(SkBlock), Len(bs) > 0, NEW new
    PROVE  /\ Sack!RecentOf(bs, new) \in 1..Len(bs)
           /\ (\E i \in 1..Len(bs) : bs[i].left <= new.left /\ new.right <= bs[i].right)
                 /\ new.right \in Nat
                => /\ bs[Sack!RecentOf(bs, new)].left <= new.left
                   /\ new.right <= bs[Sack!RecentOf(bs, new)].right
  <1> DEFINE C == {i \in DOMAIN bs : bs[i].left <= new.left /\ bs[i].right >= new.right}
             r == Sack!RecentOf(bs, new)
  <1>1. Len(bs) \in Nat /\ DOMAIN bs = 1..Len(bs) /\ 1 \in 1..Len(bs)
    BY LenProperties
  <1>2. r = IF C = {} THEN 1 ELSE Sack!Min(C)
    BY DEF Sack!RecentOf
  <1>3. C # {} => Sack!Min(C) \in C
    <2>1. C \subseteq Nat
      BY <1>1
    <2> HIDE DEF C
    <2> SUFFICES ASSUME C # {} PROVE Sack!Min(C) \in C
      OBVIOUS
    <2>2. \E x \in C : \A y \in C : x <= y
      BY <2>1, LeastNatural
    <2> QED BY <2>2, Zenon DEF Sack!Min
  <1>4. C \subseteq 1..Len(bs)
    BY <1>1
  <1>5. r \in 1..Len(bs)
    <2> HIDE DEF C, r
    <2> QED BY <1>1, <1>2, <1>3, <1>4
  <1>6. ASSUME NEW i \in 1..Len(bs), bs[i].left <= new.left, new.right <= bs[i].right, new.right \in Nat
        PROVE  bs[r].left <= new.left /\ new.right <= bs[r].right
    <2>1. bs[i].right \in Nat
      BY ElementOfSeq, SkBlockIs
    <2>2. i \in C
      BY <1>1, <1>6, <2>1
    <2>3. r \in C
      <3> HIDE DEF C, r
      <3> QED BY <1>2, <1>3, <2>2
    <2>4. bs[r].left <= new.left /\ bs[r].right >= new.right
      <3> HIDE DEF r
      <3> QED BY <2>3
    <2>5. bs[r].right \in Nat
      <3> HIDE DEF r
      <3> QED BY <1>5, ElementOfSeq, SkBlockIs
    <2> HIDE DEF r
    <2> QED BY <1>6, <2>4, <2>5
  <1> HIDE DEF r
  <1> QED BY <1>5, <1>6 DEF r

\* Moving a block to the front keeps the board.
LEMMA SkToFront ==
    ASSUME NEW H, NEW bs, SkBoard(bs, H), NEW k \in 1..Len(bs)
    PROVE  /\ SkBoard(Sack!ToFront(bs, k), H)
           /\ Len(Sack!ToFront(bs, k)) = Len(bs) /\ Sack!ToFront(bs, k)[1] = bs[k]
  <1> DEFINE N == Len(bs)
             p == [i \in 1..N |-> IF i = 1 THEN k ELSE IF i <= k THEN i - 1 ELSE i]
             t == Sack!ToFront(bs, k)
  <1>1. N \in Nat /\ DOMAIN bs = 1..N /\ \A i \in 1..N : bs[i] \in SkBlock
    BY LenProperties, ElementOfSeq DEF SkBoard
  <1>2. p \in [1..N -> 1..N] /\ \A i, j \in 1..N : i # j => p[i] # p[j]
    BY <1>1
  <1>3. p[1] = k /\ 1 \in 1..N
    BY <1>1
  <1>4. t = [i \in 1..N |-> bs[p[i]]]
    BY <1>1 DEF Sack!ToFront
  <1> HIDE DEF p, t, N
  <1>5. t \in [1..N -> SkBlock] /\ \A i \in 1..N : t[i] = bs[p[i]] /\ p[i] \in 1..N
    BY <1>1, <1>2, <1>4
  <1>6. t \in Seq(SkBlock) /\ Len(t) = N
    BY <1>1, <1>5
  <1>7. \A i \in 1..N : SkGood(t[i], H)
    BY <1>5 DEF SkBoard, N
  <1>8. ASSUME NEW i \in 1..N, NEW j \in 1..N, i # j PROVE SkApart(t[i], t[j])
    <2>1. p[i] \in 1..N /\ p[j] \in 1..N /\ p[i] # p[j] /\ t[i] = bs[p[i]] /\ t[j] = bs[p[j]]
      BY <1>2, <1>5, <1>8
    <2>2. SkApart(bs[p[i]], bs[p[j]])
      BY <2>1 DEF SkBoard, N
    <2> QED BY <2>1, <2>2
  <1>9. SkBoard(t, H)
    BY <1>6, <1>7, <1>8 DEF SkBoard
  <1> QED BY <1>3, <1>5, <1>6, <1>9 DEF t, N

\* The new block has its place among the others.
LEMMA SkWithBlock ==
    ASSUME SackInv, NEW b, SkGood(b, held)
    PROVE  LET w == Sack!WithBlock(b)
           IN  /\ w \in Seq(SkBlock) /\ Len(w) \in 1..MaxBlocks
               /\ \A i \in 1..Len(w) : SkGood(w[i], held)
               /\ \E k \in 1..Len(w) : w[k] = b
  <1> DEFINE w == Sack!WithBlock(b)
             N == Len(blocks)
  <1>1. /\ blocks \in Seq(SkBlock) /\ N \in Nat /\ N <= MaxBlocks /\ b \in SkBlock
        /\ MaxBlocks \in Nat \ {0} /\ \A i \in 1..N : SkGood(blocks[i], held)
    BY LenProperties, SkConstantsHold DEF SackInv, SkBoard, SkGood
  <1>2. CASE N < MaxBlocks
    <2>1. w = Append(blocks, b)
      BY <1>2 DEF Sack!WithBlock
    <2> HIDE DEF w
    <2>2. w \in Seq(SkBlock) /\ Len(w) = N + 1 /\ w[N + 1] = b /\ \A i \in 1..N : w[i] = blocks[i]
      BY <1>1, <2>1, AppendProperties
    <2>3. \A i \in 1..(N + 1) : i = N + 1 \/ i \in 1..N
      BY <1>1
    <2>4. \A i \in 1..(N + 1) : SkGood(w[i], held)
      BY <1>1, <2>2, <2>3
    <2>5. N + 1 \in 1..(N + 1) /\ N + 1 \in 1..MaxBlocks
      BY <1>1, <1>2
    <2> QED BY <2>2, <2>4, <2>5 DEF w
  <1>3. CASE ~(N < MaxBlocks)
    <2>1. w = [blocks EXCEPT ![MaxBlocks] = b]
      BY <1>3 DEF Sack!WithBlock
    <2>2. N = MaxBlocks /\ MaxBlocks \in 1..N
      BY <1>1, <1>3
    <2> HIDE DEF w
    <2>3. w \in Seq(SkBlock) /\ Len(w) = N /\ \A i \in 1..N : w[i] = IF i = MaxBlocks THEN b ELSE blocks[i]
      BY <1>1, <2>1, <2>2, ExceptSeq
    <2>4. \A i \in 1..N : SkGood(w[i], held)
      BY <1>1, <2>3
    <2>5. w[MaxBlocks] = b /\ N \in 1..MaxBlocks
      BY <2>2, <2>3
    <2> QED BY <2>2, <2>3, <2>4, <2>5 DEF w
  <1> QED BY <1>2, <1>3

LEMMA SkAddBlock ==
    ASSUME Sack!NumbersDoNotWrap, SackInv,
           NEW l \in Sack!Positions, NEW r \in InitialAck..MaxSeq, Sack!AddBlock(l, r)
    PROVE  SackInv'
  <1> DEFINE new == [left |-> l, right |-> r]
             w == Sack!WithBlock(new)
             N == Len(w)
  <1>0. /\ l \in 0..MaxSeq /\ r \in 0..MaxSeq /\ l \in 0..SackTop /\ r \in 0..SackTop
        /\ Sack!Number(l) = l /\ Sack!Number(r) = r
    <2>1. l \in 0..MaxSeq /\ r \in 0..MaxSeq
      BY SkConstantsHold DEF Sack!Positions
    <2>2. l \in 0..SackTop /\ r \in 0..SackTop
      BY <2>1, SkNumberIs, SkConstantsHold
    <2> QED BY <2>1, <2>2, SkNumberIs
  <1>1. /\ l < r /\ l..(r - 1) \subseteq held /\ latest' = new
        /\ cum_ack' = cum_ack /\ held' = held
    BY DEF Sack!AddBlock, Sack!Block
  <1>2. PICK s \in Sack!sort_blocks(w) :
            blocks' = Sack!ToFront(Sack!merge_blocks(s), Sack!RecentOf(Sack!merge_blocks(s), new))
    BY <1>0 DEF Sack!AddBlock, Sack!Block
  <1>3. new \in SkBlock /\ SkGood(new, held)
    <2>1. new \in SkBlock
      BY <1>0 DEF SkBlock
    <2>2. \A x \in Nat : SkIn(x, new) => x \in l..(r - 1)
      BY <1>0, SkConstantsHold DEF SkIn
    <2> QED BY <1>1, <2>1, <2>2 DEF SkGood
  <1>4. /\ w \in Seq(SkBlock) /\ N \in 1..MaxBlocks
        /\ \A i \in 1..N : SkGood(w[i], held)
        /\ \E k \in 1..N : w[k] = new
    BY <1>3, SkWithBlock
  <1> HIDE DEF w, N
  <1>5. PICK f : SkArranged(s, w, f)
    BY <1>4, SkConstantsHold, SkArrangement DEF N
  <1>6. s \in Seq(SkBlock) /\ Len(s) = N /\ N > 0
    BY <1>4, <1>5, SkConstantsHold DEF SkArranged, N
  <1>7. \A i \in 1..N : SkGood(s[i], held)
    BY <1>4, <1>5 DEF SkArranged, N
  <1>8. \A i, j \in 1..N : i < j => s[i].left <= s[j].left
    BY <1>5 DEF SkArranged, N
  <1>9. PICK m : m = Sack!merge_blocks(s)
    OBVIOUS
  <1>10. SkMerged(m, N, s, held)
    BY <1>6, <1>7, <1>8, <1>9, SkMerge
  <1>11. PICK k \in 1..N : s[k] = new
    <2>1. PICK j \in 1..N : w[j] = new
      BY <1>4
    <2>2. PICK k \in 1..N : f[k] = j
      BY <1>5, <2>1 DEF SkArranged, N
    <2>3. s[k] = new
      BY <1>5, <2>1, <2>2 DEF SkArranged, N
    <2> HIDE DEF new
    <2> QED BY <2>3
  <1>12. PICK recent : recent = Sack!RecentOf(m, new)
    OBVIOUS
  <1>13. /\ m \in Seq(SkBlock) /\ Len(m) > 0 /\ Len(m) <= N
         /\ \E j \in 1..Len(m) : m[j].left <= new.left /\ new.right <= m[j].right
    BY <1>6, <1>10, <1>11 DEF SkMerged
  <1>14. recent \in 1..Len(m) /\ m[recent].left <= new.left /\ new.right <= m[recent].right
    <2>1. new.right \in Nat
      BY <1>0
    <2> HIDE DEF new
    <2> QED BY <1>12, <1>13, <2>1, SkRecent
  <1>15. SkBoard(m, held)
    <2>1. \A i, j \in 1..Len(m) : i # j => SkApart(m[i], m[j])
      <3> TAKE i, j \in 1..Len(m)
      <3>1. i # j => i < j \/ j < i
        OBVIOUS
      <3> QED BY <1>10, <3>1 DEF SkMerged, SkApart
    <2> QED BY <1>10, <2>1 DEF SkBoard, SkMerged
  <1>16. blocks' = Sack!ToFront(m, recent)
    BY <1>2, <1>9, <1>12
  <1>17. SkBoard(blocks', held) /\ Len(blocks') = Len(m) /\ blocks'[1] = m[recent]
    BY <1>14, <1>15, <1>16, SkToFront
  <1>18. SkKnown(blocks', new, cum_ack)
    <2>1. blocks' # <<>>
      BY <1>13, <1>17, EmptySeq
    <2>2. ASSUME NEW x \in Nat, SkIn(x, new) PROVE SkIn(x, m[recent])
      <3>1. m[recent].left \in Nat /\ m[recent].right \in Nat /\ new.left \in Nat /\ new.right \in Nat
        BY <1>3, <1>13, <1>14, ElementOfSeq, SkBlockIs
      <3> HIDE DEF new
      <3> QED BY <1>14, <2>2, <3>1 DEF SkIn
    <2> HIDE DEF new
    <2> QED BY <1>17, <2>1, <2>2 DEF SkKnown
  <1>19. Len(blocks') <= MaxBlocks
    <2>1. Len(m) \in Nat
      BY <1>13, LenProperties
    <2> QED BY <1>4, <1>13, <1>17, <2>1, SkConstantsHold
  <1> HIDE DEF new
  <1> QED BY <1>1, <1>3, <1>17, <1>18, <1>19 DEF SackInv

-----------------------------------------------------------------------------
\* The blocks that are left of the first n of bs above c.
SkTrimmed(t, n, bs, c, H) ==
    /\ t \in Seq(SkBlock) /\ Len(t) <= n
    /\ \A j \in 1..Len(t) : SkGood(t[j], H)
    /\ \A i, j \in 1..Len(t) : i # j => SkApart(t[i], t[j])
    /\ \A j \in 1..Len(t) : \E k \in 1..n : bs[k].left <= t[j].left /\ t[j].right = bs[k].right
    /\ n > 0 /\ Sack!Survives(bs[1], c) => Len(t) > 0 /\ t[1] = Sack!Trimmed(bs[1], c)

\* A turn of the loop of nfs_sack_advance_cumack.
SkTrimTurn(t, b, c) ==
    IF Sack!Survives(b, c) THEN Append(t, Sack!Trimmed(b, c)) ELSE t

LEMMA SkTrims ==
    ASSUME NEW H, NEW b, SkGood(b, H), NEW c \in 0..SackTop, Sack!Survives(b, c)
    PROVE  /\ SkGood(Sack!Trimmed(b, c), H)
           /\ b.left <= Sack!Trimmed(b, c).left /\ Sack!Trimmed(b, c).right = b.right
           /\ \A x \in Nat : SkIn(x, b) /\ x >= c => SkIn(x, Sack!Trimmed(b, c))
  <1>1. PICK z : z = Sack!Trimmed(b, c)
    OBVIOUS
  <1>2. b \in SkBlock /\ b.left \in Nat /\ b.right \in Nat /\ b.left < b.right /\ b.right > c /\ c \in Nat
    BY SkBlockIs, SkConstantsHold DEF SkGood, Sack!Survives
  <1>3. z = [left |-> Sack!Larger(c, b.left), right |-> b.right]
    BY <1>1 DEF Sack!Trimmed, Sack!Block
  <1>4. z.left \in {c, b.left} /\ c <= z.left /\ b.left <= z.left /\ z.right = b.right
    BY <1>2, <1>3, SkLarger
  <1>5. z \in SkBlock
    BY <1>2, <1>3, <1>4 DEF SkBlock
  <1>6. z.left < z.right
    BY <1>2, <1>4
  <1>7. \A x \in Nat : SkIn(x, z) => x \in H
    <2> TAKE x \in Nat
    <2>1. SkIn(x, z) => SkIn(x, b)
      BY <1>2, <1>4 DEF SkIn
    <2> QED BY <2>1 DEF SkGood
  <1>8. \A x \in Nat : SkIn(x, b) /\ x >= c => SkIn(x, z)
    BY <1>2, <1>4 DEF SkIn
  <1> QED BY <1>1, <1>4, <1>5, <1>6, <1>7, <1>8 DEF SkGood

LEMMA SkTrimsOne ==
    ASSUME NEW H, NEW bs, SkBoard(bs, H), NEW c \in 0..SackTop, NEW n \in Nat, n + 1 <= Len(bs),
           NEW t, SkTrimmed(t, n, bs, c, H)
    PROVE  SkTrimmed(SkTrimTurn(t, bs[n + 1], c), n + 1, bs, c, H)
  <1> DEFINE b == bs[n + 1]
             L == Len(t)
  <1>1. /\ t \in Seq(SkBlock) /\ L \in Nat /\ L <= n
        /\ \A j \in 1..L : SkGood(t[j], H) /\ t[j] \in SkBlock
        /\ \A i, j \in 1..L : i # j => SkApart(t[i], t[j])
        /\ \A j \in 1..L : \E k \in 1..n : bs[k].left <= t[j].left /\ t[j].right = bs[k].right
        /\ n > 0 /\ Sack!Survives(bs[1], c) => L > 0 /\ t[1] = Sack!Trimmed(bs[1], c)
    BY LenProperties DEF SkTrimmed, SkGood
  <1>2. n + 1 \in 1..Len(bs) /\ \A k \in 1..n : k \in 1..Len(bs) /\ k # n + 1 /\ k \in 1..(n + 1)
    <2>1. Len(bs) \in Nat
      BY LenProperties DEF SkBoard
    <2> QED BY <2>1
  <1>3. SkGood(b, H) /\ b \in SkBlock
    BY <1>2 DEF SkBoard, SkGood
  <1>4. \A k \in 1..n : SkApart(bs[k], b) /\ bs[k] \in SkBlock
    BY <1>2 DEF SkBoard, SkGood
  <1> HIDE DEF b, L
  <1>5. CASE ~Sack!Survives(b, c)
    <2>1. SkTrimTurn(t, b, c) = t
      BY <1>5 DEF SkTrimTurn
    <2>2. \A j \in 1..L : \E k \in 1..(n + 1) : bs[k].left <= t[j].left /\ t[j].right = bs[k].right
      BY <1>1, <1>2
    <2>3. Sack!Survives(bs[1], c) => n > 0
      BY <1>5 DEF b
    <2>4. SkTrimmed(t, n + 1, bs, c, H)
      BY <1>1, <2>2, <2>3 DEF SkTrimmed, L
    <2> QED BY <2>1, <2>4 DEF b
  <1>6. CASE Sack!Survives(b, c)
    <2>1. PICK z : z = Sack!Trimmed(b, c)
      OBVIOUS
    <2>2. SkGood(z, H) /\ b.left <= z.left /\ z.right = b.right /\ z \in SkBlock
      BY <1>3, <1>6, <2>1, SkTrims DEF SkGood
    <2>3. PICK a : a = Append(t, z)
      OBVIOUS
    <2>4. SkTrimTurn(t, b, c) = a
      BY <1>6, <2>1, <2>3 DEF SkTrimTurn
    <2>5. a \in Seq(SkBlock) /\ Len(a) = L + 1 /\ a[L + 1] = z /\ \A j \in 1..L : a[j] = t[j]
      BY <1>1, <2>2, <2>3, AppendProperties DEF L
    <2>6. \A j \in 1..(L + 1) : j = L + 1 \/ j \in 1..L
      BY <1>1
    <2>7. \A j \in 1..(L + 1) : SkGood(a[j], H)
      BY <1>1, <2>2, <2>5, <2>6
    <2>8. \A j \in 1..L : SkApart(t[j], z) /\ SkApart(z, t[j])
      <3> TAKE j \in 1..L
      <3>1. PICK k \in 1..n : bs[k].left <= t[j].left /\ t[j].right = bs[k].right
        BY <1>1
      <3>2. /\ bs[k].left \in Nat /\ bs[k].right \in Nat /\ t[j].left \in Nat /\ t[j].right \in Nat
            /\ b.left \in Nat /\ b.right \in Nat /\ z.left \in Nat /\ z.right \in Nat
        BY <1>1, <1>3, <1>4, <2>2, SkBlockIs
      <3>3. SkApart(bs[k], b)
        BY <1>4
      <3> QED BY <2>2, <3>1, <3>2, <3>3 DEF SkApart
    <2>9. \A i, j \in 1..(L + 1) : i # j => SkApart(a[i], a[j])
      <3> TAKE i, j \in 1..(L + 1)
      <3> HAVE i # j
      <3>1. CASE i \in 1..L /\ j \in 1..L
        BY <1>1, <2>5, <3>1
      <3>2. CASE i = L + 1
        <4>1. j \in 1..L
          BY <2>6, <3>2
        <4> QED BY <2>5, <2>8, <3>2, <4>1
      <3>3. CASE j = L + 1
        <4>1. i \in 1..L
          BY <2>6, <3>3
        <4> QED BY <2>5, <2>8, <3>3, <4>1
      <3> QED BY <2>6, <3>1, <3>2, <3>3
    <2>10. \A j \in 1..(L + 1) : \E k \in 1..(n + 1) : bs[k].left <= a[j].left /\ a[j].right = bs[k].right
      <3> TAKE j \in 1..(L + 1)
      <3>1. CASE j = L + 1
        <4>1. bs[n + 1].left <= a[j].left /\ a[j].right = bs[n + 1].right /\ n + 1 \in 1..(n + 1)
          BY <2>2, <2>5, <3>1 DEF b
        <4> QED BY <4>1
      <3>2. CASE j \in 1..L
        BY <1>1, <1>2, <2>5, <3>2
      <3> QED BY <2>6, <3>1, <3>2
    <2>11. Sack!Survives(bs[1], c) => a[1] = Sack!Trimmed(bs[1], c)
      <3>1. CASE n = 0
        <4>1. L = 0 /\ a[1] = z /\ b = bs[1]
          BY <1>1, <2>5, <3>1 DEF b
        <4> QED BY <2>1, <4>1
      <3>2. CASE n # 0
        <4> SUFFICES ASSUME Sack!Survives(bs[1], c) PROVE a[1] = Sack!Trimmed(bs[1], c)
          OBVIOUS
        <4>1. n > 0
          BY <3>2
        <4>2. L > 0 /\ t[1] = Sack!Trimmed(bs[1], c)
          BY <1>1, <4>1
        <4>3. 1 \in 1..L
          BY <1>1, <4>2
        <4> QED BY <2>5, <4>2, <4>3
      <3> QED BY <3>1, <3>2
    <2>12. L + 1 <= n + 1 /\ L + 1 > 0
      BY <1>1
    <2>13. SkTrimmed(a, n + 1, bs, c, H)
      BY <2>5, <2>7, <2>9, <2>10, <2>11, <2>12 DEF SkTrimmed
    <2> QED BY <2>4, <2>13 DEF b
  <1> QED BY <1>5, <1>6

LEMMA SkTrimLoop ==
    ASSUME blocks \in Seq(SkBlock), NEW c \in 0..SackTop
    PROVE  \E t : /\ Sack!Advanced(c) = t[Len(blocks)] /\ t[0] = <<>>
                  /\ \A n \in 1..Len(blocks) : t[n] = SkTrimTurn(t[n - 1], blocks[n], c)
  <1> DEFINE N == Len(blocks)
             S == Seq(SkBlock)
             F == [n \in 1..N |-> [t \in S |-> SkTrimTurn(t, blocks[n], c)]]
             turns[i \in 0..Len(blocks)] ==
                 IF i = 0 THEN <<>>
                 ELSE IF Sack!Survives(blocks[i], c)
                      THEN Append(turns[i - 1], Sack!Trimmed(blocks[i], c))
                 ELSE turns[i - 1]
             Is(h) == h = [i \in 0..Len(blocks) |->
                              IF i = 0 THEN <<>>
                              ELSE IF Sack!Survives(blocks[i], c)
                                   THEN Append(h[i - 1], Sack!Trimmed(blocks[i], c))
                              ELSE h[i - 1]]
  <1>1. Sack!Advanced(c) = turns[Len(blocks)]
    BY DEF Sack!Advanced
  <1>2. N \in Nat /\ <<>> \in S
    BY LenProperties, EmptySeq
  <1>3. \A n \in 1..N : F[n] \in [S -> S] /\ \A t \in S : F[n][t] = SkTrimTurn(t, blocks[n], c)
    <2> TAKE n \in 1..N
    <2>1. blocks[n] \in SkBlock
      BY ElementOfSeq
    <2>2. Sack!Trimmed(blocks[n], c) \in SkBlock
      <3>1. /\ Sack!Larger(c, blocks[n].left) \in 0..SackTop /\ blocks[n].right \in 0..SackTop
        BY <2>1 DEF SkBlock, Sack!Larger
      <3> QED BY <3>1 DEF Sack!Trimmed, Sack!Block, SkBlock
    <2>3. \A t \in S : SkTrimTurn(t, blocks[n], c) \in S
      BY <2>2, AppendProperties DEF SkTrimTurn
    <2> QED BY <2>3
  <1> HIDE DEF F
  <1>4. PICK g : IsLoop(g, S, F, <<>>, N)
    BY <1>2, <1>3, LoopExists
  <1>5. Is(g)
    <2>1. g \in [0..N -> S] /\ g[0] = <<>> /\ \A n \in 1..N : g[n] = F[n][g[n - 1]]
      BY <1>4 DEF IsLoop
    <2>2. ASSUME NEW n \in 0..N
          PROVE  g[n] = IF n = 0 THEN <<>>
                        ELSE IF Sack!Survives(blocks[n], c)
                             THEN Append(g[n - 1], Sack!Trimmed(blocks[n], c))
                        ELSE g[n - 1]
      <3>1. CASE n = 0
        BY <2>1, <3>1
      <3>2. CASE n # 0
        <4>1. n \in 1..N /\ n - 1 \in 0..N
          BY <1>2, <3>2
        <4>2. g[n - 1] \in S /\ g[n] = F[n][g[n - 1]]
          BY <2>1, <4>1
        <4> HIDE DEF S
        <4>3. g[n] = SkTrimTurn(g[n - 1], blocks[n], c)
          BY <1>3, <4>1, <4>2
        <4> QED BY <3>2, <4>3 DEF SkTrimTurn
      <3> QED BY <3>1, <3>2
    <2> HIDE DEF S
    <2> QED BY <2>1, <2>2
  <1>6. Is(turns)
    <2>1. turns = CHOOSE h : Is(h)
      OBVIOUS
    <2> HIDE DEF Is, turns
    <2> QED BY <1>5, <2>1
  <1> HIDE DEF turns
  <1>7. turns[0] = <<>>
    BY <1>2, <1>6
  <1>8. \A n \in 1..N : turns[n] = SkTrimTurn(turns[n - 1], blocks[n], c)
    <2> TAKE n \in 1..N
    <2>1. n \in 0..Len(blocks) /\ n # 0
      BY <1>2
    <2> QED BY <1>6, <2>1 DEF SkTrimTurn
  <1> HIDE DEF Is
  <1> QED BY <1>1, <1>7, <1>8

LEMMA SkAdvance ==
    ASSUME Sack!NumbersDoNotWrap, SackInv, NEW c \in InitialAck..MaxSeq, Sack!AdvanceCumack(c)
    PROVE  SackInv'
  <1> DEFINE N == Len(blocks)
             J == [n \in 0..N |-> {t \in Seq(SkBlock) : SkTrimmed(t, n, blocks, c, held)}]
  <1>0. c \in 0..SackTop /\ Sack!Number(c) = c
    BY SkNumberIs, SkConstantsHold
  <1>1. /\ N \in Nat /\ blocks \in Seq(SkBlock) /\ SkBoard(blocks, held) /\ c \in 0..SackTop
        /\ cum_ack \in Nat /\ N <= MaxBlocks
    BY <1>0, LenProperties, SkConstantsHold DEF SackInv, SkBoard
  <1>2. PICK t : /\ blocks' = t[N] /\ t[0] = <<>>
                 /\ \A n \in 1..N : t[n] = SkTrimTurn(t[n - 1], blocks[n], c)
    <2>1. blocks' = Sack!Advanced(c)
      BY <1>0 DEF Sack!AdvanceCumack
    <2> QED BY <1>1, <2>1, SkTrimLoop
  <1>3. t[0] \in J[0]
    <2>1. <<>> \in Seq(SkBlock) /\ Len(<<>>) = 0
      BY EmptySeq
    <2>2. SkTrimmed(<<>>, 0, blocks, c, held)
      BY <2>1 DEF SkTrimmed
    <2> QED BY <1>1, <1>2, <2>1, <2>2
  <1>4. ASSUME NEW n \in 1..N, t[n - 1] \in J[n - 1] PROVE t[n] \in J[n]
    <2>1. n - 1 \in Nat /\ n - 1 \in 0..N /\ n \in 0..N /\ (n - 1) + 1 = n /\ (n - 1) + 1 <= Len(blocks)
      BY <1>1
    <2>2. SkTrimmed(t[n - 1], n - 1, blocks, c, held)
      BY <1>4, <2>1
    <2> HIDE DEF J
    <2>3. SkTrimmed(SkTrimTurn(t[n - 1], blocks[(n - 1) + 1], c), (n - 1) + 1, blocks, c, held)
      BY <1>1, <2>1, <2>2, SkTrimsOne
    <2>4. SkTrimmed(t[n], n, blocks, c, held)
      BY <1>2, <2>1, <2>3
    <2>5. t[n] \in Seq(SkBlock)
      BY <2>4 DEF SkTrimmed
    <2> QED BY <2>1, <2>4, <2>5 DEF J
  <1> HIDE DEF J
  <1>5. \A n \in 0..N : t[n] \in J[n]
    BY <1>1, <1>3, <1>4, LoopStays
  <1>6. SkTrimmed(blocks', N, blocks, c, held)
    <2>1. N \in 0..N
      BY <1>1
    <2> QED BY <1>2, <1>5, <2>1 DEF J
  <1>7. /\ c > cum_ack /\ cum_ack' = c /\ held' = held /\ latest' = latest
    BY <1>0 DEF Sack!AdvanceCumack
  <1>8. SkBoard(blocks', held)
    BY <1>6 DEF SkTrimmed, SkBoard
  <1>9. SkKnown(blocks', latest, c)
    <2> SUFFICES ASSUME NEW x \in Nat, SkIn(x, latest), x >= c PROVE blocks' # <<>> /\ SkIn(x, blocks'[1])
      BY DEF SkKnown
    <2>1. x >= cum_ack
      BY <1>1, <1>7, SkConstantsHold
    <2>2. blocks # <<>> /\ SkIn(x, blocks[1])
      BY <2>1 DEF SackInv, SkKnown
    <2>3. N > 0 /\ 1 \in 1..N
      BY <1>1, <2>2, EmptySeq
    <2>4. SkGood(blocks[1], held) /\ blocks[1].right \in Nat
      BY <1>1, <2>3, SkBlockIs DEF SkBoard, SkGood
    <2>5. Sack!Survives(blocks[1], c)
      BY <1>1, <2>2, <2>4, SkConstantsHold DEF SkIn, Sack!Survives
    <2>6. Len(blocks') > 0 /\ blocks'[1] = Sack!Trimmed(blocks[1], c)
      BY <1>6, <2>3, <2>5 DEF SkTrimmed
    <2>7. SkIn(x, Sack!Trimmed(blocks[1], c))
      BY <1>1, <2>2, <2>4, <2>5, SkTrims
    <2>8. blocks' # <<>>
      BY <2>6, EmptySeq
    <2> QED BY <2>6, <2>7, <2>8
  <1>10. Len(blocks') <= MaxBlocks
    <2>1. Len(blocks') \in Nat /\ Len(blocks') <= N
      BY <1>6, LenProperties DEF SkTrimmed
    <2> QED BY <1>1, <2>1, SkConstantsHold
  <1> QED BY <1>1, <1>7, <1>8, <1>9, <1>10 DEF SackInv

-----------------------------------------------------------------------------
\* What nfs_sack_holes has after n turns.
SkAcc == [cursor : 0..SackTop, holes : Seq(SkBlock)]

\* x lies in one of the holes hs.
SkListed(x, hs) == \E i \in 1..Len(hs) : SkIn(x, hs[i])

SkHoled(acc, n, s) ==
    /\ acc \in SkAcc /\ cum_ack <= acc.cursor
    /\ \A k \in 1..n : s[k].right <= acc.cursor
    /\ acc.cursor = cum_ack \/ \E k \in 1..n : acc.cursor = s[k].right
    /\ \A i \in 1..Len(acc.holes) : acc.holes[i].right <= acc.cursor
    /\ \A x \in Nat : SkListed(x, acc.holes)
          <=> /\ x >= cum_ack /\ \A k \in 1..n : ~SkIn(x, s[k])
              /\ \E k \in 1..n : x < s[k].left

LEMMA SkNextHole ==
    ASSUME NEW acc \in SkAcc, NEW b \in SkBlock
    PROVE  /\ Sack!NextHole(acc, b) \in SkAcc
           /\ Sack!NextHole(acc, b).cursor \in {b.right, acc.cursor}
           /\ b.right <= Sack!NextHole(acc, b).cursor /\ acc.cursor <= Sack!NextHole(acc, b).cursor
           /\ b.left > acc.cursor
              => Sack!NextHole(acc, b).holes
                   = Append(acc.holes, [left |-> acc.cursor, right |-> b.left])
           /\ ~(b.left > acc.cursor) => Sack!NextHole(acc, b).holes = acc.holes
  <1>1. PICK z : z = Sack!NextHole(acc, b)
    OBVIOUS
  <1>2. z = [cursor |-> Sack!Larger(b.right, acc.cursor),
             holes |-> IF b.left > acc.cursor
                       THEN Append(acc.holes, [left |-> acc.cursor, right |-> b.left])
                       ELSE acc.holes]
    BY <1>1 DEF Sack!NextHole, Sack!Block
  <1>3. acc.cursor \in 0..SackTop /\ b.right \in 0..SackTop /\ b.left \in 0..SackTop /\ acc.holes \in Seq(SkBlock)
    BY DEF SkAcc, SkBlock
  <1>4. z.cursor = Sack!Larger(b.right, acc.cursor)
    BY <1>2
  <1>5. /\ z.cursor \in {b.right, acc.cursor} /\ b.right <= z.cursor /\ acc.cursor <= z.cursor
    BY <1>3, <1>4, SkLarger
  <1>6. [left |-> acc.cursor, right |-> b.left] \in SkBlock
    BY <1>3 DEF SkBlock
  <1>7. z.holes \in Seq(SkBlock)
    BY <1>2, <1>3, <1>6, AppendProperties
  <1>8. z \in SkAcc
    <2>1. z.cursor \in 0..SackTop
      BY <1>3, <1>5
    <2> QED BY <1>2, <1>7, <2>1 DEF SkAcc
  <1> QED BY <1>1, <1>2, <1>5, <1>8

LEMMA SkHolesOne ==
    ASSUME cum_ack \in Nat, NEW s \in Seq(SkBlock), NEW n \in Nat, n + 1 <= Len(s),
           \A i, j \in 1..Len(s) : i < j => s[i].left <= s[j].left,
           s[n + 1].left <= s[n + 1].right,
           NEW acc, SkHoled(acc, n, s)
    PROVE  /\ SkHoled(Sack!NextHole(acc, s[n + 1]), n + 1, s)
           /\ Len(Sack!NextHole(acc, s[n + 1]).holes) <= Len(acc.holes) + 1
  <1> DEFINE b == s[n + 1]
             c == acc.cursor
  <1>1. PICK z : z = Sack!NextHole(acc, b)
    OBVIOUS
  <1>2. /\ acc \in SkAcc /\ cum_ack <= c /\ \A k \in 1..n : s[k].right <= c
        /\ c = cum_ack \/ \E k \in 1..n : c = s[k].right
    BY DEF SkHoled
  <1>3. c \in Nat
    BY <1>2, SkConstantsHold DEF SkAcc
  <1>4. /\ b \in SkBlock /\ b.left \in Nat /\ b.right \in Nat
        /\ \A k \in 1..n : /\ s[k].left \in Nat /\ s[k].right \in Nat /\ s[k].left <= b.left
                           /\ k \in 1..(n + 1)
    <2>1. n + 1 \in 1..Len(s) /\ \A k \in 1..n : k \in 1..Len(s) /\ k < n + 1 /\ k \in 1..(n + 1)
      <3>1. Len(s) \in Nat
        BY LenProperties
      <3> QED BY <3>1
    <2>2. \A k \in 1..Len(s) : s[k] \in SkBlock /\ s[k].left \in Nat /\ s[k].right \in Nat
      BY ElementOfSeq, SkBlockIs
    <2> QED BY <2>1, <2>2
  <1>5. \A k \in 1..(n + 1) : k = n + 1 \/ k \in 1..n
    OBVIOUS
  <1>6. n + 1 \in 1..(n + 1) /\ s[n + 1] = b /\ b.left <= b.right
    OBVIOUS
  <1> HIDE DEF b
  <1>7. /\ z \in SkAcc /\ z.cursor \in {b.right, c} /\ b.right <= z.cursor /\ c <= z.cursor
        /\ b.left > c => z.holes = Append(acc.holes, [left |-> c, right |-> b.left])
        /\ ~(b.left > c) => z.holes = acc.holes
    BY <1>1, <1>2, <1>4, SkNextHole
  <1> HIDE DEF c
  <1>8. z.cursor \in Nat
    BY <1>3, <1>4, <1>7
  <1>9. cum_ack <= z.cursor
    BY <1>2, <1>3, <1>7, <1>8
  <1>10. \A k \in 1..(n + 1) : s[k].right <= z.cursor
    <2> TAKE k \in 1..(n + 1)
    <2>1. CASE k \in 1..n
      BY <1>2, <1>3, <1>4, <1>7, <1>8, <2>1
    <2>2. CASE k = n + 1
      BY <1>6, <1>7, <2>2
    <2> QED BY <1>5, <2>1, <2>2
  <1>11. z.cursor = cum_ack \/ \E k \in 1..(n + 1) : z.cursor = s[k].right
    <2>1. CASE z.cursor = b.right
      BY <1>6, <2>1
    <2>2. CASE z.cursor = c
      BY <1>2, <1>4, <2>2
    <2> QED BY <1>7, <2>1, <2>2
  <1>12. \A x \in Nat : SkListed(x, acc.holes)
            <=> /\ x >= cum_ack /\ \A k \in 1..n : ~SkIn(x, s[k])
                /\ \E k \in 1..n : x < s[k].left
    BY DEF SkHoled
  <1> DEFINE G == Len(acc.holes)
             new == [left |-> c, right |-> b.left]
  <1>16. G \in Nat /\ acc.holes \in Seq(SkBlock) /\ \A i \in 1..G : acc.holes[i].right <= c
    BY <1>2, LenProperties DEF SkHoled, SkAcc, c
  <1>13. /\ \A x \in Nat : SkListed(x, z.holes) <=> SkListed(x, acc.holes) \/ (c <= x /\ x < b.left)
         /\ \A i \in 1..Len(z.holes) : z.holes[i].right <= z.cursor
         /\ Len(z.holes) <= Len(acc.holes) + 1
    <2>1. CASE b.left > c
      <3>0. new \in SkBlock
        BY <1>2, <1>4 DEF SkAcc, SkBlock, c
      <3>1. /\ Len(z.holes) = G + 1 /\ z.holes[G + 1] = new
            /\ \A i \in 1..G : z.holes[i] = acc.holes[i]
        <4> HIDE DEF new
        <4> QED BY <1>7, <1>16, <2>1, <3>0, AppendProperties DEF new
      <3>2. \A i \in 1..(G + 1) : i = G + 1 \/ i \in 1..G
        BY <1>16
      <3>3. G + 1 \in 1..(G + 1) /\ \A i \in 1..G : i \in 1..(G + 1)
        BY <1>16
      <3> HIDE DEF G
      <3>4. ASSUME NEW x \in Nat
            PROVE  SkListed(x, z.holes) <=> SkListed(x, acc.holes) \/ (c <= x /\ x < b.left)
        <4>1. SkIn(x, new) <=> c <= x /\ x < b.left
          BY DEF SkIn
        <4> HIDE DEF new
        <4>2. ASSUME NEW i \in 1..(G + 1), SkIn(x, z.holes[i])
              PROVE  SkListed(x, acc.holes) \/ (c <= x /\ x < b.left)
          BY <3>1, <3>2, <4>1, <4>2 DEF SkListed, G
        <4>3. SkListed(x, acc.holes) => SkListed(x, z.holes)
          <5> SUFFICES ASSUME NEW i \in 1..G, SkIn(x, acc.holes[i]) PROVE SkListed(x, z.holes)
            BY DEF SkListed, G
          <5> QED BY <3>1, <3>3 DEF SkListed
        <4>4. SkIn(x, new) => SkListed(x, z.holes)
          BY <3>1, <3>3 DEF SkListed
        <4>5. SkListed(x, z.holes) => SkListed(x, acc.holes) \/ (c <= x /\ x < b.left)
          BY <3>1, <4>2 DEF SkListed
        <4> QED BY <4>1, <4>3, <4>4, <4>5
      <3>5. \A i \in 1..Len(z.holes) : z.holes[i].right <= z.cursor
        <4> TAKE i \in 1..Len(z.holes)
        <4>1. CASE i = G + 1
          BY <1>4, <1>6, <1>7, <1>8, <3>1, <4>1
        <4>2. CASE i \in 1..G
          <5>1. acc.holes[i].right <= c /\ acc.holes[i].right \in Nat
            BY <1>16, <4>2, ElementOfSeq, SkBlockIs DEF G
          <5> QED BY <1>3, <1>7, <1>8, <3>1, <4>2, <5>1
        <4> QED BY <3>1, <3>2, <4>1, <4>2
      <3>6. Len(z.holes) <= Len(acc.holes) + 1
        BY <1>16, <3>1 DEF G
      <3> QED BY <3>4, <3>5, <3>6
    <2>2. CASE ~(b.left > c)
      <3>1. z.holes = acc.holes
        BY <1>7, <2>2
      <3>2. \A x \in Nat : ~(c <= x /\ x < b.left)
        BY <1>3, <1>4, <2>2
      <3>3. \A i \in 1..Len(z.holes) : z.holes[i].right <= z.cursor
        <4> TAKE i \in 1..Len(z.holes)
        <4>1. acc.holes[i].right <= c /\ acc.holes[i].right \in Nat
          BY <1>16, <3>1, ElementOfSeq, SkBlockIs
        <4> QED BY <1>3, <1>7, <1>8, <3>1, <4>1
      <3>4. Len(z.holes) <= Len(acc.holes) + 1
        BY <1>16, <3>1
      <3> QED BY <3>1, <3>2, <3>3, <3>4
    <2> QED BY <2>1, <2>2
  <1>14. ASSUME NEW x \in Nat
         PROVE  SkListed(x, z.holes)
                  <=> /\ x >= cum_ack /\ \A k \in 1..(n + 1) : ~SkIn(x, s[k])
                      /\ \E k \in 1..(n + 1) : x < s[k].left
    <2>1. ASSUME SkListed(x, acc.holes)
          PROVE  /\ x >= cum_ack /\ \A k \in 1..(n + 1) : ~SkIn(x, s[k])
                 /\ \E k \in 1..(n + 1) : x < s[k].left
      <3>1. x >= cum_ack /\ \A k \in 1..n : ~SkIn(x, s[k])
        BY <1>12, <2>1
      <3>2. PICK k \in 1..n : x < s[k].left
        BY <1>12, <2>1
      <3>3. ~SkIn(x, s[n + 1])
        BY <1>4, <1>6, <3>2 DEF SkIn
      <3>4. \A j \in 1..(n + 1) : ~SkIn(x, s[j])
        BY <1>5, <3>1, <3>3
      <3> QED BY <1>4, <3>1, <3>2, <3>4
    <2>2. ASSUME c <= x, x < b.left
          PROVE  /\ x >= cum_ack /\ \A k \in 1..(n + 1) : ~SkIn(x, s[k])
                 /\ \E k \in 1..(n + 1) : x < s[k].left
      <3>1. x >= cum_ack
        BY <1>2, <1>3, <2>2
      <3>2. \A k \in 1..n : ~SkIn(x, s[k])
        BY <1>2, <1>3, <1>4, <2>2 DEF SkIn
      <3>3. ~SkIn(x, s[n + 1])
        BY <1>4, <1>6, <2>2 DEF SkIn
      <3>4. \A j \in 1..(n + 1) : ~SkIn(x, s[j])
        BY <1>5, <3>2, <3>3
      <3> QED BY <1>6, <2>2, <3>1, <3>4
    <2>3. ASSUME x >= cum_ack, \A k \in 1..(n + 1) : ~SkIn(x, s[k]),
                 NEW j \in 1..(n + 1), x < s[j].left
          PROVE  SkListed(x, acc.holes) \/ (c <= x /\ x < b.left)
      <3>1. x < b.left
        <4>1. CASE j \in 1..n
          BY <1>4, <2>3, <4>1
        <4>2. CASE j = n + 1
          BY <1>6, <2>3, <4>2
        <4> QED BY <1>5, <4>1, <4>2
      <3>2. \A k \in 1..n : ~SkIn(x, s[k])
        BY <1>4, <2>3
      <3>3. CASE \E k \in 1..n : x < s[k].left
        BY <1>12, <2>3, <3>2, <3>3
      <3>4. CASE ~ \E k \in 1..n : x < s[k].left
        <4>1. \A k \in 1..n : s[k].right <= x
          BY <1>4, <3>2, <3>4 DEF SkIn
        <4>2. c <= x
          BY <1>2, <2>3, <4>1
        <4> QED BY <3>1, <4>2
      <3> QED BY <3>3, <3>4
    <2> QED BY <1>13, <2>1, <2>2, <2>3
  <1>15. SkHoled(z, n + 1, s)
    BY <1>7, <1>9, <1>10, <1>11, <1>13, <1>14 DEF SkHoled
  <1> QED BY <1>1, <1>13, <1>15 DEF b

\* A turn of the loop of nfs_sack_holes.
SkHoleTurn(acc, b, max) == IF Len(acc.holes) < max THEN Sack!NextHole(acc, b) ELSE acc

\* The loop of nfs_sack_holes.
LEMMA SkHoleLoop ==
    ASSUME cum_ack \in 0..SackTop, NEW s \in Seq(SkBlock), NEW max
    PROVE  \E a : /\ Sack!Holes(s, max) = a[Len(s)].holes /\ a[0] = [cursor |-> cum_ack, holes |-> <<>>]
                  /\ \A n \in 1..Len(s) : a[n] = SkHoleTurn(a[n - 1], s[n], max)
  <1> DEFINE N == Len(s)
             F == [n \in 1..N |-> [a \in SkAcc |-> SkHoleTurn(a, s[n], max)]]
             turns[i \in 0..Len(s)] ==
                 IF i = 0 THEN [cursor |-> cum_ack, holes |-> <<>>]
                 ELSE IF Len(turns[i - 1].holes) < max THEN Sack!NextHole(turns[i - 1], s[i])
                 ELSE turns[i - 1]
             Is(h) == h = [i \in 0..Len(s) |->
                              IF i = 0 THEN [cursor |-> cum_ack, holes |-> <<>>]
                              ELSE IF Len(h[i - 1].holes) < max THEN Sack!NextHole(h[i - 1], s[i])
                              ELSE h[i - 1]]
  <1>1. Sack!Holes(s, max) = turns[Len(s)].holes
    BY DEF Sack!Holes
  <1>2. N \in Nat /\ [cursor |-> cum_ack, holes |-> <<>>] \in SkAcc
    BY LenProperties, EmptySeq DEF SkAcc
  <1>3. \A n \in 1..N : F[n] \in [SkAcc -> SkAcc] /\ \A a \in SkAcc : F[n][a] = SkHoleTurn(a, s[n], max)
    <2> TAKE n \in 1..N
    <2>1. s[n] \in SkBlock
      BY ElementOfSeq
    <2>2. \A a \in SkAcc : SkHoleTurn(a, s[n], max) \in SkAcc
      BY <2>1, SkNextHole DEF SkHoleTurn
    <2> QED BY <2>2
  <1> HIDE DEF F
  <1>4. PICK g : IsLoop(g, SkAcc, F, [cursor |-> cum_ack, holes |-> <<>>], N)
    BY <1>2, <1>3, LoopExists
  <1>5. Is(g)
    <2>1. /\ g \in [0..N -> SkAcc] /\ g[0] = [cursor |-> cum_ack, holes |-> <<>>]
          /\ \A n \in 1..N : g[n] = F[n][g[n - 1]]
      BY <1>4 DEF IsLoop
    <2>2. ASSUME NEW n \in 0..N
          PROVE  g[n] = IF n = 0 THEN [cursor |-> cum_ack, holes |-> <<>>]
                        ELSE IF Len(g[n - 1].holes) < max THEN Sack!NextHole(g[n - 1], s[n])
                        ELSE g[n - 1]
      <3>1. CASE n = 0
        BY <2>1, <3>1
      <3>2. CASE n # 0
        <4>1. n \in 1..N /\ n - 1 \in 0..N
          BY <1>2, <3>2
        <4>2. g[n - 1] \in SkAcc /\ g[n] = F[n][g[n - 1]]
          BY <2>1, <4>1
        <4>3. g[n] = SkHoleTurn(g[n - 1], s[n], max)
          BY <1>3, <4>1, <4>2
        <4> QED BY <3>2, <4>3 DEF SkHoleTurn
      <3> QED BY <3>1, <3>2
    <2> QED BY <2>1, <2>2
  <1>6. Is(turns)
    <2>1. turns = CHOOSE h : Is(h)
      OBVIOUS
    <2> HIDE DEF Is, turns
    <2> QED BY <1>5, <2>1
  <1> HIDE DEF turns
  <1>7. turns[0] = [cursor |-> cum_ack, holes |-> <<>>]
    BY <1>2, <1>6
  <1>8. \A n \in 1..N : turns[n] = SkHoleTurn(turns[n - 1], s[n], max)
    <2> TAKE n \in 1..N
    <2>1. n \in 0..Len(s) /\ n # 0
      BY <1>2
    <2> QED BY <1>6, <2>1 DEF SkHoleTurn
  <1> HIDE DEF Is
  <1> QED BY <1>1, <1>7, <1>8

\* The holes of a sorted board: those before its first j blocks, where j stops
\* short of the end only when there is no room for more holes.
LEMMA SkHoles ==
    ASSUME cum_ack \in 0..SackTop, NEW s \in Seq(SkBlock), NEW max \in Nat,
           \A i, j \in 1..Len(s) : i < j => s[i].left <= s[j].left,
           \A i \in 1..Len(s) : s[i].left <= s[i].right
    PROVE  \E acc : /\ Sack!Holes(s, max) = acc.holes /\ acc \in SkAcc /\ Len(acc.holes) <= max
                    /\ \E j \in 0..Len(s) :
                          SkHoled(acc, j, s) /\ (Len(acc.holes) < max => j = Len(s))
  <1> DEFINE N == Len(s)
             J == [n \in 0..N |->
                     {a \in SkAcc : /\ Len(a.holes) <= max
                                     /\ \E j \in 0..n : /\ SkHoled(a, j, s)
                                                        /\ Len(a.holes) < max => j = n}]
  <1>1. N \in Nat /\ cum_ack \in Nat
    BY LenProperties, SkConstantsHold
  <1>2. PICK a : /\ Sack!Holes(s, max) = a[N].holes /\ a[0] = [cursor |-> cum_ack, holes |-> <<>>]
                 /\ \A n \in 1..N : a[n] = SkHoleTurn(a[n - 1], s[n], max)
    BY SkHoleLoop
  <1>3. a[0] \in J[0]
    <2>1. a[0] \in SkAcc /\ Len(a[0].holes) = 0
      BY <1>2, EmptySeq DEF SkAcc
    <2>2. SkHoled(a[0], 0, s)
      BY <1>1, <1>2, <2>1 DEF SkHoled, SkListed
    <2>3. 0 \in 0..0
      OBVIOUS
    <2> QED BY <1>1, <2>1, <2>2, <2>3
  <1>4. ASSUME NEW n \in 1..N, a[n - 1] \in J[n - 1] PROVE a[n] \in J[n]
    <2>1. n - 1 \in Nat /\ n - 1 \in 0..N /\ n \in 0..N /\ (n - 1) + 1 = n /\ (n - 1) + 1 <= Len(s)
      BY <1>1
    <2>2. /\ a[n - 1] \in SkAcc /\ Len(a[n - 1].holes) <= max /\ Len(a[n - 1].holes) \in Nat
          /\ \E j \in 0..(n - 1) : SkHoled(a[n - 1], j, s) /\ (Len(a[n - 1].holes) < max => j = n - 1)
      BY <1>4, <2>1, LenProperties DEF SkAcc
    <2>3. a[n] = SkHoleTurn(a[n - 1], s[n], max)
      BY <1>2
    <2> HIDE DEF J
    <2>4. CASE Len(a[n - 1].holes) < max
      <3>1. SkHoled(a[n - 1], n - 1, s)
        BY <2>2, <2>4
      <3>2. a[n] = Sack!NextHole(a[n - 1], s[(n - 1) + 1])
        BY <2>1, <2>3, <2>4 DEF SkHoleTurn
      <3>3. s[(n - 1) + 1].left <= s[(n - 1) + 1].right
        BY <2>1
      <3>4. SkHoled(a[n], n, s) /\ Len(a[n].holes) <= Len(a[n - 1].holes) + 1
        BY <1>1, <2>1, <3>1, <3>2, <3>3, SkHolesOne
      <3>5. a[n] \in SkAcc /\ Len(a[n].holes) \in Nat
        BY <3>4, LenProperties DEF SkHoled, SkAcc
      <3>6. Len(a[n].holes) <= max /\ n \in 0..n
        BY <2>2, <2>4, <3>4, <3>5
      <3> QED BY <2>1, <3>4, <3>5, <3>6 DEF J
    <2>5. CASE ~(Len(a[n - 1].holes) < max)
      <3>1. a[n] = a[n - 1]
        BY <2>3, <2>5 DEF SkHoleTurn
      <3>2. \A j \in 0..(n - 1) : j \in 0..n
        OBVIOUS
      <3> QED BY <2>1, <2>2, <2>5, <3>1, <3>2 DEF J
    <2> QED BY <2>4, <2>5
  <1> HIDE DEF J
  <1>5. \A n \in 0..N : a[n] \in J[n]
    BY <1>1, <1>3, <1>4, LoopStays
  <1>6. N \in 0..N
    BY <1>1
  <1>7. /\ a[N] \in SkAcc /\ Len(a[N].holes) <= max
        /\ \E j \in 0..N : SkHoled(a[N], j, s) /\ (Len(a[N].holes) < max => j = N)
    BY <1>5, <1>6 DEF J
  <1> QED BY <1>2, <1>7

-----------------------------------------------------------------------------
\* The scoreboard's types, which it keeps also where the numbers come round.
SackTypes ==
    /\ blocks \in Seq(SkBlock) /\ Len(blocks) <= MaxBlocks
    /\ cum_ack \in 0..SackTop /\ held \subseteq Sack!Positions

\* merge_blocks never has more blocks than it was given.
LEMMA SkMergeTyped ==
    ASSUME NEW s \in Seq(SkBlock), Len(s) > 0
    PROVE  /\ Sack!merge_blocks(s) \in Seq(SkBlock)
           /\ Len(Sack!merge_blocks(s)) <= Len(s) /\ Len(Sack!merge_blocks(s)) > 0
  <1> DEFINE N == Len(s)
             J == [n \in 0..N |-> {m \in Seq(SkBlock) : Len(m) <= n /\ (n > 0 => Len(m) > 0)}]
  <1>1. N \in Nat
    BY LenProperties
  <1>2. PICK m : /\ Sack!merge_blocks(s) = m[N] /\ m[0] = <<>>
                 /\ \A n \in 1..N : m[n] = Sack!Absorb(m[n - 1], s[n])
    BY SkMergeLoop
  <1>3. m[0] \in J[0]
    BY <1>1, <1>2, EmptySeq
  <1>4. ASSUME NEW n \in 1..N, m[n - 1] \in J[n - 1] PROVE m[n] \in J[n]
    <2>1. n - 1 \in 0..N /\ n \in 0..N /\ s[n] \in SkBlock
      BY <1>1, ElementOfSeq
    <2>2. m[n - 1] \in Seq(SkBlock) /\ Len(m[n - 1]) \in Nat /\ Len(m[n - 1]) <= n - 1
      BY <1>4, <2>1, LenProperties
    <2>3. m[n] \in Seq(SkBlock) /\ Len(m[n]) \in Nat
          /\ \/ Len(m[n]) = Len(m[n - 1]) /\ Len(m[n]) > 0
             \/ Len(m[n]) = Len(m[n - 1]) + 1
      <3> DEFINE a == Sack!Absorb(m[n - 1], s[n])
      <3>1. m[n] = a
        BY <1>2
      <3> HIDE DEF J, a
      <3>2. /\ a \in Seq(SkBlock)
            /\ \/ Len(a) = Len(m[n - 1]) /\ Len(m[n - 1]) > 0
               \/ Len(a) = Len(m[n - 1]) + 1
        BY <2>1, <2>2, SkAbsorbs DEF a
      <3>3. Len(a) \in Nat
        BY <3>2, LenProperties
      <3> QED BY <3>1, <3>2, <3>3
    <2>4. Len(m[n]) <= n /\ Len(m[n]) > 0
      <3> HIDE DEF J
      <3> QED BY <1>1, <2>2, <2>3
    <2> QED BY <2>1, <2>3, <2>4
  <1> HIDE DEF J
  <1>5. \A n \in 0..N : m[n] \in J[n]
    BY <1>1, <1>3, <1>4, LoopStays
  <1>6. N \in 0..N
    BY <1>1
  <1>7. m[N] \in Seq(SkBlock) /\ Len(m[N]) <= N /\ (N > 0 => Len(m[N]) > 0)
    BY <1>5, <1>6 DEF J
  <1> QED BY <1>2, <1>7

LEMMA SkAddTyped ==
    ASSUME SackTypes, NEW l \in Sack!Positions, NEW r \in InitialAck..MaxSeq, Sack!AddBlock(l, r)
    PROVE  SackTypes'
  <1> DEFINE new == Sack!Block(Sack!Number(l), Sack!Number(r))
             w == Sack!WithBlock(new)
  <1>1. cum_ack' = cum_ack /\ held' = held
    BY DEF Sack!AddBlock
  <1>2. PICK s \in Sack!sort_blocks(w) :
            blocks' = Sack!ToFront(Sack!merge_blocks(s), Sack!RecentOf(Sack!merge_blocks(s), new))
    BY DEF Sack!AddBlock
  <1>3. new \in SkBlock
    <2>1. l \in Nat /\ r \in Nat
      BY SkConstantsHold DEF Sack!Positions
    <2>2. Sack!Number(l) \in 0..SackTop /\ Sack!Number(r) \in 0..SackTop
      BY <2>1, SkNumber
    <2> QED BY <2>2 DEF Sack!Block, SkBlock
  <1> HIDE DEF new
  <1>4. w \in Seq(SkBlock) /\ Len(w) <= MaxBlocks /\ Len(w) > 0
    <2>1. /\ blocks \in Seq(SkBlock) /\ Len(blocks) \in Nat /\ Len(blocks) <= MaxBlocks
          /\ MaxBlocks \in Nat \ {0}
      BY LenProperties, SkConstantsHold DEF SackTypes
    <2>2. CASE Len(blocks) < MaxBlocks
      <3>1. w = Append(blocks, new)
        BY <2>2 DEF Sack!WithBlock
      <3> HIDE DEF w
      <3>2. w \in Seq(SkBlock) /\ Len(w) = Len(blocks) + 1
        BY <1>3, <2>1, <3>1, AppendProperties
      <3> QED BY <2>1, <2>2, <3>2
    <2>3. CASE ~(Len(blocks) < MaxBlocks)
      <3>1. w = [blocks EXCEPT ![MaxBlocks] = new] /\ Len(blocks) = MaxBlocks
            /\ MaxBlocks \in 1..Len(blocks)
        BY <2>1, <2>3 DEF Sack!WithBlock
      <3> HIDE DEF w
      <3>2. w \in Seq(SkBlock) /\ Len(w) = Len(blocks)
        BY <1>3, <2>1, <3>1, ExceptSeq
      <3> QED BY <2>1, <3>1, <3>2
    <2> QED BY <2>2, <2>3
  <1> HIDE DEF w
  <1>5. PICK f : SkArranged(s, w, f)
    BY <1>4, SkArrangement
  <1>6. s \in Seq(SkBlock) /\ Len(s) = Len(w)
    BY <1>5 DEF SkArranged
  <1>7. PICK m : m = Sack!merge_blocks(s)
    OBVIOUS
  <1>8. m \in Seq(SkBlock) /\ Len(m) \in Nat /\ Len(m) <= Len(w) /\ Len(m) > 0
    BY <1>4, <1>6, <1>7, SkMergeTyped, LenProperties
  <1>9. PICK k \in 1..Len(m) : blocks' = Sack!ToFront(m, k)
    BY <1>2, <1>7, <1>8, SkRecent
  <1>10. blocks' \in Seq(SkBlock) /\ Len(blocks') = Len(m)
    <2>1. DOMAIN m = 1..Len(m) /\ \A i \in 1..Len(m) : m[i] \in SkBlock
      BY <1>8, LenProperties, ElementOfSeq
    <2>2. blocks' = [i \in 1..Len(m) |-> m[IF i = 1 THEN k ELSE IF i <= k THEN i - 1 ELSE i]]
      BY <1>9, <2>1 DEF Sack!ToFront
    <2>3. \A i \in 1..Len(m) : (IF i = 1 THEN k ELSE IF i <= k THEN i - 1 ELSE i) \in 1..Len(m)
      BY <1>8
    <2>4. blocks' \in [1..Len(m) -> SkBlock]
      BY <2>1, <2>2, <2>3
    <2> QED BY <1>8, <2>4
  <1>11. Len(blocks') <= MaxBlocks
    BY <1>4, <1>6, <1>8, <1>10, LenProperties, SkConstantsHold
  <1> QED BY <1>1, <1>10, <1>11 DEF SackTypes

LEMMA SkAdvanceTyped ==
    ASSUME SackTypes, NEW p \in InitialAck..MaxSeq, Sack!AdvanceCumack(p)
    PROVE  SackTypes'
  <1> DEFINE c == Sack!Number(p)
             N == Len(blocks)
             J == [n \in 0..N |-> {t \in Seq(SkBlock) : Len(t) <= n}]
  <1>1. cum_ack' = c /\ held' = held /\ blocks' = Sack!Advanced(c)
    BY DEF Sack!AdvanceCumack
  <1>2. c \in 0..SackTop
    <2>1. p \in Nat
      BY SkConstantsHold
    <2> QED BY <2>1, SkNumber
  <1> HIDE DEF c
  <1>3. N \in Nat /\ blocks \in Seq(SkBlock) /\ N <= MaxBlocks
    BY LenProperties DEF SackTypes
  <1>4. PICK t : /\ blocks' = t[N] /\ t[0] = <<>>
                 /\ \A n \in 1..N : t[n] = SkTrimTurn(t[n - 1], blocks[n], c)
    BY <1>1, <1>2, <1>3, SkTrimLoop
  <1>5. t[0] \in J[0]
    BY <1>3, <1>4, EmptySeq
  <1>6. ASSUME NEW n \in 1..N, t[n - 1] \in J[n - 1] PROVE t[n] \in J[n]
    <2>1. n - 1 \in 0..N /\ n \in 0..N /\ blocks[n] \in SkBlock
      BY <1>3, ElementOfSeq
    <2>2. t[n - 1] \in Seq(SkBlock) /\ Len(t[n - 1]) \in Nat /\ Len(t[n - 1]) <= n - 1
      BY <1>6, <2>1, LenProperties
    <2>3. Sack!Trimmed(blocks[n], c) \in SkBlock
      <3>1. Sack!Larger(c, blocks[n].left) \in 0..SackTop /\ blocks[n].right \in 0..SackTop
        BY <1>2, <2>1 DEF SkBlock, Sack!Larger
      <3> QED BY <3>1 DEF Sack!Trimmed, Sack!Block, SkBlock
    <2>4. t[n] = SkTrimTurn(t[n - 1], blocks[n], c)
      BY <1>4
    <2>5. t[n] \in Seq(SkBlock) /\ (Len(t[n]) = Len(t[n - 1]) \/ Len(t[n]) = Len(t[n - 1]) + 1)
      <3> HIDE DEF J
      <3> QED BY <2>2, <2>3, <2>4, AppendProperties DEF SkTrimTurn
    <2>6. Len(t[n]) <= n
      <3> HIDE DEF J
      <3> QED BY <1>3, <2>2, <2>5
    <2> QED BY <2>1, <2>5, <2>6
  <1> HIDE DEF J
  <1>7. \A n \in 0..N : t[n] \in J[n]
    BY <1>3, <1>5, <1>6, LoopStays
  <1>8. blocks' \in Seq(SkBlock) /\ Len(blocks') <= N
    <2>1. N \in 0..N
      BY <1>3
    <2> QED BY <1>4, <1>7, <2>1 DEF J
  <1>9. Len(blocks') <= MaxBlocks
    BY <1>3, <1>8, LenProperties, SkConstantsHold
  <1> QED BY <1>1, <1>2, <1>8, <1>9 DEF SackTypes

LEMMA SackTypedInitially == Sack!Init => SackTypes
  <1> SUFFICES ASSUME Sack!Init PROVE SackTypes
    OBVIOUS
  <1>1. blocks = <<>> /\ cum_ack = Sack!Number(InitialAck) /\ held = {}
    BY DEF Sack!Init
  <1>2. blocks \in Seq(SkBlock) /\ Len(blocks) = 0
    BY <1>1, EmptySeq
  <1> QED BY <1>1, <1>2, SkNumber, SkConstantsHold DEF SackTypes

LEMMA SackTypedStep ==
    ASSUME SackTypes, [Sack!Next]_sackVars
    PROVE  SackTypes'
  <1>1. CASE UNCHANGED sackVars
    BY <1>1 DEF sackVars, SackTypes
  <1>2. ASSUME NEW b \in Sack!Positions, Sack!PeerReceive(b) PROVE SackTypes'
    BY <1>2 DEF Sack!PeerReceive, SackTypes, Sack!Positions
  <1>3. ASSUME NEW l \in Sack!Positions, NEW r \in InitialAck..MaxSeq, Sack!AddBlock(l, r) PROVE SackTypes'
    BY <1>3, SkAddTyped
  <1>4. ASSUME NEW n \in InitialAck..MaxSeq, Sack!AdvanceCumack(n) PROVE SackTypes'
    BY <1>4, SkAdvanceTyped
  <1> QED BY <1>1, <1>2, <1>3, <1>4 DEF Sack!Next

LEMMA SackTyped == SackTypes => Sack!TypeOK
  BY DEF SackTypes, SkBlock, SackTop, Sack!TypeOK

-----------------------------------------------------------------------------
LEMMA SkReceive ==
    ASSUME SackInv, NEW b \in Sack!Positions, Sack!PeerReceive(b)
    PROVE  SackInv'
  <1>1. /\ held' = held \cup {b} /\ blocks' = blocks /\ cum_ack' = cum_ack /\ latest' = latest
    BY DEF Sack!PeerReceive
  <1>2. SkBoard(blocks, held \cup {b})
    <2>1. SkBoard(blocks, held)
      BY DEF SackInv
    <2> QED BY <2>1 DEF SkBoard, SkGood
  <1>3. held \cup {b} \subseteq Sack!Positions
    BY DEF SackInv
  <1> QED BY <1>1, <1>2, <1>3 DEF SackInv, Sack!Positions

LEMMA SackInitially == Sack!NumbersDoNotWrap /\ Sack!Init => SackInv
  <1> SUFFICES ASSUME Sack!NumbersDoNotWrap, Sack!Init PROVE SackInv
    OBVIOUS
  <1>0. InitialAck \in 0..SackTop /\ Sack!Number(InitialAck) = InitialAck
    BY SkNumberIs, SkConstantsHold
  <1>1. /\ blocks = <<>> /\ cum_ack = InitialAck /\ held = {}
        /\ latest = [left |-> InitialAck, right |-> InitialAck]
    BY <1>0 DEF Sack!Init, Sack!Block
  <1>2. blocks \in Seq(SkBlock) /\ Len(blocks) = 0
    BY <1>1, EmptySeq
  <1>3. SkBoard(blocks, held)
    BY <1>2 DEF SkBoard
  <1>4. latest \in SkBlock /\ SkKnown(blocks, latest, cum_ack)
    BY <1>0, <1>1, SkConstantsHold DEF SkBlock, SkKnown, SkIn
  <1> QED BY <1>0, <1>1, <1>2, <1>3, <1>4, SkConstantsHold DEF SackInv

LEMMA SackStep ==
    ASSUME Sack!NumbersDoNotWrap, SackInv, [Sack!Next]_sackVars
    PROVE  SackInv'
  <1>1. CASE UNCHANGED sackVars
    BY <1>1 DEF sackVars, SackInv, SkBoard, SkKnown
  <1>2. ASSUME NEW b \in Sack!Positions, Sack!PeerReceive(b) PROVE SackInv'
    BY <1>2, SkReceive
  <1>3. ASSUME NEW l \in Sack!Positions, NEW r \in InitialAck..MaxSeq, Sack!AddBlock(l, r) PROVE SackInv'
    BY <1>3, SkAddBlock
  <1>4. ASSUME NEW n \in InitialAck..MaxSeq, Sack!AdvanceCumack(n) PROVE SackInv'
    BY <1>4, SkAdvance
  <1> QED BY <1>1, <1>2, <1>3, <1>4 DEF Sack!Next

\* Blocks can be sorted: the last one of those with the greatest left edge
\* goes last, and the others are sorted before it.
SkSorting(bs, f, N) ==
    /\ f \in [1..N -> 1..N]
    /\ \A i, j \in 1..N : f[i] = f[j] => i = j
    /\ \A k \in 1..N : \E i \in 1..N : f[i] = k
    /\ \A i, j \in 1..N : i < j => Sack!Precedes(bs, f[i], f[j])

LEMMA SkGreatest ==
    ASSUME NEW N \in Nat \ {0}, NEW bs \in [1..N -> SkBlock]
    PROVE  \E k \in 1..N : \A i \in 1..N : i = k \/ Sack!Precedes(bs, i, k)
  <1> DEFINE T == {SackTop - bs[i].left : i \in 1..N}
  <1>1. \A i \in 1..N : bs[i].left \in Nat /\ bs[i].left <= SackTop
    BY SkBlockIs
  <1>2. T \subseteq Nat /\ T # {}
    <2>1. \A i \in 1..N : SackTop - bs[i].left \in Nat
      BY <1>1, SkConstantsHold
    <2>2. 1 \in 1..N
      OBVIOUS
    <2> QED BY <2>1, <2>2
  <1>3. PICK d \in T : \A e \in T : d <= e
    BY <1>2, LeastNatural
  <1>4. PICK g \in 1..N : d = SackTop - bs[g].left
    OBVIOUS
  <1>5. ASSUME NEW i \in 1..N PROVE bs[i].left <= bs[g].left
    <2>1. SackTop - bs[i].left \in T
      OBVIOUS
    <2>2. SackTop - bs[g].left <= SackTop - bs[i].left
      <3> HIDE DEF T
      <3> QED BY <1>3, <1>4, <2>1
    <2> HIDE DEF T
    <2> QED BY <1>1, <2>2, SkConstantsHold
  <1> DEFINE G == {i \in 1..N : bs[i].left = bs[g].left}
             U == {N - i : i \in G}
  <1>6. U \subseteq Nat /\ U # {}
    <2>1. \A i \in G : N - i \in Nat
      OBVIOUS
    <2>2. g \in G
      OBVIOUS
    <2> QED BY <2>1, <2>2
  <1>7. PICK u \in U : \A e \in U : u <= e
    BY <1>6, LeastNatural
  <1>8. PICK k \in G : u = N - k
    OBVIOUS
  <1>9. k \in 1..N /\ bs[k].left = bs[g].left
    BY <1>8
  <1>10. ASSUME NEW i \in 1..N, bs[i].left = bs[g].left PROVE i <= k
    <2>1. N - i \in U
      BY <1>10
    <2>2. N - k <= N - i
      <3> HIDE DEF U
      <3> QED BY <1>7, <1>8, <2>1
    <2> HIDE DEF U, G
    <2> QED BY <1>9, <2>2
  <1> HIDE DEF T, U, G
  <1>11. ASSUME NEW i \in 1..N, i # k PROVE Sack!Precedes(bs, i, k)
    BY <1>1, <1>5, <1>9, <1>10, <1>11 DEF Sack!Precedes
  <1> QED BY <1>9, <1>11

LEMMA SkSortsOne ==
    ASSUME NEW N \in Nat, NEW bs \in [1..(N + 1) -> SkBlock],
           \A cs \in [1..N -> SkBlock] : \E f : SkSorting(cs, f, N)
    PROVE  \E g : SkSorting(bs, g, N + 1)
  <1>1. PICK k \in 1..(N + 1) : \A i \in 1..(N + 1) : i = k \/ Sack!Precedes(bs, i, k)
    <2>1. N + 1 \in Nat \ {0}
      OBVIOUS
    <2> QED BY <2>1, SkGreatest
  <1> DEFINE up(i) == IF i < k THEN i ELSE i + 1
             cs == [i \in 1..N |-> bs[up(i)]]
  <1>2. /\ \A i \in 1..N : up(i) \in 1..(N + 1) /\ up(i) # k
        /\ \A i, j \in 1..N : (up(i) < up(j) <=> i < j) /\ (up(i) = up(j) => i = j)
        /\ \A x \in 1..(N + 1) : x # k => \E i \in 1..N : up(i) = x
    <2>1. /\ \A i \in 1..N : up(i) \in 1..(N + 1) /\ up(i) # k
          /\ \A i, j \in 1..N : (up(i) < up(j) <=> i < j) /\ (up(i) = up(j) => i = j)
      OBVIOUS
    <2>2. ASSUME NEW x \in 1..(N + 1), x # k PROVE \E i \in 1..N : up(i) = x
      <3>1. CASE x < k
        <4>1. x \in 1..N /\ up(x) = x
          BY <3>1
        <4> QED BY <4>1
      <3>2. CASE ~(x < k)
        <4>1. x - 1 \in 1..N /\ up(x - 1) = x
          BY <2>2, <3>2
        <4> QED BY <4>1
      <3> QED BY <3>1, <3>2
    <2> QED BY <2>1, <2>2
  <1> HIDE DEF up
  <1>3. cs \in [1..N -> SkBlock] /\ \A i \in 1..N : cs[i] = bs[up(i)]
    BY <1>2
  <1> HIDE DEF cs
  <1>4. PICK f : SkSorting(cs, f, N)
    BY <1>3
  <1> DEFINE g == [i \in 1..(N + 1) |-> IF i = N + 1 THEN k ELSE up(f[i])]
  <1>5. \A i \in 1..(N + 1) : i = N + 1 \/ i \in 1..N
    OBVIOUS
  <1>6. \A i \in 1..N : i \in 1..(N + 1) /\ i # N + 1 /\ f[i] \in 1..N
    BY <1>4 DEF SkSorting
  <1>7. N + 1 \in 1..(N + 1) /\ g[N + 1] = k /\ \A i \in 1..N : g[i] = up(f[i])
    BY <1>6
  <1>8. g \in [1..(N + 1) -> 1..(N + 1)]
    BY <1>2, <1>5, <1>6
  <1> HIDE DEF g
  <1>10. ASSUME NEW i \in 1..(N + 1), NEW j \in 1..(N + 1), g[i] = g[j] PROVE i = j
    <2>1. CASE i \in 1..N /\ j \in 1..N
      <3>1. f[i] = f[j]
        BY <1>2, <1>6, <1>7, <1>10, <2>1
      <3> QED BY <1>4, <2>1, <3>1 DEF SkSorting
    <2>2. CASE i = N + 1 \/ j = N + 1
      BY <1>2, <1>5, <1>6, <1>7, <1>10, <2>2
    <2> QED BY <1>5, <2>1, <2>2
  <1>11. ASSUME NEW x \in 1..(N + 1) PROVE \E i \in 1..(N + 1) : g[i] = x
    <2>1. CASE x = k
      BY <1>7, <2>1
    <2>2. CASE x # k
      <3>1. PICK y \in 1..N : up(y) = x
        BY <1>2, <2>2
      <3>2. PICK i \in 1..N : f[i] = y
        BY <1>4 DEF SkSorting
      <3> QED BY <1>6, <1>7, <3>1, <3>2
    <2> QED BY <2>1, <2>2
  <1>12. ASSUME NEW i \in 1..(N + 1), NEW j \in 1..(N + 1), i < j
         PROVE  Sack!Precedes(bs, g[i], g[j])
    <2>0. i \in 1..N
      BY <1>12
    <2>1. CASE j = N + 1
      <3>1. g[i] \in 1..(N + 1) /\ g[i] # k /\ g[j] = k
        BY <1>2, <1>6, <1>7, <1>8, <2>0, <2>1
      <3> QED BY <1>1, <3>1
    <2>2. CASE j \in 1..N
      <3>1. Sack!Precedes(cs, f[i], f[j])
        BY <1>4, <1>12, <2>0, <2>2 DEF SkSorting
      <3>2. /\ g[i] = up(f[i]) /\ g[j] = up(f[j]) /\ f[i] \in 1..N /\ f[j] \in 1..N
            /\ cs[f[i]] = bs[g[i]] /\ cs[f[j]] = bs[g[j]]
        BY <1>3, <1>6, <1>7, <2>0, <2>2
      <3>3. g[i] < g[j] <=> f[i] < f[j]
        BY <1>2, <3>2
      <3> QED BY <3>1, <3>2, <3>3 DEF Sack!Precedes
    <2> QED BY <1>5, <2>1, <2>2
  <1>13. SkSorting(bs, g, N + 1)
    BY <1>8, <1>10, <1>11, <1>12 DEF SkSorting
  <1> QED BY <1>13

LEMMA SkSorts ==
    ASSUME NEW bs \in Seq(SkBlock), Len(bs) <= MaxBlocks
    PROVE  Sack!sort_blocks(bs) # {}
  <1> DEFINE Sorts(n) == \A cs \in [1..n -> SkBlock] : \E f : SkSorting(cs, f, n)
             T == {n \in Nat : ~Sorts(n)}
  <1>1. Sorts(0)
    <2> TAKE cs \in [1..0 -> SkBlock]
    <2>1. [i \in 1..0 |-> i] \in [1..0 -> 1..0] /\ \A i \in 1..0 : FALSE
      OBVIOUS
    <2>2. SkSorting(cs, [i \in 1..0 |-> i], 0)
      BY <2>1 DEF SkSorting
    <2> QED BY <2>2
  <1>2. ASSUME NEW n \in Nat, Sorts(n) PROVE Sorts(n + 1)
    BY <1>2, SkSortsOne
  <1> HIDE DEF Sorts
  <1>3. T = {}
    <2> SUFFICES ASSUME T # {} PROVE FALSE
      OBVIOUS
    <2>1. PICK n \in T : \A k \in T : n <= k
      <3>1. T \subseteq Nat
        OBVIOUS
      <3> QED BY <3>1, LeastNatural
    <2>2. n \in Nat /\ ~Sorts(n)
      OBVIOUS
    <2>3. n # 0 /\ n - 1 \in Nat /\ (n - 1) + 1 = n
      BY <1>1, <2>2
    <2>4. n - 1 \notin T
      BY <2>1, <2>2, <2>3
    <2>5. Sorts(n - 1)
      BY <2>3, <2>4
    <2>6. Sorts((n - 1) + 1)
      BY <1>2, <2>3, <2>5
    <2> QED BY <2>2, <2>3, <2>6
  <1>4. PICK N : N = Len(bs)
    OBVIOUS
  <1>5. N \in Nat /\ N \in 0..MaxBlocks /\ DOMAIN bs = 1..N /\ Len(bs) = N /\ bs \in [1..N -> SkBlock]
    BY <1>4, LenProperties, SkConstantsHold
  <1>6. Sorts(N)
    BY <1>3, <1>5
  <1>7. PICK f : SkSorting(bs, f, N)
    BY <1>5, <1>6 DEF Sorts
  <1>8. f \in Sack!Orders[N]
    <2>1. Sack!Orders[N] = Sack!Bijection(1..N, 1..N)
      BY <1>5 DEF Sack!Orders
    <2>2. f \in [1..N -> 1..N] /\ \A i, j \in 1..N : f[i] = f[j] => i = j
      BY <1>7 DEF SkSorting
    <2>3. \A k \in 1..N : \E i \in 1..N : f[i] = k
      BY <1>7 DEF SkSorting
    <2>4. f \in Sack!Bijection(1..N, 1..N)
      BY <2>2, <2>3, Zenon DEF Sack!Bijection, Sack!Injection, Sack!Surjection, Sack!IsInjective
    <2> QED BY <2>1, <2>4
  <1>9. \A i, j \in 1..N : i < j => Sack!Precedes(bs, f[i], f[j])
    BY <1>7 DEF SkSorting
  <1>10. [i \in DOMAIN bs |-> bs[f[i]]] \in Sack!sort_blocks(bs)
    BY <1>5, <1>8, <1>9 DEF Sack!sort_blocks
  <1> QED BY <1>10

\* What nfs_sack_holes returns for the sorted board.
LEMMA SkHolesAreMissing ==
    ASSUME SackTypes, \A i \in 1..Len(blocks) : blocks[i].left < blocks[i].right,
           NEW s \in Sack!sort_blocks(blocks), NEW max \in Nat
    PROVE  Sack!HolesAreMissing(Sack!Holes(s, max), max)
  <1> DEFINE N == Len(blocks)
             hs == Sack!Holes(s, max)
  <1>1. /\ blocks \in Seq(SkBlock) /\ N \in Nat /\ DOMAIN blocks = 1..N /\ N <= MaxBlocks
        /\ cum_ack \in 0..SackTop /\ cum_ack \in Nat
    BY LenProperties, SkConstantsHold DEF SackTypes
  <1>2. PICK f : SkArranged(s, blocks, f)
    BY <1>1, SkArrangement
  <1>3. /\ s \in Seq(SkBlock) /\ Len(s) = N
        /\ \A i, j \in 1..N : i < j => s[i].left <= s[j].left
        /\ \A i \in 1..N : s[i] = blocks[f[i]] /\ f[i] \in 1..N
        /\ \A k \in 1..N : \E i \in 1..N : f[i] = k
    BY <1>2 DEF SkArranged
  <1> HIDE DEF N
  <1>4. \A i \in 1..N : s[i].left \in Nat /\ s[i].right \in Nat /\ s[i].left <= s[i].right
    <2> TAKE i \in 1..N
    <2>1. s[i] \in SkBlock /\ s[i] = blocks[f[i]] /\ f[i] \in 1..N
      BY <1>3, ElementOfSeq
    <2>2. s[i].left \in Nat /\ s[i].right \in Nat /\ s[i].left < s[i].right
      BY <2>1, SkBlockIs DEF N
    <2> QED BY <2>2
  <1>5. PICK acc : /\ hs = acc.holes /\ acc \in SkAcc /\ Len(acc.holes) <= max
                   /\ \E j \in 0..N : SkHoled(acc, j, s) /\ (Len(acc.holes) < max => j = N)
    BY <1>1, <1>3, <1>4, SkHoles
  <1>6. PICK j \in 0..N : SkHoled(acc, j, s) /\ (Len(acc.holes) < max => j = N)
    BY <1>5
  <1> HIDE DEF hs
  <1>7. /\ hs \in Seq(SkBlock) /\ Len(hs) \in Nat /\ Len(hs) <= max /\ acc.cursor \in Nat
        /\ \A i \in 1..Len(hs) : hs[i].right <= acc.cursor /\ hs[i].right \in Nat
    BY <1>5, <1>6, LenProperties, ElementOfSeq, SkBlockIs, SkConstantsHold DEF SkHoled, SkAcc
  <1>8. /\ \A x \in Nat : SkListed(x, hs)
              <=> /\ x >= cum_ack /\ \A k \in 1..j : ~SkIn(x, s[k])
                  /\ \E k \in 1..j : x < s[k].left
        /\ acc.cursor = cum_ack \/ \E k \in 1..j : acc.cursor = s[k].right
    BY <1>5, <1>6 DEF SkHoled
  <1>9. ASSUME NEW x \in 0..SackTop
        PROVE  x \in Sack!Missing
                 <=> /\ x >= cum_ack /\ \A k \in 1..N : ~SkIn(x, s[k])
                     /\ \E k \in 1..N : x < s[k].left
    <2>1. x \in Sack!Missing
            <=> /\ x >= cum_ack /\ \A i \in 1..N : ~SkIn(x, blocks[i])
                /\ \E i \in 1..N : x < blocks[i].left
      BY <1>1 DEF Sack!Missing, Sack!IsSacked, Sack!Covers, SkIn, SackTop
    <2>0. /\ \A k \in 1..N : \E i \in 1..N : s[k] = blocks[i]
          /\ \A i \in 1..N : \E k \in 1..N : s[k] = blocks[i]
      <3>1. ASSUME NEW i \in 1..N PROVE \E k \in 1..N : s[k] = blocks[i]
        <4>1. PICK k \in 1..N : f[k] = i
          BY <1>3
        <4> QED BY <1>3, <4>1
      <3> QED BY <1>3, <3>1
    <2>2. (\A i \in 1..N : ~SkIn(x, blocks[i])) <=> \A k \in 1..N : ~SkIn(x, s[k])
      BY <2>0
    <2>3. (\E i \in 1..N : x < blocks[i].left) <=> \E k \in 1..N : x < s[k].left
      BY <2>0
    <2> QED BY <2>1, <2>2, <2>3
  <1>10. \A k \in 1..j : k \in 1..N
    BY <1>1
  <1>11. ASSUME NEW x \in 0..SackTop, SkListed(x, hs) PROVE x \in Sack!Missing
    <2>0. x \in Nat
      BY SkConstantsHold
    <2>1. PICK k \in 1..j : x < s[k].left
      BY <1>8, <1>11, <2>0
    <2>2. ASSUME NEW i \in 1..N PROVE ~SkIn(x, s[i])
      <3>1. CASE i \in 1..j
        BY <1>8, <1>11, <2>0, <3>1
      <3>2. CASE i \notin 1..j
        <4>1. k \in 1..N /\ k < i
          BY <1>1, <3>2, <1>10
        <4>2. s[k].left <= s[i].left
          BY <1>3, <4>1
        <4> QED BY <1>4, <2>0, <2>1, <4>1, <4>2 DEF SkIn
      <3> QED BY <3>1, <3>2
    <2>3. x >= cum_ack
      BY <1>8, <1>11, <2>0
    <2> QED BY <1>9, <1>10, <2>1, <2>2, <2>3
  <1>12. ASSUME NEW x \in Sack!Missing, ~SkListed(x, hs)
         PROVE  Len(hs) = max /\ \A i \in 1..Len(hs) : hs[i].right <= x
    <2>1. x \in 0..SackTop /\ x \in Nat
      BY SkConstantsHold DEF Sack!Missing, SackTop
    <2>2. /\ x >= cum_ack /\ \A k \in 1..N : ~SkIn(x, s[k])
          /\ \E k \in 1..N : x < s[k].left
      BY <1>9, <2>1
    <2>3. \A k \in 1..j : s[k].left <= x
      <3>1. ~ \E k \in 1..j : x < s[k].left
        BY <1>8, <1>10, <1>12, <2>1, <2>2
      <3> QED BY <1>4, <1>10, <2>1, <3>1
    <2>4. j # N
      BY <1>4, <2>1, <2>2, <2>3
    <2>5. acc.cursor <= x
      <3>1. \A k \in 1..j : s[k].right <= x
        BY <1>4, <1>10, <2>1, <2>2, <2>3 DEF SkIn
      <3> QED BY <1>1, <1>8, <2>1, <2>2, <3>1
    <2>6. Len(hs) = max
      BY <1>5, <1>6, <1>7, <2>4
    <2> QED BY <1>7, <2>1, <2>5, <2>6
  <1>13. \A x : SkListed(x, hs) <=> \E i \in 1..Len(hs) : Sack!Covers(hs[i], x)
    BY DEF SkListed, SkIn, Sack!Covers
  <1> QED BY <1>7, <1>11, <1>12, <1>13 DEF Sack!HolesAreMissing, hs, SackTop

LEMMA SackBoard ==
    ASSUME Sack!NumbersDoNotWrap, SackInv
    PROVE  BoardIsExact
  <1> SUFFICES Sack!BoardIsExact
    BY DEF BoardIsExact
  <1>1. /\ blocks \in Seq(SkBlock) /\ Len(blocks) \in Nat /\ DOMAIN blocks = 1..Len(blocks)
        /\ Len(blocks) <= MaxBlocks /\ cum_ack \in 0..SackTop /\ cum_ack \in Nat
        /\ \A i \in 1..Len(blocks) : SkGood(blocks[i], held) /\ blocks[i] \in SkBlock
        /\ \A i, j \in 1..Len(blocks) : i # j => SkApart(blocks[i], blocks[j])
    BY LenProperties, SkConstantsHold DEF SackInv, SkBoard, SkGood
  <1>2. /\ \A x \in held : x \in Nat /\ Sack!Number(x) = x
        /\ \A p \in Sack!Positions : p \in Nat /\ Sack!Number(p) = p
    <2>1. \A p \in Sack!Positions : p \in 0..MaxSeq
      BY SkConstantsHold DEF Sack!Positions
    <2>2. held \subseteq Sack!Positions
      BY DEF SackInv
    <2> QED BY <2>1, <2>2, SkNumberIs
  <1>3. \A seq \in 0..(SackWord - 1) : Sack!IsSacked(seq) => \E p \in held : Sack!Number(p) = seq
    <2> TAKE seq \in 0..(SackWord - 1)
    <2> HAVE Sack!IsSacked(seq)
    <2>1. PICK i \in 1..Len(blocks) : SkIn(seq, blocks[i])
      BY <1>1 DEF Sack!IsSacked, Sack!Covers, SkIn
    <2>2. seq \in held
      BY <1>1, <2>1 DEF SkGood
    <2> QED BY <1>2, <2>2
  <1>4. \A i, j \in 1..Len(blocks) :
          /\ blocks[i].left < blocks[i].right
          /\ blocks[i].left <= blocks[j].left /\ i # j => blocks[i].right < blocks[j].left
    <2> TAKE i, j \in 1..Len(blocks)
    <2>1. /\ blocks[i].left \in Nat /\ blocks[i].right \in Nat /\ blocks[j].left \in Nat
          /\ blocks[j].right \in Nat /\ blocks[i].left < blocks[i].right /\ blocks[j].left < blocks[j].right
          /\ i # j => SkApart(blocks[i], blocks[j])
      BY <1>1, SkBlockIs DEF SkGood
    <2> QED BY <2>1 DEF SkApart
  <1>5. \A p \in Sack!Positions :
          Sack!Covers(latest, p) /\ Sack!Number(p) >= cum_ack
            => blocks # <<>> /\ Sack!Covers(blocks[1], Sack!Number(p))
    <2> TAKE p \in Sack!Positions
    <2>1. p \in Nat /\ Sack!Number(p) = p
      BY <1>2
    <2> QED BY <2>1 DEF SackInv, SkKnown, SkIn, Sack!Covers
  <1>6. PICK s \in Sack!sort_blocks(blocks) : TRUE
    BY <1>1, SkSorts
  <1>7. \A max \in 0..MaxBlocks : Sack!HolesAreMissing(Sack!Holes(s, max), max)
    <2> TAKE max \in 0..MaxBlocks
    <2>1. SackTypes
      BY <1>1 DEF SackInv, SackTypes
    <2>2. \A i \in 1..Len(blocks) : blocks[i].left < blocks[i].right
      BY <1>4
    <2> QED BY <2>1, <2>2, SkHolesAreMissing
  <1> QED BY <1>1, <1>3, <1>4, <1>5, <1>6, <1>7 DEF Sack!BoardIsExact

-----------------------------------------------------------------------------
\* The types of sliding_window.c.
SwTyped ==
    /\ SwInv /\ sw_buffer \in [0..(BufCap - 1) -> Byte] /\ sw_acked \in [0..(BufCap - 1) -> BOOLEAN]
    /\ sw_sent \in 0..MaxSent

LEMMA SwNextInWord ==
    ASSUME SwInv
    PROVE  next_seq \in 0..(SwWord - 1)
  <1>1. PICK x \in Int : x = base + Len(flight)
    BY LenProperties, SwConstantsHold DEF SwInv
  <1>2. (x % SwWord) \in 0..(SwWord - 1)
    BY SwConstantsHold, DivMod
  <1> QED BY <1>1, <1>2 DEF SwInv

LEMMA SwTypedInitially == SendWindow!Init => SwTyped
  <1> SUFFICES ASSUME SendWindow!Init PROVE SwTyped
    OBVIOUS
  <1>1. (CHOOSE b \in Byte : TRUE) \in Byte
    BY SwConstantsHold
  <1>2. sw_buffer \in [0..(BufCap - 1) -> Byte] /\ sw_acked \in [0..(BufCap - 1) -> BOOLEAN]
    BY <1>1 DEF SendWindow!Init
  <1>3. sw_sent \in 0..MaxSent
    BY SwConstantsHold DEF SendWindow!Init
  <1> QED BY <1>2, <1>3, SwInitially DEF SwTyped

LEMMA SwTypedStep ==
    ASSUME SwTyped, [SendWindow!Next]_swVars
    PROVE  SwTyped'
  <1>1. SwInv'
    BY SwStep DEF SwTyped
  <1>2. ASSUME NEW byte \in Byte, SendWindow!Send(byte) PROVE SwTyped'
    <2>1. (next_seq % BufCap) \in 0..(BufCap - 1)
      <3>1. next_seq \in Int
        BY SwNextInWord, SwConstantsHold DEF SwTyped
      <3> QED BY <3>1, SwConstantsHold, DivMod
    <2>2. /\ sw_buffer' = [sw_buffer EXCEPT ![next_seq % BufCap] = byte]
          /\ sw_acked' = [sw_acked EXCEPT ![next_seq % BufCap] = FALSE]
          /\ sw_sent < MaxSent /\ sw_sent' = sw_sent + 1
      BY <1>2 DEF SendWindow!Send
    <2>3. sw_buffer' \in [0..(BufCap - 1) -> Byte] /\ sw_acked' \in [0..(BufCap - 1) -> BOOLEAN]
      BY <2>2 DEF SwTyped
    <2>4. sw_sent' \in 0..MaxSent
      BY <2>2, SwConstantsHold DEF SwTyped
    <2> QED BY <1>1, <2>3, <2>4 DEF SwTyped
  <1>3. ASSUME NEW n \in SendWindow!Seqnum, SendWindow!Ack(n) PROVE SwTyped'
    <2>1. /\ sw_acked' = [i \in DOMAIN sw_acked |->
                 sw_acked[i] \/ \E s \in SendWindow!Seqnum : base <= s /\ s < n /\ s % BufCap = i]
          /\ sw_buffer' = sw_buffer /\ sw_sent' = sw_sent
      BY <1>3 DEF SendWindow!Ack
    <2>2. sw_acked' \in [0..(BufCap - 1) -> BOOLEAN]
      BY <2>1, Zenon DEF SwTyped
    <2> QED BY <1>1, <2>1, <2>2 DEF SwTyped
  <1>4. CASE UNCHANGED swVars
    BY <1>1, <1>4 DEF swVars, SwTyped
  <1> QED BY <1>2, <1>3, <1>4 DEF SendWindow!Next

LEMMA SwTypes == SwTyped => SendWindow!TypeOK
  BY SwNextInWord DEF SwTyped, SwInv, SendWindow!TypeOK, SendWindow!Seqnum

-----------------------------------------------------------------------------
\* The types of recv_win.c.
LEMMA RwTypes == RecvInv => RecvWindow!TypeOK
  <1> SUFFICES ASSUME RecvInv PROVE RecvWindow!TypeOK
    OBVIOUS
  <1> USE RecvConstantsHold
  <1>1. RecvTypes /\ SegsInStream /\ AcksPromise
    BY DEF RecvInv
  <1>2. buffer \in Seq(0..Total) /\ Len(buffer) <= Capacity
    <2>1. PICK n \in Nat : n = rw_nxt - consumed
      BY <1>1 DEF RecvTypes
    <2>2. buffer = [k \in 1..n |-> consumed + k - 1]
      BY <2>1 DEF RecvInv, Bytes
    <2>3. \A k \in 1..n : consumed + k - 1 \in 0..Total
      BY <1>1, <2>1 DEF RecvTypes
    <2>4. buffer \in [1..n -> 0..Total]
      BY <2>2, <2>3
    <2>5. buffer \in Seq(0..Total)
      BY <2>4
    <2> QED BY <2>5, BufferLength
  <1>3. segs \subseteq [seq : 0..Total, len : 1..Capacity]
    <2> SUFFICES ASSUME NEW m \in segs PROVE m \in [seq : 0..Total, len : 1..Capacity]
      OBVIOUS
    <2>1. m \in [seq : Nat, len : 1..Capacity] /\ m.seq + m.len <= Total
      BY <1>1 DEF SegsInStream
    <2>2. m.seq \in 0..Total
      BY <2>1
    <2> QED BY <2>1, <2>2
  <1>4. rw_acks \subseteq [ack : 0..Total, wnd : 0..Capacity]
    <2> SUFFICES ASSUME NEW a \in rw_acks PROVE a \in [ack : 0..Total, wnd : 0..Capacity]
      OBVIOUS
    <2>1. a \in [ack : Nat, wnd : 0..Capacity] /\ a.ack <= rw_nxt
      BY <1>1 DEF AcksPromise
    <2>2. a.ack \in 0..Total
      BY <1>1, <2>1 DEF RecvTypes
    <2> QED BY <2>1, <2>2
  <1>5. /\ rw_nxt \in 0..Total /\ consumed \in 0..Total /\ elapsed \in 0..Interval
        /\ rw_una \in 0..Total /\ rw_wnd \in 0..Capacity
    BY <1>1 DEF RecvTypes
  <1>6. active \in BOOLEAN
    BY DEF RecvInv
  <1> QED BY <1>2, <1>3, <1>4, <1>5, <1>6 DEF RecvWindow!TypeOK

-----------------------------------------------------------------------------
\* The types of tcb.c.
LEMMA TcbAddInWord ==
    ASSUME NEW i \in Int, NEW k \in Int
    PROVE  Tcb!SeqAdd(i, k) \in Tcb!Seqnums
  <1>1. PICK W : W = 2 * Half
    OBVIOUS
  <1>2. PICK x \in Int : x = i + k
    OBVIOUS
  <1>3. (x % W) \in 0..(W - 1)
    <2>1. W \in Nat \ {0}
      BY <1>1, TcbConstantsHold
    <2> QED BY <2>1, DivMod
  <1> QED BY <1>1, <1>2, <1>3 DEF Tcb!SeqAdd, Tcb!Seqnums, Tcb!Word

LEMMA TcbTypedInitially == Tcb!Init => Tcb!TypeOK
  <1> SUFFICES ASSUME Tcb!Init PROVE Tcb!TypeOK
    OBVIOUS
  <1>1. Tcb!Init
    OBVIOUS
  <1>2. iss \in Tcb!Seqnums /\ iss \in Int
    BY <1>1, TcbConstantsHold DEF Tcb!Init, Tcb!Seqnums, Tcb!Word
  <1>3. Tcb!SeqAdd(iss, 1) \in Tcb!Seqnums
    BY <1>2, TcbAddInWord
  <1>4. tcb_una = iss /\ irs = iss /\ tcb_nxt = Tcb!SeqAdd(iss, 1) /\ rcv_nxt = Tcb!SeqAdd(iss, 1)
    BY <1>1 DEF Tcb!Init
  <1>5. sent = 1 /\ got = 1 /\ done = 0 /\ tcb_acks = {} /\ snd_wnd = SndWnd
    BY <1>1 DEF Tcb!Init
  <1>6. {iss, tcb_una, tcb_nxt, irs, rcv_nxt} \subseteq Tcb!Seqnums
    BY <1>2, <1>3, <1>4
  <1>7. sent \in 1..TcbBytes /\ got \in 1..sent /\ done \in 0..got /\ snd_wnd \in 0..SndWnd /\ sent - done <= SndWnd
    BY <1>5, TcbConstantsHold
  <1> QED BY <1>5, <1>6, <1>7 DEF Tcb!TypeOK

LEMMA TcbTypedStep ==
    ASSUME TcbInv, Tcb!TypeOK, [Tcb!Next]_tcbVars
    PROVE  Tcb!TypeOK'
  <1>1. TcbInv'
    BY TcbStep
  <1>2. /\ iss \in Tcb!Seqnums /\ irs \in Tcb!Seqnums /\ iss \in Int
        /\ sent \in 1..TcbBytes /\ got \in 1..sent /\ tcb_acks \subseteq [num : Tcb!Seqnums, pos : 1..TcbBytes]
    BY DEF Tcb!TypeOK, TcbInv, TcbPositions
  <1>3. /\ sent' \in Nat /\ got' \in Nat /\ done' \in Nat /\ done' <= got' /\ got' <= sent'
        /\ sent' - done' <= SndWnd /\ snd_wnd' \in 0..SndWnd
    BY <1>1 DEF TcbInv, TcbPositions
  <1>4. iss' = iss /\ irs' = irs
    BY DEF Tcb!Next, Tcb!AdvanceSnd, Tcb!DataReceived, Tcb!AckReceived, Tcb!WindowUpdate, tcbVars
  <1>5. tcb_nxt' \in Tcb!Seqnums /\ tcb_una' \in Tcb!Seqnums /\ rcv_nxt' \in Tcb!Seqnums
    <2>1. /\ tcb_nxt' = Tcb!SeqAdd(iss, sent') /\ rcv_nxt' = Tcb!SeqAdd(iss, got')
          /\ tcb_una' = Tcb!SeqAdd(iss, done')
      BY <1>1, <1>4 DEF TcbInv, TcbNumbers, Tcb!SeqAdd
    <2>2. sent' \in Int /\ got' \in Int /\ done' \in Int
      BY <1>3
    <2> QED BY <1>2, <2>1, <2>2, TcbAddInWord
  <1>6. /\ sent' \in 1..TcbBytes /\ got' \in 1..sent'
        /\ tcb_acks' \subseteq [num : Tcb!Seqnums, pos : 1..TcbBytes]
    <2>1. ASSUME NEW n \in 1..SndWnd, Tcb!AdvanceSnd(n)
          PROVE  sent' \in 1..TcbBytes /\ got' \in 1..sent' /\ tcb_acks' = tcb_acks
      BY <1>2, <1>3, <2>1, TcbConstantsHold DEF Tcb!AdvanceSnd
    <2>2. ASSUME NEW n \in 0..SndWnd, Tcb!DataReceived(n)
          PROVE  /\ sent' \in 1..TcbBytes /\ got' \in 1..sent'
                 /\ tcb_acks' \subseteq [num : Tcb!Seqnums, pos : 1..TcbBytes]
      <3>1. /\ got + n <= sent /\ sent' = sent /\ got' = got + n /\ rcv_nxt' = Tcb!SeqAdd(rcv_nxt, n)
            /\ tcb_acks' = tcb_acks \cup {[num |-> Tcb!SeqAdd(rcv_nxt, n), pos |-> got + n]}
        BY <2>2 DEF Tcb!DataReceived
      <3>2. sent' \in 1..TcbBytes /\ got' \in 1..sent' /\ got + n \in 1..TcbBytes
        BY <1>2, <3>1, TcbConstantsHold
      <3>3. Tcb!SeqAdd(rcv_nxt, n) \in Tcb!Seqnums
        BY <1>5, <3>1
      <3> QED BY <1>2, <3>1, <3>2, <3>3
    <2>3. ASSUME NEW a \in tcb_acks, Tcb!AckReceived(a)
          PROVE  sent' = sent /\ got' = got /\ tcb_acks' \subseteq tcb_acks
      BY <2>3 DEF Tcb!AckReceived
    <2>4. ASSUME NEW w \in 0..SndWnd, Tcb!WindowUpdate(w)
          PROVE  sent' = sent /\ got' = got /\ tcb_acks' = tcb_acks
      BY <2>4 DEF Tcb!WindowUpdate
    <2>5. CASE UNCHANGED tcbVars
      BY <1>2, <2>5 DEF tcbVars
    <2> QED BY <1>2, <2>1, <2>2, <2>3, <2>4, <2>5 DEF Tcb!Next
  <1>7. done' \in 0..got'
    BY <1>3
  <1> QED BY <1>2, <1>3, <1>4, <1>5, <1>6, <1>7 DEF Tcb!TypeOK

-----------------------------------------------------------------------------
\* The types of retx_queue.c.
RqSegs == [pos : 0..RqBytes, len : 0..RqMss, age : 0..RetxQueue!MaxRto]

RqPlaces == [pos : 0..RqBytes, len : 0..RqMss]

LEMMA RqMaxRto == RetxQueue!MaxRto \in Nat /\ \A r \in Rtos : r <= RetxQueue!MaxRto
  <1>1. \E r \in Rtos : \A s \in Rtos : s <= r
    BY RqConstantsHold
  <1>2. RetxQueue!MaxRto \in Rtos /\ \A s \in Rtos : s <= RetxQueue!MaxRto
    BY <1>1, Zenon DEF RetxQueue!MaxRto
  <1> QED BY <1>2, RqConstantsHold

LEMMA RqTypedInitially == RetxQueue!Init => RetxQueue!TypeOK
  <1> SUFFICES ASSUME RetxQueue!Init PROVE RetxQueue!TypeOK
    OBVIOUS
  <1>1. q = <<>> /\ rq_nxt = 0 /\ una = 0 /\ rq_rcv = 0 /\ rq_wire = {} /\ rq_acks = {}
    BY DEF RetxQueue!Init
  <1>2. q \in Seq(RqSegs) /\ Len(q) = 0
    BY <1>1, EmptySeq
  <1> QED BY <1>1, <1>2, RqConstantsHold DEF RetxQueue!TypeOK, RqSegs

\* What TypeOK says, in the names used here.
RqTyped ==
    /\ q \in Seq(RqSegs) /\ Len(q) <= RqCapacity
    /\ rq_nxt \in 0..RqBytes /\ una \in 0..RqBytes /\ rq_rcv \in 0..RqBytes
    /\ rq_wire \subseteq RqPlaces /\ rq_acks \subseteq 0..RqBytes

LEMMA RqTypedIs == RqTyped <=> RetxQueue!TypeOK
  BY DEF RqTyped, RetxQueue!TypeOK, RqSegs, RqPlaces

\* A queue whose segments are all typed, of no more than n of them.
LEMMA RqTypedQueue ==
    ASSUME NEW n \in Nat, NEW s, s = [k \in 1..n |-> s[k]], \A k \in 1..n : s[k] \in RqSegs
    PROVE  s \in Seq(RqSegs) /\ Len(s) = n
  <1>1. s \in [1..n -> RqSegs]
    BY Zenon
  <1> QED BY <1>1

LEMMA RqTypedPush ==
    ASSUME RqTyped, NEW len \in 0..RqMss, RetxQueue!Push(len)
    PROVE  RqTyped'
  <1>1. /\ Len(q) < RqCapacity /\ rq_nxt + len <= RqBytes
        /\ q' = Append(q, [pos |-> rq_nxt, len |-> len, age |-> 0])
        /\ rq_nxt' = rq_nxt + len /\ rq_wire' = rq_wire \cup {[pos |-> rq_nxt, len |-> len]}
        /\ UNCHANGED <<una, rq_rcv, rq_acks>>
    BY DEF RetxQueue!Push, RetxQueue!HasRoom
  <1>2. [pos |-> rq_nxt, len |-> len, age |-> 0] \in RqSegs
    BY RqMaxRto DEF RqTyped, RqSegs
  <1>3. q' \in Seq(RqSegs) /\ Len(q') = Len(q) + 1
    BY <1>1, <1>2, AppendProperties DEF RqTyped
  <1>4. Len(q') <= RqCapacity
    <2>1. Len(q) \in Nat
      BY LenProperties DEF RqTyped
    <2> QED BY <1>1, <1>3, <2>1, RqConstantsHold
  <1>5. [pos |-> rq_nxt, len |-> len] \in RqPlaces
    BY DEF RqTyped, RqPlaces
  <1>6. rq_nxt' \in 0..RqBytes
    BY <1>1, RqConstantsHold DEF RqTyped
  <1> QED BY <1>1, <1>3, <1>4, <1>5, <1>6 DEF RqTyped

LEMMA RqTypedAck ==
    ASSUME RqTyped, NEW n \in rq_acks, RetxQueue!Ack(n)
    PROVE  RqTyped'
  <1> DEFINE K == RetxQueue!Kept(n)
  <1>1. PICK N : N = Len(q)
    OBVIOUS
  <1>2. N \in Nat /\ DOMAIN q = 1..N /\ N <= RqCapacity
    BY <1>1, LenProperties DEF RqTyped
  <1>3. K \subseteq 1..N
    BY <1>2 DEF RetxQueue!Kept
  <1> HIDE DEF K
  <1>4. IsFiniteSet(1..N) /\ Cardinality(1..N) = N
    <2>1. Cardinality(1..N) = IF 1 > N THEN 0 ELSE N - 1 + 1
      BY <1>2, FS_Interval
    <2> QED BY <1>2, <2>1, FS_Interval
  <1>5. IsFiniteSet(K) /\ Cardinality(K) \in Nat /\ Cardinality(K) <= N
    BY <1>3, <1>4, FS_Subset, FS_CardinalityType
  <1>6. PICK c : c = Cardinality(K)
    OBVIOUS
  <1>7. PICK place \in [1..c -> K] : q' = [j \in DOMAIN place |-> q[place[j]]]
    <2>1. RetxQueue!Cardinality(K) = c
      BY <1>6, RqSameCardinality, Zenon
    <2> QED BY <2>1, Zenon DEF RetxQueue!Ack, K
  <1>8. c \in Nat /\ c <= RqCapacity
    BY <1>2, <1>5, <1>6, RqConstantsHold
  <1>9. q' = [j \in 1..c |-> q[place[j]]] /\ \A j \in 1..c : place[j] \in 1..N
    BY <1>3, <1>7
  <1>10. \A j \in 1..c : q'[j] \in RqSegs
    <2>1. \A k \in 1..N : q[k] \in RqSegs
      BY <1>1, ElementOfSeq DEF RqTyped
    <2> QED BY <1>9, <2>1
  <1>11. q' \in Seq(RqSegs) /\ Len(q') = c
    <2>1. q' = [j \in 1..c |-> q'[j]]
      BY <1>9
    <2> QED BY <1>8, <1>10, <2>1, RqTypedQueue
  <1>12. /\ una' = IF n > una THEN n ELSE una
         /\ UNCHANGED <<rq_nxt, rq_rcv, rq_wire, rq_acks>>
    BY DEF RetxQueue!Ack
  <1>13. una' \in 0..RqBytes
    BY <1>12 DEF RqTyped
  <1> QED BY <1>8, <1>11, <1>12, <1>13 DEF RqTyped

\* The ages change.
LEMMA RqTypedAges ==
    ASSUME RqTyped, NEW F, q' = [k \in DOMAIN q |-> F[k]], \A k \in DOMAIN q : F[k] \in RqSegs
    PROVE  q' \in Seq(RqSegs) /\ Len(q') <= RqCapacity
  <1>1. PICK N : N = Len(q)
    OBVIOUS
  <1>2. N \in Nat /\ DOMAIN q = 1..N /\ N <= RqCapacity
    BY <1>1, LenProperties DEF RqTyped
  <1>3. q' = [k \in 1..N |-> q'[k]] /\ \A k \in 1..N : q'[k] \in RqSegs
    BY <1>2
  <1> QED BY <1>2, <1>3, RqTypedQueue

LEMMA RqSegTyped ==
    ASSUME RqTyped, NEW k \in DOMAIN q
    PROVE  q[k] \in RqSegs
  <1>1. k \in 1..Len(q)
    BY LenProperties DEF RqTyped
  <1> QED BY <1>1, ElementOfSeq DEF RqTyped

LEMMA RqTypedTimeout ==
    ASSUME RqTyped, NEW rto \in Rtos, RetxQueue!Timeout(rto)
    PROVE  RqTyped'
  <1> DEFINE F == [k \in DOMAIN q |-> IF RetxQueue!Due(q[k], rto) THEN [q[k] EXCEPT !.age = 0] ELSE q[k]]
  <1>1. /\ q' = F
        /\ rq_wire' = rq_wire \cup {RetxQueue!OnWire(q[k]) :
                                      k \in {j \in DOMAIN q : RetxQueue!Due(q[j], rto)}}
        /\ UNCHANGED <<rq_nxt, una, rq_rcv, rq_acks>>
    BY DEF RetxQueue!Timeout
  <1>2. ASSUME NEW k \in DOMAIN q PROVE F[k] \in RqSegs
    <2>1. q[k] \in RqSegs
      BY RqSegTyped
    <2>2. [q[k] EXCEPT !.age = 0] \in RqSegs
      BY <2>1, RqMaxRto DEF RqSegs
    <2> QED BY <2>1, <2>2
  <1>3. F = [k \in DOMAIN q |-> F[k]]
    OBVIOUS
  <1> HIDE DEF F
  <1>4. q' \in Seq(RqSegs) /\ Len(q') <= RqCapacity
    BY <1>1, <1>2, <1>3, RqTypedAges
  <1>5. \A k \in DOMAIN q : RetxQueue!OnWire(q[k]) \in RqPlaces
    BY RqSegTyped DEF RetxQueue!OnWire, RqSegs, RqPlaces
  <1> QED BY <1>1, <1>4, <1>5 DEF RqTyped

LEMMA RqTypedTick ==
    ASSUME RqTyped, RetxQueue!Tick
    PROVE  RqTyped'
  <1> DEFINE Older(seg) == [seg EXCEPT !.age = @ + 1]
             F == [k \in DOMAIN q |-> IF q[k].age < RetxQueue!MaxRto THEN Older(q[k]) ELSE q[k]]
  <1>1. q' = F /\ UNCHANGED <<rq_nxt, una, rq_rcv, rq_wire, rq_acks>>
    BY DEF RetxQueue!Tick
  <1>2. ASSUME NEW k \in DOMAIN q PROVE F[k] \in RqSegs
    <2>1. q[k] \in RqSegs
      BY RqSegTyped
    <2>2. q[k].age < RetxQueue!MaxRto => Older(q[k]) \in RqSegs
      BY <2>1, RqMaxRto DEF RqSegs
    <2> QED BY <2>1, <2>2
  <1>3. F = [k \in DOMAIN q |-> F[k]]
    OBVIOUS
  <1> HIDE DEF F
  <1>4. q' \in Seq(RqSegs) /\ Len(q') <= RqCapacity
    BY <1>1, <1>2, <1>3, RqTypedAges
  <1> QED BY <1>1, <1>4 DEF RqTyped

LEMMA RqTypedStep ==
    ASSUME RetxQueue!TypeOK, [RetxQueue!Next]_rqVars
    PROVE  RetxQueue!TypeOK'
  <1> SUFFICES RqTyped'
    BY DEF RqTyped, RetxQueue!TypeOK, RqSegs, RqPlaces
  <1>0. RqTyped
    BY RqTypedIs
  <1>1. ASSUME NEW len \in 0..RqMss, RetxQueue!Push(len) PROVE RqTyped'
    BY <1>0, <1>1, RqTypedPush
  <1>2. ASSUME NEW n \in rq_acks, RetxQueue!Ack(n) PROVE RqTyped'
    BY <1>0, <1>2, RqTypedAck
  <1>3. ASSUME NEW rto \in Rtos, RetxQueue!Timeout(rto) PROVE RqTyped'
    BY <1>0, <1>3, RqTypedTimeout
  <1>4. CASE RetxQueue!Tick
    BY <1>0, <1>4, RqTypedTick
  <1>5. ASSUME NEW m \in rq_wire, RetxQueue!PeerReceive(m) PROVE RqTyped'
    <2>1. PICK end \in rq_rcv..RqBytes : rq_rcv' = end /\ rq_acks' = rq_acks \cup {end}
      BY <1>5 DEF RetxQueue!PeerReceive
    <2>2. UNCHANGED <<q, rq_nxt, una, rq_wire>>
      BY <1>5 DEF RetxQueue!PeerReceive
    <2>3. end \in 0..RqBytes
      BY <1>0, RqConstantsHold DEF RqTyped
    <2> QED BY <1>0, <2>1, <2>2, <2>3 DEF RqTyped
  <1>6. CASE RetxQueue!Lose
    <2>1. /\ UNCHANGED <<q, rq_nxt, una, rq_rcv>>
          /\ rq_wire' \subseteq rq_wire /\ rq_acks' \subseteq rq_acks
      BY <1>6 DEF RetxQueue!Lose
    <2> QED BY <1>0, <2>1 DEF RqTyped
  <1>7. CASE UNCHANGED rqVars
    BY <1>0, <1>7 DEF rqVars, RqTyped
  <1> QED BY <1>1, <1>2, <1>3, <1>4, <1>5, <1>6, <1>7 DEF RetxQueue!Next

-----------------------------------------------------------------------------
\* The types of nagle.c.  p holds the positions of the stream at which the
\* segments in the network begin and end.
NgPositions(p, w, from, to) ==
    /\ p \in [0..Len(w) -> Nat] /\ p[0] = from /\ p[Len(w)] = to
    /\ \A k \in 1..Len(w) : p[k] = p[k - 1] + w[k]
    /\ \A k \in 0..Len(w) : p[k] <= to

NgTyped ==
    /\ enabled \in BOOLEAN /\ pending \in BOOLEAN
    /\ snd_nxt \in Nat /\ queued \in Nat /\ written \in 0..MaxBytes /\ snd_nxt + queued = written
    /\ snd_una \in 0..MaxBytes /\ rcv \in 0..MaxBytes /\ acked \in 0..MaxBytes
    /\ left \in 0..Delay /\ seg_count \in 0..1
    /\ wire \in Seq(1..Mss) /\ acks \in Seq(0..MaxBytes) /\ smalls \subseteq 0..MaxBytes
    /\ \E p : NgPositions(p, wire, rcv, snd_nxt)

\* A segment goes out.
LEMMA NgSent ==
    ASSUME NEW w \in Seq(1..Mss), NEW from \in Nat, NEW to \in Nat, NEW len \in 1..Mss,
           \E p : NgPositions(p, w, from, to)
    PROVE  \E p : NgPositions(p, Append(w, len), from, to + len)
  <1>1. PICK p : NgPositions(p, w, from, to)
    OBVIOUS
  <1>2. PICK N : N = Len(w)
    OBVIOUS
  <1>3. PICK v : v = Append(w, len)
    OBVIOUS
  <1>4. N \in Nat /\ Len(v) = N + 1 /\ v[N + 1] = len /\ \A k \in 1..N : v[k] = w[k]
    BY <1>2, <1>3, LenProperties, AppendProperties
  <1>5. /\ p \in [0..N -> Nat] /\ p[0] = from /\ p[N] = to
        /\ \A k \in 1..N : p[k] = p[k - 1] + w[k]
        /\ \A k \in 0..N : p[k] <= to
    BY <1>1, <1>2 DEF NgPositions
  <1>6. PICK r : r = [k \in 0..(N + 1) |-> IF k = N + 1 THEN to + len ELSE p[k]]
    OBVIOUS
  <1>7. len \in Nat /\ \A k \in 0..(N + 1) : k = N + 1 \/ k \in 0..N
    BY <1>4, NagleConstantsHold
  <1>8. r[N + 1] = to + len /\ \A k \in 0..N : r[k] = p[k]
    BY <1>4, <1>6
  <1>9. r \in [0..(N + 1) -> Nat]
    BY <1>5, <1>6, <1>7
  <1>10. r[0] = from
    BY <1>4, <1>5, <1>8
  <1>11. \A k \in 1..(N + 1) : r[k] = r[k - 1] + v[k]
    <2> TAKE k \in 1..(N + 1)
    <2>1. CASE k = N + 1
      <3>1. r[k] = to + len /\ r[k - 1] = to /\ v[k] = len
        <4>1. k - 1 = N /\ N \in 0..N
          BY <1>4, <2>1
        <4> QED BY <1>4, <1>5, <1>8, <2>1, <4>1
      <3> QED BY <3>1
    <2>2. CASE k # N + 1
      <3>1. k \in 1..N /\ k \in 0..N /\ k - 1 \in 0..N
        BY <1>4, <2>2
      <3> QED BY <1>4, <1>5, <1>8, <3>1
    <2> QED BY <2>1, <2>2
  <1>12. \A k \in 0..(N + 1) : r[k] <= to + len
    <2> TAKE k \in 0..(N + 1)
    <2>1. CASE k \in 0..N
      <3>1. r[k] <= to /\ r[k] \in Nat
        BY <1>5, <1>8, <2>1
      <3> QED BY <1>7, <3>1
    <2> QED BY <1>7, <1>8, <2>1
  <1>13. NgPositions(r, v, from, to + len)
    BY <1>4, <1>8, <1>9, <1>10, <1>11, <1>12 DEF NgPositions
  <1> QED BY <1>3, <1>13

\* The first one arrives.
LEMMA NgArrived ==
    ASSUME NEW w \in Seq(1..Mss), w # <<>>, NEW from, NEW to \in Nat,
           \E p : NgPositions(p, w, from, to)
    PROVE  /\ Tail(w) \in Seq(1..Mss) /\ from + Head(w) \in 0..to
           /\ \E p : NgPositions(p, Tail(w), from + Head(w), to)
  <1>1. PICK p : NgPositions(p, w, from, to)
    OBVIOUS
  <1>2. PICK N : N = Len(w)
    OBVIOUS
  <1>3. PICK v : v = Tail(w)
    OBVIOUS
  <1>4. N \in Nat \ {0} /\ v \in Seq(1..Mss) /\ Len(v) = N - 1 /\ \A k \in 1..(N - 1) : v[k] = w[k + 1]
    BY <1>2, <1>3, EmptySeq, LenProperties, HeadTailProperties
  <1>5. /\ p \in [0..N -> Nat] /\ p[0] = from /\ p[N] = to
        /\ \A k \in 1..N : p[k] = p[k - 1] + w[k]
        /\ \A k \in 0..N : p[k] <= to
    BY <1>1, <1>2 DEF NgPositions
  <1>6. Head(w) = w[1]
    OBVIOUS
  <1>7. p[1] = from + w[1] /\ p[1] \in 0..to
    <2>1. 1 \in 1..N /\ 1 \in 0..N /\ 1 - 1 = 0
      BY <1>4
    <2>2. p[1] = p[1 - 1] + w[1] /\ p[1] <= to /\ p[1] \in Nat
      BY <1>5, <2>1
    <2> QED BY <1>5, <2>1, <2>2
  <1>8. PICK r : r = [k \in 0..(N - 1) |-> p[k + 1]]
    OBVIOUS
  <1>9. \A k \in 0..(N - 1) : k + 1 \in 0..N /\ r[k] = p[k + 1]
    BY <1>4, <1>8
  <1>10. r \in [0..(N - 1) -> Nat]
    BY <1>5, <1>8, <1>9
  <1>11. r[0] = p[1] /\ r[N - 1] = to
    <2>1. 0 \in 0..(N - 1) /\ N - 1 \in 0..(N - 1) /\ 0 + 1 = 1 /\ (N - 1) + 1 = N
      BY <1>4
    <2> QED BY <1>5, <1>9, <2>1
  <1>12. \A k \in 1..(N - 1) : r[k] = r[k - 1] + v[k]
    <2> TAKE k \in 1..(N - 1)
    <2>1. k \in 0..(N - 1) /\ k - 1 \in 0..(N - 1) /\ (k - 1) + 1 = k /\ k + 1 \in 1..N /\ (k + 1) - 1 = k
      BY <1>4
    <2>2. r[k] = p[k + 1] /\ r[k - 1] = p[k] /\ v[k] = w[k + 1]
      BY <1>4, <1>9, <2>1
    <2>3. p[k + 1] = p[(k + 1) - 1] + w[k + 1]
      BY <1>5, <2>1
    <2> QED BY <2>1, <2>2, <2>3
  <1>13. \A k \in 0..(N - 1) : r[k] <= to
    BY <1>5, <1>9
  <1>14. NgPositions(r, v, p[1], to)
    BY <1>4, <1>10, <1>11, <1>12, <1>13 DEF NgPositions
  <1> QED BY <1>3, <1>4, <1>6, <1>7, <1>14

LEMMA NgTypedInitially == Nagle!Init => NgTyped
  <1> SUFFICES ASSUME Nagle!Init PROVE NgTyped
    OBVIOUS
  <1>1. /\ enabled = TRUE /\ snd_una = 0 /\ snd_nxt = 0 /\ pending = FALSE /\ left = 0 /\ seg_count = 0
        /\ queued = 0 /\ written = 0 /\ wire = <<>> /\ acks = <<>> /\ rcv = 0 /\ acked = 0 /\ smalls = {}
    BY DEF Nagle!Init
  <1>2. wire \in Seq(1..Mss) /\ acks \in Seq(0..MaxBytes) /\ Len(wire) = 0
    BY <1>1, EmptySeq
  <1>3. NgPositions([k \in 0..0 |-> 0], wire, rcv, snd_nxt)
    BY <1>1, <1>2 DEF NgPositions
  <1> QED BY <1>1, <1>2, <1>3, NagleConstantsHold DEF NgTyped

\* An acknowledgement is taken out of the network.
LEMMA NgRemoved ==
    ASSUME NEW S, NEW s \in Seq(S), NEW i \in 1..Len(s)
    PROVE  Nagle!RemoveAt(s, i) \in Seq(S)
  <1> DEFINE a == SubSeq(s, 1, i - 1)
             b == SubSeq(s, i + 1, Len(s))
  <1>1. Len(s) \in Nat /\ i - 1 \in Int /\ i + 1 \in Int
    BY LenProperties
  <1>2. a \in Seq(S)
    <2>1. \A k \in 1..(i - 1) : k \in 1..Len(s)
      BY <1>1
    <2>2. \A k \in 1..(i - 1) : s[k] \in S
      BY <2>1, ElementOfSeq
    <2> QED BY <1>1, <2>2, SubSeqProperties
  <1>3. b \in Seq(S)
    <2>1. \A k \in (i + 1)..Len(s) : k \in 1..Len(s)
      BY <1>1
    <2>2. \A k \in (i + 1)..Len(s) : s[k] \in S
      BY <2>1, ElementOfSeq
    <2> QED BY <1>1, <2>2, SubSeqProperties
  <1> HIDE DEF a, b
  <1>4. a \o b \in Seq(S)
    BY <1>2, <1>3, ConcatProperties
  <1>5. Nagle!RemoveAt(s, i) = a \o b
    BY Zenon DEF Nagle!RemoveAt, a, b
  <1> QED BY <1>4, <1>5

LEMMA NgTypedStep ==
    ASSUME NgTyped, [Nagle!Next]_nagleVars
    PROVE  NgTyped'
  <1> USE NagleConstantsHold
  <1>1. ASSUME NEW n \in 1..Mss, Nagle!Write(n) PROVE NgTyped'
    <2>1. /\ written + n <= MaxBytes /\ written' = written + n /\ queued' = queued + n
          /\ UNCHANGED <<enabled, snd_una, snd_nxt, smalls, pending, left, seg_count, rcv, acked, wire, acks>>
      BY <1>1 DEF Nagle!Write, Nagle!delackVars
    <2>2. queued' \in Nat /\ written' \in 0..MaxBytes /\ snd_nxt + queued' = written'
      BY <2>1 DEF NgTyped
    <2> QED BY <2>1, <2>2 DEF NgTyped
  <1>2. CASE Nagle!SendData
    <2>1. PICK len : len = IF queued < Mss THEN queued ELSE Mss
      OBVIOUS
    <2>2. /\ queued > 0 /\ snd_nxt' = snd_nxt + len /\ queued' = queued - len
          /\ wire' = Append(wire, len)
          /\ smalls' = IF enabled /\ len < Mss THEN smalls \cup {snd_nxt'} ELSE smalls
          /\ UNCHANGED <<enabled, snd_una, written, pending, left, seg_count, rcv, acked, acks>>
      BY <1>2, <2>1 DEF Nagle!SendData, Nagle!delackVars
    <2>3. len \in 1..Mss /\ len <= queued
      BY <2>1, <2>2 DEF NgTyped
    <2>4. /\ snd_nxt' \in Nat /\ queued' \in Nat /\ snd_nxt' + queued' = written /\ snd_nxt' \in 0..MaxBytes
      BY <2>2, <2>3 DEF NgTyped
    <2>5. wire' \in Seq(1..Mss)
      BY <2>2, <2>3, AppendProperties DEF NgTyped
    <2>6. \E p : NgPositions(p, wire', rcv, snd_nxt')
      <3>1. rcv \in Nat /\ snd_nxt \in Nat /\ wire \in Seq(1..Mss)
        BY DEF NgTyped
      <3>2. \E p : NgPositions(p, Append(wire, len), rcv, snd_nxt + len)
        BY <2>3, <3>1, NgSent DEF NgTyped
      <3> QED BY <2>2, <3>2
    <2>7. smalls' \subseteq 0..MaxBytes
      BY <2>2, <2>4 DEF NgTyped
    <2> QED BY <2>2, <2>4, <2>5, <2>6, <2>7 DEF NgTyped
  <1>3. ASSUME NEW on \in BOOLEAN, Nagle!SetNagle(on) PROVE NgTyped'
    <2>1. /\ enabled' = on
          /\ UNCHANGED <<snd_una, snd_nxt, queued, written, smalls, pending, left, seg_count, rcv, acked, wire, acks>>
      BY <1>3 DEF Nagle!SetNagle, Nagle!delackVars
    <2> QED BY <2>1 DEF NgTyped
  <1>4. ASSUME NEW i \in 1..Len(acks), Nagle!AckArrives(i) PROVE NgTyped'
    <2>1. /\ snd_una' = acks[i] /\ acks' = Nagle!RemoveAt(acks, i)
          /\ UNCHANGED <<enabled, snd_nxt, queued, written, smalls, pending, left, seg_count, rcv, acked, wire>>
      BY <1>4 DEF Nagle!AckArrives, Nagle!delackVars
    <2>2. acks[i] \in 0..MaxBytes
      BY ElementOfSeq DEF NgTyped
    <2>3. acks' \in Seq(0..MaxBytes)
      BY <2>1, NgRemoved DEF NgTyped
    <2> QED BY <2>1, <2>2, <2>3 DEF NgTyped
  <1>5. ASSUME rcv' \in 0..MaxBytes, Nagle!SendAck
        PROVE  /\ acks' \in Seq(0..MaxBytes) /\ acked' \in 0..MaxBytes /\ pending' \in BOOLEAN
               /\ left' \in 0..Delay /\ seg_count' \in 0..1
    <2>1. acks' = Append(acks, rcv') /\ acked' = rcv' /\ pending' = FALSE /\ left' = 0 /\ seg_count' = 0
      BY <1>5 DEF Nagle!SendAck
    <2>2. Append(acks, rcv') \in Seq(0..MaxBytes)
      BY <1>5, AppendProperties DEF NgTyped
    <2>3. 0 \in 0..Delay /\ 0 \in 0..1
      OBVIOUS
    <2> QED BY ONLY <1>5, <2>1, <2>2, <2>3
  <1>6. CASE Nagle!Receive
    <2>1. /\ wire # <<>> /\ rcv' = rcv + Head(wire) /\ wire' = Tail(wire)
          /\ UNCHANGED <<enabled, snd_una, snd_nxt, queued, written, smalls>>
      BY <1>6 DEF Nagle!Receive, Nagle!nagleVars
    <2>2. wire \in Seq(1..Mss) /\ snd_nxt \in Nat /\ snd_nxt <= MaxBytes
      BY DEF NgTyped
    <2>3. /\ wire' \in Seq(1..Mss) /\ rcv' \in 0..snd_nxt
          /\ \E p : NgPositions(p, wire', rcv', snd_nxt)
      <3>1. \E p : NgPositions(p, wire, rcv, snd_nxt)
        BY DEF NgTyped
      <3>2. /\ Tail(wire) \in Seq(1..Mss) /\ rcv + Head(wire) \in 0..snd_nxt
            /\ \E p : NgPositions(p, Tail(wire), rcv + Head(wire), snd_nxt)
        BY <2>1, <2>2, <3>1, NgArrived
      <3> QED BY <2>1, <3>2
    <2>4. rcv' \in 0..MaxBytes
      BY <2>2, <2>3
    <2>5. /\ acks' \in Seq(0..MaxBytes) /\ acked' \in 0..MaxBytes /\ pending' \in BOOLEAN
          /\ left' \in 0..Delay /\ seg_count' \in 0..1
      <3>1. CASE Nagle!SendAck
        BY <1>5, <2>4, <3>1
      <3>2. CASE ~Nagle!AckNow /\ seg_count' = seg_count + 1 /\ Nagle!StartTimer /\ UNCHANGED <<acks, acked>>
        <4>1. seg_count \in 0..1 /\ ~(seg_count + 1 >= 2)
          BY <3>2 DEF NgTyped, Nagle!AckNow
        <4>2. pending' = TRUE /\ left' = Delay
          BY <3>2 DEF Nagle!StartTimer
        <4> QED BY <3>2, <4>1, <4>2 DEF NgTyped
      <3> QED BY <1>6, <3>1, <3>2 DEF Nagle!Receive
    <2> QED BY <2>1, <2>3, <2>4, <2>5 DEF NgTyped
  <1>7. CASE Nagle!DelayedAck
    <2>1. rcv' = rcv /\ Nagle!SendAck /\ UNCHANGED <<enabled, snd_una, snd_nxt, queued, written, smalls, wire>>
      BY <1>7 DEF Nagle!DelayedAck, Nagle!nagleVars
    <2>2. rcv' \in 0..MaxBytes
      BY <2>1 DEF NgTyped
    <2> QED BY <1>5, <2>1, <2>2 DEF NgTyped
  <1>8. CASE Nagle!Tick
    <2>1. /\ left > 0 /\ left' = left - 1
          /\ UNCHANGED <<enabled, snd_una, snd_nxt, queued, written, smalls, pending, seg_count, rcv, acked, wire, acks>>
      BY <1>8 DEF Nagle!Tick, Nagle!nagleVars
    <2>2. left' \in 0..Delay
      BY <2>1 DEF NgTyped
    <2> QED BY <2>1, <2>2 DEF NgTyped
  <1>9. CASE UNCHANGED nagleVars
    BY <1>9 DEF nagleVars, NgTyped
  <1> QED BY <1>1, <1>2, <1>3, <1>4, <1>6, <1>7, <1>8, <1>9 DEF Nagle!Next

LEMMA NgTypes == NgTyped => Nagle!TypeOK
  <1> SUFFICES ASSUME NgTyped PROVE Nagle!TypeOK
    OBVIOUS
  <1>1. snd_nxt \in 0..MaxBytes /\ queued \in 0..MaxBytes
    BY NagleConstantsHold DEF NgTyped
  <1> QED BY <1>1 DEF NgTyped, Nagle!TypeOK

-----------------------------------------------------------------------------
\* The counters and buffers of all six parts keep their types: whatever a
\* lossy network does, no window exceeds what was configured, no queue or
\* scoreboard its capacity, no timer its delay, and no position or sequence
\* number leaves its range.
THEOREM FlowIsTyped == Spec => []TypeOK
  <1>1. Init => SwTyped /\ RetxQueue!TypeOK /\ NgTyped /\ TcbInv /\ Tcb!TypeOK /\ SackTypes
    BY SwTypedInitially, RqTypedInitially, NgTypedInitially, TcbInitially, TcbTypedInitially,
       SackTypedInitially DEF Init
  <1>2. ASSUME SwTyped, RetxQueue!TypeOK, NgTyped, TcbInv, Tcb!TypeOK, SackTypes, [Next]_vars
        PROVE  (SwTyped /\ RetxQueue!TypeOK /\ NgTyped /\ TcbInv /\ Tcb!TypeOK /\ SackTypes)'
    BY <1>2, FlowSteps, SwTypedStep, RqTypedStep, NgTypedStep, TcbStep, TcbTypedStep, SackTypedStep
  <1>3. ASSUME SwTyped, RetxQueue!TypeOK, NgTyped, Tcb!TypeOK, SackTypes, RecvInv PROVE TypeOK
    BY <1>3, SwTypes, RwTypes, NgTypes, SackTyped DEF TypeOK
  <1> QED BY <1>1, <1>2, <1>3, RecvInvariant, PTL DEF Spec

\* While the numbers of the stream do not come round (sack.c compares them
\* plainly; run sack_wrap shows what happens when they do), the scoreboard is
\* exact, however late, merged, trimmed or displaced the blocks are
\* (nfs_sack_add_block, nfs_sack_advance_cumack): it claims no byte the peer
\* lacks, its blocks are apart, what was reported last is in the first block,
\* and nfs_sack_holes offers missing bytes only, all of them or, for a caller
\* with room for fewer holes, the lowest ones.
THEOREM BoardExact == Sack!NumbersDoNotWrap /\ Spec => []BoardIsExact
  <1>1. Sack!NumbersDoNotWrap /\ Init => SackInv
    BY SackInitially DEF Init
  <1>2. Sack!NumbersDoNotWrap /\ SackInv /\ [Next]_vars => SackInv'
    BY FlowSteps, SackStep
  <1>3. Sack!NumbersDoNotWrap /\ SackInv => BoardIsExact
    BY SackBoard
  <1>4. Sack!NumbersDoNotWrap => Sack!NumbersDoNotWrap'
    BY DEF Sack!NumbersDoNotWrap
  <1> QED BY <1>1, <1>2, <1>3, <1>4, PTL DEF Spec
=============================================================================
