----------------------------- MODULE RdtProofs -----------------------------
(***************************************************************************)
(* Proofs about Rdt, for every payload alphabet, window, segment array and *)
(* receive buffer.  The inductive invariant ties the three copies of a     *)
(* segment (in the sender's array, in the network, in the receive buffer)  *)
(* to the history of accepted bytes through the segment offsets off.       *)
(***************************************************************************)
EXTENDS Rdt, SequenceTheorems, TLAPS

\* d is exactly the bytes nfs_rdt_send accepted as segment number q.
Carries(q, d) ==
    /\ q + 2 <= Len(off)
    /\ off[q + 2] = off[q + 1] + Len(d)
    /\ \A i \in 1..Len(d) : sent[off[q + 1] + i] = d[i]

OffsetsInv ==
    /\ Len(off) >= 1
    /\ off[1] = 0
    /\ off[Len(off)] = Len(sent)
    /\ \A k \in 1..Len(off) : off[k] <= Len(sent)

SenderInv ==
    /\ base <= Len(segments)
    /\ Len(segments) - base <= window_size
    /\ next_seq = Len(segments)
    /\ window_size > 0 => Len(off) = Len(segments) + 1
    /\ \A k \in 1..Len(segments) :
          segments[k].seq = k - 1 /\ Carries(segments[k].seq, segments[k].data)

NetInv ==
    /\ \A m \in net : Carries(m.seq, m.data)
    /\ \A a \in acks : a <= expected_seq

ReceiverInv ==
    /\ expected_seq + 1 <= Len(off)
    /\ base <= expected_seq
    /\ Len(recv_buf) = IF off[expected_seq + 1] < RecvBuf
                       THEN off[expected_seq + 1] ELSE RecvBuf
    /\ \A i \in 1..Len(recv_buf) : recv_buf[i] = sent[i]

IInv == TypeOK /\ OffsetsInv /\ SenderInv /\ NetInv /\ ReceiverInv

\* A payload is a nonempty sequence of bytes.
LEMMA PayloadIsSeq ==
    ASSUME NEW d \in Payload
    PROVE  d \in Seq(Byte) /\ Len(d) \in Nat \ {0} /\ Len(d) <= MaxData
  <1>1. PICK n \in 1..MaxData : d \in [1..n -> Byte]
    BY DEF Payload
  <1>2. n \in Nat /\ d \in Seq(Byte) /\ Len(d) = n
    BY <1>1, RdtConstants
  <1> QED BY <1>1, <1>2, RdtConstants

\* The elements and lengths of the sequences the state is made of.
LEMMA SeqFacts ==
    ASSUME TypeOK
    PROVE  /\ Len(off) \in Nat
           /\ \A k \in 1..Len(off) : off[k] \in Nat
           /\ Len(segments) \in Nat
           /\ \A k \in 1..Len(segments) : /\ segments[k].seq \in Nat
                                          /\ segments[k].data \in Payload
           /\ DOMAIN segments = 1..Len(segments)
           /\ Len(sent) \in Nat
           /\ Len(recv_buf) \in Nat
           /\ \A m \in net : m.seq \in Nat /\ m.data \in Payload
  <1>1. \A k \in 1..Len(off) : off[k] \in Nat
    BY ElementOfSeq DEF TypeOK
  <1>2. \A k \in 1..Len(segments) :
          segments[k] \in [seq : Nat, data : Payload, acked : BOOLEAN]
    BY ElementOfSeq DEF TypeOK
  <1> QED BY <1>1, <1>2, LenProperties DEF TypeOK, Segment

\* The initial state satisfies the inductive invariant.
LEMMA InitIInv == Init => IInv
  BY RdtConstants
  DEF Init, IInv, TypeOK, OffsetsInv, SenderInv, NetInv, ReceiverInv,
      Segment

\* Appending accepted bytes and their offset disturbs no segment's bytes.
LEMMA HistoryExtends ==
    ASSUME NEW d \in Payload, TypeOK, OffsetsInv,
           sent' = sent \o d, off' = Append(off, Len(sent) + Len(d))
    PROVE  /\ sent' \in Seq(Byte)
           /\ off' \in Seq(Nat)
           /\ Len(sent') = Len(sent) + Len(d)
           /\ Len(off') = Len(off) + 1
           /\ \A i \in 1..Len(sent) : sent'[i] = sent[i]
           /\ \A i \in 1..Len(d) : sent'[Len(sent) + i] = d[i]
           /\ \A k \in 1..Len(off) : off'[k] = off[k]
           /\ off'[Len(off) + 1] = Len(sent) + Len(d)
  <1> USE PayloadIsSeq DEF TypeOK, OffsetsInv
  <1>1. sent \in Seq(Byte) /\ off \in Seq(Nat) /\ d \in Seq(Byte)
    OBVIOUS
  <1>2. Len(sent) + Len(d) \in Nat
    BY <1>1
  <1>3. Len(off') = Len(off) + 1 /\ off' \in Seq(Nat)
    BY <1>1, <1>2
  <1>4. \A k \in 1..Len(off) : off'[k] = off[k]
    BY <1>1, <1>2
  <1>5. off'[Len(off) + 1] = Len(sent) + Len(d)
    BY <1>1, <1>2
  <1>6. sent' \in Seq(Byte) /\ Len(sent') = Len(sent) + Len(d)
    BY <1>1
  <1>7. \A i \in 1..Len(sent) : sent'[i] = sent[i]
    BY <1>1
  <1>8. \A i \in 1..Len(d) : sent'[Len(sent) + i] = d[i]
    BY <1>1
  <1> QED BY <1>3, <1>4, <1>5, <1>6, <1>7, <1>8

\* nfs_rdt_send changes the bytes of no earlier segment.
LEMMA SendCarries ==
    ASSUME NEW d \in Payload, TypeOK, OffsetsInv,
           sent' = sent \o d, off' = Append(off, Len(sent) + Len(d)),
           NEW q \in Nat, NEW p \in Payload, Carries(q, p)
    PROVE  Carries(q, p)'
  <1>1. /\ Len(off) \in Nat /\ Len(sent) \in Nat /\ Len(p) \in Nat
        /\ \A k \in 1..Len(off) : off[k] \in Nat
    BY SeqFacts, PayloadIsSeq
  <1>2. q + 2 <= Len(off) /\ off[q + 2] = off[q + 1] + Len(p)
    BY DEF Carries
  <1>3. q + 1 \in 1..Len(off) /\ q + 2 \in 1..Len(off)
    BY <1>1, <1>2
  <1>4. /\ off[q + 1] \in Nat /\ off[q + 2] \in Nat
        /\ off[q + 2] <= Len(sent)
    BY <1>1, <1>3 DEF OffsetsInv
  <1>5. \A i \in 1..Len(p) : off[q + 1] + i \in 1..Len(sent)
    BY <1>1, <1>2, <1>4, SMTT(60)
  <1>6. /\ Len(off') = Len(off) + 1
        /\ \A i \in 1..Len(sent) : sent'[i] = sent[i]
        /\ \A k \in 1..Len(off) : off'[k] = off[k]
    BY HistoryExtends
  <1>7. off'[q + 1] = off[q + 1] /\ off'[q + 2] = off[q + 2]
    BY <1>3, <1>6
  <1>8. \A i \in 1..Len(p) : sent'[off'[q + 1] + i] = p[i]
    BY <1>5, <1>6, <1>7 DEF Carries
  <1>9. q + 2 <= Len(off')
    BY <1>1, <1>2, <1>6
  <1> QED
    BY <1>2, <1>7, <1>8, <1>9 DEF Carries

\* nfs_rdt_send preserves the invariant.
LEMMA SendIInv ==
    ASSUME IInv, NEW data \in Payload, Send(data)
    PROVE  IInv'
  <1> DEFINE seg == [seq |-> next_seq, data |-> data, acked |-> FALSE]
             msg == [seq |-> next_seq, data |-> data]
  <1>1. TypeOK /\ OffsetsInv /\ SenderInv /\ NetInv /\ ReceiverInv
    BY DEF IInv
  <1>2. /\ sent' \in Seq(Byte) /\ off' \in Seq(Nat)
        /\ Len(sent') = Len(sent) + Len(data)
        /\ Len(off') = Len(off) + 1
        /\ \A i \in 1..Len(sent) : sent'[i] = sent[i]
        /\ \A i \in 1..Len(data) : sent'[Len(sent) + i] = data[i]
        /\ \A k \in 1..Len(off) : off'[k] = off[k]
        /\ off'[Len(off) + 1] = Len(sent) + Len(data)
    BY <1>1, HistoryExtends DEF Send
  <1>3. data \in Seq(Byte) /\ Len(data) \in Nat \ {0}
    BY PayloadIsSeq
  <1>4. window_size > 0 /\ Len(off) = Len(segments) + 1 /\ next_seq = Len(segments)
    BY <1>1 DEF Send, InFlight, Count, SenderInv, TypeOK
  <1>5. /\ segments' \in Seq([seq : Nat, data : Payload, acked : BOOLEAN])
        /\ Len(segments') = Len(segments) + 1
        /\ \A k \in 1..Len(segments) : segments'[k] = segments[k]
        /\ segments'[Len(segments) + 1] = seg
    <2>1. seg \in [seq : Nat, data : Payload, acked : BOOLEAN]
      BY <1>1 DEF TypeOK
    <2> QED BY <1>1, <2>1 DEF Send, TypeOK
  <1>6. TypeOK'
    <2>1. Len(segments') <= MaxSegs
      BY <1>1, <1>5, RdtConstants DEF Send, Count, TypeOK
    <2>2. net' \subseteq Segment
      BY <1>1 DEF Send, TypeOK, Segment
    <2> QED BY <1>1, <1>2, <1>5, <2>1, <2>2 DEF Send, TypeOK, receiverVars
  <1>7. OffsetsInv'
    <2>1. Len(off) \in Nat /\ Len(sent) \in Nat /\ \A k \in 1..Len(off) : off[k] \in Nat
      BY <1>1, SeqFacts
    <2>2. \A k \in 1..Len(off') : k \in 1..Len(off) \/ k = Len(off) + 1
      BY <1>2, <2>1
    <2>3. ASSUME NEW k \in 1..Len(off') PROVE off'[k] <= Len(sent')
      <3>1. CASE k \in 1..Len(off)
        <4>1. off'[k] = off[k] /\ off[k] <= Len(sent) /\ off[k] \in Nat
          BY <1>1, <1>2, <2>1, <3>1 DEF OffsetsInv
        <4> QED BY <1>2, <1>3, <2>1, <4>1
      <3>2. CASE k = Len(off) + 1
        BY <1>2, <1>3, <2>1, <3>2
      <3> QED BY <2>2, <3>1, <3>2
    <2> QED BY <1>1, <1>2, <2>1, <2>3 DEF OffsetsInv
  <1>8. /\ next_seq + 2 <= Len(off')
        /\ off'[next_seq + 2] = off'[next_seq + 1] + Len(data)
        /\ \A i \in 1..Len(data) : sent'[off'[next_seq + 1] + i] = data[i]
    <2>1. off'[Len(off)] = Len(sent)
      BY <1>1, <1>2, SeqFacts, SMTT(60) DEF OffsetsInv
    <2>2. next_seq + 1 = Len(off) /\ next_seq + 2 = Len(off) + 1
      BY <1>1, <1>4, SeqFacts DEF TypeOK
    <2>3. off'[next_seq + 1] = Len(sent)
      BY <2>1, <2>2
    <2>4. off'[next_seq + 2] = Len(sent) + Len(data)
      BY <1>2, <2>2
    <2>5. next_seq + 2 <= Len(off')
      BY <1>1, <1>2, <2>2, SeqFacts
    <2> QED BY <1>2, <2>3, <2>4, <2>5
  <1>9. SenderInv'
    <2>1. /\ base' <= Len(segments')
          /\ Len(segments') - base' <= window_size'
          /\ next_seq' = Len(segments')
          /\ Len(off') = Len(segments') + 1
      BY <1>1, <1>2, <1>4, <1>5, SMTT(60) DEF Send, SenderInv, InFlight, Count, TypeOK
    <2>2. ASSUME NEW k \in 1..Len(segments')
          PROVE  segments'[k].seq = k - 1 /\ Carries(segments[k].seq, segments[k].data)'
      <3>1. CASE k \in 1..Len(segments)
        <4>1. segments[k].seq \in Nat /\ segments[k].data \in Payload
          BY <1>1, <3>1, SeqFacts
        <4>2. segments[k].seq = k - 1 /\ Carries(segments[k].seq, segments[k].data)
          BY <1>1, <3>1 DEF SenderInv
        <4>3. segments'[k] = segments[k]
          BY <1>5, <3>1
        <4> DEFINE q == segments[k].seq
                   p == segments[k].data
        <4>4. \A qq \in Nat, pp \in Payload : Carries(qq, pp) => Carries(qq, pp)'
          BY <1>1, SendCarries DEF Send
        <4>5. /\ q + 2 <= Len(off')
              /\ off'[q + 2] = off'[q + 1] + Len(p)
              /\ \A i \in 1..Len(p) : sent'[off'[q + 1] + i] = p[i]
          BY <4>1, <4>2, <4>4 DEF Carries
        <4> QED BY <4>2, <4>3, <4>5 DEF Carries
      <3>2. CASE k = Len(segments) + 1
        <4>1. segments'[k] = seg
          BY <1>5, <3>2
        <4> QED BY <1>1, <1>4, <1>8, <3>2, <4>1, SMTT(60) DEF Carries, TypeOK
      <3> QED BY <1>1, <1>5, <3>1, <3>2 DEF TypeOK
    <2> QED BY <2>1, <2>2 DEF SenderInv
  <1>10. NetInv'
    <2>1. ASSUME NEW m \in net' PROVE Carries(m.seq, m.data)'
      <3>1. CASE m \in net
        <4>1. m.seq \in Nat /\ m.data \in Payload
          BY <1>1, <3>1, SeqFacts
        <4>2. Carries(m.seq, m.data)
          BY <1>1, <3>1 DEF NetInv
        <4> QED BY <1>1, <4>1, <4>2, SendCarries DEF Send, Carries
      <3>2. CASE m = msg
        BY <1>8, <3>2 DEF Carries
      <3> QED BY <3>1, <3>2 DEF Send
    <2> QED BY <1>1, <2>1 DEF NetInv, Send, receiverVars
  <1>11. ReceiverInv'
    <2>1. /\ expected_seq + 1 \in 1..Len(off) /\ off[expected_seq + 1] <= Len(sent)
          /\ off[expected_seq + 1] \in Nat
      BY <1>1, SeqFacts DEF ReceiverInv, OffsetsInv, TypeOK
    <2>2. off'[expected_seq + 1] = off[expected_seq + 1]
      BY <1>2, <2>1
    <2>3. Len(recv_buf) <= Len(sent) /\ Len(recv_buf) \in Nat
      BY <1>1, <2>1, RdtConstants DEF ReceiverInv, TypeOK
    <2>4. \A i \in 1..Len(recv_buf) : sent'[i] = recv_buf[i]
      <3>1. \A i \in 1..Len(recv_buf) : i \in 1..Len(sent)
        BY <1>1, <2>3, SeqFacts
      <3> QED BY <1>1, <1>2, <3>1 DEF ReceiverInv
    <2>5. UNCHANGED <<expected_seq, recv_buf, base>>
      BY DEF Send, receiverVars
    <2>6. expected_seq + 1 <= Len(off')
      BY <1>1, <1>2, <2>1, SeqFacts DEF TypeOK
    <2> QED BY <1>1, <2>2, <2>4, <2>5, <2>6 DEF ReceiverInv
  <1> QED BY <1>6, <1>7, <1>9, <1>10, <1>11 DEF IInv

\* nfs_rdt_ack: base moves only over segments the receiver has taken.
LEMMA AckIInv ==
    ASSUME IInv, NEW a \in acks, Ack(a)
    PROVE  IInv'
  <1>1. TypeOK /\ OffsetsInv /\ SenderInv /\ NetInv /\ ReceiverInv
    BY DEF IInv
  <1>2. PICK b \in base..Count :
          /\ \A i \in base..(b - 1) : AckCovers(segments[i + 1].seq, a)
          /\ base' = b
          /\ segments' = [k \in DOMAIN segments |->
                            IF k \in (base + 1)..b
                            THEN [segments[k] EXCEPT !.acked = TRUE]
                            ELSE segments[k]]
    BY DEF Ack
  <1>3. /\ next_seq' = next_seq /\ window_size' = window_size
        /\ expected_seq' = expected_seq /\ recv_buf' = recv_buf
        /\ net' = net /\ acks' = acks /\ sent' = sent /\ off' = off
    BY DEF Ack, receiverVars, netVars, history
  <1>4. /\ base \in Nat /\ Len(segments) \in Nat /\ b \in Nat
        /\ base <= b /\ b <= Len(segments) /\ a \in Nat /\ expected_seq \in Nat
        /\ DOMAIN segments = 1..Len(segments)
        /\ segments \in Seq([seq : Nat, data : Payload, acked : BOOLEAN])
    BY <1>1, <1>2 DEF TypeOK, Count
  <1>5. /\ segments' \in Seq([seq : Nat, data : Payload, acked : BOOLEAN])
        /\ Len(segments') = Len(segments)
        /\ \A k \in 1..Len(segments) : /\ segments'[k].seq = segments[k].seq
                                       /\ segments'[k].data = segments[k].data
    <2>1. \A k \in 1..Len(segments) :
            segments[k] \in [seq : Nat, data : Payload, acked : BOOLEAN]
      BY <1>4, ElementOfSeq
    <2>2. \A k \in 1..Len(segments) :
             /\ segments'[k] \in [seq : Nat, data : Payload, acked : BOOLEAN]
             /\ segments'[k].seq = segments[k].seq
             /\ segments'[k].data = segments[k].data
      BY <1>2, <1>4, <2>1
    <2>3. segments' \in [1..Len(segments) -> [seq : Nat, data : Payload, acked : BOOLEAN]]
      BY <1>2, <1>4, <2>2
    <2>4. /\ segments' \in Seq([seq : Nat, data : Payload, acked : BOOLEAN])
          /\ Len(segments') = Len(segments)
      BY <1>4, <2>3, SMTT(60)
    <2> QED BY <2>2, <2>4
  <1>6. b <= expected_seq
    <2>1. CASE b = base
      BY <1>1, <2>1 DEF ReceiverInv
    <2>2. CASE b > base
      <3>1. b - 1 \in base..(b - 1) /\ b \in 1..Len(segments)
        BY <1>4, <2>2
      <3>2. segments[b].seq < a
        <4>1. AckCovers(segments[(b - 1) + 1].seq, a)
          BY <1>2, <3>1
        <4>2. (b - 1) + 1 = b
          BY <1>4
        <4> QED BY <4>1, <4>2 DEF AckCovers
      <3>3. segments[b].seq = b - 1
        BY <1>1, <3>1 DEF SenderInv
      <3>4. a <= expected_seq
        BY <1>1 DEF NetInv
      <3> QED BY <1>4, <3>2, <3>3, <3>4
    <2> QED BY <1>4, <2>1, <2>2
  <1>7. TypeOK'
    BY <1>1, <1>2, <1>3, <1>4, <1>5 DEF TypeOK
  <1>8. OffsetsInv'
    BY <1>1, <1>3 DEF OffsetsInv
  <1>9. SenderInv'
    <2>1. ASSUME NEW k \in 1..Len(segments')
          PROVE  segments'[k].seq = k - 1 /\ Carries(segments[k].seq, segments[k].data)'
      <3>1. segments[k].seq = k - 1 /\ Carries(segments[k].seq, segments[k].data)
        BY <1>1, <1>5 DEF SenderInv
      <3> QED BY <1>3, <1>5, <3>1 DEF Carries
    <2>2. Len(segments) - base' <= window_size
      BY <1>1, <1>2, <1>4 DEF SenderInv, TypeOK
    <2> QED BY <1>1, <1>2, <1>3, <1>4, <1>5, <2>1, <2>2 DEF SenderInv
  <1>10. NetInv'
    BY <1>1, <1>3 DEF NetInv, Carries
  <1>11. ReceiverInv'
    BY <1>1, <1>2, <1>3, <1>6 DEF ReceiverInv
  <1> QED BY <1>7, <1>8, <1>9, <1>10, <1>11 DEF IInv

\* nfs_rdt_timeout puts back into the network only what is in segments[].
LEMMA TimeoutIInv ==
    ASSUME IInv, Timeout
    PROVE  IInv'
  <1>1. TypeOK /\ OffsetsInv /\ SenderInv /\ NetInv /\ ReceiverInv
    BY DEF IInv
  <1>2. UNCHANGED <<segments, base, next_seq, window_size, expected_seq,
                    recv_buf, acks, sent, off>>
    BY DEF Timeout, senderVars, receiverVars, history
  <1>3. WindowEnd <= Len(segments) /\ WindowEnd \in Nat
    BY <1>1, RdtConstants DEF WindowEnd, Count, TypeOK
  <1>4. ASSUME NEW m \in net' PROVE m \in Segment /\ Carries(m.seq, m.data)
    <2>1. CASE m \in net
      BY <1>1, <2>1 DEF NetInv, TypeOK
    <2>2. CASE m \notin net
      <3>1. PICK k \in (base + 1)..WindowEnd :
              m = [seq |-> segments[k].seq, data |-> segments[k].data]
        BY <2>2 DEF Timeout
      <3>2. k \in 1..Len(segments)
        BY <1>1, <1>3, <3>1 DEF TypeOK
      <3>3. segments[k].seq \in Nat /\ segments[k].data \in Payload
        BY <1>1, <3>2, SeqFacts
      <3>4. Carries(segments[k].seq, segments[k].data)
        BY <1>1, <3>2 DEF SenderInv
      <3> QED BY <3>1, <3>3, <3>4 DEF Segment, Carries
    <2> QED BY <2>1, <2>2
  <1>5. TypeOK'
    BY <1>1, <1>2, <1>4 DEF TypeOK
  <1>6. OffsetsInv' /\ ReceiverInv'
    BY <1>1, <1>2 DEF OffsetsInv, ReceiverInv
  <1>7. SenderInv'
    BY <1>1, <1>2 DEF SenderInv, Carries
  <1>8. NetInv'
    BY <1>1, <1>2, <1>4 DEF NetInv, Carries
  <1> QED BY <1>5, <1>6, <1>7, <1>8 DEF IInv

\* nfs_rdt_sender_free empties the sender; network and receiver live on.
LEMMA SenderFreeIInv ==
    ASSUME IInv, SenderFree
    PROVE  IInv'
  <1>1. UNCHANGED <<expected_seq, recv_buf, net, acks, sent, off>>
    BY DEF SenderFree, receiverVars, netVars, history
  <1>2. segments' = <<>> /\ base' = 0 /\ next_seq' = 0 /\ window_size' = 0
    BY DEF SenderFree
  <1>3. TypeOK'
    BY <1>1, <1>2, RdtConstants DEF IInv, TypeOK
  <1>4. OffsetsInv'
    BY <1>1 DEF IInv, OffsetsInv
  <1>5. SenderInv'
    BY <1>2 DEF SenderInv
  <1>6. NetInv'
    BY <1>1 DEF IInv, NetInv, Carries
  <1>7. ReceiverInv'
    BY <1>1, <1>2 DEF IInv, ReceiverInv, TypeOK
  <1> QED BY <1>3, <1>4, <1>5, <1>6, <1>7 DEF IInv

\* nfs_rdt_receive, in order: the copied bytes are the next bytes of sent.
LEMMA ReceiveInOrderIInv ==
    ASSUME IInv, NEW m \in net, ReceiveInOrder(m)
    PROVE  IInv' /\ Len(recv_buf') >= Len(recv_buf)
                 /\ \A i \in 1..Len(recv_buf) : recv_buf'[i] = recv_buf[i]
  <1>1. TypeOK /\ OffsetsInv /\ SenderInv /\ NetInv /\ ReceiverInv
    BY DEF IInv
  <1>2. UNCHANGED <<segments, base, next_seq, window_size, net, sent, off>>
    BY DEF ReceiveInOrder, senderVars, history
  <1>3. /\ m.seq = expected_seq /\ m.data \in Payload /\ Carries(m.seq, m.data)
        /\ expected_seq' = expected_seq + 1
        /\ acks' = acks \cup {expected_seq + 1}
        /\ recv_buf' = recv_buf \o Copied(m.data)
    BY <1>1 DEF ReceiveInOrder, InOrder, TypeOK, Segment, NetInv
  <1> DEFINE d == m.data
             o == off[expected_seq + 1]
             n == IF Len(d) < RecvBuf - Len(recv_buf) THEN Len(d)
                  ELSE RecvBuf - Len(recv_buf)
  <1>4. d \in Seq(Byte) /\ Len(d) \in Nat \ {0}
    BY <1>3, PayloadIsSeq
  <1>5. /\ expected_seq \in Nat /\ Len(off) \in Nat /\ expected_seq + 2 <= Len(off)
        /\ o \in Nat /\ off[expected_seq + 2] = o + Len(d)
        /\ Len(recv_buf) \in Nat /\ Len(recv_buf) <= RecvBuf /\ RecvBuf \in Nat
        /\ recv_buf \in Seq(Byte) /\ sent \in Seq(Byte)
    <2>1. /\ expected_seq \in Nat /\ Len(off) \in Nat /\ RecvBuf \in Nat
          /\ Len(recv_buf) \in Nat /\ Len(recv_buf) <= RecvBuf
          /\ recv_buf \in Seq(Byte) /\ sent \in Seq(Byte)
          /\ \A k \in 1..Len(off) : off[k] \in Nat
      BY <1>1, SeqFacts, RdtConstants DEF TypeOK
    <2>2. expected_seq + 2 <= Len(off) /\ off[expected_seq + 2] = o + Len(d)
      BY <1>3 DEF Carries
    <2>3. expected_seq + 1 \in 1..Len(off)
      BY <2>1, <2>2
    <2> QED BY <2>1, <2>2, <2>3
  <1>6. n \in 0..Len(d) /\ Copied(d) = SubSeq(d, 1, n)
    BY <1>4, <1>5 DEF Copied
  <1>7. /\ SubSeq(d, 1, n) \in Seq(Byte) /\ Len(SubSeq(d, 1, n)) = n
        /\ \A i \in 1..n : SubSeq(d, 1, n)[i] = d[i]
    BY <1>4, <1>6
  <1> HIDE DEF n
  <1>8. /\ recv_buf' \in Seq(Byte)
        /\ Len(recv_buf') = Len(recv_buf) + n
        /\ \A i \in 1..Len(recv_buf) : recv_buf'[i] = recv_buf[i]
        /\ \A i \in 1..n : recv_buf'[Len(recv_buf) + i] = d[i]
    <2> DEFINE c == SubSeq(d, 1, n)
    <2>1. c \in Seq(Byte) /\ Len(c) = n /\ n \in Nat /\ recv_buf' = recv_buf \o c
      BY <1>3, <1>6, <1>7
    <2> HIDE DEF c
    <2>0. /\ recv_buf \o c \in Seq(Byte)
          /\ Len(recv_buf \o c) = Len(recv_buf) + Len(c)
          /\ \A i \in 1..(Len(recv_buf) + Len(c)) :
                (recv_buf \o c)[i] = IF i <= Len(recv_buf) THEN recv_buf[i]
                                     ELSE c[i - Len(recv_buf)]
      <3>1. recv_buf \in Seq(Byte) /\ c \in Seq(Byte)
        BY <1>5, <2>1
      <3> QED BY <3>1, ConcatProperties, Zenon
    <2>2. /\ recv_buf \o c \in Seq(Byte)
          /\ Len(recv_buf \o c) = Len(recv_buf) + n
          /\ \A i \in 1..(Len(recv_buf) + n) :
                (recv_buf \o c)[i] = IF i <= Len(recv_buf) THEN recv_buf[i]
                                     ELSE c[i - Len(recv_buf)]
      BY <2>0, <2>1
    <2>3. \A i \in 1..Len(recv_buf) : recv_buf'[i] = recv_buf[i]
      BY <1>5, <2>1, <2>2
    <2>4. \A i \in 1..n : recv_buf'[Len(recv_buf) + i] = c[i]
      <3>1. ASSUME NEW i \in 1..n PROVE recv_buf'[Len(recv_buf) + i] = c[i]
        <4>1. /\ Len(recv_buf) + i \in 1..(Len(recv_buf) + n)
              /\ ~(Len(recv_buf) + i <= Len(recv_buf))
              /\ (Len(recv_buf) + i) - Len(recv_buf) = i
          BY <1>5, <2>1
        <4> QED BY <2>1, <2>2, <4>1
      <3> QED BY <3>1
    <2> QED BY <1>7, <2>1, <2>2, <2>3, <2>4 DEF c
  <1>9. Len(recv_buf') = IF o + Len(d) < RecvBuf THEN o + Len(d) ELSE RecvBuf
    BY <1>1, <1>4, <1>5, <1>8, SMTT(60) DEF ReceiverInv, n
  <1>10. n > 0 => Len(recv_buf) = o
    BY <1>1, <1>4, <1>5 DEF ReceiverInv, n
  <1>11. \A i \in 1..Len(recv_buf') : recv_buf'[i] = sent[i]
    <2>1. ASSUME NEW i \in 1..Len(recv_buf') PROVE recv_buf'[i] = sent[i]
      <3>1. CASE i <= Len(recv_buf)
        BY <1>1, <1>5, <1>8, <3>1 DEF ReceiverInv
      <3>2. CASE i > Len(recv_buf)
        <4>1. i - Len(recv_buf) \in 1..n /\ Len(recv_buf) = o /\ i - o \in 1..Len(d)
          <5>1. i \in Nat /\ i <= Len(recv_buf) + n /\ n \in Nat /\ n <= Len(d)
            BY <1>5, <1>4, <1>6, <1>8
          <5>2. i - Len(recv_buf) \in 1..n /\ n > 0
            BY <1>5, <3>2, <5>1
          <5>3. Len(recv_buf) = o
            BY <1>10, <5>2
          <5>4. i - Len(recv_buf) \in 1..Len(d)
            BY <1>4, <5>1, <5>2
          <5> QED BY <5>2, <5>3, <5>4
        <4>2. recv_buf'[Len(recv_buf) + (i - Len(recv_buf))] = d[i - Len(recv_buf)]
          BY <1>8, <4>1
        <4>3. sent[o + (i - o)] = d[i - o]
          BY <1>3, <4>1 DEF Carries
        <4>4. o + (i - o) = i /\ Len(recv_buf) + (i - Len(recv_buf)) = i
          BY <1>5
        <4> QED BY <4>1, <4>2, <4>3, <4>4
      <3> QED BY <1>5, <3>1, <3>2
    <2> QED BY <2>1
  <1>12. TypeOK'
    <2>1. Len(recv_buf') <= RecvBuf
      BY <1>4, <1>5, <1>9
    <2>2. acks' \subseteq Nat /\ expected_seq' \in Nat
      <3>1. acks \subseteq Nat
        BY <1>1 DEF TypeOK
      <3>2. expected_seq + 1 \in Nat
        BY <1>5
      <3> QED BY <1>3, <3>1, <3>2
    <2> QED BY <1>1, <1>2, <1>8, <2>1, <2>2 DEF TypeOK
  <1>13. OffsetsInv'
    BY <1>1, <1>2 DEF OffsetsInv
  <1>14. SenderInv'
    BY <1>1, <1>2 DEF SenderInv, Carries
  <1>15. NetInv'
    <2>1. \A a \in acks' : a <= expected_seq'
      BY <1>1, <1>3, <1>5 DEF NetInv, TypeOK
    <2> QED BY <1>1, <1>2, <2>1 DEF NetInv, Carries
  <1>16. ReceiverInv'
    <2>1. expected_seq' + 1 = expected_seq + 2
      BY <1>3, <1>5
    <2>2. base' <= expected_seq'
      BY <1>1, <1>2, <1>3, <1>5 DEF ReceiverInv, TypeOK
    <2>3. off'[expected_seq' + 1] = o + Len(d)
      BY <1>2, <1>5, <2>1
    <2> QED BY <1>2, <1>5, <1>9, <1>11, <2>1, <2>2, <2>3 DEF ReceiverInv
  <1> QED BY <1>5, <1>6, <1>8, <1>12, <1>13, <1>14, <1>15, <1>16 DEF IInv

\* A duplicate acknowledgement, a loss: nothing but the network changes.
LEMMA NetworkIInv ==
    ASSUME IInv,
           \/ \E m \in net : ReceiveOutOfOrder(m)
           \/ \E m \in net : LoseSegment(m)
           \/ \E a \in acks : LoseAck(a)
    PROVE  IInv' /\ UNCHANGED <<recv_buf, sent>>
  <1>1. UNCHANGED <<segments, base, next_seq, window_size, expected_seq,
                    recv_buf, sent, off>>
    BY DEF ReceiveOutOfOrder, LoseSegment, LoseAck, senderVars, receiverVars, history
  <1>2. net' \subseteq net /\ acks' \subseteq acks \cup {expected_seq}
    BY DEF ReceiveOutOfOrder, LoseSegment, LoseAck
  <1>3. TypeOK'
    BY <1>1, <1>2 DEF IInv, TypeOK
  <1>4. OffsetsInv' /\ ReceiverInv'
    BY <1>1 DEF IInv, OffsetsInv, ReceiverInv
  <1>5. SenderInv'
    BY <1>1 DEF IInv, SenderInv, Carries
  <1>6. NetInv'
    <2>1. \A a \in acks' : a <= expected_seq'
      BY <1>1, <1>2 DEF IInv, NetInv, TypeOK
    <2>2. \A m \in net' : Carries(m.seq, m.data)'
      BY <1>1, <1>2 DEF IInv, NetInv, Carries
    <2> QED BY <2>1, <2>2 DEF NetInv
  <1> QED BY <1>1, <1>3, <1>4, <1>5, <1>6 DEF IInv

\* The inductive invariant holds in every reachable state of rdt.c.
THEOREM InductiveInvariant == Spec => []IInv
  <1>1. IInv /\ [Next]_vars => IInv'
    <2> SUFFICES ASSUME IInv, [Next]_vars PROVE IInv'
      OBVIOUS
    <2>1. CASE \E data \in Payload : Send(data)
      BY <2>1, SendIInv
    <2>2. CASE \E a \in acks : Ack(a)
      BY <2>2, AckIInv
    <2>3. CASE Timeout
      BY <2>3, TimeoutIInv
    <2>4. CASE SenderFree
      BY <2>4, SenderFreeIInv
    <2>5. CASE \E m \in net : ReceiveInOrder(m)
      BY <2>5, ReceiveInOrderIInv
    <2>6. CASE \/ \E m \in net : ReceiveOutOfOrder(m)
               \/ \E m \in net : LoseSegment(m)
               \/ \E a \in acks : LoseAck(a)
      BY <2>6, NetworkIInv
    <2>7. CASE UNCHANGED vars
      BY <2>7
      DEF vars, senderVars, receiverVars, netVars, history, IInv, TypeOK,
          OffsetsInv, SenderInv, NetInv, ReceiverInv, Carries
    <2> QED BY <2>1, <2>2, <2>3, <2>4, <2>5, <2>6, <2>7 DEF Next
  <1> QED BY <1>1, InitIInv, PTL DEF Spec

\* Types hold and neither segments[] nor recv_buf[] is written past its end.
THEOREM TypeCorrect == Spec => []TypeOK
  <1>1. IInv => TypeOK
    BY DEF IInv
  <1> QED BY <1>1, InductiveInvariant, PTL

\* The invariant implies the prefix property.
LEMMA PrefixFromIInv == IInv => DeliveredIsPrefix
  <1> SUFFICES ASSUME IInv PROVE DeliveredIsPrefix
    OBVIOUS
  <1>1. /\ expected_seq + 1 \in 1..Len(off) /\ off[expected_seq + 1] \in Nat
        /\ off[expected_seq + 1] <= Len(sent)
    BY SeqFacts, SMTT(60) DEF IInv, TypeOK, ReceiverInv, OffsetsInv
  <1>2. Len(recv_buf) <= Len(sent)
    BY <1>1, SeqFacts, RdtConstants DEF IInv, ReceiverInv
  <1> QED BY <1>2 DEF IInv, ReceiverInv, DeliveredIsPrefix

\* The receiver's buffer is always a prefix of the accepted bytes.
THEOREM PrefixDelivery == Spec => []DeliveredIsPrefix
  BY PrefixFromIInv, InductiveInvariant, PTL

\* base never passes the receiver, and the window is never exceeded.
THEOREM BaseSafety == Spec => []BaseFollowsReceiver
  <1>1. IInv => BaseFollowsReceiver
    BY DEF IInv, SenderInv, ReceiverInv, BaseFollowsReceiver, InFlight, Count
  <1> QED BY <1>1, InductiveInvariant, PTL

\* rdt.c implements the byte pipe: every step maps to a Submit, a Deliver or a
\* stutter of BytePipe.
THEOREM ImplementsPipe == Spec => PipeSpec
  <1>0. IInv' => DeliveredIsPrefix'
    BY PrefixFromIInv, PTL
  <1>1. Init => Pipe!Init
    BY DEF Init, Pipe!Init
  <1>2. IInv /\ IInv' /\ [Next]_vars => [Pipe!Next]_(Pipe!vars)
    <2> SUFFICES ASSUME IInv, IInv', [Next]_vars PROVE [Pipe!Next]_(Pipe!vars)
      OBVIOUS
    <2>1. ASSUME NEW data \in Payload, Send(data) PROVE Pipe!Submit
      <3>1. /\ sent' \in Seq(Byte) /\ Len(sent') = Len(sent) + Len(data)
            /\ \A i \in 1..Len(sent) : sent'[i] = sent[i]
        BY <2>1, HistoryExtends DEF IInv, Send
      <3>2. Len(data) \in Nat \ {0} /\ Len(sent) \in Nat
        BY PayloadIsSeq DEF IInv, TypeOK
      <3>3. UNCHANGED recv_buf
        BY <2>1 DEF Send, receiverVars
      <3> QED BY <3>1, <3>2, <3>3 DEF Pipe!Submit, Pipe!Extends
    <2>2. ASSUME NEW m \in net, ReceiveInOrder(m)
          PROVE  Pipe!Deliver \/ UNCHANGED Pipe!vars
      <3>1. /\ Len(recv_buf') >= Len(recv_buf)
            /\ \A i \in 1..Len(recv_buf) : recv_buf'[i] = recv_buf[i]
        BY <2>2, ReceiveInOrderIInv
      <3>2. UNCHANGED sent /\ recv_buf \in Seq(Byte) /\ recv_buf' \in Seq(Byte)
        BY <2>2 DEF ReceiveInOrder, history, IInv, TypeOK
      <3>3. Pipe!Extends(sent, recv_buf')
        <4>1. DeliveredIsPrefix'
          BY <1>0
        <4> QED BY <3>2, <4>1 DEF DeliveredIsPrefix, Pipe!Extends
      <3>4. CASE Len(recv_buf') > Len(recv_buf)
        BY <3>1, <3>2, <3>3, <3>4 DEF Pipe!Deliver, Pipe!Extends
      <3>5. CASE Len(recv_buf') = Len(recv_buf)
        <4>1. recv_buf' = recv_buf
          BY <3>1, <3>2, <3>5
        <4> QED BY <3>2, <4>1 DEF Pipe!vars
      <3> QED BY <3>1, <3>2, <3>4, <3>5
    <2>3. ASSUME \/ \E a \in acks : Ack(a)
                 \/ Timeout
                 \/ SenderFree
                 \/ UNCHANGED vars
          PROVE  UNCHANGED Pipe!vars
      BY <2>3
      DEF Ack, Timeout, SenderFree, receiverVars, history, vars, Pipe!vars
    <2>4. ASSUME \/ \E m \in net : ReceiveOutOfOrder(m)
                 \/ \E m \in net : LoseSegment(m)
                 \/ \E a \in acks : LoseAck(a)
          PROVE  UNCHANGED Pipe!vars
      BY <2>4, NetworkIInv DEF Pipe!vars
    <2> QED
      BY <2>1, <2>2, <2>3, <2>4 DEF Next, vars, Pipe!Next, Pipe!vars
  <1> QED
    BY <1>1, <1>2, InductiveInvariant, PTL DEF Spec, PipeSpec, Pipe!Spec

-----------------------------------------------------------------------------
\* The segments' offsets ascend.
GrowthInv == \A j, k \in 1..Len(off) : j <= k => off[j] <= off[k]

\* Only nfs_rdt_send adds an offset, and it lies past all the others.
LEMMA GrowthStep == IInv /\ GrowthInv /\ [Next]_vars => GrowthInv'
  <1> SUFFICES ASSUME IInv, GrowthInv, [Next]_vars PROVE GrowthInv'
    OBVIOUS
  <1>1. ASSUME NEW data \in Payload, Send(data) PROVE GrowthInv'
    <2>1. /\ Len(off') = Len(off) + 1
          /\ \A k \in 1..Len(off) : off'[k] = off[k]
          /\ off'[Len(off) + 1] = Len(sent) + Len(data)
      BY <1>1, HistoryExtends DEF IInv, Send
    <2>2. /\ Len(off) \in Nat /\ Len(sent) \in Nat /\ Len(data) \in Nat
          /\ \A k \in 1..Len(off) : off[k] \in Nat /\ off[k] <= Len(sent)
      BY SeqFacts, PayloadIsSeq DEF IInv, OffsetsInv
    <2> SUFFICES ASSUME NEW j \in 1..(Len(off) + 1), NEW k \in 1..(Len(off) + 1), j <= k
                 PROVE  off'[j] <= off'[k]
      BY <2>1 DEF GrowthInv
    <2>3. CASE k \in 1..Len(off)
      <3>1. j \in 1..Len(off)
        BY <2>2, <2>3
      <3> QED BY <2>1, <2>3, <3>1 DEF GrowthInv
    <2>4. CASE k = Len(off) + 1 /\ j \in 1..Len(off)
      BY <2>1, <2>2, <2>4
    <2>5. CASE k = Len(off) + 1 /\ j = Len(off) + 1
      BY <2>1, <2>2, <2>5
    <2> QED BY <2>2, <2>3, <2>4, <2>5
  <1>2. CASE UNCHANGED history
    BY <1>2 DEF history, GrowthInv
  <1> QED
    BY <1>1, <1>2
    DEF Next, Ack, Timeout, SenderFree, ReceiveInOrder, ReceiveOutOfOrder, LoseSegment, LoseAck,
        vars

\* Whatever the sizes of the sender's array and the receiver's buffer: when
\* nfs_rdt_ack moves base past a segment, its bytes and all before them are in
\* recv_buf, or recv_buf is full.
THEOREM AckedBytes == Spec => []AckedBytesAreHeld
  <1>1. Init => GrowthInv
    BY DEF Init, GrowthInv
  <1>2. ASSUME IInv, GrowthInv PROVE AckedBytesAreHeld
    <2>1. /\ Len(off) \in Nat /\ base \in Nat /\ expected_seq \in Nat
          /\ base + 1 \in 1..Len(off) /\ expected_seq + 1 \in 1..Len(off)
          /\ base + 1 <= expected_seq + 1
      BY <1>2, SeqFacts DEF IInv, TypeOK, OffsetsInv, ReceiverInv
    <2>2. /\ off[base + 1] \in Nat /\ off[expected_seq + 1] \in Nat
          /\ off[base + 1] <= off[expected_seq + 1]
      BY <1>2, <2>1, SeqFacts DEF IInv, GrowthInv
    <2>3. Len(recv_buf) = off[expected_seq + 1] \/ Len(recv_buf) = RecvBuf
      BY <1>2 DEF IInv, ReceiverInv
    <2> QED BY <2>2, <2>3 DEF AckedBytesAreHeld
  <1> QED BY <1>1, <1>2, GrowthStep, InductiveInvariant, PTL DEF Spec
=============================================================================
