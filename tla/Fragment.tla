------------------------------ MODULE Fragment ------------------------------
(***************************************************************************)
(* IP fragmentation and reassembly (phases/03-network-layer/               *)
(* 07-ip-fragmentation/fragment.c).  A packet carries bytes 1..Size; the   *)
(* routers on its way fragment it, and its fragments again, and the        *)
(* network repeats, reorders and loses what it carries.  Of the header the *)
(* flags, the offset and the length are kept; addresses and checksum are   *)
(* copied or recomputed the same way for every fragment.                   *)
(*                                                                         *)
(* A fragment is copied into an array of FragCap bytes whatever its length.*)
(* What happens after a copy that is longer is undefined: the model stops. *)
(***************************************************************************)
EXTENDS Integers, Sequences, SequencesExt, FiniteSetsExt

CONSTANTS
    Size,      \* bytes of payload
    Mtus,      \* MTUs of the links, uint16_t
    FragCap,   \* bytes of a fragment's payload array, 1480
    MaxFrags,  \* max_frags of a router
    MaxGot,    \* bound: fragments the receiver collects
    OutSizes   \* out_sz: sizes of the receiver's buffer

Header == 20
Unit == 8
Word == 65536

FragmentConstants ==
    /\ Size \in 1..(Word - 1 - Header) /\ Mtus \subseteq 0..(Word - 1) /\ FragCap \in Nat \ {0}
    /\ MaxFrags \in Nat \ {0} /\ MaxGot \in Nat /\ OutSizes \subseteq Nat

VARIABLES
    net,  \* packets that are, or were, on a link: each may arrive any number of times
    got,  \* the receiver's array of fragments, in order of arrival
    spilt \* the MTU at which a fragment was longer than its array, as a set

vars == <<net, got, spilt>>

Payload == [i \in 1..Size |-> i]
Packet == [off : 0..(Size \div Unit), mf : BOOLEAN, df : BOOLEAN,
           data : {SubSeq(Payload, i, j) : i \in 1..Size, j \in 1..Size}]

Init == net = {} /\ got = <<>> /\ spilt = {}

Send(df) ==
    /\ net = {}
    /\ net' = {[off |-> 0, mf |-> FALSE, df |-> df, data |-> Payload]}
    /\ UNCHANGED <<got, spilt>>

\* Mutant: the header is not taken off.
MaxPayloadOfLink(mtu) == (mtu \div Unit) * Unit

\* (uint16_t)((mtu - 20) & ~7u): an MTU below 20 comes round to 65512 or more.
MaxPayload(mtu) == (((mtu - Header) % Word) \div Unit) * Unit

\* MF of fragment i of n: the last one keeps the flag of the packet that is cut.
MoreFragments(p, i, n) == i < n \/ p.mf

\* Mutant: offsets are counted from the start of the fragment that is cut.
OffsetOfOwn(p, start) == start \div Unit

\* frag_offset: the offset of what is cut counts.
OffsetOf(p, start) == p.off + (start \div Unit)

\* nfs_ip_fragment_packet: the fragments, or none where it returns an error
\* (DF set, an MTU too small for eight bytes, more fragments than max_frags).
FragmentPacket(p, mtu) ==
    LET len == Len(p.data)
        max == MaxPayload(mtu)
        n == (len + max - 1) \div max
        Frag(i) == LET start == (i - 1) * max
                   IN [off |-> OffsetOf(p, start), mf |-> MoreFragments(p, i, n), df |-> FALSE,
                       data |-> SubSeq(p.data, start + 1, Min({start + max, len}))]
    IN IF Header + len <= mtu THEN {p}
       ELSE IF p.df \/ max = 0 THEN {}
       ELSE IF n > MaxFrags THEN {}
       ELSE {Frag(i) : i \in 1..n}

\* There is room in the array of a fragment, also of one that is not cut.
Fits(p) == Len(p.data) <= FragCap

\* A router forwards a packet onto a link.
Forward(p, mtu) ==
    LET frags == FragmentPacket(p, mtu)
    IN
    /\ IF \A f \in frags : Fits(f)
       THEN net' = net \cup frags /\ UNCHANGED spilt
       ELSE spilt' = {mtu} /\ UNCHANGED net
    /\ UNCHANGED got

\* A fragment arrives, perhaps not for the first time.
Arrive(p) ==
    /\ Len(got) < MaxGot /\ Fits(p)
    /\ got' = Append(got, p)
    /\ UNCHANGED <<net, spilt>>

Next ==
    /\ spilt = {}
    /\ \/ \E df \in BOOLEAN : Send(df)
       \/ \E p \in net : Arrive(p) \/ \E mtu \in Mtus : Forward(p, mtu)

Spec == Init /\ [][Next]_vars

Refused == <<-1>>

\* The orders in which n fragments can be put.
Orders == [n \in 0..MaxGot |-> Bijection(1..n, 1..n)]

\* What qsort with frag_cmp can make of the array: it leaves open in which
\* order it puts fragments of the same offset.
Sorted(frags) ==
    {s \in {[i \in DOMAIN frags |-> frags[f[i]]] : f \in Orders[Len(frags)]} :
        \A i, j \in DOMAIN s : i < j => s[i].off <= s[j].off}

\* expected_offset before fragment i.
Expected(s, i) == IF i = 1 THEN 0 ELSE s[i - 1].off + (Len(s[i - 1].data) \div Unit)

\* Mutant: fragments after the last one are not looked for.
NothingAfterLastUnchecked(s) == TRUE

\* The test of MF in the loop.
NothingAfterLast(s) == \A i \in 1..(Len(s) - 1) : s[i].mf

Joined(s) ==
    LET out[i \in 0..Len(s)] == IF i = 0 THEN <<>> ELSE out[i - 1] \o s[i].data
    IN out[Len(s)]

\* nfs_ip_reassemble once the array is sorted: the payload put together, or
\* Refused (-1), also where out_sz has no room for it.
Reassemble(s, out_sz) ==
    IF /\ s # <<>>
       /\ \A i \in DOMAIN s : s[i].off = Expected(s, i)
       /\ NothingAfterLast(s)
       /\ Header + Len(Joined(s)) <= out_sz
    THEN Joined(s) ELSE Refused

-----------------------------------------------------------------------------
TypeOK ==
    /\ net \subseteq Packet /\ got \in Seq(Packet) /\ Len(got) <= MaxGot
    /\ spilt \subseteq Mtus

\* The fragments received cut the payload into pieces, each there once.
Tiling ==
    /\ \A i \in 1..Size : \E k \in DOMAIN got : i \in Range(got[k].data)
    /\ \A k, m \in DOMAIN got : k # m => Range(got[k].data) \cap Range(got[m].data) = {}

\* What nfs_ip_reassemble accepts is the packet that was sent, or a beginning
\* of it when the fragment without MF is missing, and fits the buffer,
\* whatever was fragmented again, repeated or overtaken and however qsort
\* breaks ties; and a full set of fragments is accepted if there is room.
ReassemblyIsFaithful ==
    \A s \in Sorted(got), out_sz \in OutSizes :
        LET r == Reassemble(s, out_sz)
        IN /\ r # Refused => IsPrefix(r, Payload) /\ Header + Len(r) <= out_sz
           /\ r # Refused /\ (\E k \in DOMAIN got : ~got[k].mf) => r = Payload
           /\ Tiling /\ Header + Size <= out_sz => r = Payload

\* Between the smallest MTU and the one that fills a fragment no copy is
\* longer than its array (nfs_ip_fragment_packet): only an MTU below the
\* header, which comes round, or above both makes one that is.
FragmentsFit == \A mtu \in spilt : mtu < Header \/ mtu > Header + FragCap
=============================================================================
