----------------------------- MODULE Handshake ------------------------------
(***************************************************************************)
(* The three-way handshake (phases/04-transport/                           *)
(* 09-the-three-way-handshake/tcp.c): a client that may give up on an      *)
(* answer and build a new SYN, and a server that answers every SYN it is   *)
(* given, over a network that repeats, reorders and loses segments.  Each  *)
(* call generates a new initial sequence number, from Isns.  The wire      *)
(* format of the segments is left out.                                     *)
(***************************************************************************)
EXTENDS Naturals

CONSTANTS
    Word,     \* size of the sequence space (2^32)
    Isns,     \* numbers nfs_tcp_generate_isn returns
    MaxSyns,  \* bound: SYNs the client builds
    MaxAnswers  \* bound: SYN-ACKs the server builds

HandshakeConstants ==
    /\ Word \in Nat \ {0} /\ Isns \subseteq 0..(Word - 1)
    /\ MaxSyns \in Nat /\ MaxAnswers \in Nat

VARIABLES
    client, server,  \* struct nfs_tcp_handshake: state, local_seq, remote_seq
    net,             \* segments ever sent; any of them may arrive, again and again
    syns, answers,   \* history: SYNs built so far, and pairs (SYN, answer) of sequence numbers
    built            \* history: SYN-ACKs built so far

vars == <<client, server, net, syns, answers, built>>

Context == [state |-> "CLOSED", local_seq |-> 0, remote_seq |-> 0]

\* nfs_tcp_handshake_init.
Init ==
    /\ client = Context
    /\ server = Context
    /\ net = {}
    /\ syns = 0
    /\ answers = {}
    /\ built = 0

Plus1(seq) == (seq + 1) % Word
Segment(flags, seq, ack) == [flags |-> flags, seq |-> seq, ack |-> ack]

\* nfs_tcp_build_syn: no guard on the state, so a client that waits may start
\* over.
BuildSyn(isn) ==
    /\ syns < MaxSyns
    /\ client' = [client EXCEPT !.state = "SYN_SENT", !.local_seq = isn]
    /\ net' = net \cup {Segment({"SYN"}, isn, 0)}
    /\ syns' = syns + 1
    /\ UNCHANGED <<server, answers, built>>

\* nfs_tcp_build_synack: the ACK flag of the received segment is not tested.
BuildSynAck(seg, isn) ==
    /\ built < MaxAnswers
    /\ "SYN" \in seg.flags
    /\ server' = [state |-> "SYN_RECEIVED", local_seq |-> isn, remote_seq |-> seg.seq]
    /\ net' = net \cup {Segment({"SYN", "ACK"}, isn, Plus1(seg.seq))}
    /\ answers' = answers \cup {<<seg.seq, isn>>}
    /\ built' = built + 1
    /\ UNCHANGED <<client, syns>>

\* Mutant: the acknowledgement number is not checked.
AcknowledgesAny(seg) == {"SYN", "ACK"} \subseteq seg.flags

\* The two tests of nfs_tcp_build_ack.
AcknowledgesOurSyn(seg) ==
    {"SYN", "ACK"} \subseteq seg.flags /\ seg.ack = Plus1(client.local_seq)

\* No guard on the state here either.
BuildAck(seg) ==
    /\ AcknowledgesOurSyn(seg)
    /\ client' = [client EXCEPT !.state = "ESTABLISHED", !.remote_seq = seg.seq]
    /\ net' = net \cup {Segment({"ACK"}, Plus1(client.local_seq), Plus1(seg.seq))}
    /\ UNCHANGED <<server, syns, answers, built>>

\* A server gets the client's SYNs, the client the server's SYN-ACKs.
Next ==
    \/ \E isn \in Isns : BuildSyn(isn)
    \/ \E seg \in net, isn \in Isns : seg.flags = {"SYN"} /\ BuildSynAck(seg, isn)
    \/ \E seg \in net : BuildAck(seg)

Spec == Init /\ [][Next]_vars

-----------------------------------------------------------------------------
\* An old answer never opens a new connection: an established client knows
\* the number of an answer the server gave to the very SYN the client sent
\* last, and a final ACK is only ever sent for such an answer
\* (nfs_tcp_build_ack).
EstablishedOnItsOwnSyn ==
    /\ client.state = "ESTABLISHED" => <<client.local_seq, client.remote_seq>> \in answers
    /\ \A seg \in net : seg.flags = {"ACK"} =>
           \E pair \in answers : seg.seq = Plus1(pair[1]) /\ seg.ack = Plus1(pair[2])
=============================================================================
