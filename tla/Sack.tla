-------------------------------- MODULE Sack --------------------------------
(***************************************************************************)
(* The SACK scoreboard (phases/04-transport/                               *)
(* 19-selective-acknowledgment-sack/sack.c) of a sender whose peer         *)
(* receives bytes in any order; its reports arrive late and out of order,  *)
(* so a block may name any run of bytes the peer holds by now.  The wire   *)
(* format of the option is in PacketFormats.                               *)
(*                                                                         *)
(* A byte of the stream has a position, which only grows, and a number,    *)
(* its position modulo Word.  The scoreboard has numbers only and compares *)
(* them with plain < and >, everywhere.                                    *)
(***************************************************************************)
EXTENDS Integers, Sequences, FiniteSetsExt, Functions

CONSTANTS
    MaxBlocks,   \* NFS_SACK_MAX_BLOCKS, 4
    Word,        \* 2^32: the numbers of a uint32_t
    InitialAck,  \* the position whose number nfs_sack_init is given
    MaxSeq       \* bound: the position the stream ends at

SackConstants ==
    /\ MaxBlocks \in Nat \ {0} /\ Word \in Nat \ {0}
    /\ InitialAck \in Nat /\ MaxSeq \in Nat /\ InitialAck <= MaxSeq

VARIABLES
    blocks, cum_ack,  \* nfs_sack_scoreboard
    held,             \* the peer: positions of the bytes it holds
    latest            \* history: the positions reported last

vars == <<blocks, cum_ack, held, latest>>

Positions == InitialAck..(MaxSeq - 1)
Number(p) == p % Word

Block(l, r) == [left |-> l, right |-> r]

Init ==
    /\ blocks = <<>> /\ cum_ack = Number(InitialAck)
    /\ held = {} /\ latest = Block(InitialAck, InitialAck)

\* The peer receives a byte.
PeerReceive(b) ==
    /\ b \notin held
    /\ held' = held \cup {b}
    /\ UNCHANGED <<blocks, cum_ack, latest>>

\* The orders in which n blocks can be put.
Orders == [n \in 0..MaxBlocks |-> Bijection(1..n, 1..n)]

\* Of two blocks the insertion sort leaves the first one where it is.
Precedes(bs, i, j) == bs[i].left < bs[j].left \/ (bs[i].left = bs[j].left /\ i < j)

\* sort_blocks: the blocks in the order of their left edges.
sort_blocks(bs) ==
    {[i \in DOMAIN bs |-> bs[f[i]]] :
        f \in {g \in Orders[Len(bs)] :
                 \A i, j \in DOMAIN bs : i < j => Precedes(bs, g[i], g[j])}}

\* Mutant: adjacent blocks stay apart.
TouchesOverlap(a, b) == b.left < a.right

\* b, not left of a, overlaps a or is adjacent to it.
Touches(a, b) == b.left <= a.right

Larger(a, b) == IF a > b THEN a ELSE b

\* A turn of merge_blocks, out being the last block of m: b becomes part of
\* it or follows it, as the first block does.
Absorb(m, b) ==
    LET out == m[Len(m)]
    IN IF m # <<>> /\ Touches(out, b)
       THEN [m EXCEPT ![Len(m)] = Block(out.left, Larger(b.right, out.right))]
       ELSE Append(m, b)

\* merge_blocks, of sorted blocks.
merge_blocks(s) ==
    LET turns[i \in 0..Len(s)] == IF i = 0 THEN <<>> ELSE Absorb(turns[i - 1], s[i])
    IN  turns[Len(s)]

\* The blocks with the new one at their end, in the place of the last one
\* when there is no room.
WithBlock(b) ==
    IF Len(blocks) < MaxBlocks THEN Append(blocks, b) ELSE [blocks EXCEPT ![MaxBlocks] = b]

\* recent_idx: the first block that covers the new range.
RecentOf(bs, new) ==
    LET covering == {i \in DOMAIN bs : bs[i].left <= new.left /\ bs[i].right >= new.right}
    IN  IF covering = {} THEN 1 ELSE Min(covering)

\* Block k goes first and those before it make room.
ToFront(bs, k) == [i \in DOMAIN bs |-> bs[IF i = 1 THEN k ELSE IF i <= k THEN i - 1 ELSE i]]

\* nfs_sack_add_block, with the numbers of the bytes from l to r.
AddBlock(l, r) ==
    /\ l < r /\ l..(r - 1) \subseteq held
    /\ LET new == Block(Number(l), Number(r))
       IN  \E s \in sort_blocks(WithBlock(new)) :
               LET merged == merge_blocks(s)
               IN  blocks' = ToFront(merged, RecentOf(merged, new))
    /\ latest' = Block(l, r)
    /\ UNCHANGED <<cum_ack, held>>

Survives(b, n) == b.right > n

\* A block without what is below n.
Trimmed(b, n) == Block(Larger(n, b.left), b.right)

\* The blocks that are left when the cumulative ACK moves to n.
Advanced(n) ==
    LET left[i \in 0..Len(blocks)] ==
            IF i = 0 THEN <<>>
            ELSE IF Survives(blocks[i], n) THEN Append(left[i - 1], Trimmed(blocks[i], n))
            ELSE left[i - 1]
    IN  left[Len(blocks)]

\* nfs_sack_advance_cumack, with the number of a position up to which the
\* peer holds everything.
AdvanceCumack(p) ==
    /\ InitialAck..(p - 1) \subseteq held
    /\ Number(p) > cum_ack
    /\ cum_ack' = Number(p)
    /\ blocks' = Advanced(Number(p))
    /\ UNCHANGED <<held, latest>>

Covers(b, seq) == b.left <= seq /\ seq < b.right

\* nfs_sack_is_sacked.
IsSacked(seq) == \E i \in DOMAIN blocks : Covers(blocks[i], seq)

\* A turn of nfs_sack_holes: the hole before b, if there is one, and the
\* cursor behind b.
NextHole(acc, b) ==
    [cursor |-> Larger(b.right, acc.cursor),
     holes |-> IF b.left > acc.cursor THEN Append(acc.holes, Block(acc.cursor, b.left))
               ELSE acc.holes]

\* nfs_sack_holes, of the sorted blocks, for a caller with room for max_holes.
Holes(s, max_holes) ==
    LET turns[i \in 0..Len(s)] ==
            IF i = 0 THEN [cursor |-> cum_ack, holes |-> <<>>]
            ELSE IF Len(turns[i - 1].holes) < max_holes THEN NextHole(turns[i - 1], s[i])
            ELSE turns[i - 1]
    IN  turns[Len(s)].holes

Next ==
    \/ \E p \in Positions : PeerReceive(p)
    \/ \E l \in Positions, r \in InitialAck..MaxSeq : AddBlock(l, r)
    \/ \E p \in InitialAck..MaxSeq : AdvanceCumack(p)

Spec == Init /\ [][Next]_vars

-----------------------------------------------------------------------------
TypeOK ==
    /\ blocks \in Seq([left : 0..(Word - 1), right : 0..(Word - 1)]) /\ Len(blocks) <= MaxBlocks
    /\ cum_ack \in 0..(Word - 1) /\ held \subseteq Positions

\* The numbers from the cumulative ACK to the highest block that the
\* scoreboard does not know to be there.
Missing ==
    {seq \in 0..(Word - 1) : /\ cum_ack <= seq /\ ~IsSacked(seq)
                              /\ \E i \in DOMAIN blocks : seq < blocks[i].left}

\* hs is what nfs_sack_holes may tell a caller with room for max_holes: holes
\* in which nothing but missing bytes lie, and all the missing bytes, or as
\* many holes as there is room for, the lowest ones.
HolesAreMissing(hs, max_holes) ==
    /\ Len(hs) <= max_holes
    /\ \A seq \in 0..(Word - 1) : (\E i \in 1..Len(hs) : Covers(hs[i], seq)) => seq \in Missing
    /\ \A seq \in Missing :
          \/ \E i \in 1..Len(hs) : Covers(hs[i], seq)
          \/ Len(hs) = max_holes /\ \A i \in 1..Len(hs) : hs[i].right <= seq

\* The scoreboard never claims a byte the peer lacks, its blocks are apart
\* from each other and not empty, what was reported last is in the first
\* block, unless the cumulative ACK has passed it, and the holes it offers
\* for retransmission are missing bytes, all of them or the lowest ones;
\* merging, trimming, replacing a block when the board is full and late
\* reports included, while the stream does not reach the end of the numbers.
BoardIsExact ==
    /\ \A seq \in 0..(Word - 1) : IsSacked(seq) => \E p \in held : Number(p) = seq
    /\ \A i, j \in DOMAIN blocks :
          /\ blocks[i].left < blocks[i].right
          /\ blocks[i].left <= blocks[j].left /\ i # j => blocks[i].right < blocks[j].left
    /\ \A p \in Positions :
          Covers(latest, p) /\ Number(p) >= cum_ack
            => blocks # <<>> /\ Covers(blocks[1], Number(p))
    /\ \E s \in sort_blocks(blocks) :
          \A max_holes \in 0..MaxBlocks : HolesAreMissing(Holes(s, max_holes), max_holes)

\* The numbers of the stream do not come round.
NumbersDoNotWrap == MaxSeq < Word

\* sack.h: a block [left, right) says that the bytes from left to right have
\* been received, and nfs_sack_is_sacked returns 1 for a number it covers; so
\* it does for every byte reported last that is not below the cumulative ACK,
\* also where the numbers of the block come round.
ReportedIsSacked ==
    \A p \in Positions :
        Covers(latest, p) /\ Number(p) >= cum_ack => IsSacked(Number(p))
=============================================================================
