------------------------------- MODULE Hpack --------------------------------
(***************************************************************************)
(* The dynamic table of HPACK (phases/06-application-protocols/            *)
(* 13-hpack-header-compression/hpack.c): a ring of Slots entries, bounded  *)
(* by the sum of their sizes as well.  A header is its length, which is    *)
(* all that eviction looks at; a name or value that is too long for its    *)
(* field is cut when it is stored.                                         *)
(***************************************************************************)
EXTENDS Integers, Sequences

CONSTANTS
    Header,      \* headers, each <<identity, length of name and value>>
    Slots,       \* NFS_HPACK_DYN_MAX_ENTRIES
    FieldMax,    \* the longest name and value that are stored uncut
    TableMax     \* max_size

Overhead == 32

\* Headers for an instance in which the second is longer than its field.
LongHeaders == {<<1, 8>>, <<2, 60>>}

HpackConstants ==
    /\ Slots \in Nat \ {0} /\ FieldMax \in Nat /\ TableMax \in Nat
    /\ \A h \in Header : h = <<h[1], h[2]>> /\ h[2] \in Nat

VARIABLES
    entries, count, head, current_size,  \* struct nfs_hpack_dynamic_table
    expected                             \* history: the table of RFC 7541, newest first

vars == <<entries, count, head, current_size, expected>>

EntrySize(h) == h[2] + Overhead
Cut(h) == <<h[1], IF h[2] > FieldMax THEN FieldMax ELSE h[2]>>
Empty == <<0, 0>>

\* nfs_hpack_dyn_init.
Init ==
    /\ entries = [i \in 0..(Slots - 1) |-> Empty]
    /\ count = 0 /\ head = 0 /\ current_size = 0
    /\ expected = <<>>

\* Mutant: the ring is counted one entry too far.
OldestBeyond(n) == (head - n + Slots) % Slots

\* The slot of the oldest of n entries.
Oldest(n) == (head - n + 1 + Slots) % Slots

\* evict_oldest: <<count, current_size>> after it.
EvictOldest(c) ==
    IF c[1] = 0 THEN c ELSE <<c[1] - 1, c[2] - EntrySize(entries[Oldest(c[1])])>>

\* while (current_size + sz > max_size) evict_oldest: <<count, current_size>>
\* afterwards, or <<-1, size>> when the table is empty and the loop goes on.
Evict(sz) ==
    LET Fits(c) == c[2] + sz <= TableMax
        turns[n \in 0..count] ==
            IF n = 0 THEN <<count, current_size>>
            ELSE IF Fits(turns[n - 1]) THEN turns[n - 1] ELSE EvictOldest(turns[n - 1])
        c == turns[count]
    IN IF Fits(c) THEN c ELSE <<-1, c[2]>>

\* The test of the slot limit and the eviction it leads to.
EvictForSlot(c) == IF c[1] >= Slots THEN EvictOldest(c) ELSE c

HeadAfter(n) == IF n > 0 THEN (head + 1) % Slots ELSE head

\* The size of the first n entries of s.
Total(s, n) == LET sum[i \in 0..n] == IF i = 0 THEN 0 ELSE sum[i - 1] + EntrySize(s[i])
               IN sum[n]

\* RFC 7541, 4.4: the oldest entries go until the new one fits.
Kept(old, h) ==
    LET Fits(n) == n < Slots /\ Total(old, n) + EntrySize(h) <= TableMax
    IN IF EntrySize(h) > TableMax THEN <<>>
       ELSE <<h>> \o SubSeq(old, 1, CHOOSE n \in 0..Len(old) :
                                        Fits(n) /\ \A m \in (n + 1)..Len(old) : ~Fits(m))

\* nfs_hpack_dyn_add; it does not return when Evict finds nothing to evict.
DynAdd(h) ==
    LET left == Evict(EntrySize(h))
        room == EvictForSlot(left)
        slot == HeadAfter(room[1])
    IN
    /\ expected' = Kept(expected, h)
    /\ \/ /\ EntrySize(h) > TableMax
          /\ count' = 0 /\ current_size' = 0
          /\ UNCHANGED <<entries, head>>
       \/ /\ EntrySize(h) <= TableMax /\ left[1] # -1
          /\ head' = slot
          /\ entries' = [entries EXCEPT ![slot] = Cut(h)]
          /\ count' = room[1] + 1
          /\ current_size' = room[2] + EntrySize(h)

Next == \E h \in Header : DynAdd(h)

Spec == Init /\ [][Next]_vars

\* nfs_hpack_dyn_lookup: index 0 is the newest.
DynLookup(index) == entries[(head - index + Slots) % Slots]

-----------------------------------------------------------------------------
TypeOK ==
    /\ count \in 0..Slots /\ head \in 0..(Slots - 1)
    /\ current_size \in Int

\* current_size is the sum of the sizes of the entries, and the table stays
\* within max_size, so that room for a header that fits is found by evicting
\* what there is: with a size that drifts the loop does not end.
SizeIsExact ==
    LET sum[i \in 0..count] == IF i = 0 THEN 0 ELSE sum[i - 1] + EntrySize(DynLookup(i - 1))
    IN /\ current_size = sum[count] /\ current_size <= TableMax
       /\ \A h \in Header : EntrySize(h) <= TableMax =>
              Evict(EntrySize(h))[1] >= 0

\* Index for index the ring is the table of RFC 7541: encoder and decoder
\* mean the same header by a number, wherever the ring has wrapped.
IndicesAgree ==
    /\ count = Len(expected)
    /\ \A i \in 1..count : DynLookup(i - 1) = expected[i]
=============================================================================
