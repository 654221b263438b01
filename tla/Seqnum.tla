------------------------------- MODULE Seqnum -------------------------------
(***************************************************************************)
(* Sequence number arithmetic modulo 2^32                                  *)
(* (phases/04-transport/12-sequence-number-arithmetic-mod-2/seqnum.c).     *)
(* (int32_t) of an unsigned difference is its representative between       *)
(* -Half and Half - 1.                                                     *)
(***************************************************************************)
EXTENDS Integers

CONSTANT Half    \* 2^31

SeqnumConstants == Half \in Nat \ {0}

Word == 2 * Half
Seqnums == 0..(Word - 1)

\* Mutant: the difference is kept unsigned.
SeqDiffUnsigned(a, b) == (a - b) % Word

\* nfs_seq_diff.
SeqDiff(a, b) == ((a - b + Half) % Word) - Half

SeqLt(a, b) == SeqDiff(a, b) < 0
SeqLe(a, b) == SeqDiff(a, b) <= 0
SeqGt(a, b) == SeqDiff(a, b) > 0
SeqGe(a, b) == SeqDiff(a, b) >= 0

SeqAdd(seq, delta) == (seq + delta) % Word

SeqBetween(seq, lo, hi) == SeqGe(seq, lo) /\ SeqLe(seq, hi)

\* Mutant: the last number is taken in.
SeqInWindowClosed(seq, start, size) == (seq - start) % Word <= size

SeqInWindow(seq, start, size) == size # 0 /\ (seq - start) % Word < size
=============================================================================
