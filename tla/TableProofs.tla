----------------------------- MODULE TableProofs ----------------------------
(***************************************************************************)
(* Proofs about the other parts of MCTables: the dynamic table of HPACK,   *)
(* the pipeline of an HTTP connection, the cookie jar, descriptors and the *)
(* spanning tree; and, with ForwardingProofs, about all fourteen.  For     *)
(* every size of the tables and every set of headers, cookies, requests,   *)
(* bridges and links                                                       *)
(*   - rings and buffers keep their order when no header is longer than    *)
(*     its field (OrderIsKept),                                            *)
(*   - callers are told what holds (CallersAreToldTheTruth),               *)
(*   - the types of all parts (TablesAreTyped).                            *)
(***************************************************************************)
EXTENDS ForwardingProofs

-----------------------------------------------------------------------------
\* The dynamic table: going back from head the ring holds the table of RFC
\* 7541, and current_size is its size.  This holds when no header is longer
\* than its field: a header that is cut is counted in full and taken off cut.
NoLongHeaders == \A h \in Headers : h[2] <= FieldMax

\* The place k steps back from h.
HpPlace(h, k) == (h - k + HpackSlots) % HpackSlots

HpSize(s) == [i \in 1..Len(s) |-> Hpack!EntrySize(s[i])]

\* g holds the sums of the first elements of w.
HpSums(g, w, n) == g[0] = 0 /\ \A i \in 1..n : g[i] = g[i - 1] + w[i]

HpackInv ==
    /\ expected \in Seq(Headers) /\ count = Len(expected) /\ count \in 0..HpackSlots
    /\ head \in 0..(HpackSlots - 1)
    /\ hp_entries \in [0..(HpackSlots - 1) -> Headers \cup {Hpack!Empty}]
    /\ \A i \in 1..count : hp_entries[HpPlace(head, i - 1)] = expected[i]
    /\ current_size = Hpack!Total(expected, count) /\ current_size <= TableMax

LEMMA HpackConsts ==
    /\ HpackSlots \in Nat \ {0} /\ FieldMax \in Nat /\ TableMax \in Nat
    /\ \A h \in Headers : h = <<h[1], h[2]>> /\ h[2] \in Nat
    /\ \A h \in Headers : Hpack!EntrySize(h) \in Nat
  <1>1. /\ HpackSlots \in Nat \ {0} /\ FieldMax \in Nat /\ TableMax \in Nat
        /\ \A h \in Headers : h = <<h[1], h[2]>> /\ h[2] \in Nat
    BY TableSuiteConstants DEF Hpack!HpackConstants
  <1>2. \A h \in Headers : h[2] \in Nat
    BY <1>1
  <1>3. \A h \in Headers : Hpack!EntrySize(h) \in Nat
    BY <1>2 DEF Hpack!EntrySize, Hpack!Overhead
  <1> QED BY <1>1, <1>3

-----------------------------------------------------------------------------
\* Places of the ring.
LEMMA HpPlaceIs ==
    ASSUME NEW h \in 0..(HpackSlots - 1), NEW k \in 0..(HpackSlots - 1)
    PROVE  /\ HpPlace(h, k) = IF h < k THEN (h - k) + HpackSlots ELSE h - k
           /\ HpPlace(h, k) \in 0..(HpackSlots - 1)
  <1> DEFINE m == HpackSlots
  <1>0. m \in Nat \ {0}
    BY HpackConsts
  <1> HIDE DEF m
  <1>1. h \in 0..(m - 1) /\ k \in 0..(m - 1)
    BY DEF m
  <1>2. (h - k) + m \in 0..((m + m) - 1)
    BY <1>0, <1>1
  <1>3. ((h - k) + m) % m = IF (h - k) + m < m THEN (h - k) + m ELSE ((h - k) + m) - m
    BY <1>0, <1>2, ModOnce
  <1>4. HpPlace(h, k) = ((h - k) + m) % m
    BY DEF HpPlace, m
  <1>5. HpPlace(h, k) = IF h < k THEN (h - k) + m ELSE h - k
    BY <1>0, <1>1, <1>3, <1>4
  <1>6. HpPlace(h, k) \in 0..(m - 1)
    BY <1>0, <1>1, <1>5
  <1> QED BY <1>5, <1>6 DEF m

\* From the next place every place is one step further.
LEMMA HpPlaceNext ==
    ASSUME NEW h \in 0..(HpackSlots - 1)
    PROVE  /\ (h + 1) % HpackSlots \in 0..(HpackSlots - 1)
           /\ \A k \in 1..(HpackSlots - 1) :
                  /\ HpPlace((h + 1) % HpackSlots, k) = HpPlace(h, k - 1)
                  /\ HpPlace(h, k - 1) # (h + 1) % HpackSlots
  <1> DEFINE m == HpackSlots
             n == (h + 1) % HpackSlots
  <1>0. m \in Nat \ {0}
    BY HpackConsts
  <1>1. n = IF h + 1 < m THEN h + 1 ELSE (h + 1) - m
    <2>1. h + 1 \in 0..((m + m) - 1)
      BY <1>0
    <2> QED BY <1>0, <2>1, ModOnce
  <1>2. n \in 0..(m - 1)
    BY <1>0, <1>1
  <1> HIDE DEF n
  <1>3. ASSUME NEW k \in 1..(m - 1)
        PROVE  HpPlace(n, k) = HpPlace(h, k - 1) /\ HpPlace(h, k - 1) # n
    <2>1. k \in 0..(m - 1) /\ k - 1 \in 0..(m - 1)
      BY <1>0
    <2>2. HpPlace(n, k) = IF n < k THEN (n - k) + m ELSE n - k
      BY <1>2, <2>1, HpPlaceIs
    <2>3. HpPlace(h, k - 1) = IF h < k - 1 THEN (h - (k - 1)) + m ELSE h - (k - 1)
      BY <2>1, HpPlaceIs
    <2> QED BY <1>0, <1>1, <2>2, <2>3
  <1> QED BY <1>2, <1>3 DEF n

LEMMA HpPlaceZero ==
    ASSUME NEW h \in 0..(HpackSlots - 1)
    PROVE  HpPlace(h, 0) = h
  <1>1. 0 \in 0..(HpackSlots - 1)
    BY HpackConsts
  <1>2. HpPlace(h, 0) = IF h < 0 THEN (h - 0) + HpackSlots ELSE h - 0
    BY <1>1, HpPlaceIs
  <1> QED BY <1>2, HpackConsts

-----------------------------------------------------------------------------
\* Sums.
LEMMA HpSumsExist ==
    ASSUME NEW n \in Nat, NEW w \in [1..n -> Nat]
    PROVE  \E g \in [0..n -> Nat] : HpSums(g, w, n)
  <1> DEFINE F == [i \in 1..n |-> [x \in Nat |-> x + w[i]]]
  <1>0. \A i \in 1..n : w[i] \in Nat
    OBVIOUS
  <1>1. \A i \in 1..n : F[i] \in [Nat -> Nat]
    BY <1>0
  <1>2. \A i \in 1..n : \A x \in Nat : F[i][x] = x + w[i]
    OBVIOUS
  <1> HIDE DEF F
  <1>3. PICK g : IsLoop(g, Nat, F, 0, n)
    BY <1>1, LoopExists
  <1>4. g \in [0..n -> Nat] /\ g[0] = 0 /\ \A i \in 1..n : g[i] = F[i][g[i - 1]]
    BY <1>3 DEF IsLoop
  <1>5. \A i \in 1..n : g[i - 1] \in Nat
    BY <1>4
  <1>6. \A i \in 1..n : g[i] = g[i - 1] + w[i]
    BY <1>2, <1>4, <1>5
  <1>7. HpSums(g, w, n)
    BY <1>4, <1>6 DEF HpSums
  <1> QED BY <1>4, <1>7

\* Two sums of the same numbers are equal as far as both go.
LEMMA HpSumsAgree ==
    ASSUME NEW N \in Nat, NEW w, NEW g, NEW f,
           HpSums(g, w, N), HpSums(f, w, N)
    PROVE  \A i \in 0..N : f[i] = g[i]
  <1> DEFINE J == [i \in 0..N |-> {g[i]}]
  <1>1. f[0] \in J[0]
    BY DEF HpSums
  <1>2. ASSUME NEW i \in 1..N, f[i - 1] \in J[i - 1] PROVE f[i] \in J[i]
    <2>1. i - 1 \in 0..N /\ i \in 0..N
      OBVIOUS
    <2>2. f[i - 1] = g[i - 1]
      BY <1>2, <2>1
    <2> QED BY <2>1, <2>2 DEF HpSums
  <1>3. \A i \in 0..N : J[i] = {g[i]}
    OBVIOUS
  <1> HIDE DEF J
  <1>4. \A i \in 0..N : f[i] \in J[i]
    BY <1>1, <1>2, LoopStays
  <1> QED BY <1>3, <1>4

\* A function that is defined by the recurrence sums.
LEMMA HpTotalIs ==
    ASSUME NEW s \in Seq(Headers), NEW g, HpSums(g, HpSize(s), Len(s))
    PROVE  \A n \in 0..Len(s) : Hpack!Total(s, n) = g[n]
  <1> TAKE n \in 0..Len(s)
  <1> DEFINE sum[i \in 0..n] == IF i = 0 THEN 0 ELSE sum[i - 1] + Hpack!EntrySize(s[i])
             Is(f) == f = [i \in 0..n |-> IF i = 0 THEN 0 ELSE f[i - 1] + Hpack!EntrySize(s[i])]
             k == [i \in 0..n |-> g[i]]
  <1>1. Hpack!Total(s, n) = sum[n]
    BY DEF Hpack!Total
  <1>2. Len(s) \in Nat /\ n \in Nat /\ n <= Len(s) /\ n \in 0..n /\ 0 \in 0..n
    BY LenProperties
  <1>3. /\ g[0] = 0 /\ \A i \in 1..Len(s) : g[i] = g[i - 1] + HpSize(s)[i]
    BY DEF HpSums
  <1>4. \A i \in 1..n : i \in 1..Len(s) /\ i \in 0..n /\ i - 1 \in 0..n /\ i # 0
    BY <1>2
  <1>5. \A i \in 1..n : g[i] = g[i - 1] + Hpack!EntrySize(s[i])
    BY <1>3, <1>4 DEF HpSize
  <1>6. \A i \in 0..n : i = 0 \/ i \in 1..n
    BY <1>2
  <1>7. Is(k)
    <2>1. \A i \in 0..n : k[i] = IF i = 0 THEN 0 ELSE k[i - 1] + Hpack!EntrySize(s[i])
      BY <1>3, <1>4, <1>5, <1>6
    <2> QED BY <2>1
  <1>8. Is(sum)
    <2>1. sum = CHOOSE f : Is(f)
      OBVIOUS
    <2> HIDE DEF sum, Is
    <2> QED BY <1>7, <2>1
  <1>9. sum = [i \in 0..n |-> IF i = 0 THEN 0 ELSE sum[i - 1] + Hpack!EntrySize(s[i])]
    BY <1>8
  <1> HIDE DEF sum
  <1>10. sum[0] = 0 /\ \A i \in 1..n : sum[i] = sum[i - 1] + Hpack!EntrySize(s[i])
    BY <1>2, <1>4, <1>9
  <1> DEFINE w == [i \in 1..n |-> Hpack!EntrySize(s[i])]
  <1>11. \A i \in 1..n : w[i] = Hpack!EntrySize(s[i])
    OBVIOUS
  <1> HIDE DEF w
  <1>12. \A i \in 0..n : sum[i] = g[i]
    <2>1. \A i \in 1..n : sum[i] = sum[i - 1] + w[i] /\ g[i] = g[i - 1] + w[i]
      BY <1>5, <1>10, <1>11
    <2>2. HpSums(sum, w, n) /\ HpSums(g, w, n)
      BY <1>3, <1>10, <2>1 DEF HpSums
    <2> QED BY <1>2, <2>2, HpSumsAgree
  <1> QED BY <1>1, <1>2, <1>12

\* The totals of a table.
LEMMA HpTotals ==
    ASSUME NEW s \in Seq(Headers)
    PROVE  /\ Hpack!Total(s, 0) = 0
           /\ \A n \in 0..Len(s) : Hpack!Total(s, n) \in Nat
           /\ \A n \in 1..Len(s) :
                  Hpack!Total(s, n) = Hpack!Total(s, n - 1) + Hpack!EntrySize(s[n])
  <1> DEFINE w == HpSize(s)
  <1>1. Len(s) \in Nat /\ \A i \in 1..Len(s) : s[i] \in Headers
    BY LenProperties, ElementOfSeq
  <1>2. \A i \in 1..Len(s) : Hpack!EntrySize(s[i]) \in Nat
    BY <1>1, HpackConsts
  <1>3. w \in [1..Len(s) -> Nat] /\ \A i \in 1..Len(s) : w[i] = Hpack!EntrySize(s[i])
    BY <1>2 DEF HpSize
  <1> HIDE DEF w
  <1>4. PICK g \in [0..Len(s) -> Nat] : HpSums(g, w, Len(s))
    BY <1>1, <1>3, HpSumsExist
  <1>5. \A n \in 0..Len(s) : Hpack!Total(s, n) = g[n]
    BY <1>4, HpTotalIs DEF w
  <1>6. g \in [0..Len(s) -> Nat] /\ g[0] = 0 /\ \A i \in 1..Len(s) : g[i] = g[i - 1] + w[i]
    BY <1>4 DEF HpSums
  <1>7. 0 \in 0..Len(s) /\ \A i \in 1..Len(s) : i \in 0..Len(s) /\ i - 1 \in 0..Len(s)
    BY <1>1
  <1> QED BY <1>3, <1>5, <1>6, <1>7

\* More entries are not smaller.
LEMMA HpTotalGrows ==
    ASSUME NEW s \in Seq(Headers), NEW a \in 0..Len(s), NEW b \in 0..Len(s), a <= b
    PROVE  Hpack!Total(s, a) <= Hpack!Total(s, b)
  <1> DEFINE T == [n \in 0..Len(s) |-> Hpack!Total(s, n)]
             f == [n \in 0..(b - a) |-> T[a + n]]
             J == [n \in 0..(b - a) |-> {x \in Nat : T[a] <= x}]
  <1>1. Len(s) \in Nat /\ a \in Nat /\ b \in Nat /\ b - a \in Nat
    BY LenProperties
  <1>2. \A n \in 0..Len(s) : T[n] \in Nat
    BY HpTotals
  <1>3. \A n \in 1..Len(s) : T[n - 1] <= T[n]
    <2> TAKE n \in 1..Len(s)
    <2>1. n \in 0..Len(s) /\ n - 1 \in 0..Len(s)
      BY <1>1
    <2>2. T[n] = T[n - 1] + Hpack!EntrySize(s[n])
      BY <2>1, HpTotals
    <2>3. Hpack!EntrySize(s[n]) \in Nat
      BY HpackConsts, ElementOfSeq
    <2> QED BY <1>2, <2>1, <2>2, <2>3
  <1> HIDE DEF T
  <1>4. f[0] \in J[0]
    <2>1. f[0] = T[a]
      BY <1>1
    <2> QED BY <1>1, <1>2, <2>1
  <1>5. ASSUME NEW n \in 1..(b - a), f[n - 1] \in J[n - 1] PROVE f[n] \in J[n]
    <2>1. /\ n \in 0..(b - a) /\ n - 1 \in 0..(b - a) /\ a + n \in 1..Len(s)
          /\ a + n \in 0..Len(s) /\ (a + n) - 1 = a + (n - 1) /\ a + (n - 1) \in 0..Len(s)
      BY <1>1
    <2>2. f[n - 1] = T[a + (n - 1)] /\ f[n] = T[a + n]
      BY <2>1
    <2>3. T[a + (n - 1)] <= T[a + n]
      BY <1>3, <2>1
    <2>4. T[a + (n - 1)] \in Nat /\ T[a] <= T[a + (n - 1)]
      BY <1>5, <2>1, <2>2
    <2>5. T[a + n] \in Nat /\ T[a] \in Nat
      BY <1>2, <2>1
    <2> QED BY <2>1, <2>2, <2>3, <2>4, <2>5
  <1>6. b - a \in 0..(b - a) /\ J[b - a] = {x \in Nat : T[a] <= x} /\ f[b - a] = T[b]
    BY <1>1
  <1> HIDE DEF J, f
  <1>7. \A n \in 0..(b - a) : f[n] \in J[n]
    BY <1>1, <1>4, <1>5, LoopStays
  <1>8. T[a] <= T[b]
    BY <1>6, <1>7
  <1> QED BY <1>8 DEF T

\* The table with a header in front of the first k.
HpPushed(h, s, k) == <<h>> \o SubSeq(s, 1, k)

LEMMA HpPushedIs ==
    ASSUME NEW h \in Headers, NEW s \in Seq(Headers), NEW k \in 0..Len(s)
    PROVE  /\ HpPushed(h, s, k) \in Seq(Headers) /\ Len(HpPushed(h, s, k)) = k + 1
           /\ HpPushed(h, s, k)[1] = h
           /\ \A i \in 1..k : HpPushed(h, s, k)[i + 1] = s[i]
  <1> DEFINE b == SubSeq(s, 1, k)
             a == <<h>>
             t == a \o b
  <1>1. Len(s) \in Nat /\ k \in Nat
    BY LenProperties
  <1>2. b \in Seq(Headers) /\ Len(b) = k /\ \A i \in 1..k : b[i] = s[i]
    <2>1. 1 \in 1..(Len(s) + 1) /\ k \in (1 - 1)..Len(s)
      BY <1>1
    <2>2. /\ b \in Seq(Headers) /\ Len(b) = k - 1 + 1
          /\ \A i \in 1..(k - 1 + 1) : b[i] = s[1 + i - 1]
      BY <2>1, SubSeqProperties
    <2> QED BY <1>1, <2>2
  <1>3. a \in Seq(Headers) /\ Len(a) = 1 /\ a[1] = h
    OBVIOUS
  <1> HIDE DEF a, b
  <1>4. a \in Seq(Headers) /\ b \in Seq(Headers)
    BY <1>2, <1>3
  <1>5. /\ t \in Seq(Headers) /\ Len(t) = Len(a) + Len(b)
        /\ \A i \in 1..(Len(a) + Len(b)) : t[i] = IF i <= Len(a) THEN a[i] ELSE b[i - Len(a)]
    BY ONLY <1>4, ConcatProperties
  <1> HIDE DEF t
  <1>6. Len(t) = k + 1 /\ t[1] = h /\ \A i \in 1..k : t[i + 1] = s[i]
    BY <1>1, <1>2, <1>3, <1>4, <1>5
  <1> QED BY <1>5, <1>6 DEF HpPushed, t, a, b

LEMMA HpPushedTotal ==
    ASSUME NEW h \in Headers, NEW s \in Seq(Headers), NEW k \in 0..Len(s)
    PROVE  Hpack!Total(HpPushed(h, s, k), k + 1) = Hpack!Total(s, k) + Hpack!EntrySize(h)
  <1> DEFINE t == HpPushed(h, s, k)
             w == Hpack!EntrySize(h)
             T == [n \in 0..k |-> Hpack!Total(s, n)]
             U == [n \in 0..(k + 1) |-> Hpack!Total(t, n)]
             f == [n \in 0..k |-> U[n + 1]]
             J == [n \in 0..k |-> {T[n] + w}]
  <1>1. /\ t \in Seq(Headers) /\ Len(t) = k + 1 /\ t[1] = h
        /\ \A i \in 1..k : t[i + 1] = s[i]
    BY HpPushedIs
  <1>2. Len(s) \in Nat /\ k \in Nat /\ w \in Nat
    BY LenProperties, HpackConsts
  <1>3. /\ T[0] = 0 /\ \A n \in 0..k : T[n] \in Nat
        /\ \A n \in 1..k : T[n] = T[n - 1] + Hpack!EntrySize(s[n])
    <2>1. 0 \in 0..k /\ \A n \in 0..k : n \in 0..Len(s)
      BY <1>2
    <2>2. \A n \in 1..k : n \in 1..Len(s) /\ n \in 0..k /\ n - 1 \in 0..k
      BY <1>2
    <2> QED BY <2>1, <2>2, HpTotals
  <1> HIDE DEF t, w, T
  <1>4. /\ U[0] = 0 /\ \A n \in 1..(k + 1) : U[n] = U[n - 1] + Hpack!EntrySize(t[n])
    <2>1. 0 \in 0..(k + 1) /\ \A n \in 1..(k + 1) : n \in 0..(k + 1) /\ n - 1 \in 0..(k + 1)
      BY <1>2
    <2>2. /\ Hpack!Total(t, 0) = 0
          /\ \A n \in 1..(k + 1) : Hpack!Total(t, n) = Hpack!Total(t, n - 1) + Hpack!EntrySize(t[n])
      BY <1>1, HpTotals
    <2> QED BY <2>1, <2>2
  <1> HIDE DEF U
  <1>5. f[0] \in J[0]
    <2>1. 0 \in 0..k /\ 1 \in 1..(k + 1) /\ 0 + 1 = 1 /\ 1 - 1 = 0
      BY <1>2
    <2>2. f[0] = U[1] /\ J[0] = {T[0] + w}
      BY <2>1
    <2>3. U[1] = U[0] + Hpack!EntrySize(t[1])
      BY <1>4, <2>1
    <2> QED BY <1>1, <1>2, <1>3, <1>4, <2>2, <2>3 DEF w
  <1>6. ASSUME NEW n \in 1..k, f[n - 1] \in J[n - 1] PROVE f[n] \in J[n]
    <2>1. /\ n \in 0..k /\ n - 1 \in 0..k /\ n + 1 \in 1..(k + 1)
          /\ (n - 1) + 1 = n /\ (n + 1) - 1 = n
      BY <1>2
    <2>2. f[n] = U[n + 1] /\ f[n - 1] = U[n] /\ J[n] = {T[n] + w} /\ J[n - 1] = {T[n - 1] + w}
      BY <2>1
    <2>3. U[n] = T[n - 1] + w
      BY <1>6, <2>2
    <2>4. U[n + 1] = U[n] + Hpack!EntrySize(s[n])
      BY <1>1, <1>4, <2>1
    <2>5. PICK e : e = Hpack!EntrySize(s[n])
      OBVIOUS
    <2>6. e \in Nat
      <3>1. n \in 1..Len(s)
        BY <1>2
      <3>2. s[n] \in Headers
        BY <3>1, ElementOfSeq
      <3> QED BY <2>5, <3>2, HpackConsts
    <2>7. T[n] = T[n - 1] + e
      BY <1>3, <2>5
    <2>8. U[n + 1] = T[n] + w
      BY <1>2, <1>3, <2>1, <2>3, <2>4, <2>5, <2>6, <2>7
    <2> QED BY <2>2, <2>8
  <1>7. k \in 0..k /\ J[k] = {T[k] + w} /\ f[k] = U[k + 1]
    BY <1>2
  <1> HIDE DEF J, f
  <1>8. \A n \in 0..k : f[n] \in J[n]
    BY <1>2, <1>5, <1>6, LoopStays
  <1>9. U[k + 1] = T[k] + w
    BY <1>7, <1>8
  <1>10. k + 1 \in 0..(k + 1)
    BY <1>2
  <1> QED BY <1>7, <1>9, <1>10 DEF U, T, w, t

-----------------------------------------------------------------------------
\* Evicting the oldest of the first k entries leaves the first k - 1.
LEMMA HpEvictOldest ==
    ASSUME HpackInv, NEW k \in 1..count
    PROVE  Hpack!EvictOldest(<<k, Hpack!Total(expected, k)>>)
               = <<k - 1, Hpack!Total(expected, k - 1)>>
  <1>1. count = Len(expected) /\ count \in 0..HpackSlots /\ expected \in Seq(Headers)
    BY DEF HpackInv
  <1>2. HpackSlots \in Nat \ {0} /\ head \in 0..(HpackSlots - 1)
    BY HpackConsts DEF HpackInv
  <1>3. Hpack!Oldest(k) = HpPlace(head, k - 1)
    <2>1. head - k + 1 + HpackSlots = head - (k - 1) + HpackSlots
      BY <1>1, <1>2
    <2> QED BY <2>1 DEF Hpack!Oldest, HpPlace
  <1>4. hp_entries[Hpack!Oldest(k)] = expected[k]
    BY <1>3 DEF HpackInv
  <1>5. PICK e : e = Hpack!EntrySize(expected[k])
    OBVIOUS
  <1>6. PICK x : x = Hpack!Total(expected, k)
    OBVIOUS
  <1>7. PICK y : y = Hpack!Total(expected, k - 1)
    OBVIOUS
  <1>8. k \in 1..Len(expected) /\ k - 1 \in 0..Len(expected) /\ k \in Nat /\ k # 0
    BY <1>1, <1>2
  <1>9. x = y + e /\ y \in Nat
    BY <1>1, <1>5, <1>6, <1>7, <1>8, HpTotals
  <1>10. e \in Nat
    <2>1. expected[k] \in Headers
      BY <1>1, <1>8, ElementOfSeq
    <2> QED BY <1>5, <2>1, HpackConsts
  <1>11. x - e = y
    BY <1>9, <1>10
  <1>12. Hpack!EvictOldest(<<k, x>>) = <<k - 1, x - e>>
    BY <1>4, <1>5, <1>8 DEF Hpack!EvictOldest
  <1> QED BY <1>6, <1>7, <1>11, <1>12

\* The most entries that fit beside sz more bytes.
HpMost(k, sz) ==
    /\ k \in 0..count
    /\ Hpack!Total(expected, k) + sz <= TableMax
    /\ \A m \in (k + 1)..count : ~(Hpack!Total(expected, m) + sz <= TableMax)

LEMMA HpMostExists ==
    ASSUME HpackInv, NEW sz \in Nat, sz <= TableMax
    PROVE  \E k : HpMost(k, sz)
  <1> DEFINE Fit == {k \in 0..count : Hpack!Total(expected, k) + sz <= TableMax}
             T == {x \in 0..count : count - x \in Fit}
  <1>1. count \in Nat /\ count = Len(expected) /\ expected \in Seq(Headers)
    BY HpackConsts DEF HpackInv
  <1>2. 0 \in Fit
    <2>1. Hpack!Total(expected, 0) = 0 /\ 0 \in 0..count /\ 0 + sz = sz
      BY <1>1, HpTotals
    <2> QED BY <2>1
  <1>3. \A k \in Fit : k \in 0..count /\ Hpack!Total(expected, k) + sz <= TableMax
    OBVIOUS
  <1>4. \A k \in 0..count : k \notin Fit => ~(Hpack!Total(expected, k) + sz <= TableMax)
    OBVIOUS
  <1> HIDE DEF Fit
  <1>5. count \in T /\ T \subseteq Nat
    <2>1. count \in 0..count /\ count - count = 0
      BY <1>1
    <2> QED BY <1>1, <1>2, <2>1
  <1>6. PICK x \in T : \A y \in T : x <= y
    BY <1>5, LeastNatural
  <1> DEFINE k == count - x
  <1>7. x \in 0..count /\ k \in Fit
    OBVIOUS
  <1>8. \A y \in 0..count : count - y \in Fit => x <= y
    BY <1>6
  <1> HIDE DEF T
  <1>9. ASSUME NEW m \in (k + 1)..count PROVE m \in 0..count /\ m \notin Fit
    <2>1. m \in 0..count /\ count - m \in 0..count /\ count - (count - m) = m /\ ~(x <= count - m)
      BY <1>1, <1>7
    <2> QED BY <1>8, <2>1
  <1> HIDE DEF k
  <1>10. HpMost(k, sz)
    BY <1>3, <1>4, <1>7, <1>9 DEF HpMost
  <1> QED BY <1>10

\* The eviction loop keeps as many as fit.
LEMMA HpEvict ==
    ASSUME HpackInv, NEW sz \in Nat, NEW k, HpMost(k, sz)
    PROVE  Hpack!Evict(sz) = <<k, Hpack!Total(expected, k)>>
  <1> DEFINE E(m) == <<m, Hpack!Total(expected, m)>>
             Fits(c) == c[2] + sz <= TableMax
             turns[n \in 0..count] ==
                 IF n = 0 THEN <<count, current_size>>
                 ELSE IF Fits(turns[n - 1]) THEN turns[n - 1] ELSE Hpack!EvictOldest(turns[n - 1])
             Is(f) == f = [n \in 0..count |->
                 IF n = 0 THEN <<count, current_size>>
                 ELSE IF Fits(f[n - 1]) THEN f[n - 1] ELSE Hpack!EvictOldest(f[n - 1])]
             p == [n \in 0..count |-> IF count - n < k THEN k ELSE count - n]
             g == [n \in 0..count |-> E(p[n])]
             J == [n \in 0..count |-> {g[n]}]
  <1>1. Hpack!Evict(sz) = IF Fits(turns[count]) THEN turns[count] ELSE <<-1, turns[count][2]>>
    BY DEF Hpack!Evict
  <1>2. /\ count \in Nat /\ count = Len(expected) /\ expected \in Seq(Headers)
        /\ current_size = Hpack!Total(expected, count)
    BY HpackConsts DEF HpackInv
  <1>3. /\ k \in 0..count /\ k \in Nat
        /\ Hpack!Total(expected, k) + sz <= TableMax
        /\ \A m \in (k + 1)..count : ~(Hpack!Total(expected, m) + sz <= TableMax)
    BY <1>2 DEF HpMost
  <1>4. \A n \in 0..count : p[n] = IF count - n < k THEN k ELSE count - n
    OBVIOUS
  <1>5. \A n \in 0..count : g[n] = E(p[n])
    OBVIOUS
  <1>6. g[0] = <<count, current_size>>
    <2>1. p[0] = count /\ 0 \in 0..count
      BY <1>2, <1>3
    <2> QED BY <1>2, <2>1
  <1>7. ASSUME NEW n \in 1..count
        PROVE  g[n] = IF Fits(g[n - 1]) THEN g[n - 1] ELSE Hpack!EvictOldest(g[n - 1])
    <2>1. n - 1 \in 0..count /\ n \in 0..count
      BY <1>2
    <2>2. g[n] = E(p[n]) /\ g[n - 1] = E(p[n - 1])
      BY <2>1
    <2> HIDE DEF g
    <2>3. CASE p[n - 1] = k
      <3>1. p[n] = k
        BY <1>2, <1>3, <1>4, <2>1, <2>3
      <3>2. Fits(g[n - 1])
        BY <1>3, <2>2, <2>3
      <3> HIDE DEF Fits, E
      <3> QED BY <2>2, <2>3, <3>1, <3>2
    <2>4. CASE p[n - 1] # k
      <3>1. p[n - 1] \in (k + 1)..count /\ p[n - 1] \in 1..count /\ p[n] = p[n - 1] - 1
        BY <1>2, <1>3, <1>4, <2>1, <2>4
      <3> HIDE DEF p
      <3>2. ~Fits(g[n - 1])
        BY <1>3, <2>2, <3>1
      <3>3. Hpack!EvictOldest(E(p[n - 1])) = E(p[n - 1] - 1)
        BY <3>1, HpEvictOldest
      <3> HIDE DEF Fits, E
      <3> QED BY <2>2, <3>1, <3>2, <3>3
    <2> QED BY <2>3, <2>4
  <1>8. g = [n \in 0..count |-> g[n]]
    OBVIOUS
  <1> HIDE DEF g, p, E
  <1>9. Is(g)
    <2> HIDE DEF Fits
    <2>1. \A n \in 0..count : n = 0 \/ n \in 1..count
      BY <1>2
    <2>2. \A n \in 0..count : g[n] = IF n = 0 THEN <<count, current_size>>
                 ELSE IF Fits(g[n - 1]) THEN g[n - 1] ELSE Hpack!EvictOldest(g[n - 1])
      BY <1>6, <1>7, <2>1
    <2> QED BY <1>8, <2>2
  <1>10. Is(turns)
    <2>1. turns = CHOOSE f : Is(f)
      OBVIOUS
    <2> HIDE DEF turns, Is
    <2> QED BY <1>9, <2>1
  <1> HIDE DEF turns, Fits
  <1>11. turns[0] = <<count, current_size>>
    <2>1. 0 \in 0..count
      BY <1>2
    <2> QED BY <1>10, <2>1
  <1>12. \A n \in 1..count : turns[n] = IF Fits(turns[n - 1]) THEN turns[n - 1]
                                        ELSE Hpack!EvictOldest(turns[n - 1])
    <2>1. \A n \in 1..count : n \in 0..count /\ n # 0
      BY <1>2
    <2> QED BY <1>10, <2>1
  <1> HIDE DEF Is
  <1>13. turns[0] \in J[0]
    <2>1. 0 \in 0..count
      BY <1>2
    <2> QED BY <1>6, <1>11, <2>1
  <1>14. ASSUME NEW n \in 1..count, turns[n - 1] \in J[n - 1] PROVE turns[n] \in J[n]
    <2>1. n - 1 \in 0..count /\ n \in 0..count
      BY <1>2
    <2>2. turns[n - 1] = g[n - 1]
      BY <1>14, <2>1
    <2>3. turns[n] = g[n]
      BY <1>7, <1>12, <2>2
    <2> QED BY <2>1, <2>3
  <1>15. count \in 0..count /\ J[count] = {g[count]}
    BY <1>2
  <1> HIDE DEF J
  <1>16. \A n \in 0..count : turns[n] \in J[n]
    BY <1>2, <1>13, <1>14, LoopStays
  <1>17. turns[count] = g[count]
    BY <1>15, <1>16
  <1>18. g[count] = <<k, Hpack!Total(expected, k)>>
    <2>1. p[count] = k
      BY <1>2, <1>3, <1>4, <1>15
    <2> QED BY <1>5, <1>15, <2>1 DEF E
  <1>19. Fits(turns[count])
    BY <1>3, <1>17, <1>18 DEF Fits
  <1> QED BY <1>1, <1>17, <1>18, <1>19

-----------------------------------------------------------------------------
LEMMA HpackInitially == ASSUME Hpack!Init PROVE HpackInv
  <1>1. /\ hp_entries = [i \in 0..(HpackSlots - 1) |-> Hpack!Empty]
        /\ count = 0 /\ head = 0 /\ current_size = 0 /\ expected = <<>>
    BY DEF Hpack!Init
  <1>2. expected \in Seq(Headers) /\ Len(expected) = 0
    BY <1>1, EmptySeq
  <1>3. Hpack!Total(expected, 0) = 0
    BY <1>2, HpTotals
  <1>4. count \in 0..HpackSlots /\ head \in 0..(HpackSlots - 1) /\ current_size <= TableMax
    BY <1>1, HpackConsts
  <1>5. hp_entries \in [0..(HpackSlots - 1) -> Headers \cup {Hpack!Empty}]
    BY <1>1
  <1>6. 1..count = {}
    BY <1>1
  <1> QED BY <1>1, <1>2, <1>3, <1>4, <1>5, <1>6 DEF HpackInv

\* What is kept beside a new header: as many entries as fit in bytes and slots.
LEMMA HpKept ==
    ASSUME HpackInv, NEW h \in Headers, Hpack!EntrySize(h) <= TableMax,
           NEW k \in 0..count, k < HpackSlots,
           Hpack!Total(expected, k) + Hpack!EntrySize(h) <= TableMax,
           \A m \in (k + 1)..count : m < HpackSlots =>
               ~(Hpack!Total(expected, m) + Hpack!EntrySize(h) <= TableMax)
    PROVE  Hpack!Kept(expected, h) = HpPushed(h, expected, k)
  <1> DEFINE Fits(n) == n < HpackSlots /\ Hpack!Total(expected, n) + Hpack!EntrySize(h) <= TableMax
             x == CHOOSE n \in 0..Len(expected) :
                      Fits(n) /\ \A m \in (n + 1)..Len(expected) : ~Fits(m)
  <1>1. count \in Nat /\ count = Len(expected) /\ expected \in Seq(Headers)
    BY HpackConsts DEF HpackInv
  <1>2. Hpack!EntrySize(h) \in Nat
    BY HpackConsts
  <1>3. Hpack!Kept(expected, h) = <<h>> \o SubSeq(expected, 1, x)
    <2>1. ~(Hpack!EntrySize(h) > TableMax)
      BY <1>2, HpackConsts
    <2> QED BY <2>1 DEF Hpack!Kept
  <1>4. Fits(k) /\ \A m \in (k + 1)..Len(expected) : ~Fits(m)
    BY <1>1
  <1> HIDE DEF Fits
  <1>5. x = k
    <2>1. k \in 0..Len(expected)
      BY <1>1
    <2>2. x \in 0..Len(expected) /\ Fits(x) /\ \A m \in (x + 1)..Len(expected) : ~Fits(m)
      BY <1>4, <2>1
    <2> HIDE DEF x
    <2>3. ~(x < k) /\ ~(k < x)
      <3>1. x < k => k \in (x + 1)..Len(expected)
        BY <1>1, <2>1, <2>2
      <3>2. k < x => x \in (k + 1)..Len(expected)
        BY <1>1, <2>1, <2>2
      <3> QED BY <1>4, <2>2, <3>1, <3>2
    <2> QED BY <1>1, <2>1, <2>2, <2>3
  <1> QED BY <1>3, <1>5 DEF HpPushed

\* What both evictions leave for a header that fits.
LEMMA HpRoom ==
    ASSUME HpackInv, NEW h \in Headers, Hpack!EntrySize(h) <= TableMax
    PROVE  \E k \in 0..count :
               /\ k < HpackSlots
               /\ Hpack!EvictForSlot(Hpack!Evict(Hpack!EntrySize(h))) = <<k, Hpack!Total(expected, k)>>
               /\ Hpack!Total(expected, k) + Hpack!EntrySize(h) <= TableMax
               /\ Hpack!Kept(expected, h) = HpPushed(h, expected, k)
  <1> DEFINE sz == Hpack!EntrySize(h)
  <1>1. /\ count \in Nat /\ count = Len(expected) /\ expected \in Seq(Headers)
        /\ HpackSlots \in Nat \ {0} /\ count <= HpackSlots /\ TableMax \in Nat /\ sz \in Nat
    BY HpackConsts DEF HpackInv
  <1>0. sz <= TableMax
    OBVIOUS
  <1> HIDE DEF sz
  <1>2. PICK j : HpMost(j, sz)
    BY <1>0, <1>1, HpMostExists
  <1>3. Hpack!Evict(sz) = <<j, Hpack!Total(expected, j)>>
    BY <1>1, <1>2, HpEvict
  <1>4. /\ j \in 0..count /\ Hpack!Total(expected, j) + sz <= TableMax
        /\ \A m \in (j + 1)..count : ~(Hpack!Total(expected, m) + sz <= TableMax)
    BY <1>2 DEF HpMost
  <1>5. CASE j < HpackSlots
    <2>1. Hpack!EvictForSlot(Hpack!Evict(sz)) = <<j, Hpack!Total(expected, j)>>
      BY <1>1, <1>3, <1>4, <1>5 DEF Hpack!EvictForSlot
    <2>2. Hpack!Kept(expected, h) = HpPushed(h, expected, j)
      BY <1>0, <1>4, <1>5, HpKept DEF sz
    <2> QED BY <1>4, <1>5, <2>1, <2>2 DEF sz
  <1>6. CASE ~(j < HpackSlots)
    <2>1. j = HpackSlots /\ j = count /\ j \in 1..count /\ j - 1 \in 0..count /\ j - 1 < HpackSlots
      BY <1>1, <1>4, <1>6
    <2>2. Hpack!EvictForSlot(Hpack!Evict(sz)) = <<j - 1, Hpack!Total(expected, j - 1)>>
      <3>1. Hpack!EvictForSlot(<<j, Hpack!Total(expected, j)>>)
                = Hpack!EvictOldest(<<j, Hpack!Total(expected, j)>>)
        BY <1>1, <2>1 DEF Hpack!EvictForSlot
      <3> QED BY <1>3, <2>1, <3>1, HpEvictOldest
    <2>3. Hpack!Total(expected, j - 1) + sz <= TableMax
      <3>1. PICK x : x = Hpack!Total(expected, j)
        OBVIOUS
      <3>2. PICK y : y = Hpack!Total(expected, j - 1)
        OBVIOUS
      <3>3. j \in 0..Len(expected) /\ j - 1 \in 0..Len(expected) /\ j - 1 <= j
        BY <1>1, <2>1
      <3>4. x \in Nat /\ y \in Nat /\ y <= x
        BY <1>1, <3>1, <3>2, <3>3, HpTotals, HpTotalGrows
      <3>5. x + sz <= TableMax
        BY <1>4, <3>1
      <3>6. y + sz <= TableMax
        BY <1>1, <3>4, <3>5
      <3> QED BY <3>2, <3>6
    <2>4. \A m \in ((j - 1) + 1)..count : ~(m < HpackSlots)
      BY <1>1, <2>1
    <2>5. Hpack!Kept(expected, h) = HpPushed(h, expected, j - 1)
      BY <1>0, <2>1, <2>3, <2>4, HpKept DEF sz
    <2> QED BY <2>1, <2>2, <2>3, <2>5 DEF sz
  <1> QED BY <1>5, <1>6

\* The ring after a header was put in the slot that follows k entries.
LEMMA HpRingAfter ==
    ASSUME HpackInv, NEW h \in Headers, NEW k \in 0..count, k < HpackSlots
    PROVE  LET slot == Hpack!HeadAfter(k)
               ring == [hp_entries EXCEPT ![slot] = h]
           IN /\ slot \in 0..(HpackSlots - 1)
              /\ ring \in [0..(HpackSlots - 1) -> Headers \cup {Hpack!Empty}]
              /\ \A i \in 1..(k + 1) :
                     ring[HpPlace(slot, i - 1)] = HpPushed(h, expected, k)[i]
  <1> DEFINE slot == Hpack!HeadAfter(k)
             ring == [hp_entries EXCEPT ![slot] = h]
             t == HpPushed(h, expected, k)
  <1>1. /\ count \in Nat /\ count = Len(expected) /\ expected \in Seq(Headers) /\ k \in Nat
        /\ HpackSlots \in Nat \ {0} /\ head \in 0..(HpackSlots - 1)
        /\ hp_entries \in [0..(HpackSlots - 1) -> Headers \cup {Hpack!Empty}]
        /\ \A i \in 1..count : hp_entries[HpPlace(head, i - 1)] = expected[i]
    BY HpackConsts DEF HpackInv
  <1>2. slot = IF k > 0 THEN (head + 1) % HpackSlots ELSE head
    BY DEF Hpack!HeadAfter
  <1>3. slot \in 0..(HpackSlots - 1)
    <2>1. (head + 1) % HpackSlots \in 0..(HpackSlots - 1)
      BY <1>1, HpPlaceNext
    <2> QED BY <1>1, <1>2, <2>1
  <1>4. t[1] = h /\ \A i \in 1..k : t[i + 1] = expected[i]
    <2>1. k \in 0..Len(expected)
      BY <1>1
    <2> QED BY <1>1, <2>1, HpPushedIs
  <1>5. ring \in [0..(HpackSlots - 1) -> Headers \cup {Hpack!Empty}]
    BY <1>1, <1>3
  <1>6. ring[slot] = h /\ \A p \in 0..(HpackSlots - 1) : p # slot => ring[p] = hp_entries[p]
    BY <1>1, <1>3
  <1> HIDE DEF ring, slot, t
  <1>7. HpPlace(slot, 0) = slot
    BY <1>3, HpPlaceZero
  <1>8. ASSUME NEW i \in 1..(k + 1) PROVE ring[HpPlace(slot, i - 1)] = t[i]
    <2>1. CASE i = 1
      BY <1>4, <1>6, <1>7, <2>1
    <2>2. CASE i # 1
      <3>1. PICK j \in 1..k : i = j + 1 /\ i - 1 = j
        <4>1. i - 1 \in 1..k /\ i = (i - 1) + 1
          BY <1>1, <2>2
        <4> QED BY <4>1
      <3>2. k > 0 /\ j \in 1..(HpackSlots - 1) /\ j - 1 \in 0..(HpackSlots - 1) /\ j \in 1..count
        BY <1>1
      <3>3. slot = (head + 1) % HpackSlots
        BY <1>2, <3>2
      <3>4. HpPlace(slot, j) = HpPlace(head, j - 1) /\ HpPlace(head, j - 1) # slot
        BY <1>1, <3>2, <3>3, HpPlaceNext
      <3>5. HpPlace(head, j - 1) \in 0..(HpackSlots - 1)
        BY <1>1, <3>2, HpPlaceIs
      <3>6. ring[HpPlace(slot, j)] = hp_entries[HpPlace(head, j - 1)]
        BY <1>6, <3>4, <3>5
      <3> QED BY <1>1, <1>4, <3>1, <3>2, <3>6
    <2> QED BY <2>1, <2>2
  <1> QED BY <1>3, <1>5, <1>8 DEF ring, slot, t

LEMMA HpackStep ==
    ASSUME NoLongHeaders, HpackInv, [Hpack!Next]_hpackVars
    PROVE  HpackInv'
  <1>1. ASSUME NEW h \in Headers, Hpack!DynAdd(h) PROVE HpackInv'
    <2> DEFINE sz == Hpack!EntrySize(h)
               room == Hpack!EvictForSlot(Hpack!Evict(sz))
    <2>1. /\ sz \in Nat /\ TableMax \in Nat /\ Hpack!Cut(h) = h /\ expected \in Seq(Headers)
          /\ head \in 0..(HpackSlots - 1) /\ HpackSlots \in Nat \ {0}
          /\ hp_entries \in [0..(HpackSlots - 1) -> Headers \cup {Hpack!Empty}]
      <3>1. h = <<h[1], h[2]>> /\ h[2] \in Nat /\ h[2] <= FieldMax /\ FieldMax \in Nat
        BY HpackConsts DEF NoLongHeaders
      <3>2. Hpack!Cut(h) = <<h[1], h[2]>>
        BY <3>1 DEF Hpack!Cut
      <3> QED BY <3>1, <3>2, HpackConsts DEF HpackInv
    <2>2. expected' = Hpack!Kept(expected, h)
      BY <1>1 DEF Hpack!DynAdd
    <2>3. CASE sz > TableMax
      <3>1. count' = 0 /\ current_size' = 0 /\ hp_entries' = hp_entries /\ head' = head
        BY <1>1, <2>1, <2>3 DEF Hpack!DynAdd
      <3>2. expected' = <<>>
        BY <2>2, <2>3 DEF Hpack!Kept
      <3>3. expected' \in Seq(Headers) /\ Len(expected') = 0
        BY <3>2, EmptySeq
      <3>4. Hpack!Total(expected', 0) = 0
        BY <3>3, HpTotals
      <3>5. count' \in 0..HpackSlots /\ current_size' <= TableMax /\ 1..count' = {}
        BY <2>1, <3>1
      <3>6. head' \in 0..(HpackSlots - 1) /\ hp_entries' \in [0..(HpackSlots - 1) -> Headers \cup {Hpack!Empty}]
        BY <2>1, <3>1
      <3>7. current_size' = Hpack!Total(expected', count')
        BY <3>1, <3>4
      <3>8. count' = Len(expected')
        BY <3>1, <3>3
      <3> QED BY <3>3, <3>5, <3>6, <3>7, <3>8 DEF HpackInv, Hpack!Total, Hpack!EntrySize
    <2>4. CASE sz <= TableMax
      <3>1. PICK k \in 0..count :
               /\ k < HpackSlots
               /\ room = <<k, Hpack!Total(expected, k)>>
               /\ Hpack!Total(expected, k) + sz <= TableMax
               /\ Hpack!Kept(expected, h) = HpPushed(h, expected, k)
        BY <2>4, HpRoom
      <3> DEFINE slot == Hpack!HeadAfter(k)
                 ring == [hp_entries EXCEPT ![slot] = h]
                 t == HpPushed(h, expected, k)
      <3>2. room[1] = k /\ room[2] = Hpack!Total(expected, k)
        BY <3>1
      <3>3. /\ head' = Hpack!HeadAfter(room[1])
            /\ hp_entries' = [hp_entries EXCEPT ![Hpack!HeadAfter(room[1])] = Hpack!Cut(h)]
            /\ count' = room[1] + 1 /\ current_size' = room[2] + sz
        BY <1>1, <2>1, <2>4 DEF Hpack!DynAdd
      <3> HIDE DEF room, sz
      <3>4. head' = slot /\ hp_entries' = ring /\ count' = k + 1
        BY <2>1, <3>2, <3>3
      <3>5. current_size' = Hpack!Total(expected, k) + sz
        BY <3>2, <3>3
      <3>6. expected' = t
        BY <2>2, <3>1
      <3>7. /\ slot \in 0..(HpackSlots - 1)
            /\ ring \in [0..(HpackSlots - 1) -> Headers \cup {Hpack!Empty}]
            /\ \A i \in 1..(k + 1) : ring[HpPlace(slot, i - 1)] = t[i]
        BY <3>1, HpRingAfter
      <3>8. count = Len(expected) /\ count \in Nat /\ k \in 0..Len(expected) /\ k \in Nat
        BY HpackConsts DEF HpackInv
      <3>9. t \in Seq(Headers) /\ Len(t) = k + 1
        BY <2>1, <3>8, HpPushedIs
      <3>10. Hpack!Total(t, k + 1) = Hpack!Total(expected, k) + sz
        BY <2>1, <3>8, HpPushedTotal DEF sz
      <3> HIDE DEF slot, ring, t
      <3>11. count' \in 0..HpackSlots
        BY <2>1, <3>1, <3>4, <3>8
      <3>12. current_size' = Hpack!Total(expected', count') /\ current_size' <= TableMax
        BY <3>1, <3>4, <3>5, <3>6, <3>10
      <3>13. expected' \in Seq(Headers) /\ count' = Len(expected')
        BY <3>4, <3>6, <3>9
      <3>14. head' \in 0..(HpackSlots - 1) /\ hp_entries' \in [0..(HpackSlots - 1) -> Headers \cup {Hpack!Empty}]
        BY <3>4, <3>7
      <3>15. \A i \in 1..count' : hp_entries'[HpPlace(head', i - 1)] = expected'[i]
        BY <3>4, <3>6, <3>7
      <3> QED BY <3>11, <3>12, <3>13, <3>14, <3>15 DEF HpackInv, HpPlace, Hpack!Total, Hpack!EntrySize
    <2> QED BY <2>1, <2>3, <2>4
  <1>2. CASE UNCHANGED hpackVars
    BY <1>2 DEF HpackInv, hpackVars, HpPlace, Hpack!Total, Hpack!EntrySize
  <1> QED BY <1>1, <1>2 DEF Hpack!Next

\* An index means the header that RFC 7541 gives it, the size is the sum of
\* the sizes of the entries, and room for a header that fits is always found.
LEMMA HpackConsequences ==
    ASSUME HpackInv
    PROVE  Hpack!TypeOK /\ Hpack!IndicesAgree /\ Hpack!SizeIsExact
  <1>1. /\ expected \in Seq(Headers) /\ count = Len(expected) /\ count \in 0..HpackSlots /\ count \in Nat
        /\ head \in 0..(HpackSlots - 1) /\ HpackSlots \in Nat \ {0}
        /\ \A i \in 1..count : hp_entries[HpPlace(head, i - 1)] = expected[i]
        /\ current_size = Hpack!Total(expected, count) /\ current_size <= TableMax
    BY HpackConsts DEF HpackInv
  <1>2. Hpack!TypeOK
    <2>1. count \in 0..Len(expected)
      BY <1>1
    <2>2. current_size \in Int
      BY <1>1, <2>1, HpTotals
    <2> QED BY <1>1, <2>2 DEF Hpack!TypeOK
  <1>3. \A i \in 1..count : Hpack!DynLookup(i - 1) = expected[i]
    BY <1>1 DEF Hpack!DynLookup, HpPlace
  <1>4. Hpack!IndicesAgree
    BY <1>1, <1>3 DEF Hpack!IndicesAgree
  <1>5. ASSUME NEW h \in Headers, Hpack!EntrySize(h) <= TableMax
        PROVE  Hpack!Evict(Hpack!EntrySize(h))[1] >= 0
    <2>1. Hpack!EntrySize(h) \in Nat
      BY HpackConsts
    <2>2. PICK k : HpMost(k, Hpack!EntrySize(h))
      BY <1>5, <2>1, HpMostExists
    <2>3. Hpack!Evict(Hpack!EntrySize(h)) = <<k, Hpack!Total(expected, k)>>
      BY <2>1, <2>2, HpEvict
    <2>4. k \in 0..count
      BY <2>2 DEF HpMost
    <2> QED BY <2>3, <2>4
  <1> DEFINE sum[i \in 0..count] ==
                 IF i = 0 THEN 0 ELSE sum[i - 1] + Hpack!EntrySize(Hpack!DynLookup(i - 1))
             Is(f) == f = [i \in 0..count |->
                 IF i = 0 THEN 0 ELSE f[i - 1] + Hpack!EntrySize(Hpack!DynLookup(i - 1))]
             g == [i \in 0..count |-> Hpack!Total(expected, i)]
             w == HpSize(expected)
  <1>6. /\ g[0] = 0
        /\ \A i \in 1..count : g[i] = g[i - 1] + Hpack!EntrySize(Hpack!DynLookup(i - 1))
        /\ \A i \in 1..count : w[i] = Hpack!EntrySize(Hpack!DynLookup(i - 1))
    <2>1. 0 \in 0..count /\ \A i \in 1..count : i \in 0..count /\ i - 1 \in 0..count
      BY <1>1
    <2> QED BY <1>1, <1>3, <2>1, HpTotals DEF HpSize
  <1>7. g = [i \in 0..count |-> g[i]] /\ g[count] = Hpack!Total(expected, count)
    BY <1>1
  <1> HIDE DEF g, w
  <1>8. Is(g)
    <2>1. \A i \in 0..count : i = 0 \/ i \in 1..count
      BY <1>1
    <2>2. \A i \in 0..count : g[i] = IF i = 0 THEN 0
                 ELSE g[i - 1] + Hpack!EntrySize(Hpack!DynLookup(i - 1))
      BY <1>6, <2>1
    <2> QED BY <1>7, <2>2
  <1>9. Is(sum)
    <2>1. sum = CHOOSE f : Is(f)
      OBVIOUS
    <2> HIDE DEF sum, Is
    <2> QED BY <1>8, <2>1
  <1> HIDE DEF sum
  <1>10. sum[0] = 0 /\ \A i \in 1..count : sum[i] = sum[i - 1] + Hpack!EntrySize(Hpack!DynLookup(i - 1))
    <2>1. 0 \in 0..count /\ \A i \in 1..count : i \in 0..count /\ i # 0
      BY <1>1
    <2> QED BY <1>9, <2>1
  <1> HIDE DEF Is
  <1>11. HpSums(sum, w, count) /\ HpSums(g, w, count)
    BY <1>6, <1>10 DEF HpSums
  <1>12. \A i \in 0..count : sum[i] = g[i]
    BY <1>1, <1>11, HpSumsAgree
  <1>13. current_size = sum[count]
    <2>1. count \in 0..count
      BY <1>1
    <2> QED BY <1>1, <1>7, <1>12, <2>1
  <1>14. Hpack!SizeIsExact
    BY <1>1, <1>5, <1>13 DEF Hpack!SizeIsExact, sum
  <1> QED BY <1>2, <1>4, <1>14

-----------------------------------------------------------------------------
\* What holds of the table however long the headers are: count, head and
\* current_size have their types, and so has what the eviction loop makes of
\* them.
HpTypes ==
    /\ count \in 0..HpackSlots /\ head \in 0..(HpackSlots - 1) /\ current_size \in Int
    /\ hp_entries \in [0..(HpackSlots - 1) -> Headers \cup {Hpack!Cut(h) : h \in Headers} \cup {Hpack!Empty}]

\* The states of the eviction loop.
HpLoopState == (0..count) \X Int

LEMMA HpEvictOldestTypes ==
    ASSUME HpTypes, NEW c \in HpLoopState
    PROVE  Hpack!EvictOldest(c) \in HpLoopState
  <1>1. HpackSlots \in Nat \ {0} /\ count \in Nat /\ head \in Nat
    BY HpackConsts DEF HpTypes
  <1>2. PICK a \in 0..count, b \in Int : c = <<a, b>>
    BY DEF HpLoopState
  <1>3. c[1] = a /\ c[2] = b
    BY <1>2
  <1>4. CASE a = 0
    BY <1>3, <1>4 DEF Hpack!EvictOldest
  <1>5. CASE a # 0
    <2> DEFINE x == head - a + 1 + HpackSlots
    <2>1. x \in Int
      BY <1>1
    <2>2. Hpack!Oldest(a) = x % HpackSlots
      BY DEF Hpack!Oldest
    <2> HIDE DEF x
    <2>3. Hpack!Oldest(a) \in 0..(HpackSlots - 1)
      BY <1>1, <2>1, <2>2, DivMod
    <2>4. PICK e : e = hp_entries[Hpack!Oldest(a)]
      OBVIOUS
    <2>5. e \in Headers \/ (\E h \in Headers : e = Hpack!Cut(h)) \/ e = Hpack!Empty
      BY <2>3, <2>4 DEF HpTypes
    <2>6. e[2] \in Nat
      <3>1. CASE e \in Headers
        BY <3>1, HpackConsts
      <3>2. ASSUME NEW h \in Headers, e = Hpack!Cut(h) PROVE e[2] \in Nat
        <4>1. h[2] \in Nat /\ FieldMax \in Nat
          BY HpackConsts
        <4> QED BY <3>2, <4>1 DEF Hpack!Cut
      <3>3. CASE e = Hpack!Empty
        BY <3>3 DEF Hpack!Empty
      <3> QED BY <2>5, <3>1, <3>2, <3>3
    <2>7. PICK z : z = Hpack!EntrySize(e)
      OBVIOUS
    <2>8. z \in Int
      BY <2>6, <2>7 DEF Hpack!EntrySize, Hpack!Overhead
    <2>9. Hpack!EvictOldest(c) = <<a - 1, b - z>>
      BY <1>3, <1>5, <2>4, <2>7 DEF Hpack!EvictOldest
    <2>10. a - 1 \in 0..count /\ b - z \in Int
      BY <1>1, <1>5, <2>8
    <2> QED BY <2>9, <2>10 DEF HpLoopState
  <1> QED BY <1>4, <1>5

LEMMA HpEvictTypes ==
    ASSUME HpTypes, NEW sz \in Nat, Hpack!Evict(sz)[1] # -1
    PROVE  Hpack!Evict(sz) \in HpLoopState
  <1> DEFINE C == HpLoopState
             Fits(c) == c[2] + sz <= TableMax
             turns[n \in 0..count] ==
                 IF n = 0 THEN <<count, current_size>>
                 ELSE IF Fits(turns[n - 1]) THEN turns[n - 1] ELSE Hpack!EvictOldest(turns[n - 1])
             Is(f) == f = [n \in 0..count |->
                 IF n = 0 THEN <<count, current_size>>
                 ELSE IF Fits(f[n - 1]) THEN f[n - 1] ELSE Hpack!EvictOldest(f[n - 1])]
             Turn(c) == IF Fits(c) THEN c ELSE Hpack!EvictOldest(c)
             F == [n \in 1..count |-> [c \in C |-> Turn(c)]]
             J == [n \in 0..count |-> C]
  <1>1. Hpack!Evict(sz) = IF Fits(turns[count]) THEN turns[count] ELSE <<-1, turns[count][2]>>
    BY DEF Hpack!Evict
  <1>2. count \in Nat /\ <<count, current_size>> \in C
    BY HpackConsts DEF HpTypes, HpLoopState
  <1> HIDE DEF Fits
  <1>3. \A c \in C : Turn(c) \in C
    BY HpEvictOldestTypes
  <1>4. \A n \in 1..count : F[n] \in [C -> C] /\ \A c \in C : F[n][c] = Turn(c)
    <2> HIDE DEF Turn, C
    <2> QED BY <1>3
  <1> HIDE DEF F, C
  <1>5. PICK g : IsLoop(g, C, F, <<count, current_size>>, count)
    BY <1>2, <1>4, LoopExists
  <1>6. /\ g \in [0..count -> C] /\ g[0] = <<count, current_size>>
        /\ \A n \in 1..count : g[n] = F[n][g[n - 1]]
    BY <1>5 DEF IsLoop
  <1>7. Is(g)
    <2>1. ASSUME NEW n \in 0..count
          PROVE  g[n] = IF n = 0 THEN <<count, current_size>>
                        ELSE IF Fits(g[n - 1]) THEN g[n - 1] ELSE Hpack!EvictOldest(g[n - 1])
      <3>1. CASE n = 0
        BY <1>6, <3>1
      <3>2. CASE n # 0
        <4>1. n \in 1..count /\ n - 1 \in 0..count
          BY <1>2, <3>2
        <4>2. g[n - 1] \in C /\ g[n] = Turn(g[n - 1])
          BY <1>4, <1>6, <4>1
        <4> QED BY <3>2, <4>2
      <3> QED BY <3>1, <3>2
    <2> QED BY <1>6, <2>1
  <1>8. turns = CHOOSE f : Is(f)
    OBVIOUS
  <1> HIDE DEF turns, Is
  <1>9. Is(turns)
    BY <1>7, <1>8
  <1>10. turns[0] \in J[0]
    <2>1. 0 \in 0..count
      BY <1>2
    <2>2. turns[0] = <<count, current_size>>
      BY <1>9, <2>1 DEF Is
    <2> QED BY <1>2, <2>1, <2>2
  <1>11. ASSUME NEW n \in 1..count, turns[n - 1] \in J[n - 1] PROVE turns[n] \in J[n]
    <2>1. n - 1 \in 0..count /\ n \in 0..count /\ n # 0
      BY <1>2
    <2>2. turns[n - 1] \in C
      BY <1>11, <2>1
    <2>3. turns[n] = Turn(turns[n - 1])
      BY <1>9, <2>1 DEF Is
    <2> HIDE DEF Turn
    <2> QED BY <1>3, <2>1, <2>2, <2>3
  <1>12. turns[count] \in C
    <2>1. count \in 0..count
      BY <1>2
    <2>2. J[count] = C
      BY <2>1
    <2> HIDE DEF J
    <2>3. \A n \in 0..count : turns[n] \in J[n]
      BY <1>2, <1>10, <1>11, LoopStays
    <2> QED BY <2>1, <2>2, <2>3
  <1>13. Hpack!Evict(sz) = turns[count]
    <2>1. CASE Fits(turns[count])
      BY <1>1, <2>1
    <2>2. CASE ~Fits(turns[count])
      <3>1. Hpack!Evict(sz) = <<-1, turns[count][2]>>
        BY <1>1, <2>2
      <3>2. Hpack!Evict(sz)[1] = -1
        BY <3>1
      <3> QED BY <3>2
    <2> QED BY <2>1, <2>2
  <1> QED BY <1>12, <1>13 DEF C

LEMMA HpTypesInitially == ASSUME Hpack!Init PROVE HpTypes
  <1>1. HpackSlots \in Nat \ {0}
    BY HpackConsts
  <1>2. /\ hp_entries = [i \in 0..(HpackSlots - 1) |-> Hpack!Empty]
        /\ count = 0 /\ head = 0 /\ current_size = 0
    BY DEF Hpack!Init
  <1>3. count \in 0..HpackSlots /\ head \in 0..(HpackSlots - 1) /\ current_size \in Int
    BY <1>1, <1>2
  <1> QED BY <1>2, <1>3 DEF HpTypes

LEMMA HpTypesStep == ASSUME HpTypes, [Hpack!Next]_hpackVars PROVE HpTypes'
  <1>0. HpackSlots \in Nat \ {0}
    BY HpackConsts
  <1>1. ASSUME NEW h \in Headers, Hpack!DynAdd(h) PROVE HpTypes'
    <2> DEFINE sz == Hpack!EntrySize(h)
               left == Hpack!Evict(sz)
               room == Hpack!EvictForSlot(left)
               slot == Hpack!HeadAfter(room[1])
    <2>1. CASE sz > TableMax /\ count' = 0 /\ current_size' = 0 /\ hp_entries' = hp_entries /\ head' = head
      <3>1. count' \in 0..HpackSlots /\ current_size' \in Int
        BY <1>0, <2>1
      <3> QED BY <2>1, <3>1 DEF HpTypes, Hpack!Cut, Hpack!Empty
    <2>2. CASE /\ left[1] # -1 /\ head' = slot
               /\ hp_entries' = [hp_entries EXCEPT ![slot] = Hpack!Cut(h)]
               /\ count' = room[1] + 1 /\ current_size' = room[2] + sz
      <3>1. sz \in Nat
        BY HpackConsts
      <3>2. left \in HpLoopState
        BY <2>2, <3>1, HpEvictTypes
      <3> HIDE DEF left, sz
      <3>3. PICK a \in 0..count, b \in Int : left = <<a, b>>
        BY <3>2 DEF HpLoopState
      <3>4. room \in HpLoopState /\ room[1] < HpackSlots
        <4>1. left[1] = a /\ count \in 0..HpackSlots
          BY <3>3 DEF HpTypes
        <4>2. CASE a >= HpackSlots
          <5>1. a # 0 /\ a = HpackSlots /\ count = a
            BY <1>0, <4>1, <4>2
          <5>2. room = Hpack!EvictOldest(left)
            BY <4>1, <4>2 DEF Hpack!EvictForSlot
          <5>3. Hpack!EvictOldest(left)[1] = a - 1
            BY <4>1, <5>1 DEF Hpack!EvictOldest
          <5>4. room \in HpLoopState
            BY <3>2, <5>2, HpEvictOldestTypes
          <5> HIDE DEF room
          <5>5. room[1] = a - 1
            BY <5>2, <5>3
          <5> QED BY <1>0, <5>1, <5>4, <5>5
        <4>3. CASE ~(a >= HpackSlots)
          <5>1. room = left
            BY <4>1, <4>3 DEF Hpack!EvictForSlot
          <5> HIDE DEF room
          <5> QED BY <1>0, <3>2, <4>1, <4>3, <5>1
        <4> QED BY <4>2, <4>3
      <3> HIDE DEF room
      <3>5. room[1] \in 0..count /\ room[2] \in Int /\ count \in 0..HpackSlots /\ head \in 0..(HpackSlots - 1)
        BY <3>4 DEF HpLoopState, HpTypes
      <3>6. room[1] + 1 \in 0..HpackSlots /\ room[2] + sz \in Int
        BY <1>0, <3>1, <3>4, <3>5
      <3>7. slot \in 0..(HpackSlots - 1)
        <4>1. (head + 1) \in Int
          BY <3>5
        <4>2. ((head + 1) % HpackSlots) \in 0..(HpackSlots - 1)
          BY <1>0, <4>1, DivMod
        <4>3. slot = head \/ slot = (head + 1) % HpackSlots
          BY Zenon DEF Hpack!HeadAfter
        <4> HIDE DEF slot
        <4> QED BY <3>5, <4>2, <4>3
      <3> HIDE DEF slot
      <3>8. hp_entries' \in [0..(HpackSlots - 1) -> Headers \cup {Hpack!Cut(x) : x \in Headers} \cup {Hpack!Empty}]
        <4>1. Hpack!Cut(h) \in {Hpack!Cut(x) : x \in Headers}
          OBVIOUS
        <4> QED BY <2>2, <3>7, <4>1 DEF HpTypes
      <3>9. /\ head' \in 0..(HpackSlots - 1) /\ count' \in 0..HpackSlots /\ current_size' \in Int
        BY <2>2, <3>6, <3>7
      <3> QED BY <3>8, <3>9 DEF HpTypes, Hpack!Cut, Hpack!Empty
    <2> QED BY <1>1, <2>1, <2>2, Zenon DEF Hpack!DynAdd
  <1>2. CASE UNCHANGED hpackVars
    BY <1>2 DEF HpTypes, hpackVars, Hpack!Cut, Hpack!Empty
  <1> QED BY <1>1, <1>2 DEF Hpack!Next

LEMMA HpTypesConsequences == ASSUME HpTypes PROVE Hpack!TypeOK
  BY DEF HpTypes, Hpack!TypeOK

-----------------------------------------------------------------------------
\* The connection and its pipeline: the ring holds the requests that were
\* asked and not answered, from pipeline_head on, and the flags are those of
\* the request that is being served.
HttpRequest == [uri : Uri, option : HttpConn!Option]

HttpQueue(p, h, c, q) ==
    /\ q \in Seq(HttpRequest) /\ Len(q) = c
    /\ \A i \in 1..c : p[(h + (i - 1)) % Ring] = q[i].uri

HttpInv ==
    /\ version \in {"1.0", "1.1"} /\ max_requests \in MaxRequests \cup {0}
    /\ state \in {"IDLE", "ACTIVE", "KEEP_ALIVE", "CLOSE"}
    /\ pipeline \in [0..(Ring - 1) -> Uri \cup {HttpConn!NoUri}]
    /\ pipeline_head \in 0..(Ring - 1) /\ pipeline_count \in 0..Ring
    /\ pipeline_tail = (pipeline_head + pipeline_count) % Ring
    /\ HttpQueue(pipeline, pipeline_head, pipeline_count, asked)
    /\ state = "ACTIVE" => /\ pipeline_count # 0
                           /\ keep_alive_explicit = (asked[1].option = "keep-alive")
                           /\ close_explicit = (asked[1].option = "close")

LEMMA HttpConstants == Ring \in Nat \ {0}
  BY TableSuiteConstants DEF HttpConn!HttpConnConstants

\* A place of the ring, counted from a place h of it.
LEMMA RingPlace ==
    ASSUME NEW h \in 0..(Ring - 1), NEW k \in 0..Ring
    PROVE  /\ (h + k) % Ring = IF h + k < Ring THEN h + k ELSE (h + k) - Ring
           /\ (h + k) % Ring \in 0..(Ring - 1)
  <1>1. h + k \in 0..((Ring + Ring) - 1)
    BY HttpConstants
  <1>2. (h + k) % Ring = IF h + k < Ring THEN h + k ELSE (h + k) - Ring
    BY <1>1, HttpConstants, ModOnce
  <1> QED BY <1>1, <1>2, HttpConstants

\* One place further on.
LEMMA RingNext ==
    ASSUME NEW h \in 0..(Ring - 1), NEW k \in 0..(Ring - 1)
    PROVE  /\ (((h + k) % Ring) + 1) % Ring = (h + (k + 1)) % Ring
           /\ (((h + 1) % Ring) + k) % Ring = (h + (k + 1)) % Ring
  <1>0. Ring \in Nat \ {0} /\ k + 1 \in 0..Ring /\ k \in 0..Ring /\ 1 \in 0..Ring
    BY HttpConstants
  <1> DEFINE a == (h + k) % Ring
             b == (h + 1) % Ring
  <1>1. a = IF h + k < Ring THEN h + k ELSE (h + k) - Ring
    BY <1>0, RingPlace
  <1>2. b = IF h + 1 < Ring THEN h + 1 ELSE (h + 1) - Ring
    BY <1>0, RingPlace
  <1>3. a \in 0..(Ring - 1) /\ b \in 0..(Ring - 1)
    BY <1>0, RingPlace
  <1>4. (h + (k + 1)) % Ring = IF h + (k + 1) < Ring THEN h + (k + 1) ELSE (h + (k + 1)) - Ring
    BY <1>0, RingPlace
  <1> HIDE DEF a, b
  <1>5. (a + 1) % Ring = IF a + 1 < Ring THEN a + 1 ELSE (a + 1) - Ring
    BY <1>0, <1>3, RingPlace
  <1>6. (b + k) % Ring = IF b + k < Ring THEN b + k ELSE (b + k) - Ring
    BY <1>0, <1>3, RingPlace
  <1>7. (a + 1) % Ring = (h + (k + 1)) % Ring
    BY <1>0, <1>1, <1>4, <1>5
  <1>8. (b + k) % Ring = (h + (k + 1)) % Ring
    BY <1>0, <1>2, <1>4, <1>6
  <1> QED BY <1>7, <1>8 DEF a, b

\* Different distances below Ring lead to different places.
LEMMA RingPlacesDiffer ==
    ASSUME NEW h \in 0..(Ring - 1), NEW k \in 0..(Ring - 1), NEW l \in 0..(Ring - 1),
           (h + k) % Ring = (h + l) % Ring
    PROVE  k = l
  <1>0. Ring \in Nat \ {0} /\ l \in 0..Ring /\ k \in 0..Ring
    BY HttpConstants
  <1>1. (h + k) % Ring = IF h + k < Ring THEN h + k ELSE (h + k) - Ring
    BY <1>0, RingPlace
  <1>2. (h + l) % Ring = IF h + l < Ring THEN h + l ELSE (h + l) - Ring
    BY <1>0, RingPlace
  <1> QED BY <1>0, <1>1, <1>2

LEMMA HttpQueueEmpty ==
    ASSUME NEW p, NEW h PROVE HttpQueue(p, h, 0, <<>>)
  <1>1. <<>> \in Seq(HttpRequest) /\ Len(<<>>) = 0
    BY EmptySeq
  <1> QED BY <1>1 DEF HttpQueue

LEMMA HttpInitially == ASSUME HttpConn!Init PROVE HttpInv
  <1>1. /\ version = "1.1" /\ max_requests = 0 /\ state = "CLOSE"
        /\ pipeline = [i \in 0..(Ring - 1) |-> HttpConn!NoUri]
        /\ pipeline_head = 0 /\ pipeline_tail = 0 /\ pipeline_count = 0 /\ asked = <<>>
    BY DEF HttpConn!Init
  <1>2. 0 \in 0..(Ring - 1) /\ 0 \in 0..Ring /\ 0 + 0 < Ring
    BY HttpConstants
  <1>3. (0 + 0) % Ring = 0
    BY <1>2, RingPlace
  <1> QED BY <1>1, <1>2, <1>3, HttpQueueEmpty DEF HttpInv

LEMMA HttpStep == ASSUME HttpInv, [HttpConn!Next]_httpVars PROVE HttpInv'
  <1> DEFINE h == pipeline_head
             c == pipeline_count
             p == pipeline
             q == asked
  <1>0. /\ Ring \in Nat \ {0} /\ 0 \in 0..(Ring - 1) /\ 0 \in 0..Ring /\ (0 + 0) % Ring = 0
    <2>1. 0 \in 0..(Ring - 1) /\ 0 \in 0..Ring /\ 0 + 0 < Ring
      BY HttpConstants
    <2> QED BY <2>1, RingPlace, HttpConstants
  <1>1. /\ h \in 0..(Ring - 1) /\ c \in 0..Ring
        /\ p \in [0..(Ring - 1) -> Uri \cup {HttpConn!NoUri}]
        /\ pipeline_tail = (h + c) % Ring
    BY DEF HttpInv
  <1>2. q \in Seq(HttpRequest) /\ Len(q) = c /\ \A i \in 1..c : p[(h + (i - 1)) % Ring] = q[i].uri
    BY DEF HttpInv, HttpQueue
  <1>3. version \in {"1.0", "1.1"} /\ max_requests \in MaxRequests \cup {0}
    BY DEF HttpInv
  <1>4. ASSUME NEW ver \in {"1.0", "1.1"}, NEW max \in MaxRequests, HttpConn!ConnInit(ver, max)
        PROVE  HttpInv'
    <2>1. /\ version' = ver /\ max_requests' = max /\ state' = "IDLE"
          /\ pipeline' = [i \in 0..(Ring - 1) |-> HttpConn!NoUri]
          /\ pipeline_head' = 0 /\ pipeline_tail' = 0 /\ pipeline_count' = 0 /\ asked' = <<>>
      BY <1>4 DEF HttpConn!ConnInit
    <2>2. HttpQueue(pipeline', pipeline_head', pipeline_count', asked')
      BY <2>1, HttpQueueEmpty
    <2> QED BY <1>0, <2>1, <2>2 DEF HttpInv
  <1>5. ASSUME NEW uri \in Uri, NEW option \in HttpConn!Option, HttpConn!Enqueue(uri, option)
        PROVE  HttpInv'
    <2> DEFINE t == (h + c) % Ring
               new == [uri |-> uri, option |-> option]
               w == Append(q, new)
               r == [p EXCEPT ![t] = uri]
    <2>1. /\ c < Ring /\ pipeline' = r /\ pipeline_tail' = (t + 1) % Ring /\ pipeline_count' = c + 1
          /\ asked' = w /\ pipeline_head' = h
          /\ UNCHANGED <<version, max_requests, state, keep_alive_explicit, close_explicit>>
      BY <1>1, <1>5 DEF HttpConn!Enqueue, HttpConn!HasRoom, HttpConn!connVars, HttpConn!config
    <2>2. c \in 0..(Ring - 1) /\ c + 1 \in 0..Ring
      BY <1>0, <1>1, <2>1
    <2>3. t \in 0..(Ring - 1) /\ (t + 1) % Ring = (h + (c + 1)) % Ring
      BY <1>1, <2>2, RingPlace, RingNext
    <2>4. new \in HttpRequest /\ new.uri = uri
      BY DEF HttpRequest
    <2> HIDE DEF new
    <2>5. /\ w \in Seq(HttpRequest) /\ Len(w) = c + 1
          /\ \A i \in 1..c : w[i] = q[i]
          /\ w[c + 1] = new
      BY <1>2, <2>4, AppendProperties
    <2> HIDE DEF w
    <2>6. r \in [0..(Ring - 1) -> Uri \cup {HttpConn!NoUri}]
      BY <1>1, <2>3
    <2>7. ASSUME NEW i \in 1..(c + 1) PROVE r[(h + (i - 1)) % Ring] = w[i].uri
      <3>1. i - 1 \in 0..(Ring - 1) /\ i - 1 \in 0..Ring
        BY <1>0, <2>2
      <3>2. (h + (i - 1)) % Ring \in 0..(Ring - 1)
        BY <1>1, <3>1, RingPlace
      <3>3. CASE i = c + 1
        <4>1. i - 1 = c
          BY <2>2, <3>3
        <4>2. (h + (i - 1)) % Ring = t
          BY <4>1
        <4> HIDE DEF t
        <4> QED BY <1>1, <2>3, <2>4, <2>5, <3>3, <4>2
      <3>4. CASE i # c + 1
        <4>1. i \in 1..c /\ i - 1 # c
          BY <2>2, <3>4
        <4>2. (h + (i - 1)) % Ring # t
          BY <1>1, <2>2, <3>1, <4>1, RingPlacesDiffer
        <4> HIDE DEF t
        <4> QED BY <1>1, <1>2, <2>5, <3>2, <4>1, <4>2
      <3> QED BY <3>3, <3>4
    <2>8. HttpQueue(r, h, c + 1, w)
      BY <2>5, <2>7 DEF HttpQueue
    <2>9. state = "ACTIVE" => /\ c + 1 # 0
                              /\ keep_alive_explicit = (w[1].option = "keep-alive")
                              /\ close_explicit = (w[1].option = "close")
      <3>1. ASSUME state = "ACTIVE" PROVE c # 0 /\ 1 \in 1..c /\ c + 1 # 0
        <4>1. c # 0
          BY <3>1 DEF HttpInv
        <4> QED BY <1>0, <1>1, <4>1
      <3> QED BY <2>5, <3>1 DEF HttpInv
    <2> HIDE DEF r
    <2> QED BY <1>1, <1>3, <2>1, <2>2, <2>3, <2>6, <2>8, <2>9 DEF HttpInv
  <1>6. CASE HttpConn!OnRequest
    <2>1. /\ state' = "ACTIVE" /\ c > 0
          /\ keep_alive_explicit' = (asked[1].option = "keep-alive")
          /\ close_explicit' = (asked[1].option = "close")
          /\ UNCHANGED <<version, max_requests, pipeline, pipeline_head, pipeline_tail, pipeline_count, asked>>
      BY <1>6 DEF HttpConn!OnRequest, HttpConn!config, HttpConn!pipeVars
    <2>2. c # 0
      BY <1>0, <1>1, <2>1
    <2> QED BY <2>1, <2>2 DEF HttpInv
  <1>7. CASE HttpConn!OnResponse
    <2>1. /\ state = "ACTIVE" /\ state' = HttpConn!AfterResponse
          /\ UNCHANGED <<version, max_requests, pipeline>>
      BY <1>7 DEF HttpConn!OnResponse, HttpConn!config
    <2>2. state' \in {"CLOSE", "KEEP_ALIVE"}
      BY <2>1 DEF HttpConn!AfterResponse
    <2>3. CASE pipeline_head' = 0 /\ pipeline_tail' = 0 /\ pipeline_count' = 0 /\ asked' = <<>>
      BY <1>0, <1>1, <1>3, <2>1, <2>2, <2>3, HttpQueueEmpty DEF HttpInv
    <2>4. CASE /\ pipeline_head' = (h + 1) % Ring /\ pipeline_count' = c - 1 /\ asked' = Tail(q)
               /\ pipeline_tail' = pipeline_tail
      <3>1. c # 0
        BY <2>1 DEF HttpInv
      <3>2. /\ c - 1 \in 0..(Ring - 1) /\ c - 1 \in 0..Ring /\ c = (c - 1) + 1
            /\ 1 \in 0..Ring /\ q # <<>>
        BY <1>0, <1>1, <1>2, <3>1
      <3>3. (h + 1) % Ring \in 0..(Ring - 1)
        BY <1>1, <3>2, RingPlace
      <3>4. (((h + 1) % Ring) + (c - 1)) % Ring = (h + c) % Ring
        BY <1>1, <3>2, RingNext
      <3> DEFINE w == Tail(q)
      <3>5. w \in Seq(HttpRequest) /\ Len(w) = c - 1 /\ \A i \in 1..(c - 1) : w[i] = q[i + 1]
        BY <1>2, <3>2
      <3> HIDE DEF w
      <3>6. ASSUME NEW i \in 1..(c - 1) PROVE p[(((h + 1) % Ring) + (i - 1)) % Ring] = w[i].uri
        <4>1. i - 1 \in 0..(Ring - 1) /\ i + 1 \in 1..c /\ (i - 1) + 1 = (i + 1) - 1
          BY <1>0, <1>1, <3>2
        <4>2. (((h + 1) % Ring) + (i - 1)) % Ring = (h + ((i + 1) - 1)) % Ring
          BY <1>1, <4>1, RingNext
        <4> QED BY <1>2, <3>5, <4>1, <4>2
      <3>7. HttpQueue(p, (h + 1) % Ring, c - 1, w)
        BY <3>5, <3>6 DEF HttpQueue
      <3> QED BY <1>1, <1>3, <2>1, <2>2, <2>4, <3>2, <3>3, <3>4, <3>7 DEF HttpInv, w
    <2> QED BY <1>7, <2>3, <2>4 DEF HttpConn!OnResponse
  <1>8. CASE UNCHANGED httpVars
    BY <1>8 DEF httpVars, HttpInv
  <1> QED BY <1>4, <1>5, <1>6, <1>7, <1>8 DEF HttpConn!Next

\* Requests are answered first come first served, and whoever asks whether
\* the connection will close is told what happens.
LEMMA HttpConsequences ==
    ASSUME HttpInv
    PROVE  HttpConn!TypeOK /\ HttpConn!PipelineIsFifo /\ HttpConn!CloseIsPredicted
  <1>1. HttpConn!TypeOK
    <2>1. (pipeline_head + pipeline_count) % Ring \in 0..(Ring - 1)
      BY RingPlace DEF HttpInv
    <2> QED BY <2>1 DEF HttpInv, HttpConn!TypeOK
  <1>2. HttpConn!PipelineIsFifo
    BY DEF HttpInv, HttpQueue, HttpConn!PipelineIsFifo
  <1>3. HttpConn!CloseIsPredicted
    <2> SUFFICES ASSUME state = "ACTIVE"
                 PROVE  /\ HttpConn!ShouldClose <=> HttpConn!AfterResponse = "CLOSE"
                        /\ HttpConn!ResponseHeader = "close" => HttpConn!AfterResponse = "CLOSE"
                        /\ asked[1].option = "close" => HttpConn!AfterResponse = "CLOSE"
      BY DEF HttpConn!CloseIsPredicted
    <2>1. version \in {"1.0", "1.1"} /\ (close_explicit <=> asked[1].option = "close")
      BY DEF HttpInv
    <2>2. HttpConn!ShouldClose <=> \/ HttpConn!LimitReached \/ close_explicit
                                   \/ version = "1.0" /\ ~keep_alive_explicit
      BY DEF HttpConn!ShouldClose, HttpConn!LimitReached
    <2>3. HttpConn!AfterResponse = "CLOSE" <=>
              HttpConn!LimitReached \/ close_explicit \/ ~(version = "1.1" \/ keep_alive_explicit)
      BY DEF HttpConn!AfterResponse
    <2>4. HttpConn!ResponseHeader = "close" =>
              close_explicit \/ (version = "1.0" /\ ~keep_alive_explicit)
      BY <2>1 DEF HttpConn!ResponseHeader
    <2> QED BY <2>1, <2>2, <2>3, <2>4
  <1> QED BY <1>1, <1>2, <1>3

-----------------------------------------------------------------------------
\* The cookie jar: at most one cookie of a key, the one that was set last,
\* and every one that has not expired.
JarArrays(t) ==
    {s \in Seq(CookieJar!Cookie) :
        /\ Len(s) <= JarCapacity
        /\ \A i \in 1..Len(s) : CookieJar!Key(s[i]) \in DOMAIN t /\ s[i] = t[CookieJar!Key(s[i])]
        /\ \A i, j \in 1..Len(s) : CookieJar!Key(s[j]) = CookieJar!Key(s[i]) => j = i
        /\ \A k \in DOMAIN t : t[k].max_age # 0 => \E i \in 1..Len(s) : CookieJar!Key(s[i]) = k}

JarSettled == {c \in CookieJar!Cookie : c.max_age # 0}

JarInv ==
    /\ cookies \in JarArrays(latest)
    /\ \A k \in DOMAIN latest : \E i \in 1..Len(cookies) : CookieJar!Key(cookies[i]) = k

LEMMA JarConstants == JarCapacity \in Nat /\ OutSizes \subseteq Nat \ {0}
  BY TableSuiteConstants DEF CookieJar!CookieJarConstants

\* A cookie that has expired may go.
LEMMA JarArrayShrunk ==
    ASSUME NEW t, NEW s \in JarArrays(t), NEW i \in 1..Len(s), s[i].max_age = 0
    PROVE  /\ Removed(s, i) \in JarArrays(t)
           /\ Len(Removed(s, i)) = Len(s) - 1
           /\ \A k \in 1..(i - 1) : Removed(s, i)[k] = s[k]
  <1>1. /\ s \in Seq(CookieJar!Cookie) /\ Len(s) \in Nat /\ Len(s) <= JarCapacity
        /\ \A k \in 1..Len(s) : CookieJar!Key(s[k]) \in DOMAIN t /\ s[k] = t[CookieJar!Key(s[k])]
        /\ \A k, j \in 1..Len(s) : CookieJar!Key(s[j]) = CookieJar!Key(s[k]) => j = k
        /\ \A k \in DOMAIN t : t[k].max_age # 0 => \E j \in 1..Len(s) : CookieJar!Key(s[j]) = k
    BY LenProperties DEF JarArrays
  <1>2. PICK m : Moves(m, s, i)
    BY <1>1, SwapRemoval
  <1>3. Removed(s, i) \in Seq(CookieJar!Cookie) /\ Len(Removed(s, i)) = Len(s) - 1
    BY <1>1, SwapRemoval
  <1> DEFINE w == Removed(s, i)
             n == Len(s) - 1
  <1>4. /\ m \in [1..n -> (1..Len(s)) \ {i}]
        /\ \A k \in 1..n : w[k] = s[m[k]]
        /\ \A k, l \in 1..n : m[k] = m[l] => k = l
        /\ \A j \in (1..Len(s)) \ {i} : \E k \in 1..n : m[k] = j
        /\ \A k \in 1..(i - 1) : m[k] = k
    BY <1>2 DEF Moves
  <1>7. w \in Seq(CookieJar!Cookie) /\ Len(w) = n
    BY <1>3
  <1>9. Len(w) <= JarCapacity /\ \A k \in 1..(i - 1) : k \in 1..n
    BY <1>1, <1>7, JarConstants
  <1> HIDE DEF w, n
  <1>0. \A k \in 1..n : m[k] \in 1..Len(s) /\ w[k] = s[m[k]]
    BY <1>4
  <1>5. \A k \in 1..n : CookieJar!Key(w[k]) \in DOMAIN t /\ w[k] = t[CookieJar!Key(w[k])]
    BY <1>0, <1>1
  <1>6. ASSUME NEW k \in 1..n, NEW l \in 1..n, CookieJar!Key(w[l]) = CookieJar!Key(w[k])
        PROVE  l = k
    <2>1. m[l] = m[k]
      BY <1>0, <1>1, <1>6
    <2> QED BY <1>4, <2>1
  <1>8. ASSUME NEW k \in DOMAIN t, t[k].max_age # 0
        PROVE  \E j \in 1..n : CookieJar!Key(w[j]) = k
    <2>1. PICK j \in 1..Len(s) : CookieJar!Key(s[j]) = k
      BY <1>1, <1>8
    <2>2. s[j] = t[k]
      BY <1>1, <2>1
    <2>3. j # i
      BY <1>8, <2>2
    <2>4. PICK l \in 1..n : m[l] = j
      BY <1>4, <2>3
    <2> QED BY <1>0, <2>1, <2>4
  <1>10. w \in JarArrays(t)
    BY <1>5, <1>6, <1>7, <1>8, <1>9 DEF JarArrays
  <1>11. \A k \in 1..(i - 1) : w[k] = s[k]
    BY <1>4, <1>9
  <1> QED BY <1>7, <1>10, <1>11 DEF w, n

JarTurn(t) == [c \in SweepStates(JarArrays(t)) |-> CookieJar!ExpireTurn(c)]

\* A turn of nfs_cookie_jar_expire goes on after a cookie that stays, or
\* takes one out.
LEMMA JarTurns ==
    ASSUME NEW t
    PROVE  IsTurn(JarTurn(t), JarArrays(t), JarSettled)
  <1> DEFINE G == JarArrays(t)
             C == SweepStates(G)
  <1>1. ASSUME NEW c \in C
        PROVE  /\ CookieJar!ExpireTurn(c) \in C
               /\ c.i > Len(c.array) => CookieJar!ExpireTurn(c) = c
               /\ c.i <= Len(c.array) =>
                    LET d == CookieJar!ExpireTurn(c) IN
                    /\ \A j \in 1..(c.i - 1) : d.array[j] = c.array[j]
                    /\ \/ /\ d.i = c.i + 1 /\ Len(d.array) = Len(c.array)
                          /\ d.array[c.i] \in JarSettled
                       \/ d.i = c.i /\ Len(d.array) = Len(c.array) - 1
    <2> DEFINE s == c.array
               i == c.i
               d == CookieJar!ExpireTurn(c)
    <2>1. s \in G /\ i \in Nat \ {0}
      BY DEF SweepStates
    <2>2. s \in Seq(CookieJar!Cookie) /\ Len(s) \in Nat
      BY <2>1, LenProperties DEF JarArrays
    <2>4. CASE i > Len(s)
      <3>1. d = c
        BY <2>4 DEF CookieJar!ExpireTurn
      <3> HIDE DEF d
      <3> QED BY <2>2, <2>1, <2>4, <3>1 DEF d
    <2>5. CASE i <= Len(s)
      <3>0. i \in 1..Len(s) /\ ~(i > Len(s)) /\ i + 1 \in Nat \ {0}
        BY <2>1, <2>2, <2>5
      <3>1. s[i] \in CookieJar!Cookie
        BY <2>2, <3>0, ElementOfSeq
      <3>3. CASE s[i].max_age # 0
        <4>1. d = [c EXCEPT !.i = i + 1]
          BY <3>0, <3>3 DEF CookieJar!ExpireTurn
        <4>2. s[i] \in JarSettled
          BY <3>1, <3>3 DEF JarSettled
        <4>3. d \in C /\ d.i = i + 1 /\ d.array = s
          BY <3>0, <4>1 DEF SweepStates
        <4> HIDE DEF d
        <4> QED BY <2>5, <3>0, <4>2, <4>3 DEF d
      <3>5. CASE s[i].max_age = 0
        <4>1. d = [array |-> Removed(s, i), i |-> i]
          BY <3>0, <3>5 DEF CookieJar!ExpireTurn, CookieJar!Without, CookieJar!AfterRemoval, Removed
        <4>2. /\ Removed(s, i) \in G
              /\ Len(Removed(s, i)) = Len(s) - 1
              /\ \A k \in 1..(i - 1) : Removed(s, i)[k] = s[k]
          BY <2>1, <3>0, <3>5, JarArrayShrunk
        <4>3. d \in C /\ d.i = i /\ d.array = Removed(s, i)
          <5> HIDE DEF G
          <5> QED BY <2>1, <4>1, <4>2 DEF SweepStates
        <4> HIDE DEF d
        <4> QED BY <2>5, <3>0, <4>2, <4>3 DEF d
      <3> QED BY <3>3, <3>5
    <2> QED BY <2>1, <2>2, <2>4, <2>5
  <1>2. JarTurn(t) \in [C -> C] /\ \A c \in C : JarTurn(t)[c] = CookieJar!ExpireTurn(c)
    BY <1>1 DEF JarTurn
  <1> QED BY <1>1, <1>2 DEF IsTurn

\* What nfs_cookie_jar_expire leaves.
LEMMA JarExpired ==
    ASSUME NEW t, NEW s \in JarArrays(t)
    PROVE  /\ CookieJar!Expired(s) \in JarArrays(t)
           /\ \A i \in 1..Len(CookieJar!Expired(s)) : CookieJar!Expired(s)[i] \in JarSettled
  <1> DEFINE N == Len(s)
             C == SweepStates(JarArrays(t))
             x == [array |-> s, i |-> 1]
             turns[n \in 0..Len(s)] == IF n = 0 THEN [array |-> s, i |-> 1] ELSE CookieJar!ExpireTurn(turns[n - 1])
             Is(h) == h = [n \in 0..Len(s) |-> IF n = 0 THEN [array |-> s, i |-> 1] ELSE CookieJar!ExpireTurn(h[n - 1])]
  <1>1. CookieJar!Expired(s) = turns[Len(s)].array
    BY DEF CookieJar!Expired
  <1>2. N \in Nat /\ JarArrays(t) \subseteq Seq(CookieJar!Cookie)
    BY LenProperties DEF JarArrays
  <1>3. PICK g \in [0..N -> C] : g[0] = x /\ \A n \in 1..N : g[n] = JarTurn(t)[g[n - 1]]
    <2>1. IsTurn(JarTurn(t), JarArrays(t), JarSettled)
      BY JarTurns
    <2> QED BY <1>2, <2>1, SweepExists, SMTT(60)
  <1>4. \A c \in C : JarTurn(t)[c] = CookieJar!ExpireTurn(c)
    BY DEF JarTurn
  <1>5. Is(g)
    <2>1. \A n \in 1..N : g[n - 1] \in C
      BY <1>2, <1>3
    <2>2. \A n \in 1..N : g[n] = CookieJar!ExpireTurn(g[n - 1])
      BY <1>3, <1>4, <2>1
    <2>3. \A n \in 0..N : g[n] = IF n = 0 THEN x ELSE CookieJar!ExpireTurn(g[n - 1])
      BY <1>2, <1>3, <2>2
    <2> HIDE DEF C
    <2> QED BY <1>3, <2>3
  <1>6. Is(turns)
    <2>1. turns = CHOOSE h : Is(h)
      OBVIOUS
    <2> HIDE DEF Is, turns
    <2> QED BY <1>5, <2>1
  <1> HIDE DEF turns
  <1>7. turns[0] = x /\ \A n \in 1..N : turns[n] = CookieJar!ExpireTurn(turns[n - 1])
    BY <1>2, <1>6
  <1>8. \A n \in 1..N : turns[n - 1] \in C => turns[n] = JarTurn(t)[turns[n - 1]]
    BY <1>4, <1>7
  <1>9. /\ turns[N].array \in JarArrays(t)
        /\ \A j \in 1..Len(turns[N].array) : turns[N].array[j] \in JarSettled
    <2> HIDE DEF Is
    <2>1. IsTurn(JarTurn(t), JarArrays(t), JarSettled)
      BY JarTurns
    <2> QED BY <1>2, <1>7, <1>8, <2>1, SweepResult, SMTT(60)
  <1> QED BY <1>1, <1>9

LEMMA JarInitially == ASSUME CookieJar!Init PROVE JarInv
  <1>1. cookies = <<>> /\ latest = <<>>
    BY DEF CookieJar!Init
  <1>2. <<>> \in Seq(CookieJar!Cookie) /\ Len(<<>>) = 0
    BY EmptySeq
  <1>3. DOMAIN latest = {}
    BY <1>1
  <1>4. cookies \in JarArrays(latest)
    BY <1>1, <1>2, <1>3, JarConstants DEF JarArrays
  <1> QED BY <1>3, <1>4 DEF JarInv

LEMMA JarStep == ASSUME JarInv, [CookieJar!Next]_jarVars PROVE JarInv'
  <1> DEFINE s == cookies
             t == latest
  <1>1. /\ s \in JarArrays(t) /\ s \in Seq(CookieJar!Cookie)
        /\ Len(s) \in Nat /\ Len(s) <= JarCapacity /\ DOMAIN s = 1..Len(s)
        /\ \A i \in 1..Len(s) : CookieJar!Key(s[i]) \in DOMAIN t /\ s[i] = t[CookieJar!Key(s[i])]
        /\ \A i, j \in 1..Len(s) : CookieJar!Key(s[j]) = CookieJar!Key(s[i]) => j = i
        /\ \A k \in DOMAIN t : \E i \in 1..Len(s) : CookieJar!Key(s[i]) = k
        /\ \A i \in 1..Len(s) : s[i] \in CookieJar!Cookie
    BY LenProperties, ElementOfSeq DEF JarInv, JarArrays
  <1>2. ASSUME NEW c \in CookieJar!Cookie, CookieJar!JarAdd(c) PROVE JarInv'
    <2> DEFINE F == CookieJar!Find(c)
               K == CookieJar!Key(c)
               u == [k \in DOMAIN t \cup {K} |-> IF k = K THEN c ELSE t[k]]
    <2>1. latest' = u
      BY <1>2 DEF CookieJar!JarAdd
    <2>2. \A d : CookieJar!SameCookie(d, c) <=> CookieJar!Key(d) = K
      BY DEF CookieJar!SameCookie, CookieJar!Key
    <2>3. F = {i \in 1..Len(s) : CookieJar!Key(s[i]) = K /\ \A j \in 1..(i - 1) : CookieJar!Key(s[j]) # K}
      BY <1>1, <2>2 DEF CookieJar!Find
    <2> HIDE DEF F, K
    <2>4. \A i \in 1..Len(s) : CookieJar!Key(s[i]) = K <=> i \in F
      <3>1. \A i \in 1..Len(s) : \A j \in 1..(i - 1) : j \in 1..Len(s) /\ j # i
        BY <1>1
      <3> QED BY <1>1, <2>3, <3>1
    <2>5. /\ DOMAIN u = DOMAIN t \cup {K}
          /\ \A k \in DOMAIN t \cup {K} : u[k] = IF k = K THEN c ELSE t[k]
      OBVIOUS
    <2> HIDE DEF u
    <2>6. CASE F # {} /\ cookies' = [i \in DOMAIN s |-> IF i \in F THEN c ELSE s[i]]
      <3> DEFINE w == [i \in 1..Len(s) |-> IF i \in F THEN c ELSE s[i]]
      <3>1. w \in Seq(CookieJar!Cookie) /\ Len(w) = Len(s)
        <4>1. w \in [1..Len(s) -> CookieJar!Cookie]
          BY <1>1
        <4> QED BY <1>1, <4>1
      <3>2. \A i \in 1..Len(s) : w[i] = IF i \in F THEN c ELSE s[i]
        OBVIOUS
      <3>3. cookies' = w
        BY <1>1, <2>6
      <3> HIDE DEF w
      <3>4. \A i \in 1..Len(s) : CookieJar!Key(w[i]) = CookieJar!Key(s[i])
        BY <2>4, <3>2 DEF K
      <3>5. \A i \in 1..Len(s) : CookieJar!Key(w[i]) \in DOMAIN u /\ w[i] = u[CookieJar!Key(w[i])]
        BY <1>1, <2>4, <2>5, <3>2, <3>4
      <3>6. \A i, j \in 1..Len(s) : CookieJar!Key(w[j]) = CookieJar!Key(w[i]) => j = i
        BY <1>1, <3>4
      <3>7. PICK f \in F : TRUE
        BY <2>6
      <3>8. \A k \in DOMAIN u : \E i \in 1..Len(s) : CookieJar!Key(w[i]) = k
        BY <1>1, <2>3, <2>5, <3>4, <3>7
      <3>9. w \in JarArrays(u)
        BY <1>1, <3>1, <3>5, <3>6, <3>8 DEF JarArrays
      <3> QED BY <2>1, <3>1, <3>3, <3>8, <3>9 DEF JarInv
    <2>7. CASE F = {} /\ Len(s) < JarCapacity /\ cookies' = Append(s, c)
      <3> DEFINE w == Append(s, c)
      <3>1. /\ w \in Seq(CookieJar!Cookie) /\ Len(w) = Len(s) + 1
            /\ \A i \in 1..Len(s) : w[i] = s[i]
            /\ w[Len(s) + 1] = c
        BY <1>1, AppendProperties
      <3> HIDE DEF w
      <3>2. /\ \A i \in 1..Len(w) : i \in 1..Len(s) \/ i = Len(s) + 1
            /\ \A i \in 1..Len(s) : i \in 1..Len(w)
            /\ Len(s) + 1 \in 1..Len(w)
            /\ Len(w) <= JarCapacity
        BY <1>1, <2>7, <3>1, JarConstants
      <3>3. \A i \in 1..Len(s) : CookieJar!Key(s[i]) # K
        BY <2>4, <2>7
      <3>4. CookieJar!Key(w[Len(s) + 1]) = K
        BY <3>1 DEF K
      <3>5. \A i \in 1..Len(w) : CookieJar!Key(w[i]) \in DOMAIN u /\ w[i] = u[CookieJar!Key(w[i])]
        BY <1>1, <2>5, <3>1, <3>2, <3>3, <3>4
      <3>6. \A i, j \in 1..Len(w) : CookieJar!Key(w[j]) = CookieJar!Key(w[i]) => j = i
        BY <1>1, <3>1, <3>2, <3>3, <3>4
      <3>8. \A k \in DOMAIN u : \E i \in 1..Len(w) : CookieJar!Key(w[i]) = k
        BY <1>1, <2>5, <3>1, <3>2, <3>4
      <3>9. w \in JarArrays(u)
        BY <3>1, <3>2, <3>5, <3>6, <3>8 DEF JarArrays
      <3> QED BY <2>1, <2>7, <3>8, <3>9 DEF JarInv, w
    <2> QED BY <1>2, <2>6, <2>7 DEF CookieJar!JarAdd, F
  <1>3. CASE CookieJar!JarExpire
    <2> DEFINE w == CookieJar!Expired(s)
               u == [k \in {j \in DOMAIN t : t[j].max_age # 0} |-> t[k]]
    <2>1. cookies' = w /\ latest' = u
      BY <1>3 DEF CookieJar!JarExpire
    <2>2. w \in JarArrays(t) /\ \A i \in 1..Len(w) : w[i] \in JarSettled
      BY <1>1, JarExpired
    <2>3. /\ DOMAIN u = {j \in DOMAIN t : t[j].max_age # 0}
          /\ \A k \in DOMAIN u : u[k] = t[k]
      OBVIOUS
    <2> HIDE DEF w, u
    <2>4. /\ w \in Seq(CookieJar!Cookie) /\ Len(w) <= JarCapacity
          /\ \A i \in 1..Len(w) : CookieJar!Key(w[i]) \in DOMAIN t /\ w[i] = t[CookieJar!Key(w[i])]
          /\ \A i, j \in 1..Len(w) : CookieJar!Key(w[j]) = CookieJar!Key(w[i]) => j = i
          /\ \A k \in DOMAIN t : t[k].max_age # 0 => \E i \in 1..Len(w) : CookieJar!Key(w[i]) = k
      BY <2>2 DEF JarArrays
    <2>5. \A i \in 1..Len(w) : w[i].max_age # 0
      BY <2>2 DEF JarSettled
    <2>6. \A i \in 1..Len(w) : CookieJar!Key(w[i]) \in DOMAIN u /\ w[i] = u[CookieJar!Key(w[i])]
      BY <2>3, <2>4, <2>5
    <2>7. \A k \in DOMAIN u : \E i \in 1..Len(w) : CookieJar!Key(w[i]) = k
      BY <2>3, <2>4
    <2>8. w \in JarArrays(u)
      BY <2>4, <2>6, <2>7 DEF JarArrays
    <2> QED BY <2>1, <2>7, <2>8 DEF JarInv
  <1>4. CASE UNCHANGED jarVars
    BY <1>4 DEF jarVars, JarInv
  <1> QED BY <1>2, <1>3, <1>4 DEF CookieJar!Next

-----------------------------------------------------------------------------
\* The header of a request.
JarHeaders == [ok : BOOLEAN, cookies : Seq(CookieJar!Cookie)]

\* What nfs_cookie_build_header does with cookie n.
JarHeaderNext(h, n, domain, path, out_sz) ==
    IF h.ok /\ CookieJar!IsSent(cookies[n], domain, path)
    THEN IF CookieJar!HeaderLen(Len(h.cookies) + 1) < out_sz
         THEN [h EXCEPT !.cookies = Append(@, cookies[n])]
         ELSE [h EXCEPT !.ok = FALSE]
    ELSE h

LEMMA JarHeaderTurn ==
    ASSUME NEW domain, NEW path, NEW out_sz, cookies \in Seq(CookieJar!Cookie),
           NEW n \in 1..Len(cookies), NEW h \in JarHeaders
    PROVE  JarHeaderNext(h, n, domain, path, out_sz) \in JarHeaders
  <1>1. cookies[n] \in CookieJar!Cookie
    BY ElementOfSeq
  <1>2. h.cookies \in Seq(CookieJar!Cookie)
    BY DEF JarHeaders
  <1>3. Append(h.cookies, cookies[n]) \in Seq(CookieJar!Cookie)
    BY <1>1, <1>2, AppendProperties
  <1>4. [h EXCEPT !.cookies = Append(@, cookies[n])] \in JarHeaders
    BY <1>3 DEF JarHeaders
  <1>5. [h EXCEPT !.ok = FALSE] \in JarHeaders
    BY DEF JarHeaders
  <1> QED BY <1>4, <1>5 DEF JarHeaderNext

\* nfs_cookie_build_header goes through the jar from the front.
LEMMA JarBuilt ==
    ASSUME NEW domain, NEW path, NEW out_sz, cookies \in Seq(CookieJar!Cookie)
    PROVE  \E b : /\ CookieJar!BuildHeader(domain, path, out_sz) = b[Len(cookies)]
                 /\ b[0] = [ok |-> TRUE, cookies |-> <<>>]
                 /\ \A n \in 1..Len(cookies) :
                        b[n] = JarHeaderNext(b[n - 1], n, domain, path, out_sz)
  <1> DEFINE N == Len(cookies)
             x == [ok |-> TRUE, cookies |-> <<>>]
             Added(h, c) == IF CookieJar!HeaderLen(Len(h.cookies) + 1) < out_sz
                            THEN [h EXCEPT !.cookies = Append(@, c)]
                            ELSE [h EXCEPT !.ok = FALSE]
             built[n \in 0..Len(cookies)] ==
                 IF n = 0 THEN [ok |-> TRUE, cookies |-> <<>>]
                 ELSE IF built[n - 1].ok /\ CookieJar!IsSent(cookies[n], domain, path)
                 THEN Added(built[n - 1], cookies[n]) ELSE built[n - 1]
             Is(h) == h = [n \in 0..Len(cookies) |->
                 IF n = 0 THEN [ok |-> TRUE, cookies |-> <<>>]
                 ELSE IF h[n - 1].ok /\ CookieJar!IsSent(cookies[n], domain, path)
                 THEN Added(h[n - 1], cookies[n]) ELSE h[n - 1]]
             F == [n \in 1..N |-> [h \in JarHeaders |-> JarHeaderNext(h, n, domain, path, out_sz)]]
  <1>1. CookieJar!BuildHeader(domain, path, out_sz) = built[Len(cookies)]
    BY DEF CookieJar!BuildHeader
  <1>2. N \in Nat /\ x \in JarHeaders
    BY LenProperties, EmptySeq DEF JarHeaders
  <1>3. /\ \A n \in 1..N : F[n] \in [JarHeaders -> JarHeaders]
        /\ \A n \in 1..N : \A h \in JarHeaders : F[n][h] = JarHeaderNext(h, n, domain, path, out_sz)
    BY JarHeaderTurn
  <1> HIDE DEF F, N, x
  <1>4. PICK g : IsLoop(g, JarHeaders, F, x, N)
    BY <1>2, <1>3, LoopExists
  <1>5. /\ g \in [0..N -> JarHeaders] /\ g[0] = x
        /\ \A n \in 1..N : g[n] = JarHeaderNext(g[n - 1], n, domain, path, out_sz)
    <2>1. g \in [0..N -> JarHeaders] /\ g[0] = x /\ \A n \in 1..N : g[n] = F[n][g[n - 1]]
      BY <1>4 DEF IsLoop
    <2>2. \A n \in 1..N : g[n - 1] \in JarHeaders
      BY <1>2, <2>1
    <2> QED BY <1>3, <2>1, <2>2
  <1>6. Is(g)
    <2>1. \A n \in 0..N : g[n] = IF n = 0 THEN x
                 ELSE IF g[n - 1].ok /\ CookieJar!IsSent(cookies[n], domain, path)
                 THEN Added(g[n - 1], cookies[n]) ELSE g[n - 1]
      <3>1. \A n \in 1..N : g[n] = IF g[n - 1].ok /\ CookieJar!IsSent(cookies[n], domain, path)
                 THEN Added(g[n - 1], cookies[n]) ELSE g[n - 1]
        BY <1>5 DEF JarHeaderNext
      <3>2. \A n \in 0..N : n = 0 \/ n \in 1..N
        BY <1>2
      <3> HIDE DEF Added
      <3> QED BY <1>5, <3>1, <3>2
    <2> HIDE DEF Added
    <2> QED BY <1>5, <2>1 DEF N, x
  <1>7. Is(built)
    <2>1. built = CHOOSE h : Is(h)
      OBVIOUS
    <2> HIDE DEF Is, built
    <2> QED BY <1>6, <2>1
  <1> HIDE DEF built
  <1>8. /\ built[0] = x
        /\ \A n \in 1..N : built[n] = JarHeaderNext(built[n - 1], n, domain, path, out_sz)
    <2>1. built[0] = x
      BY <1>2, <1>7 DEF N, x
    <2>2. ASSUME NEW n \in 1..N PROVE built[n] = JarHeaderNext(built[n - 1], n, domain, path, out_sz)
      <3>1. n \in 0..Len(cookies) /\ n # 0
        BY <1>2 DEF N
      <3>2. built[n] = IF built[n - 1].ok /\ CookieJar!IsSent(cookies[n], domain, path)
                       THEN Added(built[n - 1], cookies[n]) ELSE built[n - 1]
        <4> HIDE DEF Added
        <4> QED BY <1>7, <3>1
      <3> QED BY <3>2 DEF JarHeaderNext
    <2> QED BY <2>1, <2>2
  <1> HIDE DEF Is
  <1> QED BY <1>1, <1>8 DEF N, x

\* The cookies among the first n that go with the request.
JarSent(n, domain, path) ==
    {cookies[i] : i \in {j \in 1..n : CookieJar!IsSent(cookies[j], domain, path)}}

\* The header after the first n cookies.
JarHeaderIs(h, n, domain, path, out_sz) ==
    LET due == JarSent(n, domain, path)
    IN /\ h.ok => /\ Len(h.cookies) = Cardinality(due)
                  /\ \A i \in 1..Len(h.cookies) : h.cookies[i] \in due
                  /\ \A c \in due : \E i \in 1..Len(h.cookies) : h.cookies[i] = c
                  /\ \A i, j \in 1..Len(h.cookies) : h.cookies[i] = h.cookies[j] => i = j
                  /\ Len(h.cookies) = 0 \/ CookieJar!HeaderLen(Len(h.cookies)) < out_sz
       /\ ~h.ok => Cardinality(due) # 0 /\ ~(CookieJar!HeaderLen(Cardinality(due)) < out_sz)

LEMMA JarHeaderLen ==
    ASSUME NEW a \in Nat \ {0}, NEW b \in Nat, a <= b
    PROVE  /\ CookieJar!HeaderLen(a) \in Int /\ CookieJar!HeaderLen(b) \in Int
           /\ CookieJar!HeaderLen(a) <= CookieJar!HeaderLen(b)
  BY DEF CookieJar!HeaderLen

LEMMA JarHeaderTurnKeeps ==
    ASSUME NEW domain, NEW path, NEW out_sz \in Nat, cookies \in Seq(CookieJar!Cookie),
           \A i, j \in 1..Len(cookies) : cookies[i] = cookies[j] => i = j,
           NEW n \in 1..Len(cookies), NEW h \in JarHeaders,
           JarHeaderIs(h, n - 1, domain, path, out_sz), IsFiniteSet(JarSent(n - 1, domain, path))
    PROVE  /\ JarHeaderIs(JarHeaderNext(h, n, domain, path, out_sz), n, domain, path, out_sz)
           /\ IsFiniteSet(JarSent(n, domain, path))
  <1> DEFINE A == JarSent(n - 1, domain, path)
             B == JarSent(n, domain, path)
             c == cookies[n]
             q == h.cookies
             z == JarHeaderNext(h, n, domain, path, out_sz)
             ok == h.ok
  <1>0. /\ Len(cookies) \in Nat /\ n \in Nat /\ n # 0 /\ n - 1 \in Nat
        /\ \A i \in 1..n : i = n \/ i \in 1..(n - 1)
        /\ \A i \in 1..(n - 1) : i \in 1..n /\ i # n /\ i \in 1..Len(cookies)
        /\ n \in 1..n
    BY LenProperties
  <1>1. q \in Seq(CookieJar!Cookie) /\ Len(q) \in Nat /\ h.ok \in BOOLEAN
    BY LenProperties DEF JarHeaders
  <1>2. c \notin A
    <2> SUFFICES ASSUME c \in A PROVE FALSE
      OBVIOUS
    <2>1. PICK i \in 1..(n - 1) : cookies[i] = c
      BY DEF JarSent
    <2> QED BY <1>0, <2>1
  <1>3. IsFiniteSet(A) /\ Cardinality(A) \in Nat
    BY FS_CardinalityType
  <1>4. /\ ok => /\ Len(q) = Cardinality(A)
                 /\ \A i \in 1..Len(q) : q[i] \in A
                 /\ \A d \in A : \E i \in 1..Len(q) : q[i] = d
                 /\ \A i, j \in 1..Len(q) : q[i] = q[j] => i = j
                 /\ Len(q) = 0 \/ CookieJar!HeaderLen(Len(q)) < out_sz
        /\ ~ok => Cardinality(A) # 0 /\ ~(CookieJar!HeaderLen(Cardinality(A)) < out_sz)
    BY DEF JarHeaderIs
  <1>5. CASE ~CookieJar!IsSent(c, domain, path)
    <2>1. B = A
      BY <1>0, <1>5 DEF JarSent
    <2>2. z = h
      BY <1>5 DEF JarHeaderNext
    <2> QED BY <2>1, <2>2 DEF JarHeaderIs
  <1>6. CASE CookieJar!IsSent(c, domain, path)
    <2>1. B = A \cup {c}
      BY <1>0, <1>6 DEF JarSent
    <2> HIDE DEF A, B, c, q
    <2>2. IsFiniteSet(B) /\ Cardinality(B) = Cardinality(A) + 1
      BY <1>2, <1>3, <2>1, FS_AddElement
    <2>3. CASE ~ok
      <3>1. z = h
        BY <2>3 DEF JarHeaderNext
      <3>2. Cardinality(A) \in Nat \ {0} /\ Cardinality(B) \in Nat /\ Cardinality(A) <= Cardinality(B) /\ Cardinality(B) # 0
        BY <1>3, <1>4, <2>2, <2>3
      <3>3. /\ CookieJar!HeaderLen(Cardinality(A)) \in Int /\ CookieJar!HeaderLen(Cardinality(B)) \in Int
            /\ CookieJar!HeaderLen(Cardinality(A)) <= CookieJar!HeaderLen(Cardinality(B))
        BY <3>2, JarHeaderLen
      <3>4. ~(CookieJar!HeaderLen(Cardinality(A)) < out_sz)
        BY <1>4, <2>3
      <3>5. ~(CookieJar!HeaderLen(Cardinality(B)) < out_sz)
        BY <3>3, <3>4
      <3> QED BY <2>2, <2>3, <3>1, <3>2, <3>5 DEF JarHeaderIs, B
    <2>4. CASE ok /\ CookieJar!HeaderLen(Len(q) + 1) < out_sz
      <3> DEFINE w == Append(q, c)
      <3>1. z = [h EXCEPT !.cookies = w]
        BY <1>6, <2>4 DEF JarHeaderNext, c, q
      <3>2. z.ok = h.ok /\ z.cookies = w
        BY <3>1 DEF JarHeaders
      <3>3. c \in CookieJar!Cookie
        BY ElementOfSeq DEF c
      <3>4. /\ w \in Seq(CookieJar!Cookie) /\ Len(w) = Len(q) + 1
            /\ \A i \in 1..Len(q) : w[i] = q[i]
            /\ w[Len(q) + 1] = c
        BY <1>1, <3>3, AppendProperties
      <3> HIDE DEF w, z
      <3>5. /\ \A i \in 1..Len(w) : i \in 1..Len(q) \/ i = Len(q) + 1
            /\ \A i \in 1..Len(q) : i \in 1..Len(w)
            /\ Len(q) + 1 \in 1..Len(w)
        BY <1>1, <3>4
      <3>6. \A i \in 1..Len(w) : w[i] \in B
        BY <1>4, <2>1, <2>4, <3>4, <3>5
      <3>7. \A d \in B : \E i \in 1..Len(w) : w[i] = d
        BY <1>4, <2>1, <2>4, <3>4, <3>5
      <3>8. \A i, j \in 1..Len(w) : w[i] = w[j] => i = j
        BY <1>2, <1>4, <2>4, <3>4, <3>5
      <3>9. Len(w) = Cardinality(B) /\ CookieJar!HeaderLen(Len(w)) < out_sz
        BY <1>4, <2>2, <2>4, <3>4
      <3> QED BY <2>2, <2>4, <3>2, <3>6, <3>7, <3>8, <3>9 DEF JarHeaderIs, B, z
    <2>5. CASE ok /\ ~(CookieJar!HeaderLen(Len(q) + 1) < out_sz)
      <3>1. z = [h EXCEPT !.ok = FALSE]
        BY <1>6, <2>5 DEF JarHeaderNext, c, q
      <3>2. ~z.ok
        BY <3>1 DEF JarHeaders
      <3> HIDE DEF z
      <3>3. Cardinality(B) = Len(q) + 1 /\ Cardinality(B) # 0
        BY <1>1, <1>4, <2>2, <2>5
      <3> QED BY <2>2, <2>5, <3>2, <3>3 DEF JarHeaderIs, B, z
    <2> QED BY <2>3, <2>4, <2>5
  <1> QED BY <1>5, <1>6

\* A sequence that holds each element of a set once.
JarLists(q, due) ==
    /\ DOMAIN q = 1..Len(q)
    /\ \A i \in 1..Len(q) : q[i] \in due
    /\ \A c \in due : \E i \in 1..Len(q) : q[i] = c
    /\ \A i, j \in 1..Len(q) : q[i] = q[j] => i = j

LEMMA JarRange ==
    ASSUME NEW q, NEW due, JarLists(q, due)
    PROVE  CookieJar!Range(q) = due /\ CookieJar!IsInjective(q)
  <1>1. CookieJar!Range(q) = due
    BY DEF CookieJar!Range, JarLists
  <1>2. CookieJar!IsInjective(q)
    BY Zenon DEF CookieJar!IsInjective, JarLists
  <1> QED BY <1>1, <1>2

LEMMA JarHeaderLists ==
    ASSUME NEW h \in JarHeaders, NEW n, NEW domain, NEW path, NEW out_sz,
           JarHeaderIs(h, n, domain, path, out_sz), h.ok
    PROVE  JarLists(h.cookies, JarSent(n, domain, path))
  <1>1. PICK q : q = h.cookies
    OBVIOUS
  <1>2. PICK due : due = JarSent(n, domain, path)
    OBVIOUS
  <1>3. q \in Seq(CookieJar!Cookie) /\ DOMAIN q = 1..Len(q)
    BY <1>1, LenProperties DEF JarHeaders
  <1>4. \A i \in 1..Len(q) : q[i] \in due
    BY <1>1, <1>2 DEF JarHeaderIs
  <1>5. \A c \in due : \E i \in 1..Len(q) : q[i] = c
    BY <1>1, <1>2 DEF JarHeaderIs
  <1>6. \A i, j \in 1..Len(q) : q[i] = q[j] => i = j
    BY <1>1, <1>2 DEF JarHeaderIs
  <1>7. JarLists(q, due)
    BY <1>3, <1>4, <1>5, <1>6 DEF JarLists
  <1> QED BY <1>1, <1>2, <1>7

\* The jar holds what was set and has not expired, and a request carries all
\* of it that is meant for it, or none.
LEMMA JarConsequences ==
    ASSUME JarInv
    PROVE  CookieJar!TypeOK /\ CookieJar!JarIsExact /\ CookieJar!HeaderIsCurrent
  <1> DEFINE s == cookies
             t == latest
             N == Len(cookies)
  <1>1. /\ s \in Seq(CookieJar!Cookie)
        /\ Len(s) \in Nat /\ Len(s) <= JarCapacity /\ DOMAIN s = 1..Len(s)
        /\ \A i \in 1..Len(s) : CookieJar!Key(s[i]) \in DOMAIN t /\ s[i] = t[CookieJar!Key(s[i])]
        /\ \A i, j \in 1..Len(s) : CookieJar!Key(s[j]) = CookieJar!Key(s[i]) => j = i
        /\ \A k \in DOMAIN t : \E i \in 1..Len(s) : CookieJar!Key(s[i]) = k
    BY LenProperties DEF JarInv, JarArrays
  <1>2. CookieJar!TypeOK
    BY <1>1 DEF CookieJar!TypeOK
  <1>3. \A i, j \in 1..Len(s) : s[i] = s[j] => i = j
    BY <1>1
  <1>4. CookieJar!JarIsExact
    BY <1>1, <1>3 DEF CookieJar!JarIsExact, CookieJar!Range, CookieJar!IsInjective
  <1>5. ASSUME NEW domain \in RequestHosts, NEW path \in RequestPaths, NEW out_sz \in OutSizes
        PROVE  LET header == CookieJar!BuildHeader(domain, path, out_sz)
                   due == {t[k] : k \in {j \in DOMAIN t : CookieJar!IsSent(t[j], domain, path)}}
               IN /\ header.ok <=> due = {} \/ CookieJar!HeaderLen(CookieJar!Cardinality(due)) < out_sz
                  /\ header.ok => CookieJar!Range(header.cookies) = due /\ CookieJar!IsInjective(header.cookies)
    <2> DEFINE header == CookieJar!BuildHeader(domain, path, out_sz)
               due == {t[k] : k \in {j \in DOMAIN t : CookieJar!IsSent(t[j], domain, path)}}
               J == [n \in 0..N |-> {h \in JarHeaders :
                        JarHeaderIs(h, n, domain, path, out_sz) /\ IsFiniteSet(JarSent(n, domain, path))}]
    <2>0. out_sz \in Nat
      BY JarConstants
    <2>1. due = JarSent(N, domain, path)
      BY <1>1 DEF JarSent
    <2>2. PICK b : /\ header = b[N]
                   /\ b[0] = [ok |-> TRUE, cookies |-> <<>>]
                   /\ \A n \in 1..N : b[n] = JarHeaderNext(b[n - 1], n, domain, path, out_sz)
      BY <1>1, JarBuilt
    <2> HIDE DEF header, due
    <2>3. b[0] \in J[0]
      <3>1. JarSent(0, domain, path) = {}
        BY DEF JarSent
      <3>2. IsFiniteSet({}) /\ Cardinality({}) = 0
        BY FS_EmptySet
      <3>3. b[0] \in JarHeaders /\ b[0].ok /\ b[0].cookies = <<>> /\ Len(b[0].cookies) = 0
        BY <2>2, EmptySeq DEF JarHeaders
      <3>4. JarHeaderIs(b[0], 0, domain, path, out_sz)
        <4>1. 1..Len(b[0].cookies) = {}
          BY <3>3
        <4>2. Len(b[0].cookies) = Cardinality(JarSent(0, domain, path))
          BY <3>1, <3>2, <3>3
        <4>3. \A d \in JarSent(0, domain, path) : d \in {}
          BY <3>1
        <4> QED BY <3>3, <4>1, <4>2, <4>3, Zenon DEF JarHeaderIs
      <3>5. IsFiniteSet(JarSent(0, domain, path))
        BY <3>1, <3>2
      <3>6. 0 \in 0..N
        BY <1>1
      <3> QED BY <3>3, <3>4, <3>5, <3>6, Zenon
    <2>4. ASSUME NEW n \in 1..N, b[n - 1] \in J[n - 1] PROVE b[n] \in J[n]
      <3>1. n - 1 \in 0..N /\ n \in 0..N
        BY <1>1
      <3>2. /\ b[n - 1] \in JarHeaders /\ JarHeaderIs(b[n - 1], n - 1, domain, path, out_sz)
            /\ IsFiniteSet(JarSent(n - 1, domain, path))
        BY <2>4, <3>1
      <3>3. b[n] \in JarHeaders
        BY <1>1, <2>2, <3>2, JarHeaderTurn
      <3>4. /\ JarHeaderIs(b[n], n, domain, path, out_sz)
            /\ IsFiniteSet(JarSent(n, domain, path))
        BY <1>1, <1>3, <2>0, <2>2, <3>2, JarHeaderTurnKeeps
      <3> QED BY <3>1, <3>3, <3>4
    <2> HIDE DEF J
    <2>5. \A n \in 0..N : b[n] \in J[n]
      BY <1>1, <2>3, <2>4, LoopStays
    <2>6. N \in 0..N
      BY <1>1
    <2>7. /\ header \in JarHeaders /\ JarHeaderIs(header, N, domain, path, out_sz)
          /\ IsFiniteSet(JarSent(N, domain, path))
      BY <2>2, <2>5, <2>6 DEF J
    <2>8. CookieJar!Cardinality(due) = Cardinality(due)
      BY Zenon DEF CookieJar!Cardinality, Cardinality
    <2>9. IsFiniteSet(due) /\ (Cardinality(due) = 0 <=> due = {})
      BY <2>1, <2>7, FS_EmptySet
    <2>10. /\ header.ok => /\ Len(header.cookies) = Cardinality(due)
                           /\ \A i \in 1..Len(header.cookies) : header.cookies[i] \in due
                           /\ \A c \in due : \E i \in 1..Len(header.cookies) : header.cookies[i] = c
                           /\ \A i, j \in 1..Len(header.cookies) : header.cookies[i] = header.cookies[j] => i = j
                           /\ \/ Len(header.cookies) = 0
                              \/ CookieJar!HeaderLen(Len(header.cookies)) < out_sz
           /\ ~header.ok => Cardinality(due) # 0 /\ ~(CookieJar!HeaderLen(Cardinality(due)) < out_sz)
      BY <2>1, <2>7 DEF JarHeaderIs
    <2>11. header.cookies \in Seq(CookieJar!Cookie) /\ DOMAIN header.cookies = 1..Len(header.cookies)
      BY <2>7, LenProperties DEF JarHeaders
    <2>12. header.ok <=> due = {} \/ CookieJar!HeaderLen(CookieJar!Cardinality(due)) < out_sz
      BY <2>8, <2>9, <2>10
    <2>13. header.ok => CookieJar!Range(header.cookies) = due /\ CookieJar!IsInjective(header.cookies)
      <3>1. header.ok => JarLists(header.cookies, due)
        BY <2>1, <2>7, JarHeaderLists
      <3> QED BY <3>1, JarRange
    <2> QED BY <2>12, <2>13 DEF header, due
  <1>6. CookieJar!HeaderIsCurrent
    BY <1>5 DEF CookieJar!HeaderIsCurrent
  <1> QED BY <1>2, <1>4, <1>6

-----------------------------------------------------------------------------
\* The descriptor tables.
DescFds == 0..(MaxFds - 1)

LEMMA DescConstants == MaxFds \in Nat /\ BufSize \in Nat \ {0}
  BY TableSuiteConstants DEF Descriptors!DescriptorsConstants

PollInv ==
    /\ sp_next \in 0..MaxFds
    /\ \A fd \in sp_active : fd \in DescFds /\ fd < sp_next
    /\ ready_events \in [DescFds -> SUBSET Descriptors!Events]

LEMMA PollInitially == ASSUME Descriptors!SpInit PROVE PollInv
  BY DescConstants DEF Descriptors!SpInit, PollInv, DescFds, Descriptors!Fds

LEMMA PollStep == ASSUME PollInv, [Descriptors!SpNext]_pollVars PROVE PollInv'
  <1>1. CASE Descriptors!SpOpen
    <2>1. /\ sp_next < MaxFds /\ sp_next' = sp_next + 1 /\ sp_active' = sp_active \cup {sp_next}
          /\ ready_events' = [ready_events EXCEPT ![sp_next] = {}]
      BY <1>1 DEF Descriptors!SpOpen
    <2>2. sp_next \in DescFds /\ sp_next + 1 \in 0..MaxFds /\ sp_next < sp_next + 1
      BY <2>1, DescConstants DEF PollInv, DescFds
    <2>3. \A fd \in sp_active : fd \in DescFds /\ fd < sp_next + 1
      BY <2>2, DescConstants DEF PollInv, DescFds
    <2>4. ready_events' \in [DescFds -> SUBSET Descriptors!Events]
      BY <2>1 DEF PollInv
    <2> QED BY <2>1, <2>2, <2>3, <2>4 DEF PollInv
  <1>2. ASSUME NEW fd \in Descriptors!Fds, Descriptors!SpClose(fd) PROVE PollInv'
    BY <1>2 DEF PollInv, Descriptors!SpClose, DescFds, Descriptors!Fds
  <1>3. ASSUME NEW fd \in Descriptors!Fds, NEW ev \in SUBSET Descriptors!Events, Descriptors!SetReady(fd, ev)
        PROVE PollInv'
    <2>1. fd \in DescFds
      BY DEF DescFds, Descriptors!Fds
    <2>2. ready_events' = [ready_events EXCEPT ![fd] = @ \cup ev] /\ UNCHANGED <<sp_next, sp_active>>
      BY <1>3 DEF Descriptors!SetReady
    <2>3. ready_events' \in [DescFds -> SUBSET Descriptors!Events]
      BY <2>1, <2>2 DEF PollInv
    <2> QED BY <2>2, <2>3 DEF PollInv
  <1>4. ASSUME NEW fd \in Descriptors!Fds, NEW ev \in SUBSET Descriptors!Events, Descriptors!ClearReady(fd, ev)
        PROVE PollInv'
    <2>1. fd \in DescFds
      BY DEF DescFds, Descriptors!Fds
    <2>2. ready_events' = [ready_events EXCEPT ![fd] = @ \ ev] /\ UNCHANGED <<sp_next, sp_active>>
      BY <1>4 DEF Descriptors!ClearReady
    <2>3. ready_events' \in [DescFds -> SUBSET Descriptors!Events]
      BY <2>1, <2>2 DEF PollInv
    <2> QED BY <2>2, <2>3 DEF PollInv
  <1>5. CASE UNCHANGED pollVars
    BY <1>5 DEF pollVars, PollInv
  <1> QED BY <1>1, <1>2, <1>3, <1>4, <1>5 DEF Descriptors!SpNext

\* select() and poll() tell the same.
LEMMA PollConsequences ==
    ASSUME PollInv
    PROVE  Descriptors!SpTypeOK /\ Descriptors!SelectAgreesWithPoll
  <1>1. Descriptors!SpTypeOK
    <2>1. sp_next \in 0..MaxFds /\ ready_events \in [DescFds -> SUBSET Descriptors!Events]
      BY DEF PollInv
    <2>2. sp_active \subseteq 0..(sp_next - 1)
      BY <2>1, DescConstants DEF PollInv, DescFds
    <2> QED BY <2>1, <2>2 DEF Descriptors!SpTypeOK, DescFds, Descriptors!Fds
  <1>2. Descriptors!SelectAgreesWithPoll
    <2> SUFFICES ASSUME NEW fd \in Descriptors!Fds, NEW readfds \in SUBSET Descriptors!Fds,
                        NEW writefds \in SUBSET Descriptors!Fds, NEW nfds \in 0..MaxFds
                 PROVE  LET sel == Descriptors!Select(nfds, readfds, writefds)
                            wanted == (IF fd \in readfds THEN {"POLLIN"} ELSE {})
                                      \cup (IF fd \in writefds THEN {"POLLOUT"} ELSE {})
                            revents == Descriptors!Poll(fd, wanted)
                        IN /\ fd \in sel.read <=> fd < nfds /\ "POLLIN" \in revents
                           /\ fd \in sel.write <=> fd < nfds /\ "POLLOUT" \in revents
                           /\ fd \in sp_active => ready_events[fd] \cap {"POLLERR", "POLLHUP"} \subseteq revents
      BY DEF Descriptors!SelectAgreesWithPoll
    <2> DEFINE wanted == (IF fd \in readfds THEN {"POLLIN"} ELSE {})
                         \cup (IF fd \in writefds THEN {"POLLOUT"} ELSE {})
               sel == Descriptors!Select(nfds, readfds, writefds)
               revents == Descriptors!Poll(fd, wanted)
    <2>1. /\ sel.read = Descriptors!ReadyIn(readfds, nfds, "POLLIN")
          /\ sel.write = Descriptors!ReadyIn(writefds, nfds, "POLLOUT")
      BY DEF Descriptors!Select
    <2>2. ~(fd >= MaxFds)
      BY DescConstants DEF Descriptors!Fds
    <2>3. CASE fd \in sp_active
      <3>1. revents = ready_events[fd] \cap (wanted \cup {"POLLERR", "POLLHUP"})
        BY <2>2, <2>3 DEF Descriptors!Poll, Descriptors!AlwaysReported
      <3> HIDE DEF sel, revents
      <3>2. fd \in sel.read <=> fd \in readfds /\ fd < nfds /\ "POLLIN" \in ready_events[fd]
        BY <2>1, <2>3 DEF Descriptors!ReadyIn
      <3>3. fd \in sel.write <=> fd \in writefds /\ fd < nfds /\ "POLLOUT" \in ready_events[fd]
        BY <2>1, <2>3 DEF Descriptors!ReadyIn
      <3> QED BY <2>3, <3>1, <3>2, <3>3 DEF sel, revents
    <2>4. CASE fd \notin sp_active
      <3>1. revents = {"POLLNVAL"}
        BY <2>4 DEF Descriptors!Poll
      <3> HIDE DEF sel, revents
      <3>2. fd \notin sel.read /\ fd \notin sel.write
        BY <2>1, <2>4 DEF Descriptors!ReadyIn
      <3> QED BY <2>4, <3>1, <3>2 DEF sel, revents
    <2> QED BY <2>3, <2>4
  <1> QED BY <1>1, <1>2

-----------------------------------------------------------------------------
\* A mock descriptor: what was read and what is still in its buffer are the
\* bytes that were taken in, and the flag tells whether the buffer is empty.
NbBytes(buf, con, inj) ==
    /\ buf \in Seq(Nat) /\ con \in Seq(Nat) /\ inj \in Nat
    /\ Len(buf) <= BufSize
    /\ inj = Len(con) + Len(buf)
    /\ \A i \in 1..Len(con) : con[i] = i
    /\ \A i \in 1..Len(buf) : buf[i] = Len(con) + i

NbInv ==
    /\ nb_next \in 0..MaxFds
    /\ \A fd \in nb_active : fd \in DescFds /\ fd < nb_next
    /\ DOMAIN read_buf = DescFds /\ DOMAIN consumed = DescFds /\ DOMAIN injected = DescFds
    /\ DOMAIN read_total = DescFds /\ DOMAIN readable = DescFds
    /\ \A fd \in DescFds :
           /\ NbBytes(read_buf[fd], consumed[fd], injected[fd])
           /\ read_total[fd] = Len(consumed[fd])
           /\ readable[fd] <=> read_buf[fd] # <<>>
           /\ fd >= nb_next => read_buf[fd] = <<>> /\ consumed[fd] = <<>>

\* The smaller of two.
LEMMA DescMin ==
    ASSUME NEW a \in Int, NEW b \in Int
    PROVE  Descriptors!Min({a, b}) = IF a <= b THEN a ELSE b
  BY DEF Descriptors!Min

\* Bytes that are taken in.
LEMMA NbTakes ==
    ASSUME NEW buf, NEW con, NEW inj, NbBytes(buf, con, inj),
           NEW n \in Nat \ {0}, n <= BufSize - Len(buf)
    PROVE  LET w == buf \o [i \in 1..n |-> inj + i]
           IN  NbBytes(w, con, inj + n) /\ w # <<>>
  <1> DEFINE e == [i \in 1..n |-> inj + i]
             w == buf \o e
  <1>1. /\ buf \in Seq(Nat) /\ con \in Seq(Nat) /\ inj \in Nat /\ Len(buf) <= BufSize
        /\ inj = Len(con) + Len(buf) /\ Len(buf) \in Nat /\ Len(con) \in Nat /\ BufSize \in Nat
    BY LenProperties, DescConstants DEF NbBytes
  <1>2. e \in Seq(Nat) /\ Len(e) = n /\ \A i \in 1..n : e[i] = inj + i
    <2>1. \A i \in 1..n : inj + i \in Nat
      BY <1>1
    <2>2. e \in [1..n -> Nat]
      BY <2>1
    <2> QED BY <2>2
  <1> HIDE DEF e
  <1>3. /\ w \in Seq(Nat) /\ Len(w) = Len(buf) + n
        /\ \A i \in 1..(Len(buf) + n) : w[i] = IF i <= Len(buf) THEN buf[i] ELSE e[i - Len(buf)]
    BY <1>1, <1>2, ConcatProperties
  <1> HIDE DEF w
  <1>4. ASSUME NEW i \in 1..Len(w) PROVE w[i] = Len(con) + i
    <2>1. CASE i <= Len(buf)
      <3>1. i \in 1..Len(buf)
        BY <1>1, <1>3, <2>1
      <3> QED BY <1>3, <2>1, <3>1 DEF NbBytes
    <2>2. CASE ~(i <= Len(buf))
      <3>1. i - Len(buf) \in 1..n /\ i \in 1..(Len(buf) + n)
        BY <1>1, <1>3, <2>2
      <3>2. w[i] = inj + (i - Len(buf))
        BY <1>2, <1>3, <2>2, <3>1
      <3> QED BY <1>1, <3>2
    <2> QED BY <2>1, <2>2
  <1>5. inj + n \in Nat /\ inj + n = Len(con) + Len(w) /\ Len(w) <= BufSize /\ Len(w) # 0
    BY <1>1, <1>3
  <1>6. \A i \in 1..Len(con) : con[i] = i
    BY DEF NbBytes
  <1>7. NbBytes(w, con, inj + n)
    BY <1>1, <1>3, <1>4, <1>5, <1>6 DEF NbBytes
  <1>8. w # <<>>
    BY <1>5
  <1> QED BY <1>7, <1>8 DEF w, e

\* Bytes that are read.
LEMMA NbReads ==
    ASSUME NEW buf, NEW con, NEW inj, NbBytes(buf, con, inj), NEW n \in 1..Len(buf)
    PROVE  LET r == SubSeq(buf, n + 1, Len(buf))
               t == con \o SubSeq(buf, 1, n)
           IN  NbBytes(r, t, inj) /\ Len(t) = Len(con) + n /\ (n < Len(buf) <=> r # <<>>)
  <1> DEFINE r == SubSeq(buf, n + 1, Len(buf))
             f == SubSeq(buf, 1, n)
             t == con \o f
  <1>1. /\ buf \in Seq(Nat) /\ con \in Seq(Nat) /\ inj \in Nat /\ Len(buf) <= BufSize
        /\ inj = Len(con) + Len(buf) /\ Len(buf) \in Nat /\ Len(con) \in Nat /\ BufSize \in Nat
    BY LenProperties, DescConstants DEF NbBytes
  <1>2. \A i \in 1..Len(buf) : buf[i] \in Nat /\ buf[i] = Len(con) + i
    BY <1>1, ElementOfSeq DEF NbBytes
  <1>3. /\ f \in Seq(Nat) /\ Len(f) = n
        /\ \A i \in 1..n : f[i] = buf[i]
    BY <1>1, <1>2
  <1>4. /\ r \in Seq(Nat) /\ Len(r) = Len(buf) - n
        /\ \A i \in 1..(Len(buf) - n) : r[i] = buf[n + i]
    BY <1>1, <1>2
  <1> HIDE DEF f, r
  <1>5. /\ t \in Seq(Nat) /\ Len(t) = Len(con) + n
        /\ \A i \in 1..(Len(con) + n) : t[i] = IF i <= Len(con) THEN con[i] ELSE f[i - Len(con)]
    BY <1>1, <1>3, ConcatProperties
  <1> HIDE DEF t
  <1>6. ASSUME NEW i \in 1..Len(t) PROVE t[i] = i
    <2>1. CASE i <= Len(con)
      <3>1. i \in 1..Len(con)
        BY <1>1, <1>5, <2>1
      <3> QED BY <1>5, <2>1, <3>1 DEF NbBytes
    <2>2. CASE ~(i <= Len(con))
      <3>0. n \in Nat /\ n <= Len(buf) /\ i \in Nat /\ i <= Len(con) + n /\ i >= 1
        BY <1>1, <1>5
      <3>1. i - Len(con) \in 1..n /\ i - Len(con) \in 1..Len(buf) /\ i \in 1..(Len(con) + n)
        BY <1>1, <2>2, <3>0
      <3>2. t[i] = Len(con) + (i - Len(con))
        BY <1>2, <1>3, <1>5, <2>2, <3>1
      <3> QED BY <1>1, <3>2
    <2> QED BY <2>1, <2>2
  <1>7. ASSUME NEW i \in 1..Len(r) PROVE r[i] = Len(t) + i
    <2>1. n + i \in 1..Len(buf) /\ i \in 1..(Len(buf) - n)
      BY <1>1, <1>4, SMTT(60)
    <2>2. r[i] = Len(con) + (n + i)
      BY <1>2, <1>4, <2>1
    <2> QED BY <1>1, <1>5, <2>2
  <1>8. inj = Len(t) + Len(r) /\ Len(r) <= BufSize
    BY <1>1, <1>4, <1>5
  <1>9. NbBytes(r, t, inj)
    BY <1>1, <1>4, <1>5, <1>6, <1>7, <1>8 DEF NbBytes
  <1>10. n < Len(buf) <=> Len(r) # 0
    BY <1>1, <1>4
  <1>11. Len(r) # 0 <=> r # <<>>
    BY <1>4, EmptySeq
  <1> QED BY <1>5, <1>9, <1>10, <1>11 DEF r, t, f

LEMMA NbInitially == ASSUME Descriptors!NbInit PROVE NbInv
  <1>1. /\ nb_next = 0 /\ nb_active = {}
        /\ readable = [fd \in DescFds |-> FALSE] /\ read_buf = [fd \in DescFds |-> <<>>]
        /\ read_total = [fd \in DescFds |-> 0] /\ injected = [fd \in DescFds |-> 0]
        /\ consumed = [fd \in DescFds |-> <<>>]
    BY DEF Descriptors!NbInit, DescFds, Descriptors!Fds
  <1>2. <<>> \in Seq(Nat) /\ Len(<<>>) = 0 /\ 0 + 0 = 0 /\ 0 <= BufSize /\ 0 \in 0..MaxFds
    BY EmptySeq, DescConstants
  <1>3. NbBytes(<<>>, <<>>, 0)
    BY <1>2 DEF NbBytes
  <1> QED BY <1>1, <1>2, <1>3 DEF NbInv

LEMMA NbStep == ASSUME NbInv, [Descriptors!NbNext]_nbVars PROVE NbInv'
  <1> DEFINE Good(fd, next, buf, con, inj, total, rd) ==
                 /\ NbBytes(buf, con, inj) /\ total = Len(con)
                 /\ rd <=> buf # <<>>
                 /\ fd >= next => buf = <<>> /\ con = <<>>
  <1>1. \A fd \in DescFds : Good(fd, nb_next, read_buf[fd], consumed[fd], injected[fd], read_total[fd], readable[fd])
    BY DEF NbInv
  <1>2. /\ DOMAIN read_buf = DescFds /\ DOMAIN consumed = DescFds /\ DOMAIN injected = DescFds
        /\ DOMAIN read_total = DescFds /\ DOMAIN readable = DescFds /\ nb_next \in 0..MaxFds
        /\ \A fd \in nb_active : fd \in DescFds /\ fd < nb_next
    BY DEF NbInv
  <1>3. ASSUME UNCHANGED <<nb_next, nb_active, readable, read_buf, read_total, injected, consumed>>
        PROVE  NbInv'
    BY <1>3 DEF NbInv
  <1>4. CASE Descriptors!NbOpen
    <2>1. /\ nb_next < MaxFds /\ nb_next' = nb_next + 1 /\ nb_active' = nb_active \cup {nb_next}
          /\ readable' = [readable EXCEPT ![nb_next] = FALSE]
          /\ read_buf' = [read_buf EXCEPT ![nb_next] = <<>>]
          /\ read_total' = [read_total EXCEPT ![nb_next] = 0]
          /\ injected' = injected /\ consumed' = consumed
      BY <1>4 DEF Descriptors!NbOpen
    <2>2. /\ nb_next \in DescFds /\ nb_next + 1 \in 0..MaxFds /\ nb_next < nb_next + 1 /\ nb_next >= nb_next
          /\ ~(nb_next >= nb_next + 1)
      BY <1>2, <2>1, DescConstants DEF DescFds
    <2>3. \A fd \in DescFds : (fd < nb_next => fd < nb_next + 1) /\ (fd >= nb_next + 1 => fd >= nb_next)
      BY <1>2, DescConstants DEF DescFds
    <2>4. Len(<<>>) = 0
      OBVIOUS
    <2>5. ASSUME NEW fd \in DescFds
          PROVE  Good(fd, nb_next', read_buf'[fd], consumed'[fd], injected'[fd], read_total'[fd], readable'[fd])
      <3>1. CASE fd = nb_next
        BY <1>1, <1>2, <2>1, <2>2, <2>4, <3>1
      <3>2. CASE fd # nb_next
        BY <1>1, <1>2, <2>1, <2>3, <3>2
      <3> QED BY <3>1, <3>2
    <2>6. DOMAIN read_buf' = DescFds /\ DOMAIN read_total' = DescFds /\ DOMAIN readable' = DescFds
      BY <1>2, <2>1
    <2>7. \A fd \in nb_active' : fd \in DescFds /\ fd < nb_next'
      BY <1>2, <2>1, <2>2, <2>3
    <2> QED BY <1>2, <2>1, <2>2, <2>5, <2>6, <2>7 DEF NbInv
  <1>5. ASSUME NEW fd \in Descriptors!Fds, Descriptors!NbClose(fd) PROVE NbInv'
    BY <1>5 DEF NbInv, Descriptors!NbClose
  <1>6. ASSUME NEW fd \in Descriptors!Fds, NEW flag \in BOOLEAN, Descriptors!SetNonblock(fd, flag) PROVE NbInv'
    BY <1>3, <1>6 DEF Descriptors!SetNonblock
  <1>7. ASSUME NEW fd \in Descriptors!Fds, NEW flag \in BOOLEAN, Descriptors!SetWritable(fd, flag) PROVE NbInv'
    BY <1>3, <1>7 DEF Descriptors!SetWritable
  <1>8. ASSUME NEW fd \in Descriptors!Fds, Descriptors!Write(fd, 1) PROVE NbInv'
    BY <1>3, <1>8 DEF Descriptors!Write
  <1>9. ASSUME NEW fd \in Descriptors!Fds, NEW len \in 1..2, Descriptors!Inject(fd, len) PROVE NbInv'
    <2> DEFINE n == Descriptors!Taken(fd, len)
               w == read_buf[fd] \o [i \in 1..n |-> injected[fd] + i]
    <2>1. /\ fd \in nb_active /\ n > 0
          /\ read_buf' = [read_buf EXCEPT ![fd] = w]
          /\ readable' = [readable EXCEPT ![fd] = TRUE]
          /\ injected' = [injected EXCEPT ![fd] = injected[fd] + n]
          /\ UNCHANGED <<nb_next, nb_active, read_total, consumed>>
      BY <1>9 DEF Descriptors!Inject
    <2>2. fd \in DescFds /\ fd < nb_next /\ NbBytes(read_buf[fd], consumed[fd], injected[fd])
      BY <1>1, <1>2, <2>1
    <2>3. n \in Nat \ {0} /\ n <= BufSize - Len(read_buf[fd])
      <3>1. len \in Int /\ BufSize - Len(read_buf[fd]) \in Int
        BY <2>2, DescConstants, LenProperties DEF NbBytes
      <3>2. n = IF len <= BufSize - Len(read_buf[fd]) THEN len ELSE BufSize - Len(read_buf[fd])
        BY <3>1, DescMin DEF Descriptors!Taken
      <3> QED BY <2>1, <3>1, <3>2
    <2>4. NbBytes(w, consumed[fd], injected[fd] + n) /\ w # <<>>
      <3> HIDE DEF n
      <3> QED BY <2>2, <2>3, NbTakes
    <2> HIDE DEF w, n
    <2>5. ~(fd >= nb_next)
      BY <1>2, <2>2, DescConstants DEF DescFds
    <2>6. ASSUME NEW g \in DescFds
          PROVE  Good(g, nb_next', read_buf'[g], consumed'[g], injected'[g], read_total'[g], readable'[g])
      <3>1. CASE g = fd
        BY <1>1, <1>2, <2>1, <2>2, <2>4, <2>5, <3>1
      <3>2. CASE g # fd
        BY <1>1, <1>2, <2>1, <3>2
      <3> QED BY <3>1, <3>2
    <2>7. DOMAIN read_buf' = DescFds /\ DOMAIN injected' = DescFds /\ DOMAIN readable' = DescFds
      BY <1>2, <2>1
    <2> QED BY <1>2, <2>1, <2>6, <2>7 DEF NbInv
  <1>10. ASSUME NEW fd \in Descriptors!Fds, NEW len \in 1..2, Descriptors!Read(fd, len) PROVE NbInv'
    <2> DEFINE buf == read_buf[fd]
               n == Descriptors!Min({len, Len(buf)})
               r == SubSeq(buf, n + 1, Len(buf))
               t == consumed[fd] \o SubSeq(buf, 1, n)
    <2>1. /\ Descriptors!ReadAnswer(fd) = "OK"
          /\ consumed' = [consumed EXCEPT ![fd] = t]
          /\ read_buf' = [read_buf EXCEPT ![fd] = r]
          /\ readable' = [readable EXCEPT ![fd] = (n < Len(buf))]
          /\ read_total' = [read_total EXCEPT ![fd] = read_total[fd] + n]
          /\ UNCHANGED <<nb_next, nb_active, injected>>
      BY <1>10 DEF Descriptors!Read, Descriptors!StillReadable
    <2>2. fd \in nb_active /\ buf # <<>>
      BY <2>1 DEF Descriptors!ReadAnswer
    <2>3. fd \in DescFds /\ fd < nb_next /\ NbBytes(buf, consumed[fd], injected[fd])
      BY <1>1, <1>2, <2>2
    <2>4. n \in 1..Len(buf)
      <3>1. buf \in Seq(Nat) /\ Len(buf) \in Nat /\ Len(buf) # 0
        BY <2>2, <2>3, LenProperties, EmptySeq DEF NbBytes
      <3>2. n = IF len <= Len(buf) THEN len ELSE Len(buf)
        BY <3>1, DescMin
      <3> QED BY <3>1, <3>2
    <2> HIDE DEF n, buf
    <2>5. NbBytes(r, t, injected[fd]) /\ Len(t) = Len(consumed[fd]) + n /\ (n < Len(buf) <=> r # <<>>)
      BY <2>3, <2>4, NbReads
    <2> HIDE DEF r, t
    <2>6. ~(fd >= nb_next)
      BY <1>2, <2>3, DescConstants DEF DescFds
    <2>7. ASSUME NEW g \in DescFds
          PROVE  Good(g, nb_next', read_buf'[g], consumed'[g], injected'[g], read_total'[g], readable'[g])
      <3>1. CASE g = fd
        <4>1. read_total[fd] = Len(consumed[fd])
          BY <1>1, <2>3
        <4> QED BY <1>2, <2>1, <2>3, <2>5, <2>6, <3>1, <4>1
      <3>2. CASE g # fd
        BY <1>1, <1>2, <2>1, <3>2
      <3> QED BY <3>1, <3>2
    <2>8. DOMAIN read_buf' = DescFds /\ DOMAIN consumed' = DescFds /\ DOMAIN readable' = DescFds /\ DOMAIN read_total' = DescFds
      BY <1>2, <2>1
    <2> QED BY <1>2, <2>1, <2>7, <2>8 DEF NbInv
  <1>11. CASE UNCHANGED nbVars
    BY <1>3, <1>11 DEF nbVars
  <1> QED BY <1>4, <1>5, <1>6, <1>7, <1>8, <1>9, <1>10, <1>11 DEF Descriptors!NbNext

\* Bytes are read as they came, and the flag tells whether there are any.
LEMMA NbConsequences ==
    ASSUME NbInv
    PROVE  Descriptors!NbTypeOK /\ Descriptors!ReadableMeansBytes /\ Descriptors!BytesAreReadInOrder
  <1>0. Descriptors!Fds = DescFds
    BY DEF DescFds, Descriptors!Fds
  <1>1. Descriptors!NbTypeOK
    <2>1. nb_active \subseteq 0..(nb_next - 1)
      BY DescConstants DEF NbInv, DescFds
    <2> QED BY <1>0, <2>1 DEF NbInv, NbBytes, Descriptors!NbTypeOK
  <1>2. Descriptors!ReadableMeansBytes
    BY <1>0 DEF NbInv, Descriptors!ReadableMeansBytes, Descriptors!ReadAnswer, Descriptors!WouldBlock
  <1>3. ASSUME NEW fd \in DescFds PROVE consumed[fd] \o read_buf[fd] = [i \in 1..injected[fd] |-> i]
    <2>1. PICK con : con = consumed[fd]
      OBVIOUS
    <2>2. PICK buf : buf = read_buf[fd]
      OBVIOUS
    <2>3. PICK inj : inj = injected[fd]
      OBVIOUS
    <2>4. NbBytes(buf, con, inj)
      BY <2>1, <2>2, <2>3 DEF NbInv
    <2> DEFINE w == con \o buf
               z == [i \in 1..inj |-> i]
    <2>5. /\ buf \in Seq(Nat) /\ con \in Seq(Nat) /\ inj \in Nat
          /\ inj = Len(con) + Len(buf) /\ Len(buf) \in Nat /\ Len(con) \in Nat
      BY <2>4, LenProperties DEF NbBytes
    <2>6. /\ w \in Seq(Nat) /\ Len(w) = Len(con) + Len(buf)
          /\ \A i \in 1..(Len(con) + Len(buf)) : w[i] = IF i <= Len(con) THEN con[i] ELSE buf[i - Len(con)]
      BY <2>5, ConcatProperties
    <2> HIDE DEF w
    <2>7. z \in Seq(Nat) /\ Len(z) = inj /\ \A i \in 1..inj : z[i] = i
      <3>1. z \in [1..inj -> Nat]
        BY <2>5
      <3> QED BY <2>5, <3>1
    <2> HIDE DEF z
    <2>8. ASSUME NEW i \in 1..Len(w) PROVE w[i] = z[i]
      <3>1. CASE i <= Len(con)
        <4>1. i \in 1..Len(con) /\ i \in 1..inj
          BY <2>5, <2>6, <3>1
        <4>2. con[i] = i
          BY <2>4, <4>1 DEF NbBytes
        <4> QED BY <2>5, <2>6, <2>7, <3>1, <4>1, <4>2
      <3>2. CASE ~(i <= Len(con))
        <4>1. i - Len(con) \in 1..Len(buf) /\ i \in 1..inj
          BY <2>5, <2>6, <3>2
        <4>2. buf[i - Len(con)] = Len(con) + (i - Len(con))
          BY <2>4, <4>1 DEF NbBytes
        <4>3. w[i] = buf[i - Len(con)]
          BY <2>5, <2>6, <3>2, <4>1
        <4>4. Len(con) + (i - Len(con)) = i
          BY <2>5, <4>1
        <4> QED BY <2>7, <4>1, <4>2, <4>3, <4>4
      <3> QED BY <3>1, <3>2
    <2>9. w = z
      BY <2>5, <2>6, <2>7, <2>8, SeqEqual
    <2> QED BY <2>1, <2>2, <2>3, <2>9 DEF w, z
  <1>4. Descriptors!BytesAreReadInOrder
    BY <1>0, <1>3 DEF Descriptors!BytesAreReadInOrder
  <1> QED BY <1>1, <1>2, <1>4

-----------------------------------------------------------------------------
\* The spanning tree.  What a bridge believes, and what is under way to one,
\* is never cheaper than any potential of the root allows.
StpBounded(b, r, cost) == \A d \in Stp!Potentials(r) : d[b] <= cost

StpRoles == {"ROOT", "DESIGNATED", "ALTERNATE"}

\* The beliefs of bridge b.
StpGood(b, root, cost, port, roles) ==
    /\ root \in Bridges /\ cost \in Nat /\ root <= b
    /\ port \in Stp!PortsOf(b) \cup {Stp!NoPort}
    /\ roles \in [Stp!PortsOf(b) -> StpRoles]
    /\ StpBounded(b, root, cost)
    /\ port = Stp!NoPort <=> root = b
    /\ \A l \in Stp!PortsOf(b) : roles[l] = "ROOT" <=> port = l

\* A claim that an end of l has made.
StpClaims(l) ==
    {m \in [root : Bridges, cost : Nat] : \E c \in l : StpBounded(c, m.root, m.cost)}

StpInv ==
    /\ DOMAIN root_id = Bridges /\ DOMAIN root_path_cost = Bridges /\ DOMAIN root_port = Bridges
    /\ DOMAIN role = Bridges /\ DOMAIN bpdu = Bridges
    /\ root_id \in [Bridges -> Bridges] /\ root_path_cost \in [Bridges -> Nat]
    /\ \A b \in Bridges : StpGood(b, root_id[b], root_path_cost[b], root_port[b], role[b])
    /\ \A b \in Bridges : DOMAIN bpdu[b] = Stp!PortsOf(b)
    /\ \A b \in Bridges : bpdu[b] \in [Stp!PortsOf(b) -> [root : Bridges, cost : Nat] \cup {Stp!NoBpdu}]
    /\ \A b \in Bridges : \A l \in Stp!PortsOf(b) :
           bpdu[b][l] \in StpClaims(l) \cup {Stp!NoBpdu}

LEMMA StpConstantsHold ==
    /\ Bridges \subseteq Nat \ {0} /\ Cost \in [Links -> Nat \ {0}] /\ Horizon \in Nat
    /\ \A l \in Links : l \subseteq Bridges
  BY TableSuiteConstants DEF Stp!StpConstants

\* A link has another end.
LEMMA StpOther ==
    ASSUME NEW b \in Bridges, NEW l \in Stp!PortsOf(b)
    PROVE  Stp!Other(b, l) \in l /\ Stp!Other(b, l) \in Bridges /\ l \in Stp!PortsOf(Stp!Other(b, l))
  <1>1. l \in Links /\ b \in l /\ l \subseteq Bridges
    BY StpConstantsHold DEF Stp!PortsOf
  <1>2. Stp!Cardinality(l) = 2
    BY <1>1, TableSuiteConstants DEF Stp!StpConstants
  <1>3. Stp!Cardinality(l) = Cardinality(l)
    BY Zenon DEF Stp!Cardinality, Cardinality
  <1>4. \E c \in l : c # b
    <2> SUFFICES ASSUME ~\E c \in l : c # b PROVE FALSE
      OBVIOUS
    <2>1. l = {b}
      BY <1>1
    <2>2. Cardinality({b}) = 1
      BY FS_Singleton
    <2> QED BY <1>2, <1>3, <2>1, <2>2
  <1>5. Stp!Other(b, l) \in l
    BY <1>4 DEF Stp!Other
  <1> QED BY <1>1, <1>5 DEF Stp!PortsOf

\* A claim heard on l, with the cost of l, bounds the one who hears it.
LEMMA StpThrough ==
    ASSUME NEW b \in Bridges, NEW l \in Stp!PortsOf(b), NEW m \in StpClaims(l)
    PROVE  Stp!Through(m, l) \in Nat /\ StpBounded(b, m.root, Stp!Through(m, l))
  <1>1. l \in Links /\ b \in l /\ l \subseteq Bridges /\ Cost[l] \in Nat
    BY StpConstantsHold DEF Stp!PortsOf
  <1>2. m.root \in Bridges /\ m.cost \in Nat
    BY DEF StpClaims
  <1>3. PICK c \in l : StpBounded(c, m.root, m.cost)
    BY DEF StpClaims
  <1>4. Stp!Through(m, l) = m.cost + Cost[l]
    BY DEF Stp!Through
  <1>5. ASSUME NEW d \in Stp!Potentials(m.root) PROVE d[b] <= Stp!Through(m, l)
    <2>1. d \in [Bridges -> 0..Horizon] /\ d[b] <= d[c] + Cost[l]
      BY <1>1 DEF Stp!Potentials
    <2>2. d[b] \in Nat /\ d[c] \in Nat
      BY <1>1, <2>1, StpConstantsHold
    <2>3. d[c] <= m.cost
      BY <1>3 DEF StpBounded
    <2> QED BY <1>1, <1>2, <1>4, <2>1, <2>2, <2>3
  <1> QED BY <1>1, <1>2, <1>4, <1>5 DEF StpBounded

\* nfs_stp_process_bpdu keeps the beliefs sound.
LEMMA StpAfter ==
    ASSUME NEW b \in Bridges, NEW l \in Stp!PortsOf(b), NEW m \in StpClaims(l),
           StpGood(b, root_id[b], root_path_cost[b], root_port[b], role[b])
    PROVE  LET a == Stp!After(b, l, m) IN StpGood(b, a.root, a.cost, a.port, a.role)
  <1> DEFINE a == Stp!After(b, l, m)
             new == Stp!Through(m, l)
             root == root_id[b]
             cost == root_path_cost[b]
             port == root_port[b]
             rl == role[b]
             P == Stp!PortsOf(b)
  <1>1. new \in Nat /\ StpBounded(b, m.root, new) /\ m.root \in Bridges
    BY StpThrough DEF StpClaims
  <1>2. b \in l /\ l # Stp!NoPort /\ \A k \in P : k # Stp!NoPort
    BY DEF Stp!PortsOf, Stp!NoPort
  <1>3. m.root \in Nat /\ root \in Nat /\ b \in Nat /\ root <= b
    BY <1>1, StpConstantsHold DEF StpGood
  <1>4. /\ rl \in [P -> StpRoles] /\ port \in P \cup {Stp!NoPort}
        /\ port = Stp!NoPort <=> root = b
        /\ \A k \in P : rl[k] = "ROOT" <=> port = k
        /\ root \in Bridges /\ cost \in Nat
    BY DEF StpGood
  <1>5. CASE m.root < root
    <2> DEFINE f == [k \in P |-> IF k = l THEN "ROOT" ELSE "DESIGNATED"]
    <2>1. a = [root |-> m.root, cost |-> new, port |-> l, role |-> f]
      BY <1>5 DEF Stp!After
    <2>2. f \in [P -> StpRoles] /\ \A k \in P : f[k] = "ROOT" <=> l = k
      BY DEF StpRoles
    <2>3. m.root <= b /\ m.root # b
      BY <1>3, <1>5
    <2> HIDE DEF f, P
    <2> QED BY <1>1, <1>2, <2>1, <2>2, <2>3 DEF StpGood, P
  <1>6. CASE ~(m.root < root) /\ (m.root > root \/ port = Stp!NoPort)
    <2>1. a = [root |-> root, cost |-> cost, port |-> port, role |-> rl]
      BY <1>6 DEF Stp!After
    <2> QED BY <2>1
  <1>7. CASE ~(m.root < root) /\ ~(m.root > root \/ port = Stp!NoPort)
    <2>0. m.root = root /\ port \in P /\ port # Stp!NoPort
      BY <1>3, <1>4, <1>7
    <2>1. CASE port = l
      <3>1. a = [root |-> m.root, cost |-> new, port |-> l, role |-> rl]
        BY <1>7, <2>1 DEF Stp!After
      <3> QED BY <1>1, <1>3, <1>4, <2>0, <2>1, <3>1 DEF StpGood
    <2>2. CASE port # l /\ Stp!Better(new, cost)
      <3> DEFINE f == [rl EXCEPT ![port] = "DESIGNATED", ![l] = "ROOT"]
      <3>1. a = [root |-> m.root, cost |-> new, port |-> l, role |-> f]
        BY <1>7, <2>2 DEF Stp!After
      <3>2. \A k \in P : f[k] = IF k = l THEN "ROOT" ELSE IF k = port THEN "DESIGNATED" ELSE rl[k]
        BY <1>4, <2>0
      <3>3. f \in [P -> StpRoles]
        BY <1>4, <2>0 DEF StpRoles
      <3> HIDE DEF f, P
      <3>4. \A k \in P : f[k] = "ROOT" <=> l = k
        BY <1>4, <2>2, <3>2
      <3> QED BY <1>1, <1>2, <1>3, <1>4, <2>0, <3>1, <3>3, <3>4 DEF StpGood, P
    <2>3. CASE port # l /\ ~Stp!Better(new, cost)
      <3> DEFINE f == [rl EXCEPT ![l] = "ALTERNATE"]
      <3>1. a = [root |-> root, cost |-> cost, port |-> port, role |-> f]
        BY <1>7, <2>3 DEF Stp!After
      <3>2. f \in [P -> StpRoles] /\ \A k \in P : f[k] = IF k = l THEN "ALTERNATE" ELSE rl[k]
        BY <1>4 DEF StpRoles
      <3> HIDE DEF f, P
      <3>3. \A k \in P : f[k] = "ROOT" <=> port = k
        BY <1>4, <2>3, <3>2
      <3> QED BY <3>1, <3>2, <3>3 DEF StpGood, P
    <2> QED BY <2>1, <2>2, <2>3
  <1> QED BY <1>5, <1>6, <1>7

LEMMA StpInitially == ASSUME Stp!Init PROVE StpInv
  <1>1. /\ root_id = [b \in Bridges |-> b]
        /\ root_path_cost = [b \in Bridges |-> 0]
        /\ root_port = [b \in Bridges |-> Stp!NoPort]
        /\ role = [b \in Bridges |-> [l \in Stp!PortsOf(b) |-> "DESIGNATED"]]
        /\ bpdu = [b \in Bridges |-> [l \in Stp!PortsOf(b) |-> Stp!NoBpdu]]
    BY DEF Stp!Init
  <1>2. ASSUME NEW b \in Bridges
        PROVE  StpGood(b, b, 0, Stp!NoPort, [l \in Stp!PortsOf(b) |-> "DESIGNATED"])
    <2>1. StpBounded(b, b, 0)
      BY DEF StpBounded, Stp!Potentials
    <2>2. \A l \in Stp!PortsOf(b) : l # Stp!NoPort
      BY DEF Stp!PortsOf, Stp!NoPort
    <2>3. b <= b
      BY StpConstantsHold
    <2> QED BY <2>1, <2>2, <2>3 DEF StpGood, StpRoles
  <1> QED BY <1>1, <1>2 DEF StpInv

LEMMA StpStep == ASSUME StpInv, [Stp!Next]_stpVars PROVE StpInv'
  <1>1. /\ DOMAIN root_id = Bridges /\ DOMAIN root_path_cost = Bridges /\ DOMAIN root_port = Bridges
        /\ DOMAIN role = Bridges /\ DOMAIN bpdu = Bridges
        /\ root_id \in [Bridges -> Bridges] /\ root_path_cost \in [Bridges -> Nat]
    BY DEF StpInv
  <1>2. \A b \in Bridges : StpGood(b, root_id[b], root_path_cost[b], root_port[b], role[b])
    BY DEF StpInv
  <1>3. \A b \in Bridges : /\ DOMAIN bpdu[b] = Stp!PortsOf(b)
                           /\ bpdu[b] \in [Stp!PortsOf(b) -> [root : Bridges, cost : Nat] \cup {Stp!NoBpdu}]
                           /\ \A l \in Stp!PortsOf(b) : bpdu[b][l] \in StpClaims(l) \cup {Stp!NoBpdu}
    BY DEF StpInv
  <1>4. ASSUME NEW x \in Bridges, NEW l \in Stp!PortsOf(x), NEW m \in StpClaims(l) \cup {Stp!NoBpdu},
               bpdu' = [bpdu EXCEPT ![x][l] = m]
        PROVE  /\ DOMAIN bpdu' = Bridges
               /\ \A b \in Bridges :
                     /\ DOMAIN bpdu'[b] = Stp!PortsOf(b)
                     /\ bpdu'[b] \in [Stp!PortsOf(b) -> [root : Bridges, cost : Nat] \cup {Stp!NoBpdu}]
                     /\ \A k \in Stp!PortsOf(b) : bpdu'[b][k] \in StpClaims(k) \cup {Stp!NoBpdu}
    <2> DEFINE M == [root : Bridges, cost : Nat] \cup {Stp!NoBpdu}
    <2>1. m \in M
      BY DEF StpClaims
    <2>2. DOMAIN bpdu' = Bridges
      BY <1>1, <1>4
    <2> HIDE DEF M
    <2>3. \A b \in Bridges : bpdu'[b] = IF b = x THEN [bpdu[x] EXCEPT ![l] = m] ELSE bpdu[b]
      BY <1>1, <1>4
    <2>4. /\ DOMAIN bpdu[x] = Stp!PortsOf(x) /\ bpdu[x] \in [Stp!PortsOf(x) -> M]
          /\ \A k \in Stp!PortsOf(x) : bpdu[x][k] \in StpClaims(k) \cup {Stp!NoBpdu}
      BY <1>3 DEF M
    <2> DEFINE f == [bpdu[x] EXCEPT ![l] = m]
    <2>5. DOMAIN f = Stp!PortsOf(x) /\ f \in [Stp!PortsOf(x) -> M]
      BY <2>1, <2>4
    <2>6. \A k \in Stp!PortsOf(x) : f[k] \in StpClaims(k) \cup {Stp!NoBpdu}
      BY <2>4
    <2> HIDE DEF f
    <2>7. \A b \in Bridges : bpdu'[b] = IF b = x THEN f ELSE bpdu[b]
      BY <2>3 DEF f
    <2> QED BY <1>3, <2>2, <2>5, <2>6, <2>7 DEF M
  <1>5. ASSUME NEW b \in Bridges, NEW l \in Stp!PortsOf(b), Stp!Hello(b, l) PROVE StpInv'
    <2> DEFINE m == Stp!Claim(b)
    <2>1. bpdu' = [bpdu EXCEPT ![Stp!Other(b, l)][l] = m]
          /\ UNCHANGED <<root_id, root_path_cost, root_port, role>>
      BY <1>5 DEF Stp!Hello
    <2>2. m = [root |-> root_id[b], cost |-> root_path_cost[b]]
      BY DEF Stp!Claim
    <2> HIDE DEF m
    <2>3. b \in l /\ StpBounded(b, root_id[b], root_path_cost[b])
          /\ root_id[b] \in Bridges /\ root_path_cost[b] \in Nat
      BY <1>2 DEF Stp!PortsOf, StpGood
    <2>4. m \in StpClaims(l)
      BY <2>2, <2>3 DEF StpClaims
    <2>5. Stp!Other(b, l) \in Bridges /\ l \in Stp!PortsOf(Stp!Other(b, l))
      BY StpOther
    <2>6. /\ DOMAIN bpdu' = Bridges
          /\ \A x \in Bridges :
                 /\ DOMAIN bpdu'[x] = Stp!PortsOf(x)
                 /\ bpdu'[x] \in [Stp!PortsOf(x) -> [root : Bridges, cost : Nat] \cup {Stp!NoBpdu}]
                 /\ \A k \in Stp!PortsOf(x) : bpdu'[x][k] \in StpClaims(k) \cup {Stp!NoBpdu}
      BY <1>4, <2>1, <2>4, <2>5
    <2> QED BY <1>1, <1>2, <2>1, <2>6 DEF StpInv
  <1>6. ASSUME NEW b \in Bridges, NEW l \in Stp!PortsOf(b), Stp!LoseBpdu(b, l) PROVE StpInv'
    <2>1. bpdu' = [bpdu EXCEPT ![b][l] = Stp!NoBpdu]
          /\ UNCHANGED <<root_id, root_path_cost, root_port, role>>
      BY <1>6 DEF Stp!LoseBpdu
    <2>2. /\ DOMAIN bpdu' = Bridges
          /\ \A x \in Bridges :
                 /\ DOMAIN bpdu'[x] = Stp!PortsOf(x)
                 /\ bpdu'[x] \in [Stp!PortsOf(x) -> [root : Bridges, cost : Nat] \cup {Stp!NoBpdu}]
                 /\ \A k \in Stp!PortsOf(x) : bpdu'[x][k] \in StpClaims(k) \cup {Stp!NoBpdu}
      BY <1>4, <2>1
    <2> QED BY <1>1, <1>2, <2>1, <2>2 DEF StpInv
  <1>7. ASSUME NEW b \in Bridges, NEW l \in Stp!PortsOf(b), Stp!Process(b, l) PROVE StpInv'
    <2> DEFINE m == bpdu[b][l]
               a == Stp!After(b, l, m)
    <2>1. /\ m # Stp!NoBpdu
          /\ root_id' = [root_id EXCEPT ![b] = a.root]
          /\ root_path_cost' = [root_path_cost EXCEPT ![b] = a.cost]
          /\ root_port' = [root_port EXCEPT ![b] = a.port]
          /\ role' = [role EXCEPT ![b] = a.role]
          /\ bpdu' = [bpdu EXCEPT ![b][l] = Stp!NoBpdu]
      BY <1>7 DEF Stp!Process
    <2>2. m \in StpClaims(l)
      BY <1>3, <2>1
    <2>3. StpGood(b, a.root, a.cost, a.port, a.role)
      <3> HIDE DEF m
      <3> QED BY <1>2, <2>2, StpAfter
    <2> HIDE DEF a
    <2>4. a.root \in Bridges /\ a.cost \in Nat
      BY <2>3 DEF StpGood
    <2>5. /\ DOMAIN root_id' = Bridges /\ DOMAIN root_path_cost' = Bridges /\ DOMAIN root_port' = Bridges
          /\ DOMAIN role' = Bridges
          /\ root_id' \in [Bridges -> Bridges] /\ root_path_cost' \in [Bridges -> Nat]
      BY <1>1, <2>1, <2>4
    <2>6. ASSUME NEW x \in Bridges
          PROVE  StpGood(x, root_id'[x], root_path_cost'[x], root_port'[x], role'[x])
      <3>1. CASE x = b
        BY <1>1, <2>1, <2>3, <3>1
      <3>2. CASE x # b
        BY <1>1, <1>2, <2>1, <3>2
      <3> QED BY <3>1, <3>2
    <2>7. /\ DOMAIN bpdu' = Bridges
          /\ \A x \in Bridges :
                 /\ DOMAIN bpdu'[x] = Stp!PortsOf(x)
                 /\ bpdu'[x] \in [Stp!PortsOf(x) -> [root : Bridges, cost : Nat] \cup {Stp!NoBpdu}]
                 /\ \A k \in Stp!PortsOf(x) : bpdu'[x][k] \in StpClaims(k) \cup {Stp!NoBpdu}
      BY <1>4, <2>1
    <2> QED BY <2>5, <2>6, <2>7 DEF StpInv
  <1>8. CASE UNCHANGED stpVars
    BY <1>8 DEF stpVars, StpInv
  <1> QED BY <1>5, <1>6, <1>7, <1>8 DEF Stp!Next

\* The largest of a set of numbers up to n.
LEMMA StpMax ==
    ASSUME NEW n \in Nat, NEW T, T \subseteq 0..n, T # {}
    PROVE  Stp!Max(T) \in T /\ \A y \in T : Stp!Max(T) >= y
  <1> DEFINE U == {n - x : x \in T}
  <1>1. U \subseteq Nat /\ U # {}
    <2>1. \A x \in T : n - x \in Nat
      OBVIOUS
    <2> QED BY <2>1
  <1> HIDE DEF U
  <1>2. PICK u \in U : \A v \in U : u <= v
    BY <1>1, LeastNatural
  <1>3. PICK x \in T : u = n - x
    BY <1>2 DEF U
  <1>4. ASSUME NEW y \in T PROVE x >= y
    <2>1. n - y \in U /\ y \in Int /\ x \in Int
      BY DEF U
    <2>2. n - x <= n - y
      BY <1>2, <1>3, <2>1
    <2> QED BY <2>1, <2>2
  <1> QED BY <1>4 DEF Stp!Max

\* No bridge believes in a root or a path that does not exist.
LEMMA StpConsequences ==
    ASSUME StpInv
    PROVE  Stp!TypeOK /\ Stp!BeliefsAreSound
  <1>1. Stp!TypeOK
    BY DEF StpInv, StpGood, StpRoles, Stp!TypeOK
  <1>2. ASSUME NEW b \in Bridges, NEW r \in Bridges, NEW c \in Nat, StpBounded(b, r, c)
        PROVE  c >= Stp!TrueCost(b, r)
    <2> DEFINE T == {d[b] : d \in Stp!Potentials(r)}
               z == [x \in Bridges |-> 0]
    <2>1. Horizon \in Nat /\ T \subseteq 0..Horizon
      BY StpConstantsHold DEF Stp!Potentials
    <2>2. z \in Stp!Potentials(r)
      <3>1. \A l \in Links : \A x, y \in l : z[x] <= z[y] + Cost[l]
        BY StpConstantsHold
      <3>2. z \in [Bridges -> 0..Horizon] /\ z[r] = 0
        BY StpConstantsHold
      <3> HIDE DEF z
      <3> QED BY <3>1, <3>2 DEF Stp!Potentials
    <2>3. T # {}
      BY <2>2
    <2>4. Stp!TrueCost(b, r) = Stp!Max(T)
      BY DEF Stp!TrueCost, Stp!Distance
    <2>5. \A y \in T : y <= c
      BY <1>2 DEF StpBounded
    <2> HIDE DEF T
    <2>6. Stp!Max(T) \in T
      BY <2>1, <2>3, StpMax
    <2>7. Stp!Max(T) \in Nat /\ Stp!Max(T) <= c
      <3>1. PICK x : x = Stp!Max(T)
        OBVIOUS
      <3>2. x \in 0..Horizon /\ x <= c
        BY <2>1, <2>5, <2>6, <3>1
      <3> QED BY <2>1, <3>1, <3>2
    <2> QED BY <2>4, <2>7
  <1>3. Stp!BeliefsAreSound
    BY <1>2 DEF StpInv, StpGood, Stp!BeliefsAreSound
  <1> QED BY <1>1, <1>3

-----------------------------------------------------------------------------
\* An index of the dynamic table means the header that RFC 7541 gives it and
\* its size is what its entries add up to (hpack.c), as long as no header is
\* cut when it is stored; pipelined requests are answered first come first
\* served (http_conn.c), and bytes are read as they were written (nonblock.c).
THEOREM OrderIsKept == NoLongHeaders => (Spec => []QueuesKeepOrder)
  <1> DEFINE Inv == HpackInv /\ HttpInv /\ NbInv
  <1> SUFFICES ASSUME NoLongHeaders PROVE Spec => []QueuesKeepOrder
    OBVIOUS
  <1>1. Init => Inv
    BY HpackInitially, HttpInitially, NbInitially, Zenon DEF Init
  <1>2. Inv /\ [Next]_vars => Inv'
    BY TableSteps, HpackStep, HttpStep, NbStep, Zenon
  <1>3. Inv => QueuesKeepOrder
    BY HpackConsequences, HttpConsequences, NbConsequences, Zenon DEF QueuesKeepOrder
  <1> QED BY <1>1, <1>2, <1>3, PTL DEF Spec

\* A caller is told what holds: whether the connection will close
\* (http_conn.c), which cookies a request carries (cookie.c), which descriptors
\* are ready (selectpoll.c, nonblock.c); and no bridge believes in a root or a
\* path that does not exist, in any topology (stp.c).
THEOREM CallersAreToldTheTruth == Spec => []ViewsAreCurrent
  <1> DEFINE Inv == HttpInv /\ JarInv /\ PollInv /\ NbInv /\ StpInv
  <1>1. Init => Inv
    BY HttpInitially, JarInitially, PollInitially, NbInitially, StpInitially, Zenon DEF Init
  <1>2. Inv /\ [Next]_vars => Inv'
    BY TableSteps, HttpStep, JarStep, PollStep, NbStep, StpStep, Zenon
  <1>3. Inv => ViewsAreCurrent
    BY HttpConsequences, JarConsequences, PollConsequences, NbConsequences, StpConsequences, Zenon
       DEF ViewsAreCurrent
  <1> QED BY <1>1, <1>2, <1>3, PTL DEF Spec

-----------------------------------------------------------------------------
\* The parts of the suite, and what all of them keep.
Parts == {"arp_cache", "mac_table", "bridge", "l2switch", "fragment",
          "nat", "lpm", "rtable", "hpack", "http_conn",
          "cookie_jar", "select_poll", "nonblock", "stp"}

TypesInv ==
    /\ which \in Parts
    /\ ArpInv /\ MacInv /\ BrInv /\ SwitchInv
    /\ FragInv /\ NatInv /\ LpmInv /\ RtInv
    /\ HpTypes /\ HttpInv
    /\ JarInv /\ PollInv /\ NbInv /\ StpInv

LEMMA TypesInitially == Init => TypesInv
  <1> SUFFICES ASSUME Init PROVE TypesInv
    OBVIOUS
  <1>1. /\ which \in Parts
        /\ ArpCache!Init /\ MacTable!Init /\ Bridge!Init /\ L2Switch!Init
        /\ Fragment!Init /\ NatTable!Init /\ Lpm!LpmInit /\ Rtable!RtableInit
        /\ Hpack!Init /\ HttpConn!Init
        /\ CookieJar!Init /\ Descriptors!SpInit /\ Descriptors!NbInit /\ Stp!Init
    BY Zenon DEF Init, Parts
  <1> QED BY <1>1, ArpInitially, MacInitially, BrInitially, SwitchInitially, FragInitially,
             NatInitially, LpmInitially, RtInitially, HpTypesInitially, HttpInitially,
             JarInitially, PollInitially, NbInitially, StpInitially, Zenon DEF TypesInv

LEMMA TypesStep == TypesInv /\ [Next]_vars => TypesInv'
  <1> SUFFICES ASSUME TypesInv, [Next]_vars PROVE TypesInv'
    OBVIOUS
  <1>1. ArpInv' /\ MacInv' /\ BrInv' /\ SwitchInv'
    BY TableSteps, ArpStep, MacStep, BrStep, SwitchStep, Zenon DEF TypesInv
  <1>2. FragInv' /\ NatInv' /\ LpmInv' /\ RtInv'
    BY TableSteps, FragStep, NatStep, LpmStep, RtStep, Zenon DEF TypesInv
  <1>3. HpTypes' /\ HttpInv'
    BY TableSteps, HpTypesStep, HttpStep, Zenon DEF TypesInv
  <1>4. JarInv' /\ PollInv' /\ NbInv' /\ StpInv'
    BY TableSteps, JarStep, PollStep, NbStep, StpStep, Zenon DEF TypesInv
  <1>5. (which \in Parts)'
    BY TableSteps, Zenon DEF TypesInv, Parts
  <1> QED BY <1>1, <1>2, <1>3, <1>4, <1>5, Zenon DEF TypesInv

LEMMA TypesConsequences == TypesInv => TypeOK
  <1> SUFFICES ASSUME TypesInv PROVE TypeOK
    OBVIOUS
  <1>1. ArpCache!TypeOK /\ MacTable!TypeOK /\ Bridge!TypeOK /\ L2Switch!TypeOK
    BY ArpConsequences, MacConsequences, BrConsequences, SwitchConsequences, Zenon DEF TypesInv
  <1>2. Fragment!TypeOK /\ NatTable!TypeOK /\ Lpm!LpmTypeOK /\ Rtable!RtableTypeOK
    BY FragConsequences, NatConsequences, LpmConsequences, RtConsequences, Zenon DEF TypesInv
  <1>3. Hpack!TypeOK /\ HttpConn!TypeOK
    BY HpTypesConsequences, HttpConsequences, Zenon DEF TypesInv
  <1>4. CookieJar!TypeOK /\ Descriptors!SpTypeOK /\ Descriptors!NbTypeOK /\ Stp!TypeOK
    BY JarConsequences, PollConsequences, NbConsequences, StpConsequences, Zenon DEF TypesInv
  <1>5. which \in Parts
    BY DEF TypesInv
  <1> QED BY <1>1, <1>2, <1>3, <1>4, <1>5 DEF TypeOK, Parts

\* Tables, rings and arrays stay within their sizes and hold what they may
\* hold, in each of the fourteen programs (arp_cache.c to stp.c).
THEOREM TablesAreTyped == Spec => []TypeOK
  <1>1. Init => TypesInv
    BY TypesInitially
  <1>2. TypesInv /\ [Next]_vars => TypesInv'
    BY TypesStep
  <1>3. TypesInv => TypeOK
    BY TypesConsequences
  <1> QED BY <1>1, <1>2, <1>3, PTL DEF Spec
=============================================================================
