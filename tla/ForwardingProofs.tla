-------------------------- MODULE ForwardingProofs --------------------------
(***************************************************************************)
(* Proofs about the tables of the link and network layers in MCTables:     *)
(* ARP cache, MAC tables, bridge, VLAN switch, fragments, NAT and route    *)
(* tables.  For every size of the tables and every set of hosts, ports,    *)
(* VLANs, flows and routes                                                 *)
(*   - frames and lookups follow the hosts (HostsAreFollowed),             *)
(*   - frames stay inside their VLAN, and off a removed port unless it is  *)
(*     named again (FramesAreContained),                                   *)
(*   - packets, replies and lookups arrive where they should               *)
(*     (PacketsArriveRight).                                               *)
(* Each part has an inductive invariant, named XyzInv, with lemmas that it *)
(* holds initially, is kept by the part's steps and implies the part's     *)
(* properties; the theorems at the end put the parts together.  Loops are  *)
(* recursive functions, and what they compute is shown with LoopExists and *)
(* LoopStays, from the least turn at which it would be wrong.              *)
(***************************************************************************)
EXTENDS MCTables, SequenceTheorems, FiniteSetTheorems, WellFoundedInduction, TLAPS

\* A step of the suite is, for each part, a step of that part or one that
\* leaves it alone.
LEMMA TableSteps ==
    ASSUME [Next]_vars
    PROVE  /\ [ArpCache!Next]_arpVars
           /\ [MacTable!Next]_macVars
           /\ [Bridge!Next]_brVars
           /\ [L2Switch!Next]_swVars
           /\ [Fragment!Next]_fragVars
           /\ [NatTable!Next]_natVars
           /\ [Lpm!LpmNext]_lpmVars
           /\ [Rtable!RtableNext]_rtVars
           /\ [Hpack!Next]_hpackVars
           /\ [HttpConn!Next]_httpVars
           /\ [CookieJar!Next]_jarVars
           /\ [Descriptors!SpNext]_pollVars
           /\ [Descriptors!NbNext]_nbVars
           /\ [Stp!Next]_stpVars
           /\ UNCHANGED which
  <1>1. CASE Next
    BY <1>1 DEF Next, Only
  <1>2. CASE UNCHANGED vars
    BY <1>2 DEF vars
  <1> QED BY <1>1, <1>2

-----------------------------------------------------------------------------
\* Quotient and remainder.
LEMMA DivMod ==
    ASSUME NEW m \in Nat \ {0}, NEW a \in Int
    PROVE  /\ (a \div m) \in Int /\ (a % m) \in 0..(m - 1)
           /\ a = (a \div m) * m + (a % m)
  OBVIOUS

\* A multiple of m between -m and m is 0.
LEMMA SmallMultiple ==
    ASSUME NEW m \in Nat \ {0}, NEW w \in Int, w * m < m, w * m > -m
    PROVE  w = 0
  <1>1. w >= 1 => w * m >= m
    OBVIOUS
  <1>2. w <= -1 => w * m <= -m
    OBVIOUS
  <1> QED BY <1>1, <1>2

\* The remainder is the only one of its kind.
LEMMA ModUnique ==
    ASSUME NEW m \in Nat \ {0}, NEW w \in Int, NEW r \in 0..(m - 1)
    PROVE  (w * m + r) % m = r
  <1> DEFINE a == w * m + r
             p == a \div m
             s == a % m
  <1>0. w * m \in Int
    OBVIOUS
  <1>1. a \in Int
    BY <1>0
  <1>2. p \in Int /\ s \in 0..(m - 1) /\ a = p * m + s
    BY <1>1, DivMod
  <1>3. p * m \in Int
    BY <1>2
  <1> HIDE DEF p, s
  <1>4. (w - p) * m = w * m - p * m
    BY <1>2
  <1>5. w * m + r = p * m + s
    BY <1>2
  <1>6. w * m - p * m = s - r
    BY <1>0, <1>2, <1>3, <1>5
  <1>7. (w - p) * m < m /\ (w - p) * m > -m
    BY <1>2, <1>4, <1>6
  <1>8. w - p \in Int
    BY <1>2
  <1>9. w - p = 0
    BY <1>7, <1>8, SmallMultiple
  <1>10. w * m - p * m = 0
    BY <1>4, <1>9
  <1>11. s = r
    BY <1>2, <1>6, <1>10
  <1> QED BY <1>11 DEF s

\* A number below m is its own remainder.
LEMMA ModSmall ==
    ASSUME NEW m \in Nat \ {0}, NEW r \in 0..(m - 1)
    PROVE  r % m = r
  <1>1. 0 \in Int /\ 0 * m + r = r
    OBVIOUS
  <1>2. (0 * m + r) % m = r
    BY <1>1, ModUnique
  <1> QED BY <1>1, <1>2

\* A number below 2 * m loses m at most once.
LEMMA ModOnce ==
    ASSUME NEW m \in Nat \ {0}, NEW x \in 0..((m + m) - 1)
    PROVE  x % m = IF x < m THEN x ELSE x - m
  <1>1. CASE x < m
    BY <1>1, ModSmall
  <1>2. CASE ~(x < m)
    <2>1. x - m \in 0..(m - 1) /\ 1 \in Int /\ 1 * m + (x - m) = x
      BY <1>2
    <2>2. (1 * m + (x - m)) % m = x - m
      BY <2>1, ModUnique
    <2> QED BY <1>2, <2>1, <2>2
  <1> QED BY <1>1, <1>2

\* A set of naturals that is not empty has a least element.
LEMMA LeastNatural ==
    ASSUME NEW T, T \subseteq Nat, T # {}
    PROVE  \E x \in T : \A y \in T : x <= y
  <1>1. \E x \in T : \A y \in T : ~(<<y, x>> \in OpToRel(<, Nat))
    BY NatLessThanWellFounded, WFMin
  <1>2. ASSUME NEW x \in T, NEW y \in T, ~(<<y, x>> \in OpToRel(<, Nat))
        PROVE  x <= y
    BY <1>2 DEF OpToRel
  <1> QED BY <1>1, <1>2

\* What holds before a loop and is kept by every turn holds after every turn:
\* J[n] is the set of states the loop may be in after n turns.
LEMMA LoopStays ==
    ASSUME NEW N \in Nat, NEW h, NEW J,
           h[0] \in J[0],
           \A n \in 1..N : h[n - 1] \in J[n - 1] => h[n] \in J[n]
    PROVE  \A n \in 0..N : h[n] \in J[n]
  <1> DEFINE T == {n \in 0..N : h[n] \notin J[n]}
  <1> SUFFICES ASSUME T # {} PROVE FALSE
    OBVIOUS
  <1>0. T \subseteq Nat
    OBVIOUS
  <1>1. PICK n \in T : \A k \in T : n <= k
    BY <1>0, LeastNatural
  <1>2. n \in 0..N /\ h[n] \notin J[n]
    OBVIOUS
  <1>3. n # 0
    BY <1>2
  <1>4. n - 1 \in 0..N /\ n \in 1..N
    BY <1>2, <1>3
  <1>5. n - 1 \notin T
    BY <1>1, <1>2
  <1>6. h[n - 1] \in J[n - 1]
    BY <1>4, <1>5
  <1> QED BY <1>2, <1>4, <1>6

\* g holds the states of a loop of N turns; F[n] is what the n-th does.
IsLoop(g, S, F, x, N) ==
    /\ g \in [0..N -> S] /\ g[0] = x
    /\ \A n \in 1..N : g[n] = F[n][g[n - 1]]

\* There is one, when every turn makes a state of S of a state of S.
LEMMA LoopExists ==
    ASSUME NEW S, NEW x \in S, NEW N \in Nat, NEW F, \A n \in 1..N : F[n] \in [S -> S]
    PROVE  \E g : IsLoop(g, S, F, x, N)
  <1> DEFINE Is(g, M) == g[0] = x /\ \A n \in 1..M : g[n] = F[n][g[n - 1]]
             T == {M \in 0..N : ~ \E g \in [0..M -> S] : Is(g, M)}
  <1> SUFFICES ASSUME T # {} PROVE FALSE
    <2>1. CASE T = {}
      <3>1. N \in 0..N
        OBVIOUS
      <3>2. PICK g \in [0..N -> S] : Is(g, N)
        BY <2>1, <3>1
      <3> QED BY <3>2 DEF IsLoop
    <2> QED BY <2>1
  <1>0. T \subseteq Nat
    OBVIOUS
  <1>1. PICK M \in T : \A k \in T : M <= k
    BY <1>0, LeastNatural
  <1>2. CASE M = 0
    <2>1. [n \in 0..0 |-> x] \in [0..0 -> S] /\ Is([n \in 0..0 |-> x], 0)
      OBVIOUS
    <2> QED BY <1>2, <2>1
  <1>3. CASE M # 0
    <2>1. M - 1 \in 0..N /\ M - 1 \notin T /\ M \in 1..N
      <3>1. M \in 0..N
        OBVIOUS
      <3> HIDE DEF T
      <3>2. M - 1 \in 0..N /\ M \in 1..N /\ ~(M <= M - 1)
        BY <1>3, <3>1
      <3> QED BY <1>1, <3>2
    <2>2. PICK g \in [0..(M - 1) -> S] : Is(g, M - 1)
      BY <2>1
    <2> DEFINE k == [n \in 0..M |-> IF n = M THEN F[M][g[M - 1]] ELSE g[n]]
    <2>3. g[M - 1] \in S
      BY <2>1, <2>2
    <2>4. F[M][g[M - 1]] \in S
      BY <2>1, <2>3
    <2>5. k \in [0..M -> S]
      BY <2>2, <2>4
    <2>6. k[0] = x
      BY <1>3, <2>2
    <2>7. ASSUME NEW n \in 1..M PROVE k[n] = F[n][k[n - 1]]
      <3>1. n - 1 \in 0..M /\ n - 1 # M /\ k[n - 1] = g[n - 1]
        OBVIOUS
      <3>2. CASE n = M
        BY <3>1, <3>2
      <3>3. CASE n # M
        <4>1. n \in 1..(M - 1)
          BY <3>3
        <4> QED BY <2>2, <3>1, <3>3, <4>1
      <3> QED BY <3>2, <3>3
    <2> QED BY <2>5, <2>6, <2>7
  <1> QED BY <1>2, <1>3

-----------------------------------------------------------------------------
\* Removal from an array: the last entry takes the place of the removed one.
Removed(s, i) == SubSeq([s EXCEPT ![i] = s[Len(s)]], 1, Len(s) - 1)

\* f tells where each entry that is left was before.
Moves(f, s, i) ==
    /\ f \in [1..(Len(s) - 1) -> (1..Len(s)) \ {i}]
    /\ \A k \in 1..(Len(s) - 1) : Removed(s, i)[k] = s[f[k]]
    /\ \A k, l \in 1..(Len(s) - 1) : f[k] = f[l] => k = l
    /\ \A j \in (1..Len(s)) \ {i} : \E k \in 1..(Len(s) - 1) : f[k] = j
    /\ \A k \in 1..(i - 1) : f[k] = k

\* What is left are the other entries, those before the hole where they were.
LEMMA SwapRemoval ==
    ASSUME NEW S, NEW s \in Seq(S), NEW i \in 1..Len(s)
    PROVE  /\ Removed(s, i) \in Seq(S) /\ Len(Removed(s, i)) = Len(s) - 1
           /\ \E f : Moves(f, s, i)
  <1> DEFINE n == Len(s)
             t == [s EXCEPT ![i] = s[n]]
             w == SubSeq(t, 1, n - 1)
             f == [k \in 1..(n - 1) |-> IF k = i THEN n ELSE k]
  <1>1. n \in Nat /\ n >= 1 /\ n \in 1..n /\ s[n] \in S
    BY LenProperties, ElementOfSeq
  <1>2. t \in Seq(S) /\ Len(t) = n /\ \A k \in 1..n : t[k] = IF k = i THEN s[n] ELSE s[k]
    BY <1>1
  <1> HIDE DEF t
  <1>3. /\ w \in Seq(S) /\ Len(w) = n - 1
        /\ \A k \in 1..(n - 1) : w[k] = t[k]
    <2>1. 1 \in 1..(n + 1) /\ n - 1 \in (1 - 1)..n
      BY <1>1
    <2> HIDE DEF n
    <2>2. w \in Seq(S) /\ Len(w) = (n - 1) - 1 + 1 /\ \A k \in 1..((n - 1) - 1 + 1) : w[k] = t[1 + k - 1]
      BY <1>1, <1>2, <2>1, SubSeqProperties
    <2> QED BY <1>1, <2>2
  <1>4. Removed(s, i) = w
    BY DEF Removed, t
  <1> HIDE DEF w, n
  <1>5. f \in [1..(n - 1) -> (1..n) \ {i}]
    BY <1>1
  <1>6. \A k \in 1..(n - 1) : w[k] = s[f[k]]
    BY <1>1, <1>2, <1>3
  <1>7. \A k, l \in 1..(n - 1) : f[k] = f[l] => k = l
    BY <1>1
  <1>8. ASSUME NEW j \in (1..n) \ {i} PROVE \E k \in 1..(n - 1) : f[k] = j
    <2>1. CASE j = n
      <3>1. i \in 1..(n - 1) /\ f[i] = j
        BY <1>1, <2>1 DEF n
      <3> QED BY <3>1
    <2>2. CASE j # n
      <3>1. j \in 1..(n - 1) /\ f[j] = j
        BY <1>1, <2>2
      <3> QED BY <3>1
    <2> QED BY <2>1, <2>2
  <1>9. \A k \in 1..(i - 1) : f[k] = k
    BY <1>1 DEF n
  <1> HIDE DEF f
  <1>10. Moves(f, s, i)
    BY <1>4, <1>5, <1>6, <1>7, <1>8, <1>9 DEF Moves, n
  <1> QED BY <1>3, <1>4, <1>10 DEF n

\* The states of a sweep over an array: the array, one of G, and the index.
SweepStates(G) == [array : G, i : Nat \ {0}]

\* F is one turn of a sweep that leaves nothing but entries of D behind it:
\* it goes on after an entry of D or takes one entry out.
IsTurn(F, G, D) ==
    /\ F \in [SweepStates(G) -> SweepStates(G)]
    /\ \A c \in SweepStates(G) : c.i > Len(c.array) => F[c] = c
    /\ \A c \in SweepStates(G) : c.i <= Len(c.array) =>
           /\ \A j \in 1..(c.i - 1) : F[c].array[j] = c.array[j]
           /\ \/ /\ F[c].i = c.i + 1 /\ Len(F[c].array) = Len(c.array)
                 /\ F[c].array[c.i] \in D
              \/ F[c].i = c.i /\ Len(F[c].array) = Len(c.array) - 1

\* A sweep has turns.
LEMMA SweepExists ==
    ASSUME NEW G, NEW D, NEW F, IsTurn(F, G, D), NEW s \in G, NEW N \in Nat
    PROVE  \E g \in [0..N -> SweepStates(G)] :
               g[0] = [array |-> s, i |-> 1] /\ \A n \in 1..N : g[n] = F[g[n - 1]]
  <1> DEFINE C == SweepStates(G)
             x == [array |-> s, i |-> 1]
  <1>1. x \in C
    BY DEF SweepStates
  <1>2. F \in [C -> C]
    BY DEF IsTurn
  <1> HIDE DEF C, x
  <1> DEFINE H == [n \in 1..N |-> F]
  <1>3. \A n \in 1..N : H[n] \in [C -> C] /\ H[n] = F
    BY <1>2
  <1> HIDE DEF H
  <1>4. PICK g : IsLoop(g, C, H, x, N)
    BY <1>1, <1>3, LoopExists
  <1> QED BY <1>3, <1>4 DEF IsLoop, C, x

\* As many turns as there are entries leave entries of D only.
LEMMA SweepResult ==
    ASSUME NEW S, NEW G, G \subseteq Seq(S), NEW D, NEW F, IsTurn(F, G, D), NEW s \in G, NEW h,
           h[0] = [array |-> s, i |-> 1],
           \A n \in 1..Len(s) : h[n - 1] \in SweepStates(G) => h[n] = F[h[n - 1]]
    PROVE  /\ h[Len(s)].array \in G
           /\ \A j \in 1..Len(h[Len(s)].array) : h[Len(s)].array[j] \in D
  <1> DEFINE C == SweepStates(G)
             N == Len(s)
             Ok(c, n) == /\ Len(c.array) < c.i + (N - n)
                         /\ \A j \in 1..(c.i - 1) : j <= Len(c.array) => c.array[j] \in D
             J == [n \in 0..N |-> {c \in C : Ok(c, n)}]
  <1>1. N \in Nat /\ s \in Seq(S)
    BY LenProperties
  <1>2. h[0] \in J[0]
    <2>1. [array |-> s, i |-> 1] \in C
      BY DEF SweepStates
    <2>2. Ok([array |-> s, i |-> 1], 0)
      BY <1>1
    <2> QED BY <1>1, <2>1, <2>2
  <1>3. ASSUME NEW n \in 1..N, h[n - 1] \in J[n - 1] PROVE h[n] \in J[n]
    <2> DEFINE c == h[n - 1]
               d == h[n]
    <2>1. c \in C /\ Ok(c, n - 1) /\ n - 1 \in 0..N /\ n \in 0..N
      BY <1>1, <1>3
    <2>2. d = F[c]
      BY <2>1
    <2>3. d \in C
      BY <2>1, <2>2 DEF IsTurn
    <2>4. /\ c.array \in Seq(S) /\ Len(c.array) \in Nat /\ c.i \in Nat \ {0}
          /\ d.array \in Seq(S) /\ Len(d.array) \in Nat /\ d.i \in Nat \ {0}
      <3>1. c.array \in G /\ d.array \in G /\ c.i \in Nat \ {0} /\ d.i \in Nat \ {0}
        BY <2>1, <2>3 DEF SweepStates
      <3> QED BY <3>1, LenProperties
    <2>5. CASE c.i > Len(c.array)
      <3>1. d = c
        BY <2>1, <2>2, <2>5 DEF IsTurn
      <3>2. Ok(c, n)
        BY <1>1, <2>1, <2>4, <2>5, SMTT(60)
      <3> HIDE DEF Ok, c, d, C
      <3> QED BY <2>1, <3>1, <3>2 DEF c, d
    <2>6. CASE c.i <= Len(c.array)
      <3>1. /\ \A j \in 1..(c.i - 1) : d.array[j] = c.array[j]
            /\ \/ d.i = c.i + 1 /\ Len(d.array) = Len(c.array) /\ d.array[c.i] \in D
               \/ d.i = c.i /\ Len(d.array) = Len(c.array) - 1
        BY <2>1, <2>2, <2>6 DEF IsTurn
      <3> HIDE DEF c, d, C, N
      <3>2. Ok(d, n)
        <4>1. Len(c.array) < c.i + (N - (n - 1))
          BY <2>1
        <4>2. Len(d.array) < d.i + (N - n)
          BY <1>1, <2>4, <3>1, <4>1
        <4>3. ASSUME NEW j \in 1..(d.i - 1), j <= Len(d.array) PROVE d.array[j] \in D
          <5>1. CASE j \in 1..(c.i - 1)
            <6>1. j <= Len(c.array)
              BY <2>4, <2>6, <5>1
            <6>2. c.array[j] \in D
              BY <2>1, <5>1, <6>1
            <6> QED BY <3>1, <5>1, <6>2
          <5>2. CASE j \notin 1..(c.i - 1)
            <6>1. d.i = c.i + 1 /\ j = c.i
              BY <2>4, <3>1, <5>2
            <6>2. d.i # c.i
              BY <2>4, <6>1
            <6> QED BY <3>1, <6>1, <6>2
          <5> QED BY <5>1, <5>2
        <4> QED BY <4>2, <4>3
      <3> HIDE DEF Ok
      <3> QED BY <2>1, <2>3, <3>2 DEF d
    <2> QED BY <2>4, <2>5, <2>6
  <1> HIDE DEF J
  <1>4. \A n \in 0..N : h[n] \in J[n]
    BY <1>1, <1>2, <1>3, LoopStays
  <1>5. h[N] \in J[N] /\ N \in 0..N
    BY <1>1, <1>4
  <1>6. h[N] \in C /\ Ok(h[N], N)
    BY <1>5 DEF J
  <1>7. h[N].array \in G /\ h[N].i \in Nat \ {0} /\ Len(h[N].array) \in Nat
    BY <1>6, LenProperties DEF SweepStates
  <1>8. \A j \in 1..Len(h[N].array) : j \in 1..(h[N].i - 1) /\ j <= Len(h[N].array)
    BY <1>1, <1>6, <1>7
  <1> QED BY <1>6, <1>7, <1>8

-----------------------------------------------------------------------------
\* The ARP cache.  An address has at most one entry, and it holds what was
\* learned last.
ArpEntry == [ip : Ip, mac : Mac, state : ArpCache!State, age : 0..ArpTimeout]

ArpArrays(t) ==
    {s \in Seq(ArpEntry) :
        /\ Len(s) <= ArpCapacity
        /\ \A i \in 1..Len(s) : s[i].ip \in DOMAIN t /\ s[i].mac = t[s[i].ip]
        /\ \A i, j \in 1..Len(s) : s[j].ip = s[i].ip => j = i}

\* What a sweep leaves alone.
ArpSettled == {e \in ArpEntry : e.state \in {"REACHABLE", "STALE"} => e.age < ArpTimeout}

ArpInv ==
    /\ arp_entries \in ArpArrays(arp_told)
    /\ arp_swept \in BOOLEAN
    /\ arp_swept => \A i \in 1..Len(arp_entries) : arp_entries[i] \in ArpSettled

\* Changing the age and the state of an entry keeps the array's shape.
LEMMA ArpArrayUpdated ==
    ASSUME NEW t, NEW s \in ArpArrays(t), NEW w \in Seq(ArpEntry), Len(w) = Len(s),
           \A i \in 1..Len(s) : w[i].ip = s[i].ip /\ w[i].mac = s[i].mac
    PROVE  w \in ArpArrays(t)
  BY DEF ArpArrays

LEMMA ArpArrayShrunk ==
    ASSUME NEW t, NEW s \in ArpArrays(t), NEW i \in 1..Len(s)
    PROVE  /\ Removed(s, i) \in ArpArrays(t)
           /\ Len(Removed(s, i)) = Len(s) - 1
           /\ \A k \in 1..(i - 1) : Removed(s, i)[k] = s[k]
  <1>1. s \in Seq(ArpEntry) /\ Len(s) \in Nat /\ Len(s) <= ArpCapacity
    BY LenProperties DEF ArpArrays
  <1>2. PICK f : Moves(f, s, i)
    BY <1>1, SwapRemoval
  <1>3. Removed(s, i) \in Seq(ArpEntry) /\ Len(Removed(s, i)) = Len(s) - 1
    BY <1>1, SwapRemoval
  <1> DEFINE w == Removed(s, i)
  <1>4. /\ f \in [1..(Len(s) - 1) -> (1..Len(s)) \ {i}]
        /\ \A k \in 1..(Len(s) - 1) : w[k] = s[f[k]]
        /\ \A k, l \in 1..(Len(s) - 1) : f[k] = f[l] => k = l
        /\ \A k \in 1..(i - 1) : f[k] = k
    BY <1>2 DEF Moves
  <1> HIDE DEF w
  <1>5. ASSUME NEW k \in 1..(Len(s) - 1) PROVE w[k].ip \in DOMAIN t /\ w[k].mac = t[w[k].ip]
    <2>1. f[k] \in 1..Len(s) /\ w[k] = s[f[k]]
      BY <1>4
    <2> QED BY <2>1 DEF ArpArrays
  <1>6. \A k, l \in 1..(Len(s) - 1) : w[l].ip = w[k].ip => l = k
    <2> SUFFICES ASSUME NEW k \in 1..(Len(s) - 1), NEW l \in 1..(Len(s) - 1), w[l].ip = w[k].ip
                 PROVE  l = k
      OBVIOUS
    <2>1. f[k] \in 1..Len(s) /\ f[l] \in 1..Len(s) /\ s[f[l]].ip = s[f[k]].ip
      BY <1>4
    <2>2. f[l] = f[k]
      BY <2>1 DEF ArpArrays
    <2> QED BY <1>4, <2>2
  <1>7. w \in Seq(ArpEntry) /\ Len(w) = Len(s) - 1
    BY <1>3 DEF w
  <1>8. ArpCapacity \in Nat
    BY TableSuiteConstants DEF ArpCache!ArpCacheConstants
  <1>9. Len(w) <= ArpCapacity
    BY <1>1, <1>7, <1>8
  <1>10. w \in ArpArrays(t)
    BY <1>5, <1>6, <1>7, <1>9 DEF ArpArrays
  <1>11. \A k \in 1..(i - 1) : w[k] = s[k]
    BY <1>1, <1>4
  <1> QED BY <1>7, <1>10, <1>11 DEF w

ArpTurn(t) == [c \in SweepStates(ArpArrays(t)) |-> ArpCache!AgeTurn(c)]

\* A turn of nfs_arp_cache_age goes on after an entry that is settled, or
\* takes one out and stays.
LEMMA ArpTurns ==
    ASSUME NEW t
    PROVE  IsTurn(ArpTurn(t), ArpArrays(t), ArpSettled)
  <1> DEFINE G == ArpArrays(t)
             C == SweepStates(G)
  <1>0. ArpCapacity \in Nat /\ ArpTimeout \in Nat \ {0}
    BY TableSuiteConstants DEF ArpCache!ArpCacheConstants
  <1>1. ASSUME NEW c \in C
        PROVE  /\ ArpCache!AgeTurn(c) \in C
               /\ c.i > Len(c.array) => ArpCache!AgeTurn(c) = c
               /\ c.i <= Len(c.array) =>
                    LET d == ArpCache!AgeTurn(c) IN
                    /\ \A j \in 1..(c.i - 1) : d.array[j] = c.array[j]
                    /\ \/ /\ d.i = c.i + 1 /\ Len(d.array) = Len(c.array)
                          /\ d.array[c.i] \in ArpSettled
                       \/ d.i = c.i /\ Len(d.array) = Len(c.array) - 1
    <2> DEFINE s == c.array
               i == c.i
               d == ArpCache!AgeTurn(c)
    <2>1. s \in G /\ i \in Nat \ {0} /\ c = [array |-> s, i |-> i]
      BY DEF SweepStates
    <2>2. s \in Seq(ArpEntry) /\ Len(s) \in Nat
      BY <2>1, LenProperties DEF ArpArrays
    <2>3. \A w \in G, k \in Nat \ {0} : [array |-> w, i |-> k] \in C
      BY DEF SweepStates
    <2>4. CASE i > Len(s)
      <3>1. d = c
        BY <2>4 DEF ArpCache!AgeTurn
      <3> HIDE DEF d
      <3> QED BY <2>2, <2>1, <2>4, <3>1 DEF d
    <2>5. CASE i <= Len(s)
      <3> HIDE DEF s, i, C, G
      <3>0. i \in 1..Len(s) /\ ~(i > Len(s)) /\ i + 1 \in Nat \ {0}
        BY <2>1, <2>2, <2>5
      <3>1. s[i] \in ArpEntry
        BY <2>2, <3>0, ElementOfSeq
      <3>2. ASSUME d = [array |-> s, i |-> i + 1], s[i] \in ArpSettled
            PROVE  /\ d \in C /\ d.i = i + 1 /\ Len(d.array) = Len(s) /\ d.array[i] \in ArpSettled
                   /\ \A j \in 1..(i - 1) : d.array[j] = s[j]
        BY <2>1, <2>3, <3>0, <3>2
      <3>3. CASE s[i].age < ArpTimeout
        <4>1. d = [array |-> s, i |-> i + 1]
          BY <3>0, <3>3 DEF ArpCache!AgeTurn, s, i
        <4>2. s[i] \in ArpSettled
          BY <3>1, <3>3 DEF ArpSettled
        <4> QED BY <2>5, <3>2, <4>1, <4>2, <3>0 DEF C, G, s, i
      <3>4. CASE ~(s[i].age < ArpTimeout) /\ s[i].state = "REACHABLE"
        <4> DEFINE r == [s[i] EXCEPT !.state = "STALE"]
                   e == [r EXCEPT !.age = 0]
                   w == [s EXCEPT ![i] = e]
        <4>1. d = [array |-> [s EXCEPT ![i].state = "STALE", ![i].age = 0], i |-> i + 1]
          BY <3>0, <3>4 DEF ArpCache!AgeTurn, s, i
        <4>2. [s EXCEPT ![i].state = "STALE", ![i].age = 0] = w
          BY <2>2, <3>0
        <4>3. e \in ArpEntry /\ e.ip = s[i].ip /\ e.mac = s[i].mac /\ e.age = 0
          <5>1. r \in ArpEntry /\ r.ip = s[i].ip /\ r.mac = s[i].mac
            BY <3>1 DEF ArpEntry, ArpCache!State
          <5> HIDE DEF r
          <5>2. e \in ArpEntry /\ e.ip = r.ip /\ e.mac = r.mac /\ e.age = 0
            BY <1>0, <5>1 DEF ArpEntry
          <5> QED BY <5>1, <5>2
        <4>4. w \in Seq(ArpEntry) /\ Len(w) = Len(s) /\ \A k \in 1..Len(s) : w[k] = IF k = i THEN e ELSE s[k]
          BY <2>2, <3>0, <4>3
        <4>5. w \in G
          BY <2>1, <4>3, <4>4, ArpArrayUpdated DEF G
        <4>6. w[i] \in ArpSettled
          <5> HIDE DEF e, w
          <5>1. w[i] = e /\ e.age < ArpTimeout
            BY <1>0, <3>0, <4>3, <4>4
          <5> QED BY <4>3, <5>1 DEF ArpSettled
        <4>7. d \in C /\ d.i = i + 1 /\ d.array = w
          <5>1. d = [array |-> w, i |-> i + 1]
            BY <4>1, <4>2
          <5> HIDE DEF d
          <5> QED BY <2>3, <3>0, <4>5, <5>1
        <4>8. \A j \in 1..(i - 1) : w[j] = s[j]
          BY <2>2, <3>0, <4>4
        <4> QED BY <2>5, <3>0, <4>4, <4>6, <4>7, <4>8 DEF C, G, s, i
      <3>5. CASE ~(s[i].age < ArpTimeout) /\ s[i].state = "STALE"
        <4>1. d = [array |-> Removed(s, i), i |-> i]
          BY <3>0, <3>5 DEF ArpCache!AgeTurn, s, i, ArpCache!Without, ArpCache!AfterRemoval, Removed
        <4>2. /\ Removed(s, i) \in G
              /\ Len(Removed(s, i)) = Len(s) - 1
              /\ \A k \in 1..(i - 1) : Removed(s, i)[k] = s[k]
          BY <2>1, <3>0, ArpArrayShrunk DEF G
        <4>3. d \in C /\ d.i = i /\ d.array = Removed(s, i)
          BY <2>1, <2>3, <4>1, <4>2
        <4> QED BY <2>5, <3>0, <4>2, <4>3 DEF C, G, s, i
      <3>6. CASE ~(s[i].age < ArpTimeout) /\ s[i].state \notin {"REACHABLE", "STALE"}
        <4>1. d = [array |-> s, i |-> i + 1]
          BY <3>0, <3>6 DEF ArpCache!AgeTurn, s, i
        <4>2. s[i] \in ArpSettled
          BY <3>1, <3>6 DEF ArpSettled
        <4> QED BY <2>5, <3>2, <4>1, <4>2, <3>0 DEF C, G, s, i
      <3> QED BY <3>3, <3>4, <3>5, <3>6
    <2> QED BY <2>1, <2>2, <2>4, <2>5
  <1>2. ArpTurn(t) \in [C -> C] /\ \A c \in C : ArpTurn(t)[c] = ArpCache!AgeTurn(c)
    BY <1>1 DEF ArpTurn
  <1> QED BY <1>1, <1>2 DEF IsTurn

\* What nfs_arp_cache_age leaves.
LEMMA ArpAged ==
    ASSUME NEW t, NEW s \in ArpArrays(t)
    PROVE  /\ ArpCache!Aged(s) \in ArpArrays(t)
           /\ \A i \in 1..Len(ArpCache!Aged(s)) : ArpCache!Aged(s)[i] \in ArpSettled
  <1> DEFINE N == Len(s)
             C == SweepStates(ArpArrays(t))
             x == [array |-> s, i |-> 1]
             turns[n \in 0..Len(s)] == IF n = 0 THEN [array |-> s, i |-> 1] ELSE ArpCache!AgeTurn(turns[n - 1])
             Is(h) == h = [n \in 0..Len(s) |-> IF n = 0 THEN [array |-> s, i |-> 1] ELSE ArpCache!AgeTurn(h[n - 1])]
  <1>1. ArpCache!Aged(s) = turns[Len(s)].array
    BY DEF ArpCache!Aged
  <1>2. N \in Nat /\ ArpArrays(t) \subseteq Seq(ArpEntry)
    BY LenProperties DEF ArpArrays
  <1>3. PICK g \in [0..N -> C] : g[0] = x /\ \A n \in 1..N : g[n] = ArpTurn(t)[g[n - 1]]
    <2>1. IsTurn(ArpTurn(t), ArpArrays(t), ArpSettled)
      BY ArpTurns
    <2> QED BY <1>2, <2>1, SweepExists, SMTT(60), SMTT(60)
  <1>4. \A c \in C : ArpTurn(t)[c] = ArpCache!AgeTurn(c)
    BY DEF ArpTurn
  <1>5. Is(g)
    <2>1. \A n \in 1..N : g[n - 1] \in C
      <3>1. \A n \in 1..N : n - 1 \in 0..N
        BY <1>2
      <3> QED BY <1>3, <3>1
    <2>2. \A n \in 1..N : g[n] = ArpCache!AgeTurn(g[n - 1])
      BY <1>3, <1>4, <2>1
    <2>3. \A n \in 0..N : g[n] = IF n = 0 THEN x ELSE ArpCache!AgeTurn(g[n - 1])
      BY <1>2, <1>3, <2>2
    <2> HIDE DEF C
    <2> QED BY <1>3, <2>3
  <1>6. Is(turns)
    <2>1. turns = CHOOSE h : Is(h)
      OBVIOUS
    <2> HIDE DEF Is, turns
    <2> QED BY <1>5, <2>1
  <1> HIDE DEF turns
  <1>7. turns[0] = x /\ \A n \in 1..N : turns[n] = ArpCache!AgeTurn(turns[n - 1])
    BY <1>2, <1>6, SMTT(60)
  <1>8. \A n \in 1..N : turns[n - 1] \in C => turns[n] = ArpTurn(t)[turns[n - 1]]
    BY <1>4, <1>7
  <1>9. /\ turns[N].array \in ArpArrays(t)
        /\ \A j \in 1..Len(turns[N].array) : turns[N].array[j] \in ArpSettled
    <2> HIDE DEF Is
    <2>1. IsTurn(ArpTurn(t), ArpArrays(t), ArpSettled)
      BY ArpTurns
    <2> QED BY <1>2, <1>7, <1>8, <2>1, SweepResult, SMTT(60)
  <1> QED BY <1>1, <1>9

LEMMA ArpInitially == ASSUME ArpCache!Init PROVE ArpInv
  <1>1. ArpCapacity \in Nat
    BY TableSuiteConstants DEF ArpCache!ArpCacheConstants
  <1>2. arp_entries = <<>> /\ arp_swept = FALSE
    BY DEF ArpCache!Init
  <1>3. <<>> \in Seq(ArpEntry) /\ Len(<<>>) = 0
    BY EmptySeq
  <1>4. arp_entries \in ArpArrays(arp_told)
    BY <1>1, <1>2, <1>3 DEF ArpArrays
  <1> QED BY <1>2, <1>4 DEF ArpInv

LEMMA ArpStep == ASSUME ArpInv, [ArpCache!Next]_arpVars PROVE ArpInv'
  <1> DEFINE s == arp_entries
             t == arp_told
  <1>0. ArpCapacity \in Nat /\ ArpTimeout \in Nat \ {0}
    BY TableSuiteConstants DEF ArpCache!ArpCacheConstants
  <1>1. /\ s \in ArpArrays(t) /\ s \in Seq(ArpEntry)
        /\ Len(s) \in Nat /\ Len(s) <= ArpCapacity /\ DOMAIN s = 1..Len(s)
    BY LenProperties DEF ArpInv, ArpArrays
  <1>2. ASSUME arp_entries' \in ArpArrays(arp_told'), arp_swept' = FALSE
        PROVE  ArpInv'
    BY <1>2 DEF ArpInv
  <1>3. ASSUME NEW ip \in Ip, NEW mac \in Mac, NEW st \in ArpCache!State, ArpCache!Insert(ip, mac, st)
        PROVE  ArpInv'
    <2> DEFINE new == [ip |-> ip, mac |-> mac, state |-> st, age |-> 0]
               u == [x \in DOMAIN t \cup {ip} |-> IF x = ip THEN mac ELSE t[x]]
               F == ArpCache!Find(ip)
    <2>1. new \in ArpEntry
      BY <1>0 DEF ArpEntry
    <2>2. arp_told' = u /\ arp_swept' = FALSE
      BY <1>3 DEF ArpCache!Insert
    <2>3. F = {i \in 1..Len(s) : s[i].ip = ip /\ \A j \in 1..(i - 1) : s[j].ip # ip}
      BY <1>1 DEF ArpCache!Find
    <2>4. CASE F # {} /\ arp_entries' = [i \in DOMAIN s |-> IF i \in F THEN new ELSE s[i]]
      <3> DEFINE w == [i \in 1..Len(s) |-> IF i \in F THEN new ELSE s[i]]
      <3>0. \A i \in 1..Len(s) : s[i] \in ArpEntry
        BY <1>1, ElementOfSeq
      <3>1. w \in Seq(ArpEntry) /\ Len(w) = Len(s) /\ \A i \in 1..Len(s) : w[i] = IF i \in F THEN new ELSE s[i]
        <4> HIDE DEF new, F
        <4>1. w \in [1..Len(s) -> ArpEntry]
          BY <2>1, <3>0
        <4>2. w \in Seq(ArpEntry) /\ Len(w) = Len(s)
          BY <1>1, <4>1
        <4> QED BY <4>2
      <3>2. \A i \in 1..Len(s) : s[i].ip = ip => i \in F
        <4>1. \A i, j \in 1..Len(s) : s[j].ip = s[i].ip => j = i
          BY <1>1 DEF ArpArrays
        <4>2. \A i \in 1..Len(s) : \A j \in 1..(i - 1) : j \in 1..Len(s) /\ j # i
          BY <1>1
        <4> QED BY <2>3, <4>1, <4>2
      <3>3. \A i \in 1..Len(s) : w[i].ip = s[i].ip
        BY <2>3, <3>1
      <3> HIDE DEF w
      <3>4. \A i \in 1..Len(s) : s[i].ip \in DOMAIN t /\ s[i].mac = t[s[i].ip]
        BY <1>1 DEF ArpArrays
      <3>5. ASSUME NEW i \in 1..Len(s) PROVE w[i].ip \in DOMAIN u /\ w[i].mac = u[w[i].ip]
        <4>1. CASE i \in F
          BY <2>3, <3>1, <4>1
        <4>2. CASE i \notin F
          <5>1. w[i] = s[i] /\ s[i].ip # ip
            BY <3>1, <3>2, <4>2
          <5> QED BY <3>4, <5>1
        <4> QED BY <4>1, <4>2
      <3>6. \A i, j \in 1..Len(s) : w[j].ip = w[i].ip => j = i
        BY <1>1, <3>3 DEF ArpArrays
      <3> HIDE DEF u
      <3>7. w \in ArpArrays(u)
        BY <1>1, <3>1, <3>5, <3>6 DEF ArpArrays
      <3>8. arp_entries' = w
        BY <1>1, <2>4 DEF w
      <3> QED BY <1>2, <2>2, <3>7, <3>8
    <2>5. CASE F = {} /\ Len(s) < ArpCapacity /\ arp_entries' = Append(s, new)
      <3> DEFINE w == Append(s, new)
      <3>1. /\ w \in Seq(ArpEntry) /\ Len(w) = Len(s) + 1
            /\ \A i \in 1..Len(s) : w[i] = s[i]
            /\ w[Len(s) + 1] = new
        <4> HIDE DEF new
        <4> QED BY <1>1, <2>1, AppendProperties
      <3>2. \A i \in 1..Len(s) : s[i].ip # ip
        <4>1. ASSUME NEW k \in 1..Len(s), s[k].ip = ip PROVE FALSE
          <5>1. \A i, j \in 1..Len(s) : s[j].ip = s[i].ip => j = i
            BY <1>1 DEF ArpArrays
          <5>2. \A j \in 1..(k - 1) : j \in 1..Len(s) /\ j # k
            BY <1>1
          <5>3. k \in F
            BY <2>3, <4>1, <5>1, <5>2
          <5> QED BY <2>5, <5>3
        <4> QED BY <4>1
      <3> HIDE DEF w
      <3>4. \A i \in 1..Len(s) : s[i].ip \in DOMAIN t /\ s[i].mac = t[s[i].ip]
        BY <1>1 DEF ArpArrays
      <3>5. ASSUME NEW i \in 1..Len(w) PROVE w[i].ip \in DOMAIN u /\ w[i].mac = u[w[i].ip]
        <4>1. CASE i = Len(s) + 1
          BY <3>1, <4>1
        <4>2. CASE i \in 1..Len(s)
          <5>1. w[i] = s[i] /\ s[i].ip # ip
            BY <3>1, <3>2, <4>2
          <5> QED BY <3>4, <4>2, <5>1
        <4> QED BY <1>1, <3>1, <4>1, <4>2
      <3>6. ASSUME NEW i \in 1..Len(w), NEW j \in 1..Len(w), w[j].ip = w[i].ip PROVE j = i
        <4>1. \A k, l \in 1..Len(s) : s[k].ip = s[l].ip => k = l
          BY <1>1 DEF ArpArrays
        <4>2. new.ip = ip
          OBVIOUS
        <4>3. i \in 1..Len(s) \/ i = Len(s) + 1
          BY <1>1, <3>1
        <4>4. j \in 1..Len(s) \/ j = Len(s) + 1
          BY <1>1, <3>1
        <4> HIDE DEF new
        <4> QED BY <3>1, <3>2, <3>6, <4>1, <4>2, <4>3, <4>4
      <3> HIDE DEF u
      <3>7. Len(w) <= ArpCapacity
        BY <1>0, <1>1, <2>5, <3>1
      <3>8. w \in ArpArrays(u)
        BY <3>1, <3>5, <3>6, <3>7 DEF ArpArrays
      <3> QED BY <1>2, <2>2, <2>5, <3>8 DEF w
    <2> QED BY <1>3, <2>4, <2>5 DEF ArpCache!Insert
  <1>4. ASSUME NEW ip \in Ip, ArpCache!Remove(ip) PROVE ArpInv'
    <2> DEFINE i == CHOOSE k \in ArpCache!Find(ip) : TRUE
    <2>1. i \in 1..Len(s)
      BY <1>1, <1>4 DEF ArpCache!Remove, ArpCache!Find
    <2>2. arp_entries' = Removed(s, i) /\ arp_told' = t /\ arp_swept' = FALSE
      BY <1>4 DEF ArpCache!Remove, ArpCache!Without, Removed
    <2> HIDE DEF i
    <2>3. Removed(s, i) \in ArpArrays(t)
      BY <1>1, <2>1, ArpArrayShrunk
    <2> QED BY <1>2, <2>2, <2>3
  <1>5. CASE ArpCache!Age
    <2>1. arp_entries' = ArpCache!Aged(s) /\ arp_told' = t /\ arp_swept' = TRUE
      BY <1>5 DEF ArpCache!Age
    <2>2. /\ ArpCache!Aged(s) \in ArpArrays(t)
          /\ \A i \in 1..Len(ArpCache!Aged(s)) : ArpCache!Aged(s)[i] \in ArpSettled
      BY <1>1, ArpAged
    <2> QED BY <2>1, <2>2 DEF ArpInv
  <1>6. CASE ArpCache!Tick
    <2> DEFINE e(i) == [s[i] EXCEPT !.age = IF @ < ArpTimeout THEN @ + 1 ELSE @]
               w == [i \in 1..Len(s) |-> e(i)]
    <2>1. arp_entries' = w /\ arp_told' = t /\ arp_swept' = FALSE
      BY <1>1, <1>6 DEF ArpCache!Tick
    <2>2. ASSUME NEW i \in 1..Len(s)
          PROVE  e(i) \in ArpEntry /\ e(i).ip = s[i].ip /\ e(i).mac = s[i].mac
      <3>1. s[i] \in ArpEntry
        BY <1>1, ElementOfSeq
      <3>2. (IF s[i].age < ArpTimeout THEN s[i].age + 1 ELSE s[i].age) \in 0..ArpTimeout
        BY <1>0, <3>1 DEF ArpEntry
      <3> QED BY <3>1, <3>2 DEF ArpEntry
    <2> HIDE DEF e
    <2>3. w \in Seq(ArpEntry) /\ Len(w) = Len(s) /\ \A i \in 1..Len(s) : w[i] = e(i)
      <3>1. w \in [1..Len(s) -> ArpEntry]
        BY <2>2
      <3> QED BY <1>1, <3>1
    <2> HIDE DEF w
    <2>4. w \in ArpArrays(t)
      BY <1>1, <2>2, <2>3, ArpArrayUpdated
    <2> QED BY <1>2, <2>1, <2>4
  <1>7. CASE UNCHANGED arpVars
    BY <1>7 DEF arpVars, ArpCache!vars, ArpInv
  <1> QED BY <1>3, <1>4, <1>5, <1>6, <1>7 DEF ArpCache!Next

\* A lookup returns what was learned last, and a sweep misses no entry.
LEMMA ArpConsequences ==
    ASSUME ArpInv
    PROVE  ArpCache!TypeOK /\ ArpCache!LookupIsLatest /\ ArpCache!SweepIsComplete
  <1>1. arp_entries \in Seq(ArpEntry) /\ DOMAIN arp_entries = 1..Len(arp_entries)
    BY LenProperties DEF ArpInv, ArpArrays
  <1>2. ArpCache!TypeOK
    BY <1>1 DEF ArpInv, ArpArrays, ArpEntry, ArpCache!TypeOK
  <1>3. ArpCache!LookupIsLatest
    BY <1>1 DEF ArpInv, ArpArrays, ArpCache!LookupIsLatest
  <1>4. ArpCache!SweepIsComplete
    BY <1>1 DEF ArpInv, ArpSettled, ArpCache!SweepIsComplete
  <1> QED BY <1>2, <1>3, <1>4

-----------------------------------------------------------------------------
\* The MAC table.  The entry of a host that has spoken since it moved names
\* its port.
MacHost == Host \cup {Visitor}
MacEntry == [mac : MacHost, port : FdbPorts, age : 0..(FdbMaxAge + 1)]

MacArrays(p, f) ==
    {s \in Seq(MacEntry) :
        /\ Len(s) <= FdbCapacity
        /\ \A i \in 1..Len(s) : s[i].mac \in f => s[i].port = p[s[i].mac]}

\* What a sweep leaves alone.
MacSettled == {e \in MacEntry : e.age <= FdbMaxAge}

MacInv ==
    /\ entries \in MacArrays(at, fresh)
    /\ at \in [MacHost -> FdbPorts] /\ fresh \subseteq MacHost
    /\ out.dst \in fresh => at[out.dst] \in out.ports \cup {out.src_port}
    /\ swept => \A i \in 1..Len(entries) : entries[i] \in MacSettled

LEMMA MacConstants ==
    /\ Group \notin MacHost /\ FdbPorts # {} /\ FdbCapacity \in Nat /\ FdbMaxAge \in Nat
  BY TableSuiteConstants DEF MacTable!MacTableConstants, MacHost

LEMMA MacArrayShrunk ==
    ASSUME NEW p, NEW f, NEW s \in MacArrays(p, f), NEW i \in 1..Len(s)
    PROVE  /\ Removed(s, i) \in MacArrays(p, f)
           /\ Len(Removed(s, i)) = Len(s) - 1
           /\ \A k \in 1..(i - 1) : Removed(s, i)[k] = s[k]
  <1>1. s \in Seq(MacEntry) /\ Len(s) \in Nat /\ Len(s) <= FdbCapacity
    BY LenProperties DEF MacArrays
  <1>2. PICK m : Moves(m, s, i)
    BY <1>1, SwapRemoval
  <1>3. Removed(s, i) \in Seq(MacEntry) /\ Len(Removed(s, i)) = Len(s) - 1
    BY <1>1, SwapRemoval
  <1> DEFINE w == Removed(s, i)
  <1>4. /\ m \in [1..(Len(s) - 1) -> (1..Len(s)) \ {i}]
        /\ \A k \in 1..(Len(s) - 1) : w[k] = s[m[k]]
        /\ \A k \in 1..(i - 1) : m[k] = k
    BY <1>2 DEF Moves
  <1> HIDE DEF w
  <1>5. ASSUME NEW k \in 1..(Len(s) - 1) PROVE w[k].mac \in f => w[k].port = p[w[k].mac]
    <2>1. m[k] \in 1..Len(s) /\ w[k] = s[m[k]]
      BY <1>4
    <2> QED BY <2>1 DEF MacArrays
  <1>7. w \in Seq(MacEntry) /\ Len(w) = Len(s) - 1
    BY <1>3 DEF w
  <1>9. Len(w) <= FdbCapacity
    BY <1>1, <1>7, MacConstants
  <1>10. w \in MacArrays(p, f)
    BY <1>5, <1>7, <1>9 DEF MacArrays
  <1>11. \A k \in 1..(i - 1) : w[k] = s[k]
    BY <1>1, <1>4
  <1> QED BY <1>7, <1>10, <1>11 DEF w

MacTurn(p, f) == [c \in SweepStates(MacArrays(p, f)) |-> MacTable!AgeTurn(c)]

\* A turn of nfs_fdb_age goes on after an entry that is settled, or takes
\* one out and stays.
LEMMA MacTurns ==
    ASSUME NEW p, NEW f
    PROVE  IsTurn(MacTurn(p, f), MacArrays(p, f), MacSettled)
  <1> DEFINE G == MacArrays(p, f)
             C == SweepStates(G)
  <1>1. ASSUME NEW c \in C
        PROVE  /\ MacTable!AgeTurn(c) \in C
               /\ c.i > Len(c.array) => MacTable!AgeTurn(c) = c
               /\ c.i <= Len(c.array) =>
                    LET d == MacTable!AgeTurn(c) IN
                    /\ \A j \in 1..(c.i - 1) : d.array[j] = c.array[j]
                    /\ \/ /\ d.i = c.i + 1 /\ Len(d.array) = Len(c.array)
                          /\ d.array[c.i] \in MacSettled
                       \/ d.i = c.i /\ Len(d.array) = Len(c.array) - 1
    <2> DEFINE s == c.array
               i == c.i
               d == MacTable!AgeTurn(c)
    <2>1. s \in G /\ i \in Nat \ {0}
      BY DEF SweepStates
    <2>2. s \in Seq(MacEntry) /\ Len(s) \in Nat
      BY <2>1, LenProperties DEF MacArrays
    <2>4. CASE i > Len(s)
      <3>1. d = c
        BY <2>4 DEF MacTable!AgeTurn
      <3> HIDE DEF d
      <3> QED BY <2>2, <2>1, <2>4, <3>1 DEF d
    <2>5. CASE i <= Len(s)
      <3>0. i \in 1..Len(s) /\ ~(i > Len(s)) /\ i + 1 \in Nat \ {0}
        BY <2>1, <2>2, <2>5
      <3>1. s[i] \in MacEntry
        BY <2>2, <3>0, ElementOfSeq
      <3>3. CASE ~(s[i].age > FdbMaxAge)
        <4>1. d = [c EXCEPT !.i = i + 1]
          BY <3>0, <3>3 DEF MacTable!AgeTurn
        <4>2. s[i] \in MacSettled
          <5>1. s[i].age \in Int
            BY <3>1, MacConstants DEF MacEntry
          <5> QED BY <3>1, <3>3, <5>1, MacConstants DEF MacSettled
        <4>3. d \in C /\ d.i = i + 1 /\ d.array = s
          BY <3>0, <4>1 DEF SweepStates
        <4> HIDE DEF d
        <4> QED BY <2>5, <3>0, <4>2, <4>3 DEF d
      <3>5. CASE s[i].age > FdbMaxAge
        <4>1. d = [c EXCEPT !.array = Removed(s, i)]
          BY <3>0, <3>5 DEF MacTable!AgeTurn, MacTable!Without, Removed
        <4>2. /\ Removed(s, i) \in G
              /\ Len(Removed(s, i)) = Len(s) - 1
              /\ \A k \in 1..(i - 1) : Removed(s, i)[k] = s[k]
          BY <2>1, <3>0, MacArrayShrunk
        <4>3. d \in C /\ d.i = i /\ d.array = Removed(s, i)
          <5> HIDE DEF G
          <5> QED BY <4>1, <4>2 DEF SweepStates
        <4> HIDE DEF d
        <4> QED BY <2>5, <3>0, <4>2, <4>3 DEF d
      <3> QED BY <3>3, <3>5
    <2> QED BY <2>1, <2>2, <2>4, <2>5
  <1>2. MacTurn(p, f) \in [C -> C] /\ \A c \in C : MacTurn(p, f)[c] = MacTable!AgeTurn(c)
    BY <1>1 DEF MacTurn
  <1> QED BY <1>1, <1>2 DEF IsTurn

\* What nfs_fdb_age leaves.
LEMMA MacAged ==
    ASSUME NEW p, NEW f, NEW s \in MacArrays(p, f)
    PROVE  /\ MacTable!Aged(s) \in MacArrays(p, f)
           /\ \A i \in 1..Len(MacTable!Aged(s)) : MacTable!Aged(s)[i] \in MacSettled
  <1> DEFINE N == Len(s)
             C == SweepStates(MacArrays(p, f))
             x == [array |-> s, i |-> 1]
             turns[n \in 0..Len(s)] == IF n = 0 THEN [array |-> s, i |-> 1] ELSE MacTable!AgeTurn(turns[n - 1])
             Is(h) == h = [n \in 0..Len(s) |-> IF n = 0 THEN [array |-> s, i |-> 1] ELSE MacTable!AgeTurn(h[n - 1])]
  <1>1. MacTable!Aged(s) = turns[Len(s)].array
    BY DEF MacTable!Aged
  <1>2. N \in Nat /\ MacArrays(p, f) \subseteq Seq(MacEntry)
    BY LenProperties DEF MacArrays
  <1>3. PICK g \in [0..N -> C] : g[0] = x /\ \A n \in 1..N : g[n] = MacTurn(p, f)[g[n - 1]]
    <2>1. IsTurn(MacTurn(p, f), MacArrays(p, f), MacSettled)
      BY MacTurns
    <2> QED BY <1>2, <2>1, SweepExists, SMTT(60)
  <1>4. \A c \in C : MacTurn(p, f)[c] = MacTable!AgeTurn(c)
    BY DEF MacTurn
  <1>5. Is(g)
    <2>1. \A n \in 1..N : g[n - 1] \in C
      <3>1. \A n \in 1..N : n - 1 \in 0..N
        BY <1>2
      <3> QED BY <1>3, <3>1
    <2>2. \A n \in 1..N : g[n] = MacTable!AgeTurn(g[n - 1])
      BY <1>3, <1>4, <2>1
    <2>3. \A n \in 0..N : g[n] = IF n = 0 THEN x ELSE MacTable!AgeTurn(g[n - 1])
      BY <1>2, <1>3, <2>2
    <2> HIDE DEF C
    <2> QED BY <1>3, <2>3
  <1>6. Is(turns)
    <2>1. turns = CHOOSE h : Is(h)
      OBVIOUS
    <2> HIDE DEF Is, turns
    <2> QED BY <1>5, <2>1
  <1> HIDE DEF turns
  <1>7. turns[0] = x /\ \A n \in 1..N : turns[n] = MacTable!AgeTurn(turns[n - 1])
    BY <1>2, <1>6, SMTT(60)
  <1>8. \A n \in 1..N : turns[n - 1] \in C => turns[n] = MacTurn(p, f)[turns[n - 1]]
    BY <1>4, <1>7
  <1>9. /\ turns[N].array \in MacArrays(p, f)
        /\ \A j \in 1..Len(turns[N].array) : turns[N].array[j] \in MacSettled
    <2> HIDE DEF Is
    <2>1. IsTurn(MacTurn(p, f), MacArrays(p, f), MacSettled)
      BY MacTurns
    <2> QED BY <1>2, <1>7, <1>8, <2>1, SweepResult, SMTT(60)
  <1> QED BY <1>1, <1>9

LEMMA MacInitially == ASSUME MacTable!Init PROVE MacInv
  <1>1. entries = <<>> /\ swept = FALSE /\ fresh = {} /\ at \in [MacHost -> FdbPorts]
    BY MacConstants DEF MacTable!Init, MacHost
  <1>2. <<>> \in Seq(MacEntry) /\ Len(<<>>) = 0
    BY EmptySeq
  <1>3. entries \in MacArrays(at, fresh)
    BY <1>1, <1>2, MacConstants DEF MacArrays
  <1> QED BY <1>1, <1>3 DEF MacInv

LEMMA MacStep == ASSUME MacInv, [MacTable!Next]_macVars PROVE MacInv'
  <1> DEFINE s == entries
  <1>1. /\ s \in MacArrays(at, fresh) /\ s \in Seq(MacEntry)
        /\ Len(s) \in Nat /\ Len(s) <= FdbCapacity /\ DOMAIN s = 1..Len(s)
    BY LenProperties DEF MacInv, MacArrays
  <1>2. /\ at \in [MacHost -> FdbPorts] /\ fresh \subseteq MacHost
        /\ \A i \in 1..Len(s) : s[i] \in MacEntry /\ (s[i].mac \in fresh => s[i].port = at[s[i].mac])
    BY <1>1, ElementOfSeq DEF MacInv, MacArrays
  <1>3. ASSUME out' = MacTable!NoFrame, fresh' \subseteq MacHost
        PROVE  out.dst' \in fresh' => at'[out.dst'] \in out.ports' \cup {out.src_port'}
    BY <1>3, MacConstants DEF MacTable!NoFrame
  <1>4. ASSUME NEW h \in MacHost, NEW dst \in MacHost \cup {Group}, MacTable!Frame(h, dst)
        PROVE  MacInv'
    <2> DEFINE new == [mac |-> h, port |-> at[h], age |-> 0]
               g == fresh \cup {h}
    <2>0. new \in MacEntry /\ new.mac = h /\ new.port = at[h]
      BY <1>2, MacConstants DEF MacEntry
    <2>1. PICK w : w = MacTable!Learned(s, h, at[h])
      OBVIOUS
    <2>2. /\ entries' = w /\ fresh' = g /\ swept' = FALSE /\ at' = at
          /\ out' = [dst |-> dst, src_port |-> at[h], ports |-> MacTable!Ports(w, dst, at[h])]
      BY <1>4, <2>1 DEF MacTable!Frame
    <2>3. /\ w \in Seq(MacEntry) /\ Len(w) <= FdbCapacity
          /\ \A i \in 1..Len(w) : w[i].mac \in g => w[i].port = at[w[i].mac]
      <3> DEFINE I == MacTable!IndexOf(h, s)
      <3>1. I = {i \in 1..Len(s) : s[i].mac = h}
        BY <1>1 DEF MacTable!IndexOf
      <3> HIDE DEF I
      <3>2. CASE I # {}
        <4>1. w = [i \in 1..Len(s) |-> IF s[i].mac = h THEN new ELSE s[i]]
          BY <1>1, <2>1, <3>2 DEF MacTable!Learned, I
        <4> HIDE DEF new
        <4>2. w \in [1..Len(s) -> MacEntry]
          BY <1>2, <2>0, <4>1
        <4>3. w \in Seq(MacEntry) /\ Len(w) = Len(s)
          BY <1>1, <4>2
        <4>4. \A i \in 1..Len(s) : w[i] = IF s[i].mac = h THEN new ELSE s[i]
          BY <4>1
        <4> QED BY <1>1, <1>2, <2>0, <4>3, <4>4
      <3>3. CASE I = {} /\ Len(s) < FdbCapacity
        <4>1. w = Append(s, new)
          BY <1>1, <2>1, <3>3 DEF MacTable!Learned, I
        <4> HIDE DEF new
        <4>2. /\ w \in Seq(MacEntry) /\ Len(w) = Len(s) + 1
              /\ \A i \in 1..Len(s) : w[i] = s[i]
              /\ w[Len(s) + 1] = new
          BY <1>1, <2>0, <4>1, AppendProperties
        <4>3. \A i \in 1..Len(w) : i \in 1..Len(s) \/ i = Len(s) + 1
          BY <1>1, <4>2
        <4>4. \A i \in 1..Len(s) : s[i].mac # h
          BY <3>1, <3>3
        <4>5. Len(w) <= FdbCapacity
          BY <1>1, <3>3, <4>2, MacConstants
        <4> QED BY <1>2, <2>0, <4>2, <4>3, <4>4, <4>5
      <3>4. CASE I = {} /\ ~(Len(s) < FdbCapacity)
        <4>1. w = s
          BY <1>1, <2>1, <3>4 DEF MacTable!Learned, I
        <4>4. \A i \in 1..Len(s) : s[i].mac # h
          BY <3>1, <3>4
        <4> QED BY <1>1, <1>2, <4>1, <4>4
      <3> QED BY <3>2, <3>3, <3>4
    <2>4. w \in MacArrays(at, g)
      <3> HIDE DEF g
      <3> QED BY <2>3 DEF MacArrays
    <2>5. ASSUME dst \in g
          PROVE  at[dst] \in MacTable!Ports(w, dst, at[h]) \cup {at[h]}
      <3>1. dst \in MacHost /\ dst # Group /\ at[dst] \in FdbPorts
        BY <1>2, <2>5, MacConstants
      <3> DEFINE I == MacTable!IndexOf(dst, w)
      <3>2. I = {i \in 1..Len(w) : w[i].mac = dst}
        BY <2>3, LenProperties DEF MacTable!IndexOf
      <3> HIDE DEF I, g
      <3>3. CASE I = {}
        <4>1. MacTable!Ports(w, dst, at[h]) = FdbPorts \ {at[h]}
          BY <3>3 DEF MacTable!Ports, I
        <4> QED BY <3>1, <4>1
      <3>4. CASE I # {}
        <4>1. MacTable!Ports(w, dst, at[h]) = {w[i].port : i \in I} \ {at[h]}
          BY <3>1, <3>4 DEF MacTable!Ports, I
        <4>2. PICK i \in I : TRUE
          BY <3>4
        <4>3. w[i].port = at[dst]
          BY <2>3, <2>5, <3>2, <4>2
        <4> QED BY <4>1, <4>2, <4>3
      <3> QED BY <3>3, <3>4
    <2>6. out'.dst \in fresh' => at'[out'.dst] \in out'.ports \cup {out'.src_port}
      BY <2>2, <2>5
    <2>7. fresh' \subseteq MacHost
      BY <1>2, <2>2
    <2> QED BY <1>2, <2>2, <2>4, <2>6, <2>7 DEF MacInv
  <1>5. ASSUME NEW h \in MacHost, NEW q \in FdbPorts, MacTable!Move(h, q) PROVE MacInv'
    <2>1. /\ at' = [at EXCEPT ![h] = q] /\ fresh' = fresh \ {h} /\ out' = MacTable!NoFrame
          /\ entries' = s /\ swept' = swept
      BY <1>5 DEF MacTable!Move
    <2>2. at' \in [MacHost -> FdbPorts] /\ fresh' \subseteq MacHost
      BY <1>2, <2>1
    <2>3. \A i \in 1..Len(s) : s[i].mac \in fresh' => s[i].port = at'[s[i].mac]
      BY <1>2, <2>1
    <2>4. s \in MacArrays(at', fresh')
      BY <1>1, <2>3 DEF MacArrays
    <2> QED BY <1>3, <2>1, <2>2, <2>4 DEF MacInv
  <1>6. CASE MacTable!Age
    <2>1. entries' = MacTable!Aged(s) /\ at' = at /\ fresh' = fresh /\ out' = MacTable!NoFrame
      BY <1>6 DEF MacTable!Age
    <2>2. /\ MacTable!Aged(s) \in MacArrays(at, fresh)
          /\ \A i \in 1..Len(MacTable!Aged(s)) : MacTable!Aged(s)[i] \in MacSettled
      BY <1>1, MacAged
    <2> QED BY <1>2, <1>3, <2>1, <2>2 DEF MacInv
  <1>7. CASE MacTable!Tick
    <2> DEFINE e(i) == [s[i] EXCEPT !.age = IF @ <= FdbMaxAge THEN @ + 1 ELSE @]
               w == [i \in 1..Len(s) |-> e(i)]
    <2>1. entries' = w /\ at' = at /\ fresh' = fresh /\ swept' = FALSE /\ out' = MacTable!NoFrame
      BY <1>1, <1>7 DEF MacTable!Tick
    <2>2. ASSUME NEW i \in 1..Len(s)
          PROVE  e(i) \in MacEntry /\ e(i).mac = s[i].mac /\ e(i).port = s[i].port
      <3>1. s[i] \in MacEntry
        BY <1>2
      <3>2. (IF s[i].age <= FdbMaxAge THEN s[i].age + 1 ELSE s[i].age) \in 0..(FdbMaxAge + 1)
        BY <3>1, MacConstants DEF MacEntry
      <3> QED BY <3>1, <3>2 DEF MacEntry
    <2> HIDE DEF e
    <2>3. w \in Seq(MacEntry) /\ Len(w) = Len(s) /\ \A i \in 1..Len(s) : w[i] = e(i)
      <3>1. w \in [1..Len(s) -> MacEntry]
        BY <2>2
      <3> QED BY <1>1, <3>1
    <2> HIDE DEF w
    <2>4. w \in MacArrays(at, fresh)
      BY <1>1, <1>2, <2>2, <2>3 DEF MacArrays
    <2> QED BY <1>2, <1>3, <2>1, <2>4 DEF MacInv
  <1>8. CASE UNCHANGED macVars
    BY <1>8 DEF macVars, MacInv
  <1> QED BY <1>4, <1>5, <1>6, <1>7, <1>8 DEF MacTable!Next, MacHost

\* Hosts that have spoken since they moved get their frames, and a sweep
\* misses no entry.
LEMMA MacConsequences ==
    ASSUME MacInv
    PROVE  MacTable!TypeOK /\ MacTable!FreshHostsAreReached /\ MacTable!SweepIsComplete
  <1>1. entries \in Seq(MacEntry) /\ DOMAIN entries = 1..Len(entries)
    BY LenProperties DEF MacInv, MacArrays
  <1>2. MacTable!TypeOK
    BY <1>1 DEF MacInv, MacArrays, MacEntry, MacHost, MacTable!TypeOK
  <1>3. MacTable!FreshHostsAreReached
    BY DEF MacInv, MacTable!FreshHostsAreReached
  <1>4. MacTable!SweepIsComplete
    BY <1>1 DEF MacInv, MacSettled, MacTable!SweepIsComplete
  <1> QED BY <1>2, <1>3, <1>4

-----------------------------------------------------------------------------
\* What bridge.c keeps of an address.
FdbEntry == [port : Nat, age : Nat, static : BOOLEAN]

BrPorts ==
    /\ num_ports \in 0..BridgePorts /\ active \subseteq 0..(num_ports - 1)
    /\ br_at \in [Host -> Bridge!PortNumber \cup {Bridge!NoPort}] /\ br_fresh \subseteq Host
    /\ named \subseteq Bridge!PortNumber

\* The database knows where a host is that has spoken since it was connected,
\* and no port that nothing named since it was removed.
BrFdb ==
    /\ DOMAIN fdb \subseteq Host /\ fdb \in [DOMAIN fdb -> FdbEntry]
    /\ \A m \in DOMAIN fdb : fdb[m].port \in named
    /\ \A m \in DOMAIN fdb : m \in br_fresh => fdb[m].port = br_at[m]

BrSlots == IsFiniteSet(DOMAIN fdb) /\ Cardinality(DOMAIN fdb) <= BridgeSlots

BrSent == br_out.action = "FORWARD" => br_out.port \in named

BrInv == BrPorts /\ BrFdb /\ BrSlots /\ BrSent /\ Bridge!FreshHostsAreReached

\* The assumptions on the constants of bridge.c.
LEMMA BrConstantsHold ==
    /\ Group \notin Host /\ BridgePorts \in Nat /\ BridgeSlots \in Nat /\ BridgeAging \in Nat
    /\ Bridge!NoPort = BridgePorts /\ Bridge!PortNumber = 0..(BridgePorts - 1)
  BY TableSuiteConstants DEF Bridge!BridgeConstants, Bridge!NoPort, Bridge!PortNumber

LEMMA BrSameCardinality == ASSUME NEW S PROVE Bridge!Cardinality(S) = Cardinality(S)
  BY Zenon DEF Bridge!Cardinality, Cardinality

LEMMA BrInitially == Bridge!Init => BrInv
  <1> SUFFICES ASSUME Bridge!Init PROVE BrInv
    OBVIOUS
  <1>1. /\ num_ports = 0 /\ active = {} /\ fdb = <<>> /\ br_fresh = {} /\ named = {}
        /\ br_at = [h \in Host |-> Bridge!NoPort]
    BY DEF Bridge!Init
  <1>2. DOMAIN fdb = {}
    BY <1>1
  <1>3. BrPorts
    BY <1>1, BrConstantsHold DEF BrPorts
  <1>4. BrFdb
    BY <1>2, <1>1 DEF BrFdb
  <1>5. BrSlots
    BY <1>2, FS_EmptySet, BrConstantsHold DEF BrSlots
  <1>6. BrSent
    BY DEF Bridge!Init, Bridge!NoFrame, BrSent
  <1> QED BY <1>1, <1>3, <1>4, <1>5, <1>6 DEF BrInv, Bridge!FreshHostsAreReached

\* A frame to the group address says nothing of a host.
LEMMA BrNoFrame ==
    ASSUME br_out' = Bridge!NoFrame, br_fresh' \subseteq Host
    PROVE  Bridge!FreshHostsAreReached' /\ BrSent'
  BY BrConstantsHold DEF Bridge!NoFrame, Bridge!FreshHostsAreReached, BrSent

\* Entries that are dropped or kept as they are.
LEMMA BrKeeps ==
    ASSUME BrInv, NEW S, S \subseteq DOMAIN fdb, fdb' = Bridge!Only(S),
           BrPorts', br_out' = Bridge!NoFrame,
           \A m \in S : fdb[m].port \in named',
           \A m \in S : m \in br_fresh' => fdb[m].port = br_at'[m]
    PROVE  BrInv'
  <1>1. DOMAIN fdb' = S /\ \A m \in S : fdb'[m] = fdb[m]
    BY DEF Bridge!Only
  <1>2. fdb' \in [S -> FdbEntry]
    BY DEF Bridge!Only, BrInv, BrFdb
  <1>3. BrFdb'
    BY <1>1, <1>2 DEF BrInv, BrFdb
  <1>4. IsFiniteSet(S) /\ Cardinality(S) <= Cardinality(DOMAIN fdb)
    BY FS_Subset DEF BrInv, BrSlots
  <1>5. Cardinality(S) \in Nat /\ Cardinality(DOMAIN fdb) \in Nat
    BY <1>4, FS_CardinalityType DEF BrInv, BrSlots
  <1>6. BrSlots'
    BY <1>1, <1>4, <1>5, BrConstantsHold DEF BrInv, BrSlots
  <1>7. Bridge!FreshHostsAreReached' /\ BrSent'
    BY BrNoFrame DEF BrPorts
  <1> QED BY <1>3, <1>6, <1>7 DEF BrInv

\* An entry for h, new or changed: h has not spoken where the entry is for
\* another port than its own.
LEMMA BrWith ==
    ASSUME BrInv, NEW h \in Host, NEW e \in FdbEntry,
           e.port = br_at[h] \/ h \notin br_fresh',
           h \in DOMAIN fdb \/ Cardinality(DOMAIN fdb) < BridgeSlots,
           fdb' = Bridge!With(fdb, h, e), UNCHANGED br_at, named' = named \cup {e.port},
           br_fresh' \subseteq br_fresh \cup {h}
    PROVE  BrFdb' /\ BrSlots'
  <1>1. /\ DOMAIN fdb' = DOMAIN fdb \cup {h} /\ fdb'[h] = e
        /\ \A m \in DOMAIN fdb : m # h => fdb'[m] = fdb[m]
    BY DEF Bridge!With
  <1>2. fdb' \in [DOMAIN fdb' -> FdbEntry]
    <2>1. \A m \in DOMAIN fdb \cup {h} : (IF m = h THEN e ELSE fdb[m]) \in FdbEntry
      BY DEF BrInv, BrFdb
    <2> QED BY <1>1, <2>1 DEF Bridge!With
  <1>3. BrFdb'
    BY <1>1, <1>2 DEF BrInv, BrFdb
  <1>4. IsFiniteSet(DOMAIN fdb) /\ Cardinality(DOMAIN fdb) \in Nat
    BY FS_CardinalityType DEF BrInv, BrSlots
  <1>5. /\ IsFiniteSet(DOMAIN fdb \cup {h})
        /\ Cardinality(DOMAIN fdb \cup {h}) =
               IF h \in DOMAIN fdb THEN Cardinality(DOMAIN fdb) ELSE Cardinality(DOMAIN fdb) + 1
    BY <1>4, FS_AddElement
  <1>6. BrSlots'
    BY <1>1, <1>4, <1>5, BrConstantsHold DEF BrInv, BrSlots
  <1> QED BY <1>3, <1>6

\* No step of bridge.c breaks BrInv.
LEMMA BrStep == BrInv /\ [Bridge!Next]_brVars => BrInv'
  <1> SUFFICES ASSUME BrInv, [Bridge!Next]_brVars PROVE BrInv'
    OBVIOUS
  <1> USE BrConstantsHold
  <1>0. /\ BrPorts /\ BrFdb /\ BrSlots
        /\ Bridge!NoPort \notin Bridge!PortNumber /\ Bridge!PortNumber \subseteq Nat
        /\ fdb = Bridge!Only(DOMAIN fdb)
    <2>1. fdb = Bridge!Only(DOMAIN fdb)
      BY DEF BrInv, BrFdb, Bridge!Only
    <2> QED BY <2>1 DEF BrInv, BrPorts
  <1>1. CASE Bridge!AddPort
    <2>1. /\ num_ports < BridgePorts /\ active' = active \cup {num_ports}
          /\ num_ports' = num_ports + 1 /\ UNCHANGED <<fdb, br_at, br_fresh, named>>
          /\ br_out' = Bridge!NoFrame
      BY <1>1 DEF Bridge!AddPort
    <2>2. BrPorts'
      BY <1>0, <2>1 DEF BrPorts
    <2> QED BY <1>0, <2>1, <2>2, BrKeeps DEF BrFdb
  <1>2. ASSUME NEW p \in active, Bridge!RemovePort(p) PROVE BrInv'
    <2>1. /\ active' = active \ {p} /\ fdb' = Bridge!Only(Bridge!KeptOnRemoval(p))
          /\ named' = named \ {p} /\ br_out' = Bridge!NoFrame
          /\ UNCHANGED <<num_ports, br_at, br_fresh>>
      BY <1>2 DEF Bridge!RemovePort
    <2>2. BrPorts'
      BY <1>0, <2>1 DEF BrPorts
    <2>3. /\ Bridge!KeptOnRemoval(p) \subseteq DOMAIN fdb
          /\ \A m \in Bridge!KeptOnRemoval(p) : fdb[m].port # p
      BY DEF Bridge!KeptOnRemoval
    <2>4. \A m \in Bridge!KeptOnRemoval(p) : fdb[m].port \in named'
      BY <1>0, <2>1, <2>3 DEF BrFdb
    <2>5. \A m \in Bridge!KeptOnRemoval(p) : m \in br_fresh' => fdb[m].port = br_at'[m]
      BY <1>0, <2>1, <2>3 DEF BrFdb, BrPorts
    <2> QED BY <2>1, <2>2, <2>3, <2>4, <2>5, BrKeeps
  <1>3. ASSUME NEW h \in Host, NEW dst \in Host \cup {Group}, Bridge!Forward(h, dst) PROVE BrInv'
    <2> DEFINE p == br_at[h]
    <2>1. /\ p # Bridge!NoPort /\ fdb' = Bridge!Learned(h, p)
          /\ br_fresh' = br_fresh \cup {h} /\ named' = named \cup {p} /\ UNCHANGED <<num_ports, active, br_at>>
          /\ br_out'.dst = dst /\ br_out'.src_port = p
          /\ \/ br_out'.action = "FLOOD"
             \/ /\ dst \in DOMAIN fdb' /\ fdb'[dst].port = p /\ br_out'.action = "DROP"
             \/ /\ dst \in DOMAIN fdb' /\ br_out'.action = "FORWARD" /\ br_out'.port = fdb'[dst].port
      BY <1>3 DEF Bridge!Forward
    <2>2. p \in Bridge!PortNumber /\ p \in Nat
      BY <1>0, <2>1 DEF BrPorts
    <2>3. BrPorts'
      BY <1>0, <2>1, <2>2 DEF BrPorts
    <2>4. ASSUME h \in DOMAIN fdb PROVE BrFdb' /\ BrSlots'
      <3> DEFINE e == [fdb[h] EXCEPT !.port = p, !.age = 0]
      <3>1. fdb' = Bridge!With(fdb, h, e)
        BY <2>1, <2>4 DEF Bridge!Learned
      <3>2. e \in FdbEntry /\ e.port = p
        BY <1>0, <2>2, <2>4 DEF BrFdb, FdbEntry
      <3> HIDE DEF e
      <3> QED BY <2>1, <2>2, <2>4, <3>1, <3>2, BrWith
    <2>5. ASSUME h \notin DOMAIN fdb /\ Cardinality(DOMAIN fdb) < BridgeSlots PROVE BrFdb' /\ BrSlots'
      <3> DEFINE e == [port |-> p, age |-> 0, static |-> FALSE]
      <3>1. fdb' = Bridge!With(fdb, h, e)
        BY <2>1, <2>5, BrSameCardinality DEF Bridge!Learned
      <3>2. e \in FdbEntry /\ e.port = p
        BY <2>2 DEF FdbEntry
      <3> HIDE DEF e
      <3> QED BY <2>1, <2>2, <2>5, <3>1, <3>2, BrWith
    <2>6. ASSUME h \notin DOMAIN fdb /\ ~(Cardinality(DOMAIN fdb) < BridgeSlots) PROVE BrFdb' /\ BrSlots'
      <3>1. fdb' = fdb
        BY <2>1, <2>6, BrSameCardinality DEF Bridge!Learned
      <3> QED BY <1>0, <2>1, <2>6, <3>1 DEF BrFdb, BrSlots
    <2>7. BrFdb' /\ BrSlots'
      BY <2>4, <2>5, <2>6
    <2>8. Bridge!FreshHostsAreReached'
      BY <2>1, <2>7 DEF BrFdb, Bridge!FreshHostsAreReached
    <2>9. BrSent'
      BY <2>1, <2>7 DEF BrFdb, BrSent
    <2> QED BY <2>3, <2>7, <2>8, <2>9 DEF BrInv
  <1>4. ASSUME NEW h \in Host, NEW p \in Bridge!PortNumber, Bridge!AddStatic(h, p) PROVE BrInv'
    <2>1. /\ br_out' = Bridge!NoFrame /\ named' = named \cup {p}
          /\ br_fresh' = {g \in br_fresh : g # h \/ br_at[h] = p}
          /\ UNCHANGED <<num_ports, active, br_at>>
      BY <1>4 DEF Bridge!AddStatic
    <2>2. p \in Nat /\ br_fresh' \subseteq br_fresh /\ (p = br_at[h] \/ h \notin br_fresh')
      BY <1>0, <2>1
    <2>3. BrPorts'
      BY <1>0, <2>1 DEF BrPorts
    <2>4. ASSUME h \in DOMAIN fdb PROVE BrFdb' /\ BrSlots'
      <3> DEFINE e == [fdb[h] EXCEPT !.port = p, !.static = TRUE]
      <3>1. fdb' = Bridge!With(fdb, h, e)
        BY <1>4, <2>4 DEF Bridge!AddStatic
      <3>2. e \in FdbEntry /\ e.port = p
        BY <1>0, <2>2, <2>4 DEF BrFdb, FdbEntry
      <3> HIDE DEF e
      <3> QED BY <2>1, <2>2, <2>4, <3>1, <3>2, BrWith
    <2>5. ASSUME h \notin DOMAIN fdb PROVE BrFdb' /\ BrSlots'
      <3> DEFINE e == [port |-> p, age |-> 0, static |-> TRUE]
      <3>1. fdb' = Bridge!With(fdb, h, e) /\ Cardinality(DOMAIN fdb) < BridgeSlots
        BY <1>4, <2>5, BrSameCardinality DEF Bridge!AddStatic
      <3>2. e \in FdbEntry /\ e.port = p
        BY <2>2 DEF FdbEntry
      <3> HIDE DEF e
      <3> QED BY <2>1, <2>2, <2>5, <3>1, <3>2, BrWith
    <2>6. BrFdb' /\ BrSlots'
      BY <2>4, <2>5
    <2>7. Bridge!FreshHostsAreReached' /\ BrSent'
      BY <2>1, <2>3, BrNoFrame DEF BrPorts
    <2> QED BY <2>3, <2>6, <2>7 DEF BrInv
  <1>5. ASSUME NEW S, Bridge!Drops(S) PROVE BrInv'
    <2> DEFINE K == {m \in DOMAIN fdb : fdb[m].static \/ m \notin S}
    <2>1. /\ fdb' = Bridge!Only(K) /\ br_out' = Bridge!NoFrame
          /\ UNCHANGED <<num_ports, active, br_at, br_fresh, named>>
      BY <1>5 DEF Bridge!Drops
    <2>2. K \subseteq DOMAIN fdb
      OBVIOUS
    <2> HIDE DEF K
    <2>3. BrPorts'
      BY <1>0, <2>1 DEF BrPorts
    <2>4. \A m \in K : fdb[m].port \in named' /\ (m \in br_fresh' => fdb[m].port = br_at'[m])
      BY <1>0, <2>1, <2>2 DEF BrFdb
    <2> QED BY <2>1, <2>2, <2>3, <2>4, BrKeeps
  <1>6. CASE Bridge!Tick
    <2> DEFINE Older(e) == [e EXCEPT !.age = IF @ <= BridgeAging THEN @ + 1 ELSE @]
    <2>1. /\ fdb' = [m \in DOMAIN fdb |-> Older(fdb[m])] /\ br_out' = Bridge!NoFrame
          /\ UNCHANGED <<num_ports, active, br_at, br_fresh, named>>
      BY <1>6 DEF Bridge!Tick
    <2>2. \A e \in FdbEntry : Older(e) \in FdbEntry /\ Older(e).port = e.port
      BY DEF FdbEntry
    <2> HIDE DEF Older
    <2>3. BrPorts'
      BY <1>0, <2>1 DEF BrPorts
    <2>4. DOMAIN fdb' = DOMAIN fdb /\ \A m \in DOMAIN fdb : fdb[m] \in FdbEntry /\ fdb'[m] = Older(fdb[m])
      BY <1>0, <2>1 DEF BrFdb
    <2>5. fdb' \in [DOMAIN fdb' -> FdbEntry]
      BY <2>1, <2>2, <2>4
    <2>6. BrFdb' /\ BrSlots'
      BY <1>0, <2>1, <2>2, <2>4, <2>5 DEF BrFdb, BrSlots
    <2>7. Bridge!FreshHostsAreReached' /\ BrSent'
      BY <2>1, <2>3, BrNoFrame DEF BrPorts
    <2> QED BY <2>3, <2>6, <2>7 DEF BrInv
  <1>7. ASSUME NEW h \in Host, NEW p \in Bridge!PortNumber, Bridge!Connect(h, p) PROVE BrInv'
    <2>1. /\ br_at' = [br_at EXCEPT ![h] = p] /\ br_fresh' = br_fresh \ {h}
          /\ br_out' = Bridge!NoFrame /\ UNCHANGED <<num_ports, active, fdb, named>>
      BY <1>7 DEF Bridge!Connect
    <2>2. BrPorts'
      BY <1>0, <2>1 DEF BrPorts
    <2>3. \A m \in DOMAIN fdb : fdb[m].port \in named' /\ (m \in br_fresh' => fdb[m].port = br_at'[m])
      BY <1>0, <2>1 DEF BrFdb, BrPorts
    <2> QED BY <1>0, <2>1, <2>2, <2>3, BrKeeps
  <1>8. CASE UNCHANGED brVars
    BY <1>8 DEF brVars, BrInv, BrPorts, BrFdb, BrSlots, BrSent, Bridge!FreshHostsAreReached
  <1> QED BY <1>1, <1>2, <1>3, <1>4, <1>5, <1>6, <1>7, <1>8
          DEF Bridge!Next, Bridge!Flush, Bridge!Age

LEMMA BrConsequences ==
    ASSUME BrInv
    PROVE  Bridge!TypeOK /\ Bridge!RemovalIsClean /\ Bridge!FreshHostsAreReached
  BY BrSameCardinality
     DEF BrInv, BrPorts, BrFdb, BrSlots, BrSent, Bridge!TypeOK, Bridge!RemovalIsClean

-----------------------------------------------------------------------------
SwPort == [mode : L2Switch!Mode, pvid : Vlan, allowed : SUBSET {v \in Vlan : v < SwMaskBits}]

SwPortsOK ==
    /\ \E n \in 0..SwPorts : DOMAIN ports = 1..n
    /\ ports \in [DOMAIN ports -> SwPort]
    /\ sw_at \in [Host -> Nat]
    /\ heard \in [Host \X Vlan -> {"never", "before", "fresh"}]

\* The MAC table knows only who was heard in the VLAN, and where it is when
\* nothing has changed since.
SwTable ==
    /\ DOMAIN mac_table \subseteq Host \X Vlan
    /\ mac_table \in [DOMAIN mac_table -> Nat]
    /\ \A k \in DOMAIN mac_table : heard[k] # "never"
    /\ \A k \in DOMAIN mac_table : heard[k] = "fresh" => mac_table[k] = sw_at[k[1]]

SwTableSize == IsFiniteSet(DOMAIN mac_table) /\ Cardinality(DOMAIN mac_table) <= SwSlots

SwResult == L2Switch!FreshHostsAreReached /\ L2Switch!ForwardingStaysInTheVlan

SwitchInv == SwPortsOK /\ SwTable /\ SwTableSize /\ SwResult

\* The assumptions on the constants of l2switch.c.
LEMMA SwitchConstantsHold ==
    /\ Group \notin Host /\ Vlan \subseteq Nat \ {0} /\ SwConfigs \subseteq L2Switch!Mode \X Vlan
    /\ SwPorts \in Nat \ {0} /\ SwSlots \in Nat
  BY TableSuiteConstants DEF L2Switch!L2SwitchConstants

LEMMA SwitchSameCardinality == ASSUME NEW S PROVE L2Switch!Cardinality(S) = Cardinality(S)
  BY Zenon DEF L2Switch!Cardinality, Cardinality

LEMMA SwitchInitially == L2Switch!Init => SwitchInv
  <1> SUFFICES ASSUME L2Switch!Init PROVE SwitchInv
    OBVIOUS
  <1>1. /\ ports = <<>> /\ mac_table = <<>> /\ sw_at = [h \in Host |-> 1]
        /\ heard = [k \in Host \X Vlan |-> "never"] /\ result = L2Switch!NoResult
    BY DEF L2Switch!Init
  <1>2. DOMAIN ports = 1..0 /\ DOMAIN mac_table = {}
    BY <1>1
  <1>3. SwPortsOK
    <2>1. 0 \in 0..SwPorts /\ 1..0 = {}
      BY SwitchConstantsHold
    <2>2. ports \in [DOMAIN ports -> SwPort]
      BY <1>1, <1>2, <2>1
    <2> QED BY <1>1, <1>2, <2>1, <2>2 DEF SwPortsOK
  <1>4. SwTable
    BY <1>1, <1>2 DEF SwTable
  <1>5. SwTableSize
    BY <1>2, FS_EmptySet, SwitchConstantsHold DEF SwTableSize
  <1>6. SwResult
    BY <1>1 DEF SwResult, L2Switch!NoResult, L2Switch!FreshHostsAreReached,
                L2Switch!ForwardingStaysInTheVlan
  <1> QED BY <1>3, <1>4, <1>5, <1>6 DEF SwitchInv

\* No frame, no claim.
LEMMA SwitchNoResult ==
    ASSUME result' = L2Switch!NoResult, heard' \in [Host \X Vlan -> {"never", "before", "fresh"}]
    PROVE  SwResult'
  BY SwitchConstantsHold
     DEF SwResult, L2Switch!NoResult, L2Switch!FreshHostsAreReached, L2Switch!ForwardingStaysInTheVlan

\* Hosts that move or whose port changes are no longer fresh.
LEMMA SwitchOutdated ==
    ASSUME SwPortsOK, SwTable, NEW S, heard' = L2Switch!Outdated(S), UNCHANGED mac_table,
           \A h \in Host : h \notin S => sw_at'[h] = sw_at[h]
    PROVE  SwTable' /\ heard' \in [Host \X Vlan -> {"never", "before", "fresh"}]
  <1>1. heard' \in [Host \X Vlan -> {"never", "before", "fresh"}]
    BY DEF SwPortsOK, L2Switch!Outdated
  <1>2. ASSUME NEW k \in DOMAIN mac_table
        PROVE  heard'[k] # "never" /\ (heard'[k] = "fresh" => mac_table[k] = sw_at'[k[1]])
    <2>1. k \in Host \X Vlan /\ k[1] \in Host /\ heard[k] # "never"
      BY DEF SwTable
    <2>2. heard'[k] = IF k[1] \in S /\ heard[k] = "fresh" THEN "before" ELSE heard[k]
      BY <2>1 DEF L2Switch!Outdated
    <2> QED BY <2>1, <2>2 DEF SwTable
  <1> QED BY <1>1, <1>2 DEF SwTable

LEMMA SwitchConfigured ==
    ASSUME NEW c \in SwConfigs PROVE L2Switch!Configured(c[1], c[2]) \in SwPort
  <1>1. c[1] \in L2Switch!Mode /\ c[2] \in Vlan
    BY SwitchConstantsHold
  <1>2. L2Switch!Mask(c[2]) \subseteq {v \in Vlan : v < SwMaskBits}
    BY <1>1 DEF L2Switch!Mask
  <1> QED BY <1>1, <1>2 DEF L2Switch!Configured, SwPort

\* A frame of a VLAN that is allowed is learned from.
LEMMA SwitchLearns ==
    ASSUME SwPortsOK, SwTable, SwTableSize, NEW h \in Host, NEW v \in Vlan,
           mac_table' = L2Switch!Learned(h, sw_at[h], v),
           heard' = [heard EXCEPT ![<<h, v>>] = "fresh"], sw_at' = sw_at
    PROVE  SwTable' /\ SwTableSize'
  <1> DEFINE key == <<h, v>>
  <1>0. key \in Host \X Vlan /\ L2Switch!Key(h, v) = key /\ key[1] = h /\ sw_at[h] \in Nat
    BY DEF L2Switch!Key, SwPortsOK
  <1> HIDE DEF key
  <1>1. /\ heard'[key] = "fresh"
        /\ \A k \in Host \X Vlan : k # key => heard'[k] = heard[k]
    BY <1>0 DEF SwPortsOK, key
  <1>2. IsFiniteSet(DOMAIN mac_table) /\ Cardinality(DOMAIN mac_table) \in Nat
    BY FS_CardinalityType DEF SwTableSize
  <1>3. CASE key \in DOMAIN mac_table \/ Cardinality(DOMAIN mac_table) < SwSlots
    <2>1. mac_table' = [k \in DOMAIN mac_table \cup {key} |-> IF k = key THEN sw_at[h] ELSE mac_table[k]]
      BY <1>0, <1>3, SwitchSameCardinality DEF L2Switch!Learned
    <2>2. /\ DOMAIN mac_table' = DOMAIN mac_table \cup {key} /\ mac_table'[key] = sw_at[h]
          /\ \A k \in DOMAIN mac_table : k # key => mac_table'[k] = mac_table[k]
      BY <2>1
    <2>3. mac_table' \in [DOMAIN mac_table' -> Nat]
      BY <1>0, <2>1, <2>2 DEF SwTable
    <2>4. \A k \in DOMAIN mac_table' : heard'[k] # "never"
      BY <1>1, <2>2 DEF SwTable
    <2>5. \A k \in DOMAIN mac_table' : heard'[k] = "fresh" => mac_table'[k] = sw_at'[k[1]]
      BY <1>0, <1>1, <2>2 DEF SwTable
    <2>6. SwTable'
      BY <1>0, <2>2, <2>3, <2>4, <2>5 DEF SwTable
    <2>7. /\ IsFiniteSet(DOMAIN mac_table \cup {key})
          /\ Cardinality(DOMAIN mac_table \cup {key}) =
                 IF key \in DOMAIN mac_table THEN Cardinality(DOMAIN mac_table)
                 ELSE Cardinality(DOMAIN mac_table) + 1
      BY <1>2, FS_AddElement
    <2>8. SwTableSize'
      BY <1>2, <1>3, <2>2, <2>7, SwitchConstantsHold DEF SwTableSize
    <2> QED BY <2>6, <2>8
  <1>4. CASE key \notin DOMAIN mac_table /\ ~(Cardinality(DOMAIN mac_table) < SwSlots)
    <2>1. mac_table' = mac_table
      BY <1>0, <1>4, SwitchSameCardinality DEF L2Switch!Learned
    <2> QED BY <1>1, <1>4, <2>1 DEF SwTable, SwTableSize
  <1> QED BY <1>3, <1>4

\* No step of l2switch.c breaks SwitchInv.
LEMMA SwitchStep == SwitchInv /\ [L2Switch!Next]_swVars => SwitchInv'
  <1> SUFFICES ASSUME SwitchInv, [L2Switch!Next]_swVars PROVE SwitchInv'
    OBVIOUS
  <1> USE SwitchConstantsHold
  <1>0. SwPortsOK /\ SwTable /\ SwTableSize /\ SwResult
    BY DEF SwitchInv
  <1>1. ASSUME NEW c \in SwConfigs, L2Switch!AddPort(c[1], c[2]) PROVE SwitchInv'
    <2>1. PICK n \in 0..SwPorts : DOMAIN ports = 1..n
      BY <1>0 DEF SwPortsOK
    <2>2. L2Switch!Cardinality(DOMAIN ports) = n
      BY <2>1, SwitchSameCardinality, FS_Interval
    <2>3. /\ n < SwPorts
          /\ ports' = [p \in 1..(n + 1) |->
                        IF p \in DOMAIN ports THEN ports[p] ELSE L2Switch!Configured(c[1], c[2])]
          /\ result' = L2Switch!NoResult /\ UNCHANGED <<mac_table, sw_at, heard>>
      BY <1>1, <2>2 DEF L2Switch!AddPort
    <2>4. n + 1 \in 0..SwPorts /\ DOMAIN ports' = 1..(n + 1)
      BY <2>3
    <2>5. ports' \in [1..(n + 1) -> SwPort]
      <3>1. \A p \in 1..(n + 1) :
                (IF p \in DOMAIN ports THEN ports[p] ELSE L2Switch!Configured(c[1], c[2])) \in SwPort
        BY <1>0, SwitchConfigured DEF SwPortsOK
      <3> QED BY <2>3, <3>1
    <2>6. SwPortsOK'
      BY <1>0, <2>3, <2>4, <2>5 DEF SwPortsOK
    <2>7. SwTable' /\ SwTableSize'
      BY <1>0, <2>3 DEF SwTable, SwTableSize
    <2>8. SwResult'
      BY <2>3, <2>6, SwitchNoResult DEF SwPortsOK
    <2> QED BY <2>6, <2>7, <2>8 DEF SwitchInv
  <1>2. ASSUME NEW p \in DOMAIN ports, NEW c \in SwConfigs, L2Switch!SetPortMode(p, c[1], c[2])
        PROVE  SwitchInv'
    <2>1. /\ ports' = [ports EXCEPT ![p] = L2Switch!Configured(c[1], c[2])]
          /\ heard' = L2Switch!Outdated({h \in Host : sw_at[h] = p})
          /\ result' = L2Switch!NoResult /\ UNCHANGED <<mac_table, sw_at>>
      BY <1>2 DEF L2Switch!SetPortMode
    <2>2. DOMAIN ports' = DOMAIN ports /\ ports' \in [DOMAIN ports -> SwPort]
      BY <1>0, <2>1, SwitchConfigured DEF SwPortsOK
    <2>3. SwTable' /\ heard' \in [Host \X Vlan -> {"never", "before", "fresh"}]
      BY <1>0, <2>1, SwitchOutdated
    <2>4. SwPortsOK'
      BY <1>0, <2>1, <2>2, <2>3 DEF SwPortsOK
    <2>5. SwTableSize' /\ SwResult'
      BY <1>0, <2>1, <2>3, SwitchNoResult DEF SwTableSize
    <2> QED BY <2>3, <2>4, <2>5 DEF SwitchInv
  <1>3. ASSUME NEW p \in DOMAIN ports, NEW v \in Vlan, L2Switch!AllowVlan(p, v) PROVE SwitchInv'
    <2>1. /\ v < SwMaskBits /\ ports' = [ports EXCEPT ![p].allowed = @ \cup {v}]
          /\ result' = L2Switch!NoResult /\ UNCHANGED <<mac_table, sw_at, heard>>
      BY <1>3 DEF L2Switch!AllowVlan
    <2>2. ports[p] \in SwPort
      BY <1>0 DEF SwPortsOK
    <2>3. [ports[p] EXCEPT !.allowed = @ \cup {v}] \in SwPort
      BY <2>1, <2>2 DEF SwPort
    <2>4. DOMAIN ports' = DOMAIN ports /\ ports' \in [DOMAIN ports -> SwPort]
      BY <1>0, <2>1, <2>3 DEF SwPortsOK
    <2>5. SwPortsOK'
      BY <1>0, <2>1, <2>4 DEF SwPortsOK
    <2>6. SwTable' /\ SwTableSize'
      BY <1>0, <2>1 DEF SwTable, SwTableSize
    <2>7. SwResult'
      BY <2>1, <2>5, SwitchNoResult DEF SwPortsOK
    <2> QED BY <2>5, <2>6, <2>7 DEF SwitchInv
  <1>4. ASSUME NEW h \in Host, NEW dst \in Host \cup {Group}, NEW tag \in Vlan \cup {L2Switch!Untagged},
               L2Switch!ProcessFrame(h, dst, tag)
        PROVE  SwitchInv'
    <2> DEFINE p == sw_at[h]
               v == L2Switch!VlanOf(p, tag)
    <2>1. p \in DOMAIN ports /\ UNCHANGED <<ports, sw_at>>
      BY <1>4 DEF L2Switch!ProcessFrame
    <2>2. v \in Vlan
      <3>1. ports[p] \in SwPort
        BY <1>0, <2>1 DEF SwPortsOK
      <3> QED BY <3>1 DEF L2Switch!VlanOf, SwPort
    <2>3. /\ result'.dst = dst /\ result'.src_port = p /\ result'.vlan = v
          /\ \/ /\ v \notin ports[p].allowed /\ result'.action = "DROP"
                /\ UNCHANGED <<mac_table, heard>>
             \/ /\ v \in ports[p].allowed /\ mac_table' = L2Switch!Learned(h, p, v)
                /\ heard' = [heard EXCEPT ![<<h, v>>] = "fresh"]
                /\ \/ result'.action = "FLOOD"
                   \/ /\ <<dst, v>> \in DOMAIN mac_table' /\ mac_table'[<<dst, v>>] = p
                      /\ result'.action = "DROP"
                   \/ /\ <<dst, v>> \in DOMAIN mac_table' /\ result'.action = "FORWARD"
                      /\ result'.dst_port = mac_table'[<<dst, v>>]
      BY <1>4 DEF L2Switch!ProcessFrame, L2Switch!Key
    <2> HIDE DEF v
    <2>4. heard' \in [Host \X Vlan -> {"never", "before", "fresh"}]
      BY <1>0, <2>2, <2>3 DEF SwPortsOK
    <2>5. SwPortsOK'
      BY <1>0, <2>1, <2>4 DEF SwPortsOK
    <2>6. SwTable' /\ SwTableSize'
      <3>1. CASE UNCHANGED <<mac_table, heard>>
        BY <1>0, <2>1, <3>1 DEF SwTable, SwTableSize
      <3>2. CASE mac_table' = L2Switch!Learned(h, p, v) /\ heard' = [heard EXCEPT ![<<h, v>>] = "fresh"]
        BY <1>0, <2>1, <2>2, <3>2, SwitchLearns
      <3> QED BY <2>3, <3>1, <3>2
    <2>7. SwResult'
      <3>1. L2Switch!FreshHostsAreReached'
        BY <2>1, <2>3, <2>6 DEF L2Switch!FreshHostsAreReached, SwTable
      <3>2. L2Switch!ForwardingStaysInTheVlan'
        BY <2>1, <2>3, <2>6 DEF L2Switch!ForwardingStaysInTheVlan, SwTable
      <3> QED BY <3>1, <3>2 DEF SwResult
    <2> QED BY <2>5, <2>6, <2>7 DEF SwitchInv
  <1>5. ASSUME NEW due \in SUBSET DOMAIN mac_table, L2Switch!Expire(due) PROVE SwitchInv'
    <2>1. /\ mac_table' = [k \in DOMAIN mac_table \ due |-> mac_table[k]]
          /\ result' = L2Switch!NoResult /\ UNCHANGED <<ports, sw_at, heard>>
      BY <1>5 DEF L2Switch!Expire
    <2> DEFINE K == DOMAIN mac_table \ due
    <2>2. DOMAIN mac_table' = K /\ K \subseteq DOMAIN mac_table /\ \A k \in K : mac_table'[k] = mac_table[k]
      BY <2>1
    <2>3. mac_table' \in [K -> Nat]
      BY <1>0, <2>1, <2>2 DEF SwTable
    <2> HIDE DEF K
    <2>4. SwTable'
      BY <1>0, <2>1, <2>2, <2>3 DEF SwTable
    <2>5. IsFiniteSet(K) /\ Cardinality(K) <= Cardinality(DOMAIN mac_table)
      BY <1>0, <2>2, FS_Subset DEF SwTableSize
    <2>6. Cardinality(K) \in Nat /\ Cardinality(DOMAIN mac_table) \in Nat
      BY <1>0, <2>5, FS_CardinalityType DEF SwTableSize
    <2>7. SwTableSize'
      BY <1>0, <2>2, <2>5, <2>6 DEF SwTableSize
    <2>8. SwPortsOK' /\ SwResult'
      BY <1>0, <2>1, SwitchNoResult DEF SwPortsOK
    <2> QED BY <2>4, <2>7, <2>8 DEF SwitchInv
  <1>6. ASSUME NEW h \in Host, NEW p \in DOMAIN ports, L2Switch!Move(h, p) PROVE SwitchInv'
    <2>1. /\ sw_at' = [sw_at EXCEPT ![h] = p] /\ heard' = L2Switch!Outdated({h})
          /\ result' = L2Switch!NoResult /\ UNCHANGED <<ports, mac_table>>
      BY <1>6 DEF L2Switch!Move
    <2>2. p \in Nat
      <3>1. PICK n \in 0..SwPorts : DOMAIN ports = 1..n
        BY <1>0 DEF SwPortsOK
      <3> QED BY <3>1
    <2>3. sw_at' \in [Host -> Nat] /\ \A g \in Host : g \notin {h} => sw_at'[g] = sw_at[g]
      BY <1>0, <2>1, <2>2 DEF SwPortsOK
    <2>4. SwTable' /\ heard' \in [Host \X Vlan -> {"never", "before", "fresh"}]
      BY <1>0, <2>1, <2>3, SwitchOutdated
    <2>5. SwPortsOK'
      BY <1>0, <2>1, <2>3, <2>4 DEF SwPortsOK
    <2>6. SwTableSize' /\ SwResult'
      BY <1>0, <2>1, <2>4, SwitchNoResult DEF SwTableSize
    <2> QED BY <2>4, <2>5, <2>6 DEF SwitchInv
  <1>7. CASE UNCHANGED swVars
    BY <1>0, <1>7 DEF swVars, SwitchInv, SwPortsOK, SwTable, SwTableSize, SwResult,
                 L2Switch!FreshHostsAreReached, L2Switch!ForwardingStaysInTheVlan
  <1> QED BY <1>1, <1>2, <1>3, <1>4, <1>5, <1>6, <1>7 DEF L2Switch!Next

LEMMA SwitchConsequences ==
    ASSUME SwitchInv
    PROVE  /\ L2Switch!TypeOK /\ L2Switch!FreshHostsAreReached
           /\ L2Switch!ForwardingStaysInTheVlan
  <1>1. DOMAIN ports \subseteq 1..SwPorts
    <2>1. PICK n \in 0..SwPorts : DOMAIN ports = 1..n
      BY DEF SwitchInv, SwPortsOK
    <2> QED BY <2>1, SwitchConstantsHold
  <1>2. \A p \in DOMAIN ports : ports[p] \in SwPort
    BY DEF SwitchInv, SwPortsOK
  <1> QED BY <1>1, <1>2, SwitchSameCardinality
          DEF SwitchInv, SwResult, SwTableSize, L2Switch!TypeOK, SwPort

-----------------------------------------------------------------------------
\* Fragments: whatever was cut how often, a fragment carries the bytes that
\* its offset says, in whole units unless it is the end of the packet, and
\* only the end of the packet has no MF.
FragRec == [off : Nat, mf : BOOLEAN, df : BOOLEAN, data : Seq(Nat)]

FragEnd(p) == 8 * p.off + Len(p.data)

FragGood(p) ==
    /\ p \in FragRec /\ Len(p.data) >= 1
    /\ p.data = [k \in 1..Len(p.data) |-> 8 * p.off + k]
    /\ FragEnd(p) <= FragSize
    /\ p.mf => Len(p.data) = 8 * (Len(p.data) \div 8) /\ FragEnd(p) < FragSize
    /\ ~p.mf => FragEnd(p) = FragSize

FragInv ==
    /\ \A p \in net : FragGood(p)
    /\ got \in Seq(FragRec) /\ Len(got) <= MaxGot
    /\ \A i \in 1..Len(got) : FragGood(got[i])
    /\ spilt \subseteq FragMtus /\ Fragment!FragmentsFit

LEMMA FragConsts ==
    /\ FragSize \in Nat \ {0} /\ FragMtus \subseteq Nat /\ MaxFrags \in Nat \ {0} /\ MaxGot \in Nat
    /\ FragCap \in Nat \ {0} /\ FragOutSizes \subseteq Nat
  BY TableSuiteConstants DEF Fragment!FragmentConstants

\* What the fields of a fragment are.
LEMMA FragFields ==
    ASSUME NEW p, FragGood(p)
    PROVE  /\ p.off \in Nat /\ Len(p.data) \in Nat \ {0} /\ p.data \in Seq(Nat)
           /\ DOMAIN p.data = 1..Len(p.data)
           /\ \A k \in 1..Len(p.data) : p.data[k] = 8 * p.off + k
           /\ FragEnd(p) \in Nat
  <1>1. p.off \in Nat /\ p.data \in Seq(Nat)
    BY DEF FragGood, FragRec
  <1>2. Len(p.data) \in Nat /\ DOMAIN p.data = 1..Len(p.data)
    BY <1>1, LenProperties
  <1>3. Len(p.data) \in Nat \ {0}
    BY <1>2 DEF FragGood
  <1>4. PICK d : d = p.data
    OBVIOUS
  <1>5. d = [k \in 1..Len(d) |-> 8 * p.off + k]
    BY <1>4 DEF FragGood
  <1>6. \A k \in 1..Len(d) : d[k] = 8 * p.off + k
    BY <1>5
  <1>7. FragEnd(p) \in Nat
    BY <1>1, <1>2 DEF FragEnd
  <1> QED BY <1>1, <1>2, <1>3, <1>4, <1>6, <1>7

\* Cutting k units of 8 bytes at a time: the number of pieces, and where one
\* begins and ends.
FragCount(len, u) == (len + u * 8 - 1) \div (u * 8)
FragFrom(i, u) == (i - 1) * (u * 8)
FragTo(i, u, len) == IF FragFrom(i, u) + u * 8 <= len THEN FragFrom(i, u) + u * 8 ELSE len

FragPiece(p, u, i) ==
    [off |-> p.off + (FragFrom(i, u) \div 8), mf |-> i < FragCount(Len(p.data), u) \/ p.mf, df |-> FALSE,
     data |-> SubSeq(p.data, FragFrom(i, u) + 1, FragTo(i, u, Len(p.data)))]

LEMMA FragPieces ==
    ASSUME NEW u \in Nat \ {0}, NEW len \in Nat \ {0}, NEW n,
           n = FragCount(len, u), NEW i \in 1..n
    PROVE  /\ n \in Nat /\ (i - 1) * u \in Nat
           /\ (i - 1) * (u * 8) = 8 * ((i - 1) * u)
           /\ (i - 1) * (u * 8) < len
           /\ i < n => (i - 1) * (u * 8) + u * 8 < len
           /\ i = n => len <= (i - 1) * (u * 8) + u * 8
  <1>1. PICK m : m = u * 8
    OBVIOUS
  <1>2. m \in Nat \ {0}
    BY <1>1
  <1>3. PICK a : a = len + m - 1
    OBVIOUS
  <1>4. a \in Nat /\ a = len + m - 1
    BY <1>2, <1>3
  <1>5. n = a \div m
    BY <1>1, <1>3 DEF FragCount
  <1>6. n \in Int /\ \E r \in 0..(m - 1) : a = n * m + r
    <2>1. a \in Int
      BY <1>4
    <2>2. (a \div m) \in Int /\ (a % m) \in 0..(m - 1) /\ a = (a \div m) * m + (a % m)
      BY ONLY <1>2, <2>1, DivMod
    <2> QED BY <1>5, <2>2
  <1>7. PICK r \in 0..(m - 1) : a = n * m + r
    BY <1>6
  <1>8. n \in Nat /\ i \in Nat /\ i >= 1 /\ i <= n
    BY <1>6
  <1>9. PICK x : x = (i - 1) * m
    OBVIOUS
  <1>10. PICK y : y = n * m
    OBVIOUS
  <1>11. x \in Int /\ y \in Int /\ x + m = i * m
    BY <1>2, <1>8, <1>9, <1>10
  <1>12. i * m <= n * m
    BY <1>2, <1>8
  <1>13. x + m <= y
    BY <1>10, <1>11, <1>12
  <1>14. len + m - 1 = y + r
    BY <1>4, <1>7, <1>10
  <1>15. x < len
    BY <1>2, <1>11, <1>13, <1>14
  <1>16. i < n => x + m < len
    <2>1. i < n => (i + 1) * m <= n * m
      BY <1>2, <1>8
    <2>2. (i + 1) * m = i * m + m
      BY <1>2, <1>8
    <2>3. i < n => (x + m) + m <= y
      BY <1>10, <1>11, <2>1, <2>2
    <2> QED BY <1>2, <1>11, <1>14, <2>3
  <1>17. i = n => len <= x + m
    <2>1. i = n => x + m = y
      BY <1>10, <1>11
    <2> QED BY <1>2, <1>11, <1>14, <2>1
  <1>18. (i - 1) * u \in Nat /\ (i - 1) * (u * 8) = 8 * ((i - 1) * u)
    BY <1>8
  <1> QED BY <1>1, <1>8, <1>9, <1>15, <1>16, <1>17, <1>18

\* The first bytes of a packet after a place of it.
LEMMA FragPart ==
    ASSUME NEW p, FragGood(p), NEW a \in Nat, NEW b \in Nat, a < b, b <= Len(p.data)
    PROVE  /\ SubSeq(p.data, a + 1, b) \in Seq(Nat) /\ Len(SubSeq(p.data, a + 1, b)) = b - a
           /\ SubSeq(p.data, a + 1, b) = [k \in 1..(b - a) |-> (8 * p.off + a) + k]
  <1> DEFINE d == p.data
             e == SubSeq(d, a + 1, b)
             f == [k \in 1..(b - a) |-> (8 * p.off + a) + k]
  <1>1. /\ p.off \in Nat /\ Len(d) \in Nat /\ d \in Seq(Nat)
        /\ \A k \in 1..Len(d) : d[k] = 8 * p.off + k
    BY FragFields
  <1>0. b <= Len(d)
    OBVIOUS
  <1> HIDE DEF d
  <1>2. a + 1 \in 1..(Len(d) + 1) /\ b \in ((a + 1) - 1)..Len(d) /\ b - (a + 1) + 1 = b - a
    BY <1>0, <1>1
  <1>3. /\ e \in Seq(Nat) /\ Len(e) = b - (a + 1) + 1
        /\ \A k \in 1..(b - (a + 1) + 1) : e[k] = d[(a + 1) + k - 1]
    BY ONLY <1>1, <1>2, SubSeqProperties
  <1>4. e \in Seq(Nat) /\ Len(e) = b - a /\ DOMAIN e = 1..(b - a)
    BY <1>2, <1>3, LenProperties
  <1>5. ASSUME NEW k \in 1..(b - a) PROVE e[k] = (8 * p.off + a) + k
    <2>1. a + k \in 1..Len(d) /\ (a + 1) + k - 1 = a + k
      BY <1>0, <1>1
    <2>2. e[k] = d[a + k]
      BY <1>2, <1>3, <2>1
    <2> QED BY <1>1, <2>1, <2>2
  <1> HIDE DEF e
  <1>6. e = [k \in 1..(b - a) |-> e[k]]
    BY <1>4
  <1>7. e = f
    BY <1>5, <1>6
  <1> QED BY <1>4, <1>7 DEF e, d

\* Cutting a fragment gives fragments.
LEMMA FragCut ==
    ASSUME NEW p, FragGood(p), NEW u \in Nat \ {0}, NEW i \in 1..FragCount(Len(p.data), u)
    PROVE  FragGood(FragPiece(p, u, i))
  <1>01. PICK n : n = FragCount(Len(p.data), u)
    OBVIOUS
  <1>02. PICK a : a = FragFrom(i, u)
    OBVIOUS
  <1>03. PICK b : b = FragTo(i, u, Len(p.data))
    OBVIOUS
  <1>04. PICK q : q = FragPiece(p, u, i)
    OBVIOUS
  <1>1. p.off \in Nat /\ Len(p.data) \in Nat \ {0} /\ FragEnd(p) = 8 * p.off + Len(p.data)
    BY FragFields DEF FragEnd
  <1>2. PICK len : len = Len(p.data)
    OBVIOUS
  <1>3. PICK off : off = p.off
    OBVIOUS
  <1>4. PICK m : m = u * 8
    OBVIOUS
  <1>5. PICK x : x = (i - 1) * u
    OBVIOUS
  <1>6. /\ n \in Nat /\ x \in Nat /\ a = 8 * x /\ a < len
        /\ i < n => a + m < len
        /\ i = n => len <= a + m
    <2>1. n = FragCount(len, u) /\ i \in 1..n /\ len \in Nat \ {0}
      BY <1>01, <1>1, <1>2
    <2>2. a = (i - 1) * (u * 8)
      BY <1>02 DEF FragFrom
    <2> QED BY <1>4, <1>5, <2>1, <2>2, FragPieces
  <1>7. len \in Nat \ {0} /\ off \in Nat /\ m \in Nat \ {0} /\ m = 8 * u
    BY <1>1, <1>2, <1>3, <1>4
  <1>8. b = IF a + m <= len THEN a + m ELSE len
    BY <1>02, <1>03, <1>2, <1>4 DEF FragTo
  <1>9. a \in Nat /\ b \in Nat /\ a < b /\ b <= len /\ a \div 8 = x
    BY <1>6, <1>7, <1>8
  <1>10. PICK d : d = SubSeq(p.data, a + 1, b)
    OBVIOUS
  <1>11. d \in Seq(Nat) /\ Len(d) = b - a /\ d = [k \in 1..(b - a) |-> (8 * off + a) + k]
    <2>1. a \in Nat /\ b \in Nat /\ a < b /\ b <= Len(p.data)
      BY <1>2, <1>9
    <2>2. /\ SubSeq(p.data, a + 1, b) \in Seq(Nat) /\ Len(SubSeq(p.data, a + 1, b)) = b - a
          /\ SubSeq(p.data, a + 1, b) = [k \in 1..(b - a) |-> (8 * p.off + a) + k]
      BY <2>1, FragPart
    <2> QED BY ONLY <1>3, <1>10, <2>2
  <1>12. q = [off |-> off + x, mf |-> i < n \/ p.mf, df |-> FALSE, data |-> d]
    BY <1>01, <1>02, <1>03, <1>04, <1>3, <1>9, <1>10 DEF FragPiece
  <1>13. q.off = off + x /\ q.data = d /\ (q.mf <=> i < n \/ p.mf)
    BY ONLY <1>12
  <1>14. q \in FragRec
    <2>1. off + x \in Nat /\ (i < n \/ p.mf) \in BOOLEAN
      BY <1>6, <1>7
    <2> QED BY <1>11, <1>12, <2>1 DEF FragRec
  <1>15. 8 * (off + x) = 8 * off + a
    BY <1>6, <1>7
  <1>16. d = [k \in 1..Len(d) |-> 8 * (off + x) + k]
    BY <1>11, <1>15
  <1>17. FragEnd(q) = 8 * off + b /\ Len(d) >= 1
    <2>1. 8 * (off + x) + (b - a) = 8 * off + b
      BY <1>6, <1>7, <1>9
    <2> QED BY <1>9, <1>11, <1>13, <2>1 DEF FragEnd
  <1>18. FragEnd(p) = 8 * off + len /\ FragEnd(p) <= FragSize
    BY <1>1, <1>2, <1>3 DEF FragGood
  <1>19. FragEnd(q) <= FragSize
    BY <1>7, <1>9, <1>17, <1>18, FragConsts
  <1>20. ASSUME q.mf PROVE Len(d) = 8 * (Len(d) \div 8) /\ FragEnd(q) < FragSize
    <2>1. CASE i < n
      <3>1. b = a + m /\ b < len
        BY <1>6, <1>7, <1>8, <2>1
      <3>2. Len(d) = 8 * u
        BY <1>7, <1>9, <1>11, <3>1
      <3>3. Len(d) = 8 * (Len(d) \div 8)
        BY <3>2
      <3>4. FragEnd(q) < FragSize
        BY <1>7, <1>9, <1>17, <1>18, <3>1, FragConsts
      <3> QED BY <3>3, <3>4
    <2>2. CASE ~(i < n)
      <3>0. i = n
        BY <1>01, <1>6, <2>2
      <3>1. i = n /\ p.mf
        BY <1>13, <1>20, <2>2, <3>0, Zenon
      <3>2. b = len
        BY <1>6, <1>7, <1>8, <3>1
      <3>3. len = 8 * (len \div 8) /\ FragEnd(p) < FragSize
        BY <1>2, <3>1 DEF FragGood
      <3>4. PICK y \in Int : len = 8 * y
        BY <1>7, <3>3
      <3>5. Len(d) = 8 * (y - x) /\ y - x \in Int
        BY <1>6, <1>7, <1>11, <3>2, <3>4
      <3>6. Len(d) = 8 * (Len(d) \div 8)
        BY <3>5
      <3> QED BY <1>17, <1>18, <3>2, <3>3, <3>6
    <2> QED BY <2>1, <2>2
  <1>21. ASSUME ~q.mf PROVE FragEnd(q) = FragSize
    <2>0. ~(i < n) /\ ~p.mf
      BY <1>13, <1>21, Zenon
    <2>1. i = n /\ ~p.mf
      BY <1>01, <1>6, <2>0
    <2>2. b = len
      BY <1>6, <1>7, <1>8, <2>1
    <2>3. FragEnd(p) = FragSize
      BY <2>1 DEF FragGood
    <2> QED BY <1>17, <1>18, <2>2, <2>3
  <1> QED BY <1>13, <1>14, <1>16, <1>17, <1>19, <1>20, <1>21, <1>04 DEF FragGood

\* What a router makes of a fragment.
LEMMA FragForwarded ==
    ASSUME NEW p, FragGood(p), NEW mtu \in FragMtus, NEW q \in Fragment!FragmentPacket(p, mtu)
    PROVE  /\ FragGood(q)
           /\ 20 + Len(q.data) <= mtu \/ Len(q.data) <= Fragment!MaxPayload(mtu)
  <1> DEFINE len == Len(p.data)
             max == Fragment!MaxPayload(mtu)
             n == (len + max - 1) \div max
             Frag(i) == LET start == (i - 1) * max
                        IN [off |-> Fragment!OffsetOf(p, start), mf |-> Fragment!MoreFragments(p, i, n),
                            df |-> FALSE,
                            data |-> SubSeq(p.data, start + 1, Fragment!Min({start + max, len}))]
  <1>1. \/ q = p /\ 20 + len <= mtu
        \/ max # 0 /\ \E i \in 1..n : q = Frag(i)
    BY DEF Fragment!FragmentPacket, Fragment!Header
  <1>2. ASSUME max # 0, NEW i \in 1..n PROVE FragGood(Frag(i)) /\ Len(Frag(i).data) <= max
    <2> DEFINE u == ((mtu - 20) % 65536) \div 8
    <2>1. mtu \in Nat /\ len \in Nat \ {0}
      BY FragConsts, FragFields
    <2>2. u \in Nat \ {0} /\ max = u * 8
      <3>1. max = u * 8
        BY DEF Fragment!MaxPayload, Fragment!Header, Fragment!Unit, Fragment!Word
      <3>2. u \in Nat
        BY <2>1
      <3> HIDE DEF u, max
      <3> QED BY <1>2, <3>1, <3>2
    <2> HIDE DEF u
    <2>3. n = FragCount(len, u)
      BY <2>2 DEF FragCount
    <2>4. (i - 1) * max = FragFrom(i, u)
      BY <2>2 DEF FragFrom
    <2>5. i \in 1..FragCount(len, u)
      BY <2>3
    <2>6. (i - 1) * (u * 8) \in Nat
      <3>1. (i - 1) * u \in Nat /\ (i - 1) * (u * 8) = 8 * ((i - 1) * u)
        BY <2>1, <2>2, <2>5, FragPieces
      <3> QED BY <3>1
    <2> DEFINE a == FragFrom(i, u)
               b == FragTo(i, u, len)
    <2>7. Fragment!Min({a + max, len}) = b
      <3>1. PICK x : x = a + max
        OBVIOUS
      <3>2. x \in Nat /\ b = IF x <= len THEN x ELSE len
        BY <2>1, <2>2, <2>6, <3>1 DEF FragFrom, FragTo
      <3>3. PICK y : y = len
        OBVIOUS
      <3>4. b \in {x, y} /\ \A z \in {x, y} : b <= z
        BY <2>1, <3>2, <3>3
      <3>5. \A v \in {x, y} : (\A z \in {x, y} : v <= z) => v = b
        BY <2>1, <3>2, <3>3
      <3>6. Fragment!Min({x, y}) = b
        <4> HIDE DEF b
        <4> QED BY <3>4, <3>5, Zenon DEF Fragment!Min
      <3> QED BY <3>1, <3>3, <3>6
    <2>8. Fragment!OffsetOf(p, a) = p.off + (a \div 8)
      BY DEF Fragment!OffsetOf, Fragment!Unit
    <2>9. Fragment!MoreFragments(p, i, n) = (i < n \/ p.mf)
      BY DEF Fragment!MoreFragments
    <2> HIDE DEF a, b, max, n, len
    <2>10. Frag(i) = [off |-> p.off + (a \div 8), mf |-> (i < n \/ p.mf), df |-> FALSE,
                      data |-> SubSeq(p.data, a + 1, b)]
      BY <2>4, <2>7, <2>8, <2>9 DEF a
    <2>11. Frag(i) = FragPiece(p, u, i)
      BY <2>3, <2>10 DEF FragPiece, a, b, len
    <2>12. FragGood(FragPiece(p, u, i))
      BY <2>2, <2>5, FragCut DEF len
    <2>13. Len(SubSeq(p.data, a + 1, b)) <= max
      <3>1. a \in Nat /\ a < len
        BY <2>1, <2>2, <2>5, <2>6, FragPieces DEF a, FragFrom
      <3>2. b = IF a + max <= len THEN a + max ELSE len
        BY <2>2 DEF a, b, FragTo
      <3>3. b \in Nat /\ a < b /\ b <= len /\ b - a <= max
        BY <2>1, <2>2, <3>1, <3>2
      <3>4. Len(SubSeq(p.data, a + 1, b)) = b - a
        BY <3>1, <3>3, FragPart DEF len
      <3> QED BY <3>3, <3>4
    <2>14. Len(Frag(i).data) <= max
      BY <2>10, <2>13
    <2> QED BY <2>11, <2>12, <2>14
  <1> HIDE DEF Frag, n, max, len
  <1>3. q = p => 20 + Len(q.data) <= mtu \/ Len(q.data) <= max
    BY <1>1, <1>2 DEF len
  <1> QED BY <1>1, <1>2, <1>3 DEF max

\* Between the smallest MTU and the one that fills an array, no fragment is
\* longer than its array.
LEMMA FragRoom ==
    ASSUME NEW p, FragGood(p), NEW mtu \in FragMtus, 20 <= mtu, mtu <= 20 + FragCap,
           NEW q \in Fragment!FragmentPacket(p, mtu)
    PROVE  Fragment!Fits(q)
  <1>1. FragGood(q) /\ (20 + Len(q.data) <= mtu \/ Len(q.data) <= Fragment!MaxPayload(mtu))
    BY FragForwarded
  <1>2. PICK n : n = Len(q.data)
    OBVIOUS
  <1>3. n \in Nat /\ mtu \in Nat /\ FragCap \in Nat
    BY <1>1, <1>2, FragFields, FragConsts
  <1>4. PICK m : m = (mtu - 20) % 65536
    OBVIOUS
  <1>5. m \in Nat /\ m <= mtu - 20
    BY <1>3, <1>4
  <1>6. Fragment!MaxPayload(mtu) = (m \div 8) * 8 /\ (m \div 8) * 8 <= m
    BY <1>4, <1>5 DEF Fragment!MaxPayload, Fragment!Header, Fragment!Unit, Fragment!Word
  <1>7. Fragment!MaxPayload(mtu) \in Int
    BY <1>5, <1>6
  <1>8. n <= FragCap
    BY <1>1, <1>2, <1>3, <1>5, <1>6, <1>7
  <1> QED BY <1>2, <1>8 DEF Fragment!Fits

LEMMA FragInitially == ASSUME Fragment!Init PROVE FragInv
  <1>1. net = {} /\ got = <<>> /\ spilt = {}
    BY DEF Fragment!Init
  <1>2. got \in Seq(FragRec) /\ Len(got) = 0 /\ 1..Len(got) = {}
    BY <1>1, EmptySeq
  <1>3. Len(got) <= MaxGot
    BY <1>2, FragConsts
  <1> QED BY <1>1, <1>2, <1>3 DEF FragInv, Fragment!FragmentsFit

\* The packet that is sent.
LEMMA FragSent ==
    ASSUME NEW df \in BOOLEAN
    PROVE  FragGood([off |-> 0, mf |-> FALSE, df |-> df, data |-> Fragment!Payload])
  <1> DEFINE d == Fragment!Payload
             q == [off |-> 0, mf |-> FALSE, df |-> df, data |-> d]
  <1>1. FragSize \in Nat \ {0}
    BY FragConsts
  <1>2. d = [i \in 1..FragSize |-> i]
    BY DEF Fragment!Payload
  <1>3. d \in Seq(Nat) /\ Len(d) = FragSize
    BY <1>1, <1>2
  <1>4. d = [k \in 1..Len(d) |-> 8 * 0 + k]
    BY <1>1, <1>2, <1>3
  <1> HIDE DEF d
  <1>5. q.off = 0 /\ q.data = d /\ ~q.mf
    OBVIOUS
  <1>6. q \in FragRec
    BY <1>3 DEF FragRec
  <1> HIDE DEF q
  <1>7. FragEnd(q) = FragSize
    BY <1>1, <1>3, <1>5 DEF FragEnd
  <1>8. FragGood(q)
    BY <1>1, <1>3, <1>4, <1>5, <1>6, <1>7 DEF FragGood
  <1> QED BY <1>8 DEF q, d

LEMMA FragStep == ASSUME FragInv, [Fragment!Next]_fragVars PROVE FragInv'
  <1>1. ASSUME NEW df \in BOOLEAN, Fragment!Send(df) PROVE FragInv'
    <2>1. net' = {[off |-> 0, mf |-> FALSE, df |-> df, data |-> Fragment!Payload]} /\ got' = got /\ spilt' = spilt
      BY <1>1 DEF Fragment!Send
    <2>2. \A p \in net' : FragGood(p)
      BY <2>1, FragSent
    <2> QED BY <2>1, <2>2 DEF FragInv, Fragment!FragmentsFit
  <1>2. ASSUME NEW p \in net, Fragment!Arrive(p) PROVE FragInv'
    <2>1. Len(got) < MaxGot /\ got' = Append(got, p) /\ net' = net /\ spilt' = spilt
      BY <1>2 DEF Fragment!Arrive
    <2>2. got \in Seq(FragRec) /\ Len(got) \in Nat /\ FragGood(p) /\ p \in FragRec
      BY LenProperties DEF FragInv, FragGood
    <2> DEFINE w == Append(got, p)
    <2>3. /\ w \in Seq(FragRec) /\ Len(w) = Len(got) + 1 /\ w[Len(got) + 1] = p
          /\ \A i \in 1..Len(got) : w[i] = got[i]
      BY <2>2, AppendProperties
    <2> HIDE DEF w
    <2>4. Len(w) <= MaxGot
      BY <2>1, <2>2, <2>3, FragConsts
    <2>5. \A i \in 1..Len(w) : i \in 1..Len(got) \/ i = Len(got) + 1
      BY <2>2, <2>3
    <2>6. \A i \in 1..Len(w) : FragGood(w[i])
      BY <2>2, <2>3, <2>5 DEF FragInv
    <2>7. got' = w
      BY <2>1 DEF w
    <2>8. \A q \in net' : FragGood(q)
      BY <2>1 DEF FragInv
    <2> QED BY <2>1, <2>3, <2>4, <2>6, <2>7, <2>8 DEF FragInv, Fragment!FragmentsFit
  <1>3. ASSUME NEW p \in net, NEW mtu \in FragMtus, Fragment!Forward(p, mtu) PROVE FragInv'
    <2> DEFINE frags == Fragment!FragmentPacket(p, mtu)
               fits == \A q \in frags : Fragment!Fits(q)
    <2>1. /\ got' = got
          /\ fits => net' = net \cup frags /\ spilt' = spilt
          /\ ~fits => spilt' = {mtu} /\ net' = net
      BY <1>3 DEF Fragment!Forward
    <2>2. FragGood(p)
      BY DEF FragInv
    <2>3. \A q \in frags : FragGood(q)
      BY <2>2, FragForwarded
    <2>4. \A q \in net' : FragGood(q)
      BY <2>1, <2>3 DEF FragInv
    <2>5. ~fits => mtu < 20 \/ mtu > 20 + FragCap
      <3>1. mtu \in Nat /\ FragCap \in Nat
        BY FragConsts
      <3>2. 20 <= mtu /\ mtu <= 20 + FragCap => fits
        BY <2>2, FragRoom
      <3> HIDE DEF fits
      <3> QED BY <3>1, <3>2
    <2> HIDE DEF fits
    <2>6. spilt' \subseteq FragMtus /\ \A m \in spilt' : m < 20 \/ m > 20 + FragCap
      <3>1. CASE fits
        BY <2>1, <3>1 DEF FragInv, Fragment!FragmentsFit, Fragment!Header
      <3>2. CASE ~fits
        BY <2>1, <2>5, <3>2
      <3> QED BY <3>1, <3>2
    <2> QED BY <2>1, <2>4, <2>6 DEF FragInv, Fragment!FragmentsFit, Fragment!Header
  <1>4. CASE UNCHANGED fragVars
    BY <1>4 DEF FragInv, fragVars, Fragment!FragmentsFit
  <1> QED BY <1>1, <1>2, <1>3, <1>4 DEF Fragment!Next

-----------------------------------------------------------------------------
\* Intervals above o[i], up to e[i], in the order of where they begin, cover
\* 1..L and do not overlap.
FragCover(o, e, N, L) ==
    /\ o \in [1..N -> Nat] /\ e \in [1..N -> Nat]
    /\ \A i \in 1..N : o[i] < e[i] /\ e[i] <= L
    /\ \A i, j \in 1..N : i < j => o[i] <= o[j]
    /\ \A x \in 1..L : \E k \in 1..N : o[k] < x /\ x <= e[k]
    /\ \A k, m \in 1..N : \A x \in 1..L :
           k # m => ~(o[k] < x /\ x <= e[k] /\ o[m] < x /\ x <= e[m])

\* Then each begins where the one before ends.
LEMMA FragTiles ==
    ASSUME NEW N \in Nat, NEW L \in Nat \ {0}, NEW o, NEW e, FragCover(o, e, N, L)
    PROVE  /\ N \in 1..N /\ 1 \in 1..N
           /\ o[1] = 0 /\ e[N] = L
           /\ \A i \in 1..N : i > 1 => o[i] = e[i - 1]
           /\ \A i \in 1..N : i < N => e[i] < L
  <1>0. /\ \A i \in 1..N : o[i] < e[i] /\ e[i] <= L
        /\ \A i, j \in 1..N : i < j => o[i] <= o[j]
        /\ \A x \in 1..L : \E k \in 1..N : o[k] < x /\ x <= e[k]
        /\ \A k, m \in 1..N : \A x \in 1..L :
               k # m => ~(o[k] < x /\ x <= e[k] /\ o[m] < x /\ x <= e[m])
    BY DEF FragCover
  <1>1. \A i \in 1..N : o[i] \in Nat /\ e[i] \in Nat
    BY DEF FragCover
  <1>2. PICK k1 \in 1..N : o[k1] < 1 /\ 1 <= e[k1]
    BY <1>0
  <1>3. N \in 1..N /\ 1 \in 1..N
    BY <1>2
  <1>4. o[1] = 0
    <2>1. o[1] <= o[k1]
      BY <1>0, <1>1, <1>2, <1>3
    <2> QED BY <1>1, <1>2, <1>3, <2>1
  <1>5. ASSUME NEW i \in 1..N, NEW j \in 1..N, i < j PROVE e[i] <= o[j]
    <2> SUFFICES ASSUME ~(e[i] <= o[j]) PROVE FALSE
      OBVIOUS
    <2> DEFINE x == o[j] + 1
    <2>1. o[i] <= o[j] /\ o[j] < e[j] /\ e[j] <= L /\ i # j
      BY <1>0, <1>5
    <2>0. o[i] \in Nat /\ o[j] \in Nat /\ e[i] \in Nat /\ e[j] \in Nat /\ ~(e[i] <= o[j])
      BY <1>1
    <2>2. x \in 1..L /\ o[i] < x /\ x <= e[i] /\ o[j] < x /\ x <= e[j]
      BY ONLY <2>0, <2>1, L \in Nat
    <2> HIDE DEF x
    <2> QED BY <1>0, <2>1, <2>2
  <1>6. ASSUME NEW i \in 1..N, i > 1 PROVE o[i] = e[i - 1]
    <2>1. i - 1 \in 1..N /\ i - 1 < i
      BY <1>6
    <2>2. e[i - 1] <= o[i]
      BY <1>5, <2>1
    <2> SUFFICES ASSUME e[i - 1] < o[i] PROVE FALSE
      BY <1>1, <2>1, <2>2
    <2>0. o[i] \in Nat /\ e[i] \in Nat /\ e[i - 1] \in Nat /\ o[i] < e[i] /\ e[i] <= L
      BY <1>0, <1>1, <2>1
    <2>3. PICK x : x = e[i - 1] + 1
      OBVIOUS
    <2>4. x \in 1..L /\ x <= o[i] /\ ~(x <= e[i - 1])
      BY ONLY <2>0, <2>3, L \in Nat, e[i - 1] < o[i]
    <2>9. PICK k \in 1..N : o[k] < x /\ x <= e[k]
      BY <1>0, <2>4
    <2>5. CASE k = i - 1
      BY <2>4, <2>9, <2>5
    <2>6. CASE k < i - 1
      <3>1. e[k] <= o[i - 1] /\ o[i - 1] < e[i - 1]
        BY <1>0, <1>5, <2>1, <2>6
      <3>2. e[k] \in Nat /\ o[i - 1] \in Nat
        BY <1>1, <2>1
      <3> QED BY ONLY <2>0, <2>4, <2>9, <3>1, <3>2
    <2>7. CASE k >= i
      <3>1. o[i] <= o[k]
        BY <1>0, <1>1, <2>7
      <3>2. o[k] \in Nat
        BY <1>1
      <3> QED BY ONLY <2>0, <2>4, <2>9, <3>1, <3>2
    <2> QED BY <2>1, <2>5, <2>6, <2>7
  <1>7. e[N] = L
    <2>1. PICK k \in 1..N : o[k] < L /\ L <= e[k]
      BY <1>0
    <2>2. CASE k = N
      <3>1. e[N] <= L /\ L <= e[N]
        BY <1>0, <2>1, <2>2
      <3> QED BY <1>1, <1>3, <3>1
    <2>3. CASE k # N
      <3>1. k < N
        BY <2>3
      <3>2. e[k] <= o[N] /\ o[N] < e[N] /\ e[N] <= L
        BY <1>0, <1>3, <1>5, <3>1
      <3> QED BY <1>1, <1>3, <2>1, <3>2
    <2> QED BY <2>2, <2>3
  <1>8. ASSUME NEW i \in 1..N, i < N PROVE e[i] < L
    <2>1. e[i] <= o[N] /\ o[N] < e[N]
      BY <1>0, <1>3, <1>5, <1>8
    <2> QED BY <1>1, <1>3, <1>7, <2>1
  <1> QED BY <1>3, <1>4, <1>6, <1>7, <1>8

\* Fragments in the order of their offsets.
FragList(s) ==
    /\ s \in Seq(FragRec)
    /\ \A i \in 1..Len(s) : FragGood(s[i])
    /\ \A i, j \in 1..Len(s) : i < j => s[i].off <= s[j].off

\* What nfs_ip_reassemble accepts if there is room for it.
FragAccepted(s) ==
    /\ s # <<>>
    /\ \A i \in DOMAIN s : s[i].off = Fragment!Expected(s, i)
    /\ Fragment!NothingAfterLast(s)

\* An accepted fragment begins where the one before it ends.
LEMMA FragChain ==
    ASSUME NEW s, FragList(s), FragAccepted(s)
    PROVE  /\ Len(s) \in Nat \ {0} /\ s[1].off = 0
           /\ \A i \in 1..Len(s) : i > 1 => 8 * s[i].off = FragEnd(s[i - 1])
           /\ \A i \in 1..Len(s) : i < Len(s) => s[i].mf
  <1>1. s \in Seq(FragRec) /\ s # <<>>
    BY DEF FragList, FragAccepted
  <1>2. Len(s) \in Nat \ {0} /\ DOMAIN s = 1..Len(s)
    BY <1>1, LenProperties, EmptySeq
  <1>3. s[1].off = 0
    <2>1. 1 \in DOMAIN s
      BY <1>2
    <2>2. s[1].off = Fragment!Expected(s, 1)
      BY <2>1 DEF FragAccepted
    <2> QED BY <2>2 DEF Fragment!Expected
  <1>4. \A i \in 1..Len(s) : i < Len(s) => s[i].mf
    <2>1. \A i \in 1..Len(s) : i < Len(s) => i \in 1..(Len(s) - 1)
      BY <1>2
    <2> QED BY <2>1 DEF FragAccepted, Fragment!NothingAfterLast
  <1>5. ASSUME NEW i \in 1..Len(s), i > 1 PROVE 8 * s[i].off = FragEnd(s[i - 1])
    <2>1. i - 1 \in 1..Len(s) /\ i - 1 < Len(s) /\ i # 1 /\ i \in DOMAIN s
      BY <1>2, <1>5
    <2>2. PICK p : p = s[i - 1]
      OBVIOUS
    <2>3. FragGood(p) /\ p.mf
      BY <1>4, <2>1, <2>2 DEF FragList
    <2>4. s[i].off = p.off + (Len(p.data) \div 8)
      <3>1. s[i].off = Fragment!Expected(s, i)
        BY <2>1 DEF FragAccepted
      <3> QED BY <2>1, <2>2, <3>1 DEF Fragment!Expected, Fragment!Unit
    <2>5. PICK len : len = Len(p.data)
      OBVIOUS
    <2>6. len \in Nat /\ p.off \in Nat
      BY <2>3, <2>5, FragFields
    <2>7. len = 8 * (len \div 8)
      BY <2>3, <2>5 DEF FragGood
    <2>8. (len \div 8) \in Int
      BY <2>6
    <2>9. 8 * (p.off + (len \div 8)) = 8 * p.off + len
      BY <2>6, <2>7, <2>8
    <2> QED BY <2>2, <2>4, <2>5, <2>9 DEF FragEnd
  <1> QED BY <1>2, <1>3, <1>4, <1>5

\* The first n bytes of the payload, and the n after the first a.
FragStart(r, n) == r \in Seq(Nat) /\ Len(r) = n /\ \A k \in 1..n : r[k] = k
FragAfter(r, a, n) == r \in Seq(Nat) /\ Len(r) = n /\ \A k \in 1..n : r[k] = a + k

\* Two pieces of the payload that follow each other.
LEMMA FragJoin ==
    ASSUME NEW a \in Nat, NEW b \in Nat, NEW x, NEW y, FragStart(x, a), FragAfter(y, a, b)
    PROVE  FragStart(x \o y, a + b)
  <1> DEFINE z == x \o y
  <1>0. /\ x \in Seq(Nat) /\ y \in Seq(Nat) /\ Len(x) = a /\ Len(y) = b
        /\ \A k \in 1..a : x[k] = k
        /\ \A k \in 1..b : y[k] = a + k
    BY DEF FragStart, FragAfter
  <1>1. /\ z \in Seq(Nat) /\ Len(z) = Len(x) + Len(y)
        /\ \A k \in 1..(Len(x) + Len(y)) : z[k] = IF k <= Len(x) THEN x[k] ELSE y[k - Len(x)]
    BY ONLY <1>0, ConcatProperties
  <1> HIDE DEF z
  <1>2. ASSUME NEW k \in 1..(a + b) PROVE z[k] = k
    <2>1. CASE k <= a
      <3>1. k \in 1..a
        BY <2>1
      <3>2. z[k] = x[k]
        BY <1>0, <1>1, <2>1
      <3> QED BY <1>0, <3>1, <3>2
    <2>2. CASE ~(k <= a)
      <3>1. k - a \in 1..b /\ a + (k - a) = k
        BY <2>2
      <3>2. z[k] = y[k - a]
        BY <1>0, <1>1, <2>2
      <3>3. y[k - a] = a + (k - a)
        BY <1>0, <3>1
      <3> QED BY <3>1, <3>2, <3>3
    <2> QED BY <2>1, <2>2
  <1>3. z \in Seq(Nat) /\ Len(z) = a + b
    BY <1>0, <1>1
  <1> QED BY <1>2, <1>3 DEF z, FragStart

\* What is put together is the payload up to where the last fragment ends.
LEMMA FragAssembled ==
    ASSUME NEW s, FragList(s), FragAccepted(s)
    PROVE  FragStart(Fragment!Joined(s), FragEnd(s[Len(s)]))
  <1> DEFINE N == Len(s)
             End(n) == IF n = 0 THEN 0 ELSE FragEnd(s[n])
             S == Seq(Nat)
             joined[i \in 0..Len(s)] == IF i = 0 THEN <<>> ELSE joined[i - 1] \o s[i].data
             Is(h) == h = [i \in 0..Len(s) |-> IF i = 0 THEN <<>> ELSE h[i - 1] \o s[i].data]
             F == [n \in 1..N |-> [x \in S |-> x \o s[n].data]]
  <1>1. /\ N \in Nat \ {0} /\ s[1].off = 0
        /\ \A i \in 1..N : i > 1 => 8 * s[i].off = FragEnd(s[i - 1])
    BY FragChain
  <1>2. \A n \in 1..N : /\ FragGood(s[n]) /\ s[n].data \in Seq(Nat) /\ s[n].off \in Nat
                        /\ Len(s[n].data) \in Nat
    BY FragFields DEF FragList
  <1>3. <<>> \in S
    BY EmptySeq
  <1>4. \A n \in 1..N : F[n] \in [S -> S]
    <2> SUFFICES ASSUME NEW n \in 1..N PROVE F[n] \in [S -> S]
      OBVIOUS
    <2>1. \A x \in S : x \o s[n].data \in S
      BY <1>2, ConcatProperties
    <2> QED BY <2>1
  <1>5. \A n \in 1..N : \A x \in S : F[n][x] = x \o s[n].data
    OBVIOUS
  <1> HIDE DEF F
  <1>6. PICK g : IsLoop(g, S, F, <<>>, N)
    BY <1>1, <1>3, <1>4, LoopExists
  <1>7. Is(g)
    <2>1. g \in [0..N -> S] /\ g[0] = <<>> /\ \A n \in 1..N : g[n] = F[n][g[n - 1]]
      BY <1>6 DEF IsLoop
    <2>2. ASSUME NEW i \in 0..N PROVE g[i] = IF i = 0 THEN <<>> ELSE g[i - 1] \o s[i].data
      <3>1. CASE i = 0
        BY <2>1, <3>1
      <3>2. CASE i # 0
        <4>1. i \in 1..N /\ i - 1 \in 0..N
          BY <1>1, <3>2
        <4>2. g[i - 1] \in S /\ g[i] = F[i][g[i - 1]]
          BY <2>1, <4>1
        <4> QED BY <1>5, <3>2, <4>1, <4>2
      <3> QED BY <3>1, <3>2
    <2> QED BY <2>1, <2>2
  <1>8. joined = CHOOSE h : Is(h)
    OBVIOUS
  <1> HIDE DEF joined, Is
  <1>9. Is(joined)
    BY <1>7, <1>8
  <1>10. /\ joined[0] = <<>>
         /\ \A n \in 1..N : joined[n] = joined[n - 1] \o s[n].data
    <2>1. joined = [i \in 0..Len(s) |-> IF i = 0 THEN <<>> ELSE joined[i - 1] \o s[i].data]
      BY <1>9 DEF Is
    <2>2. 0 \in 0..Len(s) /\ \A n \in 1..N : n \in 0..Len(s) /\ n # 0
      BY <1>1
    <2> QED BY <2>1, <2>2
  <1> DEFINE J == [n \in 0..N |-> {r \in S : FragStart(r, End(n))}]
  <1>11. joined[0] \in J[0]
    <2>1. 0 \in 0..N /\ End(0) = 0 /\ 1..0 = {}
      BY <1>1
    <2>2. FragStart(<<>>, 0)
      BY <1>3, <2>1, EmptySeq DEF FragStart
    <2> QED BY <1>3, <1>10, <2>1, <2>2
  <1>12. ASSUME NEW n \in 1..N, joined[n - 1] \in J[n - 1] PROVE joined[n] \in J[n]
    <2>1. n - 1 \in 0..N /\ n \in 0..N /\ n # 0
      BY <1>1
    <2>2. FragStart(joined[n - 1], End(n - 1))
      BY <1>12, <2>1
    <2>3. PICK p : p = s[n]
      OBVIOUS
    <2>4. FragGood(p) /\ p.data \in Seq(Nat) /\ p.off \in Nat /\ Len(p.data) \in Nat
      BY <1>2, <2>3
    <2>5. 8 * p.off = End(n - 1)
      <3>1. CASE n = 1
        BY <1>1, <2>3, <3>1
      <3>2. CASE n # 1
        <4>1. n > 1 /\ n - 1 # 0
          BY <3>2
        <4>2. 8 * s[n].off = FragEnd(s[n - 1])
          BY <1>1, <4>1
        <4> QED BY <2>3, <4>1, <4>2
      <3> QED BY <3>1, <3>2
    <2>6. End(n) = End(n - 1) + Len(p.data)
      BY <2>1, <2>3, <2>5 DEF FragEnd
    <2>7. PICK a : a = End(n - 1)
      OBVIOUS
    <2>8. PICK b : b = Len(p.data)
      OBVIOUS
    <2>9. PICK x : x = joined[n - 1]
      OBVIOUS
    <2>10. PICK y : y = p.data
      OBVIOUS
    <2>11. a \in Nat /\ b \in Nat
      BY <2>4, <2>5, <2>7, <2>8
    <2>12. FragStart(x, a)
      BY <2>2, <2>7, <2>9
    <2>13. FragAfter(y, a, b)
      <3>1. \A k \in 1..Len(p.data) : p.data[k] = 8 * p.off + k
        BY <2>4, FragFields
      <3>2. \A k \in 1..b : y[k] = a + k
        BY <2>5, <2>7, <2>8, <2>10, <3>1
      <3>3. y \in Seq(Nat) /\ Len(y) = b
        BY <2>4, <2>8, <2>10
      <3> QED BY <3>2, <3>3 DEF FragAfter
    <2>15. FragStart(x \o y, a + b)
      BY ONLY <2>11, <2>12, <2>13, FragJoin
    <2>16. joined[n] = x \o y /\ End(n) = a + b
      BY <1>10, <2>3, <2>6, <2>7, <2>8, <2>9, <2>10
    <2>17. FragStart(joined[n], End(n))
      BY <2>15, <2>16
    <2> HIDE DEF End
    <2> QED BY <2>1, <2>17 DEF FragStart
  <1>13. \A n \in 0..N : joined[n] \in J[n]
    <2> HIDE DEF J
    <2> QED BY <1>1, <1>11, <1>12, LoopStays
  <1>14. FragStart(joined[N], FragEnd(s[N]))
    <2>1. N \in 0..N /\ N # 0
      BY <1>1
    <2> QED BY <1>13, <2>1
  <1>15. Fragment!Joined(s) = joined[Len(s)]
    BY DEF Fragment!Joined, joined
  <1> QED BY <1>14, <1>15

\* A sorted arrangement of the fragments received.
FragArranged(s, f) ==
    /\ FragList(s) /\ Len(s) = Len(got)
    /\ f \in [1..Len(got) -> 1..Len(got)]
    /\ \A i \in 1..Len(got) : s[i] = got[f[i]]
    /\ \A i, j \in 1..Len(got) : f[i] = f[j] => i = j
    /\ \A k \in 1..Len(got) : \E i \in 1..Len(got) : f[i] = k

LEMMA FragArrangement ==
    ASSUME FragInv, NEW s \in Fragment!Sorted(got)
    PROVE  \E f : FragArranged(s, f)
  <1>1. got \in Seq(FragRec) /\ Len(got) \in 0..MaxGot /\ DOMAIN got = 1..Len(got)
    <2>1. got \in Seq(FragRec) /\ Len(got) <= MaxGot
      BY DEF FragInv
    <2>2. Len(got) \in Nat /\ DOMAIN got = 1..Len(got)
      BY <2>1, LenProperties
    <2> QED BY <2>1, <2>2, FragConsts
  <1>2. PICK N : N = Len(got)
    OBVIOUS
  <1>3. Fragment!Orders[N] = Fragment!Bijection(1..N, 1..N)
    BY <1>1, <1>2 DEF Fragment!Orders
  <1>4. PICK f \in Fragment!Bijection(1..N, 1..N) :
            s = [i \in 1..N |-> got[f[i]]] /\ \A i, j \in DOMAIN s : i < j => s[i].off <= s[j].off
    BY <1>1, <1>2, <1>3 DEF Fragment!Sorted
  <1>5. /\ f \in [1..N -> 1..N]
        /\ \A i, j \in 1..N : f[i] = f[j] => i = j
        /\ \A k \in 1..N : \E i \in 1..N : f[i] = k
    BY Zenon DEF Fragment!Bijection, Fragment!Injection, Fragment!Surjection, Fragment!IsInjective
  <1>6. N \in Nat /\ \A i \in 1..N : s[i] = got[f[i]] /\ got[f[i]] \in FragRec
    <2>1. \A k \in 1..N : got[k] \in FragRec
      BY <1>1, <1>2, ElementOfSeq
    <2> QED BY <1>1, <1>2, <1>4, <1>5, <2>1
  <1>7. s \in Seq(FragRec) /\ Len(s) = N /\ DOMAIN s = 1..N
    <2>1. s = [i \in 1..N |-> got[f[i]]]
      BY <1>4
    <2>2. s \in [1..N -> FragRec]
      BY <1>6, <2>1
    <2> QED BY <1>6, <2>2
  <1>8. ASSUME NEW i \in 1..N PROVE FragGood(s[i])
    <2>1. f[i] \in 1..Len(got) /\ s[i] = got[f[i]]
      BY <1>2, <1>5, <1>6
    <2>2. FragGood(got[f[i]])
      BY <2>1 DEF FragInv
    <2> QED BY <2>1, <2>2
  <1>9. FragList(s)
    BY <1>4, <1>7, <1>8 DEF FragList
  <1>10. FragArranged(s, f)
    BY <1>2, <1>5, <1>6, <1>7, <1>9 DEF FragArranged
  <1> QED BY <1>10

\* A full set of fragments is accepted, up to the end of the payload.
LEMMA FragTiling ==
    ASSUME FragInv, NEW s, NEW f, FragArranged(s, f), Fragment!Tiling
    PROVE  FragAccepted(s) /\ FragEnd(s[Len(s)]) = FragSize
  <1> DEFINE N == Len(s)
             o == [i \in 1..N |-> 8 * s[i].off]
             e == [i \in 1..N |-> FragEnd(s[i])]
  <1>1. s \in Seq(FragRec) /\ N \in Nat /\ N = Len(got) /\ DOMAIN s = 1..N /\ DOMAIN got = 1..N
    <2>1. s \in Seq(FragRec) /\ got \in Seq(FragRec) /\ Len(s) = Len(got)
      BY DEF FragInv, FragArranged, FragList
    <2> QED BY <2>1, LenProperties
  <1>2. ASSUME NEW i \in 1..N
        PROVE  /\ FragGood(s[i]) /\ o[i] \in Nat /\ e[i] \in Nat /\ o[i] < e[i] /\ e[i] <= FragSize
               /\ o[i] = 8 * s[i].off /\ e[i] = FragEnd(s[i]) /\ s[i].off \in Nat
    <2>1. FragGood(s[i])
      BY DEF FragArranged, FragList
    <2>2. PICK p : p = s[i]
      OBVIOUS
    <2>3. p.off \in Nat /\ Len(p.data) \in Nat \ {0} /\ FragEnd(p) = 8 * p.off + Len(p.data)
      BY <2>1, <2>2, FragFields DEF FragEnd
    <2>4. FragEnd(p) <= FragSize
      BY <2>1, <2>2 DEF FragGood
    <2>5. o[i] = 8 * p.off /\ e[i] = FragEnd(p)
      BY <2>2
    <2> HIDE DEF o, e
    <2>6. o[i] \in Nat /\ e[i] \in Nat /\ o[i] < e[i]
      BY <2>3, <2>5, SMTT(60)
    <2> QED BY <2>1, <2>2, <2>3, <2>4, <2>5, <2>6
  \* Byte x is in a fragment when it is between the ends of the fragment.
  <1>3. ASSUME NEW i \in 1..N, NEW x \in Nat
        PROVE  x \in Fragment!Range(s[i].data) <=> (o[i] < x /\ x <= e[i])
    <2>1. PICK p : p = s[i]
      OBVIOUS
    <2>2. /\ p.off \in Nat /\ Len(p.data) \in Nat /\ DOMAIN p.data = 1..Len(p.data)
          /\ \A k \in 1..Len(p.data) : p.data[k] = 8 * p.off + k
      BY <1>2, <2>1, FragFields
    <2>3. x \in Fragment!Range(p.data) <=> \E k \in 1..Len(p.data) : x = p.data[k]
      BY <2>2, Zenon DEF Fragment!Range
    <2>4. PICK a : a = 8 * p.off
      OBVIOUS
    <2>5. PICK n : n = Len(p.data)
      OBVIOUS
    <2>6. a \in Nat /\ n \in Nat
      BY <2>2, <2>4, <2>5
    <2>7. (\E k \in 1..n : x = a + k) <=> (a < x /\ x <= a + n)
      <3>1. ASSUME a < x, x <= a + n PROVE \E k \in 1..n : x = a + k
        <4>1. x - a \in 1..n /\ x = a + (x - a)
          BY <2>6, <3>1
        <4> QED BY <4>1
      <3>2. ASSUME NEW k \in 1..n, x = a + k PROVE a < x /\ x <= a + n
        BY <2>6, <3>2
      <3> QED BY <3>1, <3>2
    <2>8. (\E k \in 1..Len(p.data) : x = p.data[k]) <=> (\E k \in 1..n : x = a + k)
      BY <2>2, <2>4, <2>5
    <2>9. o[i] = a /\ e[i] = a + n
      BY <2>1, <2>4, <2>5 DEF FragEnd
    <2> QED BY <2>1, <2>3, <2>7, <2>8, <2>9
  <1>4. o \in [1..N -> Nat] /\ e \in [1..N -> Nat]
    BY <1>2
  <1> HIDE DEF o, e, N
  <1>5. \A i, j \in 1..N : i < j => o[i] <= o[j]
    <2>1. ASSUME NEW i \in 1..N, NEW j \in 1..N, i < j PROVE o[i] <= o[j]
      <3>1. s[i].off <= s[j].off
        BY <2>1 DEF FragArranged, FragList, N
      <3> QED BY <1>2, <3>1
    <2> QED BY <2>1
  <1>6. /\ f \in [1..N -> 1..N]
        /\ \A i \in 1..N : s[i] = got[f[i]]
        /\ \A i, j \in 1..N : f[i] = f[j] => i = j
        /\ \A k \in 1..N : \E i \in 1..N : f[i] = k
    BY <1>1 DEF FragArranged
  <1>7. ASSUME NEW x \in 1..FragSize PROVE \E k \in 1..N : o[k] < x /\ x <= e[k]
    <2>1. PICK m \in 1..N : x \in Fragment!Range(got[m].data)
      BY <1>1 DEF Fragment!Tiling
    <2>2. PICK k \in 1..N : f[k] = m
      BY <1>6
    <2>3. x \in Fragment!Range(s[k].data) /\ x \in Nat
      BY <1>6, <2>1, <2>2
    <2> QED BY <1>3, <2>3
  <1>8. ASSUME NEW k \in 1..N, NEW m \in 1..N, NEW x \in 1..FragSize, k # m
        PROVE  ~(o[k] < x /\ x <= e[k] /\ o[m] < x /\ x <= e[m])
    <2>1. f[k] # f[m] /\ f[k] \in 1..N /\ f[m] \in 1..N
      BY <1>6, <1>8
    <2>2. Fragment!Range(got[f[k]].data) \cap Fragment!Range(got[f[m]].data) = {}
      BY <1>1, <2>1 DEF Fragment!Tiling
    <2>3. s[k] = got[f[k]] /\ s[m] = got[f[m]]
      BY <1>6
    <2>4. ~(x \in Fragment!Range(s[k].data) /\ x \in Fragment!Range(s[m].data))
      BY <2>2, <2>3, Zenon
    <2>5. x \in Nat
      OBVIOUS
    <2> QED BY <1>3, <2>4, <2>5
  <1>9. FragSize \in Nat \ {0}
    BY FragConsts
  <1>10. /\ N \in 1..N /\ 1 \in 1..N
         /\ o[1] = 0 /\ e[N] = FragSize
         /\ \A i \in 1..N : i > 1 => o[i] = e[i - 1]
         /\ \A i \in 1..N : i < N => e[i] < FragSize
    <2>1. \A i \in 1..N : o[i] < e[i] /\ e[i] <= FragSize
      BY <1>2
    <2>2. FragCover(o, e, N, FragSize)
      BY <1>4, <1>5, <1>7, <1>8, <2>1 DEF FragCover
    <2> QED BY <1>1, <1>9, <2>2, FragTiles
  <1>11. FragEnd(s[N]) = FragSize
    BY <1>2, <1>10
  <1>12. \A i \in 1..N : i < N => s[i].mf
    <2>1. ASSUME NEW i \in 1..N, i < N, ~s[i].mf PROVE FALSE
      <3>1. FragEnd(s[i]) = FragSize
        BY <1>2, <2>1 DEF FragGood
      <3>2. e[i] < FragSize /\ e[i] = FragEnd(s[i])
        BY <1>2, <1>10, <2>1
      <3> QED BY <1>9, <3>1, <3>2
    <2> QED BY <2>1
  <1>13. ASSUME NEW i \in 1..N PROVE s[i].off = Fragment!Expected(s, i)
    <2>1. CASE i = 1
      <3>1. 8 * s[i].off = 0 /\ s[i].off \in Nat
        BY <1>2, <1>10, <2>1
      <3>2. s[i].off = 0
        BY <3>1
      <3> QED BY <2>1, <3>2 DEF Fragment!Expected
    <2>2. CASE i # 1
      <3>1. i > 1 /\ i - 1 \in 1..N /\ i - 1 < N
        BY <1>1, <2>2 DEF N
      <3>2. PICK p : p = s[i - 1]
        OBVIOUS
      <3>3. FragGood(p) /\ p.mf
        BY <1>2, <1>12, <3>1, <3>2
      <3>4. PICK len : len = Len(p.data)
        OBVIOUS
      <3>5. len = 8 * (len \div 8)
        BY <3>3, <3>4 DEF FragGood
      <3>6. len \in Nat /\ p.off \in Nat
        BY <3>3, <3>4, FragFields
      <3>7. 8 * s[i].off = 8 * p.off + len /\ s[i].off \in Nat
        <4>1. 8 * s[i].off = o[i] /\ o[i] = e[i - 1] /\ e[i - 1] = FragEnd(p) /\ s[i].off \in Nat
          BY <1>2, <1>10, <3>1, <3>2
        <4> QED BY <3>4, <4>1 DEF FragEnd
      <3>8. PICK z : z = len \div 8
        OBVIOUS
      <3>9. z \in Int /\ len = 8 * z
        BY <3>5, <3>6, <3>8
      <3>10. s[i].off = p.off + z
        BY <3>6, <3>7, <3>9
      <3> QED BY <2>2, <3>2, <3>4, <3>8, <3>10 DEF Fragment!Expected, Fragment!Unit
    <2> QED BY <2>1, <2>2
  <1>14. Fragment!NothingAfterLast(s)
    <2>1. \A i \in 1..(Len(s) - 1) : i \in 1..N /\ i < N
      BY <1>1 DEF N
    <2> QED BY <1>12, <2>1 DEF Fragment!NothingAfterLast
  <1>15. s # <<>>
    <2>1. N # 0
      BY <1>10
    <2> QED BY <2>1, EmptySeq DEF N
  <1>16. FragAccepted(s)
    BY <1>1, <1>13, <1>14, <1>15 DEF FragAccepted
  <1> QED BY <1>11, <1>16 DEF N

LEMMA FragRefused ==
    ASSUME NEW s, NEW z
    PROVE  /\ Fragment!Reassemble(s, z) # Fragment!Refused =>
                  /\ FragAccepted(s) /\ 20 + Len(Fragment!Joined(s)) <= z
                  /\ Fragment!Reassemble(s, z) = Fragment!Joined(s)
           /\ FragAccepted(s) /\ 20 + Len(Fragment!Joined(s)) <= z =>
                  Fragment!Reassemble(s, z) = Fragment!Joined(s)
  BY Zenon DEF Fragment!Reassemble, FragAccepted, Fragment!Header

LEMMA FragPayload == FragStart(Fragment!Payload, FragSize)
  <1>1. FragSize \in Nat
    BY FragConsts
  <1>2. Fragment!Payload = [i \in 1..FragSize |-> i]
    BY DEF Fragment!Payload
  <1>3. Fragment!Payload \in Seq(Nat) /\ Len(Fragment!Payload) = FragSize
    BY <1>1, <1>2
  <1> QED BY <1>2, <1>3 DEF FragStart

\* Two beginnings of the payload of the same length are equal, and a shorter
\* one is a beginning of the longer.
LEMMA FragStarts ==
    ASSUME NEW m \in Nat, NEW n \in Nat, m <= n, NEW r, NEW q, FragStart(r, m), FragStart(q, n)
    PROVE  Fragment!IsPrefix(r, q) /\ (m = n => r = q)
  <1>1. /\ r \in Seq(Nat) /\ Len(r) = m /\ \A k \in 1..m : r[k] = k
        /\ q \in Seq(Nat) /\ Len(q) = n /\ \A k \in 1..n : q[k] = k
    BY DEF FragStart
  <1>2. DOMAIN r = 1..m /\ DOMAIN q = 1..n
    BY <1>1, LenProperties
  <1>3. m = n => r = q
    BY <1>1, SeqEqual
  <1>4. /\ SubSeq(r, 1, m) \in Seq(Nat) /\ Len(SubSeq(r, 1, m)) = m
        /\ \A k \in 1..m : SubSeq(r, 1, m)[k] = k
    <2>1. 1 \in 1..(Len(r) + 1) /\ m \in (1 - 1)..Len(r) /\ m - 1 + 1 = m
      BY <1>1
    <2>2. /\ SubSeq(r, 1, m) \in Seq(Nat) /\ Len(SubSeq(r, 1, m)) = m - 1 + 1
          /\ \A k \in 1..(m - 1 + 1) : SubSeq(r, 1, m)[k] = r[1 + k - 1]
      BY ONLY <1>1, <2>1, SubSeqProperties
    <2>3. \A k \in 1..m : 1 + k - 1 = k
      OBVIOUS
    <2> QED BY <1>1, <2>1, <2>2, <2>3
  <1>5. /\ SubSeq(q, 1, m) \in Seq(Nat) /\ Len(SubSeq(q, 1, m)) = m
        /\ \A k \in 1..m : SubSeq(q, 1, m)[k] = k
    <2>1. 1 \in 1..(Len(q) + 1) /\ m \in (1 - 1)..Len(q) /\ m - 1 + 1 = m
      BY <1>1
    <2>2. /\ SubSeq(q, 1, m) \in Seq(Nat) /\ Len(SubSeq(q, 1, m)) = m - 1 + 1
          /\ \A k \in 1..(m - 1 + 1) : SubSeq(q, 1, m)[k] = q[1 + k - 1]
      BY ONLY <1>1, <2>1, SubSeqProperties
    <2>3. \A k \in 1..m : 1 + k - 1 = k /\ k \in 1..n
      OBVIOUS
    <2> QED BY <1>1, <2>1, <2>2, <2>3
  <1>6. SubSeq(r, 1, m) = SubSeq(q, 1, m)
    BY ONLY <1>4, <1>5, SeqEqual
  <1>7. Fragment!IsPrefix(r, q)
    BY <1>1, <1>6 DEF Fragment!IsPrefix
  <1> QED BY <1>3, <1>7

\* A fragment is a packet.
LEMMA FragPacket == ASSUME NEW p, FragGood(p) PROVE p \in Fragment!Packet
  <1>1. /\ p \in FragRec /\ p.off \in Nat /\ Len(p.data) \in Nat \ {0} /\ p.data \in Seq(Nat)
        /\ \A k \in 1..Len(p.data) : p.data[k] = 8 * p.off + k
    BY FragFields DEF FragGood
  <1>2. PICK len : len = Len(p.data)
    OBVIOUS
  <1>3. PICK off : off = p.off
    OBVIOUS
  <1>4. PICK d : d = p.data
    OBVIOUS
  <1>5. FragEnd(p) <= FragSize
    BY DEF FragGood
  <1>6. 8 * off + len <= FragSize
    BY <1>2, <1>3, <1>5 DEF FragEnd
  <1>7. FragSize \in Nat \ {0}
    BY FragConsts
  <1>8. off \in Nat /\ len \in Nat \ {0}
    BY <1>1, <1>2, <1>3
  <1>9. off \in 0..(FragSize \div 8)
    BY ONLY <1>6, <1>7, <1>8
  <1> DEFINE i == 8 * off + 1
             j == 8 * off + len
             S == SubSeq(Fragment!Payload, i, j)
  <1>10. i \in 1..FragSize /\ j \in 1..FragSize /\ i \in 1..(FragSize + 1) /\ j \in (i - 1)..FragSize
         /\ j - i + 1 = len
    BY ONLY <1>6, <1>7, <1>8
  <1>11. /\ Fragment!Payload \in Seq(Nat) /\ Len(Fragment!Payload) = FragSize
         /\ \A k \in 1..FragSize : Fragment!Payload[k] = k
    BY FragPayload DEF FragStart
  <1> HIDE DEF i, j
  <1>12. /\ S \in Seq(Nat) /\ Len(S) = j - i + 1
         /\ \A k \in 1..(j - i + 1) : S[k] = Fragment!Payload[i + k - 1]
    BY ONLY <1>10, <1>11, SubSeqProperties
  <1> HIDE DEF S
  <1>13. \A k \in 1..len : S[k] = 8 * off + k
    <2> SUFFICES ASSUME NEW k \in 1..len PROVE S[k] = 8 * off + k
      OBVIOUS
    <2>1. i + k - 1 = 8 * off + k /\ 8 * off + k \in 1..FragSize
      BY ONLY <1>6, <1>7, <1>8, k \in 1..len DEF i
    <2> QED BY <1>10, <1>11, <1>12, <2>1
  <1>14. d = S
    <2>1. d \in Seq(Nat) /\ Len(d) = len /\ \A k \in 1..len : d[k] = 8 * off + k
      BY <1>1, <1>2, <1>3, <1>4
    <2>2. S \in Seq(Nat) /\ Len(S) = len
      BY <1>10, <1>12
    <2> QED BY ONLY <1>13, <2>1, <2>2, SeqEqual
  <1>15. d \in {SubSeq(Fragment!Payload, x, y) : x \in 1..FragSize, y \in 1..FragSize}
    BY <1>10, <1>14 DEF S
  <1>16. p = [off |-> off, mf |-> p.mf, df |-> p.df, data |-> d] /\ p.mf \in BOOLEAN /\ p.df \in BOOLEAN
    BY <1>1, <1>3, <1>4, Zenon DEF FragRec
  <1> QED BY <1>9, <1>15, <1>16 DEF Fragment!Packet, Fragment!Unit

LEMMA FragConsequences ==
    ASSUME FragInv
    PROVE  Fragment!TypeOK /\ Fragment!ReassemblyIsFaithful /\ Fragment!FragmentsFit
  <1>1. Fragment!TypeOK
    <2>1. net \subseteq Fragment!Packet
      BY FragPacket DEF FragInv
    <2>2. got \in Seq(FragRec) /\ Len(got) <= MaxGot /\ \A i \in 1..Len(got) : got[i] \in Fragment!Packet
      BY FragPacket DEF FragInv
    <2>3. got \in [1..Len(got) -> FragRec] /\ Len(got) \in Nat
      BY <2>2, LenProperties
    <2>4. got \in [1..Len(got) -> Fragment!Packet]
      BY <2>2, <2>3
    <2>5. got \in Seq(Fragment!Packet)
      BY <2>3, <2>4
    <2> QED BY <2>1, <2>2, <2>5 DEF Fragment!TypeOK, FragInv
  <1>2. ASSUME NEW s \in Fragment!Sorted(got), NEW z \in FragOutSizes
        PROVE  LET r == Fragment!Reassemble(s, z)
               IN /\ r # Fragment!Refused =>
                         Fragment!IsPrefix(r, Fragment!Payload) /\ Fragment!Header + Len(r) <= z
                  /\ r # Fragment!Refused /\ (\E k \in DOMAIN got : ~got[k].mf) => r = Fragment!Payload
                  /\ Fragment!Tiling /\ Fragment!Header + FragSize <= z => r = Fragment!Payload
    <2> DEFINE r == Fragment!Reassemble(s, z)
               j == Fragment!Joined(s)
    <2>1. PICK f : FragArranged(s, f)
      BY FragArrangement
    <2>2. FragList(s) /\ Len(s) = Len(got)
      BY <2>1 DEF FragArranged
    <2>3. PICK N : N = Len(s)
      OBVIOUS
    <2>4. FragStart(Fragment!Payload, FragSize) /\ FragSize \in Nat
      BY FragPayload, FragConsts
    <2>5. ASSUME FragAccepted(s)
          PROVE  /\ FragEnd(s[N]) \in Nat /\ FragEnd(s[N]) <= FragSize /\ FragStart(j, FragEnd(s[N]))
                 /\ N \in 1..N /\ N \in Nat
      <3>1. N \in Nat \ {0}
        BY <2>2, <2>3, <2>5, FragChain
      <3>2. FragGood(s[N])
        BY <2>2, <2>3, <3>1 DEF FragList
      <3>3. FragEnd(s[N]) \in Nat
        BY <3>2, FragFields
      <3>4. FragEnd(s[N]) <= FragSize
        BY <3>2 DEF FragGood
      <3>5. FragStart(j, FragEnd(s[N]))
        BY <2>2, <2>3, <2>5, FragAssembled
      <3> QED BY <3>1, <3>3, <3>4, <3>5
    <2>6. ASSUME r # Fragment!Refused PROVE FragAccepted(s) /\ 20 + Len(j) <= z /\ r = j
      BY <2>6, FragRefused
    <2>7. ASSUME FragAccepted(s), FragEnd(s[N]) = FragSize PROVE j = Fragment!Payload
      <3>1. FragStart(j, FragSize)
        BY <2>5, <2>7
      <3> HIDE DEF j
      <3> QED BY <2>4, <3>1, FragStarts
    <2>8. ASSUME r # Fragment!Refused
          PROVE  Fragment!IsPrefix(r, Fragment!Payload) /\ Fragment!Header + Len(r) <= z
      <3>1. FragAccepted(s) /\ r = j /\ 20 + Len(r) <= z
        BY <2>6, <2>8
      <3>2. FragEnd(s[N]) \in Nat /\ FragEnd(s[N]) <= FragSize /\ FragStart(r, FragEnd(s[N]))
        BY <2>5, <3>1
      <3> HIDE DEF r, j
      <3> QED BY <2>4, <3>1, <3>2, FragStarts DEF Fragment!Header
    <2>9. ASSUME r # Fragment!Refused, NEW k \in DOMAIN got, ~got[k].mf PROVE r = Fragment!Payload
      <3>1. FragAccepted(s)
        BY <2>6, <2>9
      <3>0. r = j
        BY <2>6, <2>9
      <3>2. /\ \A i \in 1..Len(got) : s[i] = got[f[i]]
            /\ \A m \in 1..Len(got) : \E i \in 1..Len(got) : f[i] = m
        BY <2>1 DEF FragArranged
      <3>3. k \in 1..Len(got)
        <4>1. got \in Seq(FragRec)
          BY DEF FragInv
        <4> QED BY <4>1, LenProperties
      <3>4. PICK i \in 1..Len(got) : f[i] = k
        BY <3>2, <3>3
      <3>5. ~s[i].mf
        BY <2>9, <3>2, <3>4
      <3>6. ~(i < Len(s))
        BY <2>2, <3>1, <3>4, <3>5, FragChain
      <3>7. i = N
        <4>1. Len(got) = N /\ N \in Nat
          BY <2>2, <2>3, <2>5, <3>1
        <4> QED BY <2>3, <3>4, <3>6, <4>1
      <3>8. FragEnd(s[N]) = FragSize
        <4>1. FragGood(s[i])
          BY <2>2, <3>4 DEF FragList
        <4> QED BY <3>5, <3>7, <4>1 DEF FragGood
      <3> QED BY <2>7, <3>0, <3>1, <3>8
    <2>10. ASSUME Fragment!Tiling, Fragment!Header + FragSize <= z PROVE r = Fragment!Payload
      <3>1. FragAccepted(s) /\ FragEnd(s[N]) = FragSize
        BY <2>1, <2>3, <2>10, FragTiling
      <3>2. j = Fragment!Payload /\ Len(j) = FragSize
        BY <2>4, <2>7, <3>1 DEF FragStart
      <3>3. 20 + Len(j) <= z
        BY <2>10, <3>2 DEF Fragment!Header
      <3> QED BY <3>1, <3>2, <3>3, FragRefused
    <2> HIDE DEF r
    <2>11. /\ r # Fragment!Refused =>
                  Fragment!IsPrefix(r, Fragment!Payload) /\ Fragment!Header + Len(r) <= z
           /\ r # Fragment!Refused /\ (\E k \in DOMAIN got : ~got[k].mf) => r = Fragment!Payload
           /\ Fragment!Tiling /\ Fragment!Header + FragSize <= z => r = Fragment!Payload
      BY <2>8, <2>9, <2>10, Zenon
    <2> QED BY <2>11, Zenon DEF r
  <1>3. Fragment!ReassemblyIsFaithful
    BY <1>2, Zenon DEF Fragment!ReassemblyIsFaithful
  <1> QED BY <1>1, <1>3 DEF FragInv

-----------------------------------------------------------------------------
\* The translation table.  Every entry is one of the mappings made, and these
\* were given the ports from port_start on, one after the other.
NatPort == 0..(NatPorts - 1)
NatMapping == [in : Inside, rem : Remote, port : NatPort]
NatEntry == [in : Inside, rem : Remote, port : NatPort, last_used : 0..NatNow, born : 1..NatMade]

NatMadeAs(e, t) == e.born \in 1..Len(t) /\ t[e.born] = [in |-> e.in, rem |-> e.rem, port |-> e.port]

NatArrays(t) ==
    {s \in Seq(NatEntry) :
        /\ Len(s) <= NatCapacity
        /\ \A i \in 1..Len(s) : NatMadeAs(s[i], t)
        /\ \A i, j \in 1..Len(s) : s[j].in = s[i].in /\ s[j].rem = s[i].rem => j = i}

NatInv ==
    /\ nat_entries \in NatArrays(made)
    /\ now \in 0..NatNow
    /\ made \in Seq(NatMapping) /\ Len(made) <= NatMade
    /\ \A k \in 1..Len(made) : made[k].port = (PortStart + (k - 1)) % NatPorts
    /\ next_port = (PortStart + Len(made)) % NatPorts

LEMMA NatConstants ==
    /\ NatPorts \in Nat \ {0} /\ NatCapacity \in Nat /\ PortStart \in NatPort
    /\ Timeout \in Nat \ {0} /\ NatMade \in Nat /\ NatNow \in Nat
  BY TableSuiteConstants DEF NatTable!NatTableConstants, NatPort

LEMMA NatPortOf == ASSUME NEW n \in Nat PROVE (PortStart + n) % NatPorts \in NatPort
  <1>1. PortStart + n \in Int /\ NatPorts \in Nat \ {0}
    BY NatConstants DEF NatPort
  <1> QED BY <1>1, DivMod DEF NatPort

\* The port after the port of n is the port of n + 1.
LEMMA NatNextPort ==
    ASSUME NEW n \in Nat
    PROVE  (((PortStart + n) % NatPorts) + 1) % NatPorts = (PortStart + (n + 1)) % NatPorts
  <1> DEFINE m == NatPorts
             x == PortStart + n
             r == x % m
  <1>1. m \in Nat \ {0} /\ x \in Int
    BY NatConstants DEF NatPort
  <1>2. (x \div m) \in Int /\ r \in 0..(m - 1) /\ x = (x \div m) * m + r
    BY ONLY <1>1, DivMod
  <1>3. PICK q \in Int : x = q * m + r
    BY <1>2
  <1>4. PortStart + (n + 1) = x + 1
    BY NatConstants DEF NatPort
  <1> HIDE DEF x, r, m
  <1>5. CASE r < m - 1
    <2>1. r + 1 \in 0..(m - 1) /\ x + 1 = q * m + (r + 1)
      BY <1>1, <1>2, <1>3, <1>5
    <2>2. (r + 1) % m = r + 1 /\ (x + 1) % m = r + 1
      BY ONLY <1>1, <2>1, ModSmall, ModUnique
    <2> QED BY <1>4, <2>2 DEF r, x, m
  <1>6. CASE r = m - 1
    <2>1. x + 1 = (q + 1) * m + 0 /\ q + 1 \in Int /\ 0 \in 0..(m - 1) /\ r + 1 = 1 * m + 0
      BY <1>1, <1>2, <1>3, <1>6
    <2>2. (r + 1) % m = 0
      <3>1. (1 * m + 0) % m = 0
        BY ONLY <1>1, <2>1, ModUnique
      <3> QED BY ONLY <2>1, <3>1
    <2>3. (x + 1) % m = 0
      <3>1. ((q + 1) * m + 0) % m = 0
        BY ONLY <1>1, <2>1, ModUnique
      <3> QED BY ONLY <2>1, <3>1
    <2> QED BY <1>4, <2>2, <2>3 DEF r, x, m
  <1> QED BY <1>1, <1>2, <1>5, <1>6

\* Numbers less than m apart with the same remainder are the same.
LEMMA ModApart ==
    ASSUME NEW m \in Nat \ {0}, NEW x \in Int, NEW y \in Int, x % m = y % m,
           x - y < m, y - x < m
    PROVE  x = y
  <1>1. PICK p \in Int : x = p * m + (x % m)
    BY DivMod
  <1>2. PICK q \in Int : y = q * m + (y % m)
    BY DivMod
  <1>3. x % m \in Int /\ p * m \in Int /\ q * m \in Int
    BY DivMod
  <1>4. p * m - q * m = x - y
    BY <1>1, <1>2, <1>3
  <1>5. (p - q) * m = p * m - q * m
    OBVIOUS
  <1>6. p - q \in Int /\ (p - q) * m < m /\ (p - q) * m > -m
    BY <1>4, <1>5
  <1>7. p - q = 0
    BY <1>6, SmallMultiple
  <1> QED BY <1>1, <1>2, <1>7

\* Within a round of the ports no port is given out twice.
LEMMA NatSamePort ==
    ASSUME NEW k \in Nat, NEW l \in Nat, k < l + NatPorts, l < k + NatPorts,
           (PortStart + (k - 1)) % NatPorts = (PortStart + (l - 1)) % NatPorts
    PROVE  k = l
  <1> DEFINE x == PortStart + (k - 1)
             y == PortStart + (l - 1)
  <1>1. x \in Int /\ y \in Int /\ x - y = k - l /\ y - x = l - k /\ NatPorts \in Nat \ {0}
    BY NatConstants DEF NatPort
  <1>2. x - y < NatPorts /\ y - x < NatPorts
    BY <1>1
  <1>3. x % NatPorts = y % NatPorts
    OBVIOUS
  <1> HIDE DEF x, y
  <1>4. x = y
    BY <1>1, <1>2, <1>3, ModApart
  <1> QED BY <1>1, <1>4

LEMMA NatArrayShrunk ==
    ASSUME NEW t, NEW s \in NatArrays(t), NEW i \in 1..Len(s)
    PROVE  /\ Removed(s, i) \in NatArrays(t)
           /\ Len(Removed(s, i)) = Len(s) - 1
           /\ \A k \in 1..(i - 1) : Removed(s, i)[k] = s[k]
  <1>1. s \in Seq(NatEntry) /\ Len(s) \in Nat /\ Len(s) <= NatCapacity
    BY LenProperties DEF NatArrays
  <1>2. PICK m : Moves(m, s, i)
    BY <1>1, SwapRemoval
  <1>3. Removed(s, i) \in Seq(NatEntry) /\ Len(Removed(s, i)) = Len(s) - 1
    BY <1>1, SwapRemoval
  <1> DEFINE w == Removed(s, i)
  <1>4. /\ m \in [1..(Len(s) - 1) -> (1..Len(s)) \ {i}]
        /\ \A k \in 1..(Len(s) - 1) : w[k] = s[m[k]]
        /\ \A k, l \in 1..(Len(s) - 1) : m[k] = m[l] => k = l
        /\ \A k \in 1..(i - 1) : m[k] = k
    BY <1>2 DEF Moves
  <1> HIDE DEF w
  <1>5. ASSUME NEW k \in 1..(Len(s) - 1) PROVE NatMadeAs(w[k], t)
    <2>1. m[k] \in 1..Len(s) /\ w[k] = s[m[k]]
      BY <1>4
    <2> QED BY <2>1 DEF NatArrays
  <1>6. ASSUME NEW k \in 1..(Len(s) - 1), NEW l \in 1..(Len(s) - 1), w[l].in = w[k].in, w[l].rem = w[k].rem
        PROVE  l = k
    <2>1. m[k] \in 1..Len(s) /\ w[k] = s[m[k]] /\ m[l] \in 1..Len(s) /\ w[l] = s[m[l]]
      BY <1>4
    <2>2. m[l] = m[k]
      BY <1>6, <2>1 DEF NatArrays
    <2> QED BY <1>4, <2>2
  <1>7. w \in Seq(NatEntry) /\ Len(w) = Len(s) - 1
    BY <1>3 DEF w
  <1>9. Len(w) <= NatCapacity
    BY <1>1, <1>7, NatConstants
  <1>10. w \in NatArrays(t)
    BY <1>5, <1>6, <1>7, <1>9 DEF NatArrays
  <1>11. \A k \in 1..(i - 1) : w[k] = s[k]
    BY <1>1, <1>4
  <1> QED BY <1>7, <1>10, <1>11 DEF w

NatTurn(t) == [c \in SweepStates(NatArrays(t)) |-> NatTable!SweepTurn(c)]

\* A turn of nfs_nat_expire goes on, or takes an entry out and stays.
LEMMA NatTurns ==
    ASSUME NEW t
    PROVE  IsTurn(NatTurn(t), NatArrays(t), NatEntry)
  <1> DEFINE G == NatArrays(t)
             C == SweepStates(G)
  <1>1. ASSUME NEW c \in C
        PROVE  /\ NatTable!SweepTurn(c) \in C
               /\ c.i > Len(c.array) => NatTable!SweepTurn(c) = c
               /\ c.i <= Len(c.array) =>
                    LET d == NatTable!SweepTurn(c) IN
                    /\ \A j \in 1..(c.i - 1) : d.array[j] = c.array[j]
                    /\ \/ /\ d.i = c.i + 1 /\ Len(d.array) = Len(c.array)
                          /\ d.array[c.i] \in NatEntry
                       \/ d.i = c.i /\ Len(d.array) = Len(c.array) - 1
    <2> DEFINE s == c.array
               i == c.i
               d == NatTable!SweepTurn(c)
               Due == now - s[i].last_used >= Timeout
    <2>1. s \in G /\ i \in Nat \ {0}
      BY DEF SweepStates
    <2>2. s \in Seq(NatEntry) /\ Len(s) \in Nat
      BY <2>1, LenProperties DEF NatArrays
    <2>4. CASE i > Len(s)
      <3>1. d = c
        BY <2>4 DEF NatTable!SweepTurn
      <3> HIDE DEF d
      <3> QED BY <2>2, <2>1, <2>4, <3>1 DEF d
    <2>5. CASE i <= Len(s)
      <3>0. i \in 1..Len(s) /\ ~(i > Len(s)) /\ i + 1 \in Nat \ {0}
        BY <2>1, <2>2, <2>5
      <3>1. s[i] \in NatEntry
        BY <2>2, <3>0, ElementOfSeq
      <3>3. CASE ~Due
        <4>1. d = [c EXCEPT !.i = i + 1]
          BY <3>0, <3>3 DEF NatTable!SweepTurn
        <4>3. d \in C /\ d.i = i + 1 /\ d.array = s
          BY <3>0, <4>1 DEF SweepStates
        <4> HIDE DEF d, Due
        <4> QED BY <2>5, <3>0, <3>1, <4>3 DEF d
      <3>5. CASE Due
        <4>1. d = [c EXCEPT !.array = Removed(s, i)]
          BY <3>0, <3>5 DEF NatTable!SweepTurn, NatTable!Without, Removed
        <4>2. /\ Removed(s, i) \in G
              /\ Len(Removed(s, i)) = Len(s) - 1
              /\ \A k \in 1..(i - 1) : Removed(s, i)[k] = s[k]
          BY <2>1, <3>0, NatArrayShrunk
        <4>3. d \in C /\ d.i = i /\ d.array = Removed(s, i)
          <5> HIDE DEF G, Due
          <5> QED BY <4>1, <4>2 DEF SweepStates
        <4> HIDE DEF d, Due
        <4> QED BY <2>5, <3>0, <4>2, <4>3 DEF d
      <3> QED BY <3>3, <3>5
    <2> QED BY <2>1, <2>2, <2>4, <2>5
  <1>2. NatTurn(t) \in [C -> C] /\ \A c \in C : NatTurn(t)[c] = NatTable!SweepTurn(c)
    BY <1>1 DEF NatTurn
  <1> QED BY <1>1, <1>2 DEF IsTurn

\* What nfs_nat_expire leaves.
LEMMA NatSwept ==
    ASSUME NEW t, NEW s \in NatArrays(t)
    PROVE  NatTable!Swept(s) \in NatArrays(t)
  <1> DEFINE N == Len(s)
             C == SweepStates(NatArrays(t))
             x == [array |-> s, i |-> 1]
             turns[n \in 0..Len(s)] == IF n = 0 THEN [array |-> s, i |-> 1] ELSE NatTable!SweepTurn(turns[n - 1])
             Is(h) == h = [n \in 0..Len(s) |-> IF n = 0 THEN [array |-> s, i |-> 1] ELSE NatTable!SweepTurn(h[n - 1])]
  <1>1. NatTable!Swept(s) = turns[Len(s)].array
    BY DEF NatTable!Swept
  <1>2. N \in Nat /\ NatArrays(t) \subseteq Seq(NatEntry)
    BY LenProperties DEF NatArrays
  <1>3. PICK g \in [0..N -> C] : g[0] = x /\ \A n \in 1..N : g[n] = NatTurn(t)[g[n - 1]]
    <2>1. IsTurn(NatTurn(t), NatArrays(t), NatEntry)
      BY NatTurns
    <2> QED BY <1>2, <2>1, SweepExists, SMTT(60)
  <1>4. \A c \in C : NatTurn(t)[c] = NatTable!SweepTurn(c)
    BY DEF NatTurn
  <1>5. Is(g)
    <2>1. \A n \in 1..N : g[n - 1] \in C
      <3>1. \A n \in 1..N : n - 1 \in 0..N
        BY <1>2
      <3> QED BY <1>3, <3>1
    <2>2. \A n \in 1..N : g[n] = NatTable!SweepTurn(g[n - 1])
      BY <1>3, <1>4, <2>1
    <2>3. \A n \in 0..N : g[n] = IF n = 0 THEN x ELSE NatTable!SweepTurn(g[n - 1])
      BY <1>2, <1>3, <2>2
    <2> HIDE DEF C
    <2> QED BY <1>3, <2>3
  <1>6. Is(turns)
    <2>1. turns = CHOOSE h : Is(h)
      OBVIOUS
    <2> HIDE DEF Is, turns
    <2> QED BY <1>5, <2>1
  <1> HIDE DEF turns
  <1>7. turns[0] = x /\ \A n \in 1..N : turns[n] = NatTable!SweepTurn(turns[n - 1])
    BY <1>2, <1>6, SMTT(60)
  <1>8. \A n \in 1..N : turns[n - 1] \in C => turns[n] = NatTurn(t)[turns[n - 1]]
    BY <1>4, <1>7
  <1>9. turns[N].array \in NatArrays(t)
    <2> HIDE DEF Is
    <2>1. IsTurn(NatTurn(t), NatArrays(t), NatEntry)
      BY NatTurns
    <2> QED BY <1>2, <1>7, <1>8, <2>1, SweepResult, SMTT(60)
  <1> QED BY <1>1, <1>9

LEMMA NatInitially == ASSUME NatTable!Init PROVE NatInv
  <1>1. nat_entries = <<>> /\ next_port = PortStart /\ now = 0 /\ made = <<>>
    BY DEF NatTable!Init
  <1>2. <<>> \in Seq(NatEntry) /\ <<>> \in Seq(NatMapping) /\ Len(<<>>) = 0
    BY EmptySeq
  <1>3. nat_entries \in NatArrays(made)
    BY <1>1, <1>2, NatConstants DEF NatArrays
  <1>4. (PortStart + 0) % NatPorts = PortStart
    BY NatConstants, ModSmall DEF NatPort
  <1> QED BY <1>1, <1>2, <1>3, <1>4, NatConstants DEF NatInv

LEMMA NatStep == ASSUME NatInv, [NatTable!Next]_natVars PROVE NatInv'
  <1> DEFINE s == nat_entries
             n == Len(made)
  <1>1. /\ s \in NatArrays(made) /\ s \in Seq(NatEntry)
        /\ Len(s) \in Nat /\ Len(s) <= NatCapacity /\ DOMAIN s = 1..Len(s)
    BY LenProperties DEF NatInv, NatArrays
  <1>2. made \in Seq(NatMapping) /\ n \in Nat /\ next_port \in NatPort
    BY LenProperties, NatPortOf DEF NatInv
  <1>3. ASSUME NEW in \in Inside, NEW rem \in Remote,
               NatTable!Find(in, rem) = {}, Len(s) < NatCapacity, n < NatMade,
               nat_entries' = Append(s, [in |-> in, rem |-> rem, port |-> next_port,
                                         last_used |-> 0, born |-> n + 1]),
               next_port' = (next_port + 1) % NatPorts,
               made' = Append(made, [in |-> in, rem |-> rem, port |-> next_port]),
               now' = now
        PROVE  NatInv'
    <2> DEFINE p == next_port
               new == [in |-> in, rem |-> rem, port |-> p, last_used |-> 0, born |-> n + 1]
               map == [in |-> in, rem |-> rem, port |-> p]
               w == Append(s, new)
               t == Append(made, map)
    <2>1. \A i \in 1..Len(s) : ~(s[i].in = in /\ s[i].rem = rem)
      BY <1>1, <1>3 DEF NatTable!Find
    <2>2. /\ new \in NatEntry /\ new.in = in /\ new.rem = rem /\ new.port = p /\ new.born = n + 1
          /\ map \in NatMapping /\ map.port = p
      <3>1. n + 1 \in 1..NatMade /\ 0 \in 0..NatNow
        BY <1>2, <1>3, NatConstants
      <3> QED BY <1>2, <3>1 DEF NatEntry, NatMapping
    <2>3. map = [in |-> new.in, rem |-> new.rem, port |-> new.port]
      OBVIOUS
    <2> HIDE DEF new, map
    <2>4. /\ w \in Seq(NatEntry) /\ Len(w) = Len(s) + 1
          /\ \A i \in 1..Len(s) : w[i] = s[i]
          /\ w[Len(s) + 1] = new
      BY <1>1, <2>2, AppendProperties
    <2>5. /\ t \in Seq(NatMapping) /\ Len(t) = n + 1
          /\ \A k \in 1..n : t[k] = made[k]
          /\ t[n + 1] = map
      BY <1>2, <2>2, AppendProperties
    <2>6. w = nat_entries' /\ t = made'
      BY <1>3 DEF new, map
    <2> HIDE DEF w, t
    <2>7. ASSUME NEW i \in 1..Len(w) PROVE NatMadeAs(w[i], t)
      <3>1. CASE i \in 1..Len(s)
        <4>1. NatMadeAs(s[i], made)
          BY <1>1, <3>1 DEF NatArrays
        <4>2. s[i].born \in 1..n /\ s[i].born \in 1..(n + 1)
          BY <1>2, <4>1 DEF NatMadeAs
        <4> QED BY <2>4, <2>5, <3>1, <4>1, <4>2 DEF NatMadeAs
      <3>2. CASE i = Len(s) + 1
        <4>1. n + 1 \in 1..(n + 1)
          BY <1>2
        <4> QED BY <2>2, <2>3, <2>4, <2>5, <3>2, <4>1 DEF NatMadeAs
      <3> QED BY <1>1, <2>4, <3>1, <3>2
    <2>8. ASSUME NEW i \in 1..Len(w), NEW j \in 1..Len(w), w[j].in = w[i].in, w[j].rem = w[i].rem
          PROVE  j = i
      <3>1. \A k, l \in 1..Len(s) : s[l].in = s[k].in /\ s[l].rem = s[k].rem => l = k
        BY <1>1 DEF NatArrays
      <3>2. \A k \in 1..Len(w) : k \in 1..Len(s) \/ k = Len(s) + 1
        BY <1>1, <2>4
      <3> QED BY <2>1, <2>2, <2>4, <2>8, <3>1, <3>2
    <2>9. Len(w) <= NatCapacity
      BY <1>1, <1>3, <2>4, NatConstants
    <2>10. w \in NatArrays(t)
      BY <2>4, <2>7, <2>8, <2>9 DEF NatArrays
    <2>11. next_port' = (PortStart + Len(t)) % NatPorts
      <3>1. p = (PortStart + n) % NatPorts
        BY DEF NatInv
      <3>2. (p + 1) % NatPorts = (PortStart + (n + 1)) % NatPorts
        BY <1>2, <3>1, NatNextPort
      <3> QED BY <1>3, <2>5, <3>2
    <2>12. ASSUME NEW k \in 1..Len(t) PROVE t[k].port = (PortStart + (k - 1)) % NatPorts
      <3>1. CASE k \in 1..n
        BY <2>5, <3>1 DEF NatInv
      <3>2. CASE k = n + 1
        <4>1. k - 1 = n
          BY <1>2, <3>2
        <4> QED BY <2>2, <2>5, <3>2, <4>1 DEF NatInv
      <3> QED BY <1>2, <2>5, <3>1, <3>2
    <2>13. Len(t) <= NatMade
      BY <1>2, <1>3, <2>5, NatConstants
    <2>14. now' \in 0..NatNow
      BY <1>3 DEF NatInv
    <2> QED BY <2>5, <2>6, <2>10, <2>11, <2>12, <2>13, <2>14 DEF NatInv
  <1>4. ASSUME NEW in \in Inside, NEW rem \in Remote, NatTable!Outbound(in, rem) PROVE NatInv'
    <2>1. CASE UNCHANGED <<nat_entries, next_port, now, made>>
      BY <2>1 DEF NatInv
    <2>2. CASE ~(UNCHANGED <<nat_entries, next_port, now, made>>)
      BY <1>3, <1>4, <2>2 DEF NatTable!Outbound, NatTable!Allocated, NatTable!vars
    <2> QED BY <2>1, <2>2
  <1>5. ASSUME NEW i \in DOMAIN s, NatTable!Use(i) PROVE NatInv'
    <2> DEFINE e == [s[i] EXCEPT !.last_used = now]
               w == [s EXCEPT ![i] = e]
    <2>1. nat_entries' = w /\ UNCHANGED <<next_port, now, made>>
      BY <1>5 DEF NatTable!Use
    <2>2. i \in 1..Len(s) /\ s[i] \in NatEntry /\ NatMadeAs(s[i], made)
      <3>1. i \in 1..Len(s)
        BY <1>1
      <3>2. s[i] \in NatEntry
        BY <1>1, <3>1, ElementOfSeq
      <3> QED BY <1>1, <3>1, <3>2 DEF NatArrays
    <2>3. e \in NatEntry /\ e.in = s[i].in /\ e.rem = s[i].rem /\ e.port = s[i].port /\ e.born = s[i].born
      BY <2>2 DEF NatEntry, NatInv
    <2> HIDE DEF e
    <2>4. w \in Seq(NatEntry) /\ Len(w) = Len(s) /\ \A k \in 1..Len(s) : w[k] = IF k = i THEN e ELSE s[k]
      <3>1. s \in [1..Len(s) -> NatEntry]
        BY <1>1, LenProperties
      <3>2. w \in [1..Len(s) -> NatEntry]
        BY <1>1, <2>2, <2>3, <3>1
      <3> QED BY <1>1, <2>2, <3>1, <3>2
    <2> HIDE DEF w
    <2>5. \A k \in 1..Len(s) : /\ w[k].in = s[k].in /\ w[k].rem = s[k].rem
                              /\ w[k].port = s[k].port /\ w[k].born = s[k].born
      BY <2>3, <2>4
    <2>6. \A k \in 1..Len(s) : NatMadeAs(w[k], made)
      BY <1>1, <2>5 DEF NatArrays, NatMadeAs
    <2>7. w \in NatArrays(made)
      BY <1>1, <2>4, <2>5, <2>6 DEF NatArrays
    <2> QED BY <2>1, <2>7 DEF NatInv
  <1>6. CASE NatTable!Expire
    <2>1. nat_entries' = NatTable!Swept(s) /\ UNCHANGED <<next_port, now, made>>
      BY <1>6 DEF NatTable!Expire
    <2>2. NatTable!Swept(s) \in NatArrays(made)
      BY <1>1, NatSwept
    <2> QED BY <2>1, <2>2 DEF NatInv
  <1>7. CASE NatTable!Tick
    <2>1. now' \in 0..NatNow /\ UNCHANGED <<nat_entries, next_port, made>>
      BY <1>7, NatConstants DEF NatTable!Tick, NatInv
    <2> QED BY <2>1 DEF NatInv
  <1>8. CASE UNCHANGED natVars
    BY <1>8 DEF natVars, NatInv
  <1> QED BY <1>1, <1>4, <1>5, <1>6, <1>7, <1>8 DEF NatTable!Next

\* A reply goes to the endpoint that was given the port, or to nobody, while
\* the ports have not gone round in between, and a flow has one entry.
LEMMA NatConsequences ==
    ASSUME NatInv
    PROVE  NatTable!TypeOK /\ NatTable!RepliesReachTheirFlow /\ NatTable!FlowsKeepTheirPort
  <1> DEFINE s == nat_entries
  <1>1. /\ s \in NatArrays(made) /\ s \in Seq(NatEntry)
        /\ Len(s) \in Nat /\ Len(s) <= NatCapacity /\ DOMAIN s = 1..Len(s)
        /\ Len(made) \in Nat /\ DOMAIN made = 1..Len(made)
    BY LenProperties DEF NatInv, NatArrays
  <1>2. NatTable!TypeOK
    <2>1. next_port \in NatPort
      BY <1>1, NatPortOf DEF NatInv
    <2> QED BY <1>1, <2>1
            DEF NatInv, NatEntry, NatMapping, NatPort, NatTable!TypeOK, NatTable!Port, NatTable!Mapping
  <1>3. \A i \in 1..Len(s) : NatMadeAs(s[i], made)
    BY <1>1 DEF NatArrays
  <1>4. \A i, j \in 1..Len(s) : s[j].in = s[i].in /\ s[j].rem = s[i].rem => j = i
    BY <1>1 DEF NatArrays
  \* Of two mappings within a round of each other only one has a port.
  <1>5. ASSUME NEW k \in 1..Len(made), NatTable!WithinARound(k),
               NEW i \in 1..Len(s), s[i].port = made[k].port
        PROVE  s[i].in = made[k].in /\ s[i].rem = made[k].rem
    <2>1. /\ s[i].born \in 1..Len(made)
          /\ made[s[i].born] = [in |-> s[i].in, rem |-> s[i].rem, port |-> s[i].port]
      BY <1>3 DEF NatMadeAs
    <2>2. PICK l : l = s[i].born
      OBVIOUS
    <2>3. l < k + NatPorts /\ k < l + NatPorts
      BY <1>1, <1>5, <2>2 DEF NatTable!WithinARound
    <2>4. made[l].port = made[k].port
      BY <1>5, <2>1, <2>2
    <2>5. /\ made[l].port = (PortStart + (l - 1)) % NatPorts
          /\ made[k].port = (PortStart + (k - 1)) % NatPorts
      BY <2>1, <2>2 DEF NatInv
    <2>6. k \in Nat /\ l \in Nat
      BY <1>1, <2>1, <2>2
    <2>7. l = k
      BY <2>3, <2>4, <2>5, <2>6, NatSamePort
    <2> QED BY <2>1, <2>2, <2>7
  <1>7. NatTable!RepliesReachTheirFlow
    BY <1>1, <1>5 DEF NatTable!RepliesReachTheirFlow, NatTable!Inbound, NatTable!ReplyMatches
  <1>8. ASSUME NEW i \in 1..Len(s), NatTable!WithinARound(s[i].born)
        PROVE  NatTable!Inbound(s[i].rem, s[i].port) = {s[i].in}
    <2> DEFINE J == {j \in DOMAIN s : /\ NatTable!ReplyMatches(s[j], s[i].rem, s[i].port)
                                      /\ \A k \in 1..(j - 1) : ~NatTable!ReplyMatches(s[k], s[i].rem, s[i].port)}
    <2>1. /\ s[i].born \in 1..Len(made) /\ made[s[i].born].in = s[i].in
          /\ made[s[i].born].rem = s[i].rem /\ made[s[i].born].port = s[i].port
      <3>1. /\ s[i].born \in 1..Len(made)
            /\ made[s[i].born] = [in |-> s[i].in, rem |-> s[i].rem, port |-> s[i].port]
        BY <1>3 DEF NatMadeAs
      <3> QED BY <3>1
    <2>2. \A j \in 1..Len(s) : NatTable!ReplyMatches(s[j], s[i].rem, s[i].port) => j = i
      <3>1. ASSUME NEW j \in 1..Len(s), s[j].port = s[i].port PROVE j = i
        <4>1. s[j].in = s[i].in /\ s[j].rem = s[i].rem
          BY <1>5, <1>8, <2>1, <3>1
        <4> QED BY <1>4, <4>1
      <3> QED BY <3>1 DEF NatTable!ReplyMatches
    <2>3. \A k \in 1..(i - 1) : k \in 1..Len(s) /\ k # i
      BY <1>1
    <2>4. NatTable!ReplyMatches(s[i], s[i].rem, s[i].port)
      BY DEF NatTable!ReplyMatches
    <2>5. J = {i}
      <3> HIDE DEF s
      <3> QED BY <1>1, <2>2, <2>3, <2>4
    <2>6. NatTable!Inbound(s[i].rem, s[i].port) = {s[j].in : j \in J}
      BY DEF NatTable!Inbound
    <2> HIDE DEF J
    <2> QED BY <2>5, <2>6
  <1>9. NatTable!FlowsKeepTheirPort
    BY <1>1, <1>4, <1>8 DEF NatTable!FlowsKeepTheirPort
  <1> QED BY <1>2, <1>7, <1>9

-----------------------------------------------------------------------------
\* Prefixes: the addresses fall into blocks of p, and a prefix is named by the
\* first address of its block.
RtBlock(a, p) == (a \div p) * p

LEMMA RtBlockIs ==
    ASSUME NEW p \in Nat \ {0}, NEW a \in Nat
    PROVE  RtBlock(a, p) \in 0..a /\ a < RtBlock(a, p) + p
  <1> DEFINE q == a \div p
             r == a % p
             x == q * p
  <1>1. q \in Int /\ r \in 0..(p - 1) /\ a = x + r
    BY DivMod
  <1>2. x \in Int
    BY <1>1
  <1>3. q >= 0
    <2>1. q <= -1 => x <= -p
      <3> HIDE DEF q
      <3> QED BY <1>1
    <2> HIDE DEF q, r, x
    <2> QED BY <1>1, <1>2, <2>1
  <1>4. x >= 0
    <2> HIDE DEF q
    <2> QED BY <1>1, <1>3
  <1>5. RtBlock(a, p) = x
    BY DEF RtBlock
  <1> HIDE DEF x, q, r
  <1> QED BY <1>1, <1>2, <1>4, <1>5

\* An address is in the block that begins at most p - 1 before it.
LEMMA RtBlockUnique ==
    ASSUME NEW p \in Nat \ {0}, NEW a \in Nat, NEW q \in Int, q * p <= a, a < q * p + p
    PROVE  RtBlock(a, p) = q * p
  <1> DEFINE w == a \div p
  <1>1. w \in Int /\ a % p \in 0..(p - 1) /\ a = w * p + (a % p)
    BY DivMod
  <1> HIDE DEF w
  <1>2. q * p \in Int /\ w * p \in Int
    BY <1>1
  <1>3. w - q \in Int /\ (w - q) * p = w * p - q * p
    BY <1>1
  <1>4. (w - q) * p < p /\ (w - q) * p > -p
    BY <1>1, <1>2, <1>3
  <1>5. w - q = 0
    BY <1>3, <1>4, SmallMultiple
  <1>6. w = q
    BY <1>1, <1>5
  <1> QED BY <1>6 DEF RtBlock, w

LEMMA RtBlockAgain ==
    ASSUME NEW p \in Nat \ {0}, NEW a \in Nat
    PROVE  RtBlock(RtBlock(a, p), p) = RtBlock(a, p)
  <1> DEFINE q == a \div p
  <1>1. q \in Int /\ RtBlock(a, p) = q * p /\ RtBlock(a, p) \in Nat
    BY DivMod, RtBlockIs DEF RtBlock
  <1> HIDE DEF q
  <1>2. q * p \in Nat
    BY <1>1
  <1>3. RtBlock(q * p, p) = q * p
    BY <1>1, <1>2, RtBlockUnique
  <1> QED BY <1>1, <1>3

\* Block b contains an address exactly when the address is masked to b.
LEMMA RtCovers ==
    ASSUME NEW p \in Nat \ {0}, NEW a \in Nat, NEW b \in Nat, RtBlock(b, p) = b
    PROVE  RtBlock(a, p) = b <=> b <= a /\ a < b + p
  <1>1. RtBlock(a, p) \in 0..a /\ a < RtBlock(a, p) + p
    BY RtBlockIs
  <1>2. ASSUME b <= a, a < b + p PROVE RtBlock(a, p) = b
    <2> DEFINE q == b \div p
    <2>1. q \in Int /\ b = q * p
      BY DivMod DEF RtBlock
    <2> HIDE DEF q
    <2> QED BY <1>2, <2>1, RtBlockUnique
  <1> QED BY <1>1, <1>2

\* A power of two counts the subsets of a finite set.
LEMMA RtPower ==
    ASSUME NEW n \in Nat
    PROVE  2^n \in Nat \ {0}
  <1>1. IsFiniteSet(1..n) /\ Cardinality(1..n) = n
    <2>1. 1 \in Int /\ n \in Int /\ (IF 1 > n THEN 0 ELSE n - 1 + 1) = n
      OBVIOUS
    <2> QED BY <2>1, FS_Interval
  <1>2. IsFiniteSet(SUBSET (1..n)) /\ Cardinality(SUBSET (1..n)) = 2^n
    BY <1>1, FS_SUBSET
  <1>3. Cardinality(SUBSET (1..n)) \in Nat
    BY <1>2, FS_CardinalityType
  <1>4. SUBSET (1..n) # {}
    OBVIOUS
  <1>5. Cardinality(SUBSET (1..n)) # 0
    BY <1>2, <1>4, FS_EmptySet
  <1> QED BY <1>2, <1>3, <1>5

-----------------------------------------------------------------------------
\* The forwarding table has one route for each prefix that is configured.
LpPow(len) == 2^(LpmWidth - len)

LpRoute == [prefix : Lpm!Addr, len : 0..LpmWidth, hop : NextHop]

LpKey(r) == <<r.prefix, r.len>>

LpArrays(t) ==
    {s \in Seq(LpRoute) :
        /\ Len(s) <= LpmCapacity
        /\ \A i \in 1..Len(s) : RtBlock(s[i].prefix, LpPow(s[i].len)) = s[i].prefix
        /\ \A i \in 1..Len(s) : LpKey(s[i]) \in DOMAIN t /\ s[i].hop = t[LpKey(s[i])]
        /\ \A i, j \in 1..Len(s) : LpKey(s[j]) = LpKey(s[i]) => j = i
        /\ \A k \in DOMAIN t : \E i \in 1..Len(s) : LpKey(s[i]) = k}

LpmInv == routes \in LpArrays(configured)

LEMMA LpConstants ==
    /\ LpmWidth \in Nat \ {0} /\ LpmCapacity \in Nat
    /\ \A len \in 0..LpmWidth : LpPow(len) \in Nat \ {0}
    /\ Lpm!Addr \subseteq Nat
    /\ \A a \in Lpm!Addr : \A b \in 0..a : b \in Lpm!Addr
  <1>1. LpmWidth \in Nat \ {0} /\ LpmCapacity \in Nat
    BY TableSuiteConstants DEF Lpm!RouteTablesConstants
  <1>2. ASSUME NEW len \in 0..LpmWidth PROVE LpPow(len) \in Nat \ {0}
    <2>1. LpmWidth - len \in Nat
      BY <1>1
    <2> QED BY <2>1, RtPower DEF LpPow
  <1>3. 2^LpmWidth \in Nat \ {0}
    BY <1>1, RtPower
  <1>4. PICK p : p = 2^LpmWidth
    OBVIOUS
  <1>5. Lpm!Addr = 0..(p - 1) /\ p \in Nat \ {0}
    BY <1>3, <1>4 DEF Lpm!Addr
  <1>6. Lpm!Addr \subseteq Nat /\ \A a \in Lpm!Addr : \A b \in 0..a : b \in Lpm!Addr
    BY <1>5
  <1> QED BY <1>1, <1>2, <1>6

LEMMA LpMasked ==
    ASSUME NEW a \in Lpm!Addr, NEW len \in 0..LpmWidth
    PROVE  /\ Lpm!Masked(a, len) = RtBlock(a, LpPow(len))
           /\ RtBlock(a, LpPow(len)) \in Lpm!Addr
           /\ RtBlock(RtBlock(a, LpPow(len)), LpPow(len)) = RtBlock(a, LpPow(len))
  <1>1. LpPow(len) \in Nat \ {0} /\ a \in Nat
    BY LpConstants
  <1>2. Lpm!Masked(a, len) = RtBlock(a, LpPow(len))
    BY DEF Lpm!Masked, Lpm!PrefixMask, RtBlock, LpPow
  <1>3. RtBlock(a, LpPow(len)) \in Lpm!Addr
    BY <1>1, RtBlockIs, LpConstants
  <1> QED BY <1>1, <1>2, <1>3, RtBlockAgain

\* The search finds the route of the prefix.
LEMMA LpFind ==
    ASSUME LpmInv, NEW prefix \in Lpm!Addr, NEW len \in 0..LpmWidth
    PROVE  Lpm!Find(prefix, len) =
               {i \in 1..Len(routes) : LpKey(routes[i]) = <<RtBlock(prefix, LpPow(len)), len>>}
  <1>1. /\ routes \in Seq(LpRoute) /\ DOMAIN routes = 1..Len(routes) /\ Len(routes) \in Nat
        /\ \A i \in 1..Len(routes) : RtBlock(routes[i].prefix, LpPow(routes[i].len)) = routes[i].prefix
        /\ \A i, j \in 1..Len(routes) : LpKey(routes[j]) = LpKey(routes[i]) => j = i
    BY LenProperties DEF LpmInv, LpArrays
  <1>2. \A i \in 1..Len(routes) : routes[i].prefix \in Lpm!Addr /\ routes[i].len \in 0..LpmWidth
    <2> TAKE i \in 1..Len(routes)
    <2>1. routes[i] \in LpRoute
      BY <1>1, ElementOfSeq
    <2> QED BY <2>1 DEF LpRoute
  <1>3. ASSUME NEW i \in 1..Len(routes)
        PROVE  Lpm!SamePrefix(routes[i], prefix, len)
                   <=> LpKey(routes[i]) = <<RtBlock(prefix, LpPow(len)), len>>
    <2>1. Lpm!Masked(prefix, len) = RtBlock(prefix, LpPow(len))
      BY LpMasked
    <2>2. Lpm!Masked(routes[i].prefix, routes[i].len) = routes[i].prefix
      BY <1>1, <1>2, LpMasked
    <2> QED BY <2>1, <2>2 DEF Lpm!SamePrefix, LpKey
  <1>4. \A i \in 1..Len(routes) : \A j \in 1..(i - 1) : j \in 1..Len(routes) /\ j # i
    BY <1>1
  <1> QED BY <1>1, <1>3, <1>4 DEF Lpm!Find

LEMMA LpmInitially == ASSUME Lpm!LpmInit PROVE LpmInv
  <1>1. routes = <<>> /\ configured = <<>>
    BY DEF Lpm!LpmInit
  <1>2. <<>> \in Seq(LpRoute) /\ Len(<<>>) = 0 /\ DOMAIN <<>> = {} /\ 1..0 = {}
    BY EmptySeq
  <1>3. 0 <= LpmCapacity
    BY LpConstants
  <1> QED BY <1>1, <1>2, <1>3 DEF LpmInv, LpArrays

LEMMA LpAdd ==
    ASSUME LpmInv, NEW prefix \in Lpm!Addr, NEW len \in 0..LpmWidth, NEW hop \in NextHop,
           Lpm!RouteAdd(prefix, len, hop)
    PROVE  LpmInv'
  <1> DEFINE b == RtBlock(prefix, LpPow(len))
             new == [prefix |-> b, len |-> len, hop |-> hop]
             key == <<b, len>>
             s == routes
             t == configured
             N == Len(s)
             F == Lpm!Find(prefix, len)
  <1>1. /\ s \in Seq(LpRoute) /\ DOMAIN s = 1..N /\ N \in Nat /\ N <= LpmCapacity
        /\ \A i \in 1..N : RtBlock(s[i].prefix, LpPow(s[i].len)) = s[i].prefix
        /\ \A i \in 1..N : LpKey(s[i]) \in DOMAIN t /\ s[i].hop = t[LpKey(s[i])]
        /\ \A i, j \in 1..N : LpKey(s[j]) = LpKey(s[i]) => j = i
        /\ \A k \in DOMAIN t : \E i \in 1..N : LpKey(s[i]) = k
    BY LenProperties DEF LpmInv, LpArrays
  <1>2. b \in Lpm!Addr /\ RtBlock(b, LpPow(len)) = b /\ b = Lpm!Masked(prefix, len)
    BY LpMasked
  <1>3. b = (prefix \div 2^(LpmWidth - len)) * 2^(LpmWidth - len)
    BY DEF RtBlock, LpPow
  <1>4. F = {i \in 1..N : LpKey(s[i]) = key}
    BY LpFind
  <1>5. /\ \/ /\ F # {} /\ routes' = [i \in DOMAIN s |-> IF i \in F THEN new ELSE s[i]]
           \/ /\ F = {} /\ N < LpmCapacity /\ routes' = Append(s, new)
        /\ configured' = [k \in DOMAIN t \cup {key} |-> IF k = key THEN hop ELSE t[k]]
    BY <1>2, <1>3 DEF Lpm!RouteAdd, Lpm!HasRoom
  <1> HIDE DEF F, b
  <1>6. new \in LpRoute /\ LpKey(new) = key /\ new.hop = hop /\ new.prefix = b /\ new.len = len
    BY <1>2 DEF LpRoute, LpKey
  <1> DEFINE z == [k \in DOMAIN t \cup {key} |-> IF k = key THEN hop ELSE t[k]]
  <1>7. /\ DOMAIN z = DOMAIN t \cup {key} /\ z[key] = hop
        /\ \A k \in DOMAIN t : k # key => z[k] = t[k]
    OBVIOUS
  <1> HIDE DEF z, new, key
  <1>8. CASE F # {}
    <2> DEFINE w == [i \in DOMAIN s |-> IF i \in F THEN new ELSE s[i]]
    <2>1. \A i \in 1..N : s[i] \in LpRoute
      BY <1>1, ElementOfSeq
    <2>2. /\ w \in Seq(LpRoute) /\ Len(w) = N
          /\ \A i \in 1..N : w[i] = IF LpKey(s[i]) = key THEN new ELSE s[i]
      <3>1. \A i \in 1..N : (IF i \in F THEN new ELSE s[i]) \in LpRoute
        BY <1>6, <2>1
      <3>2. w = [i \in 1..N |-> IF i \in F THEN new ELSE s[i]]
        BY <1>1
      <3>3. w \in Seq(LpRoute) /\ Len(w) = N
        BY <1>1, <3>1, <3>2
      <3>4. \A i \in 1..N : w[i] = IF LpKey(s[i]) = key THEN new ELSE s[i]
        BY <1>4, <3>2
      <3> QED BY <3>3, <3>4
    <2> HIDE DEF w
    <2>3. \A i \in 1..N : LpKey(w[i]) = LpKey(s[i])
      BY <1>6, <2>2
    <2>4. \A i \in 1..N : RtBlock(w[i].prefix, LpPow(w[i].len)) = w[i].prefix
      BY <1>1, <1>2, <1>6, <2>2
    <2>5. \A i \in 1..N : LpKey(w[i]) \in DOMAIN z /\ w[i].hop = z[LpKey(w[i])]
      BY <1>1, <1>6, <1>7, <2>2
    <2>6. \A i, j \in 1..N : LpKey(w[j]) = LpKey(w[i]) => j = i
      BY <1>1, <2>3
    <2>7. \A k \in DOMAIN z : \E i \in 1..N : LpKey(w[i]) = k
      <3>1. PICK i \in 1..N : LpKey(s[i]) = key
        BY <1>4, <1>8
      <3> QED BY <1>1, <1>7, <2>3, <3>1
    <2>8. w \in LpArrays(z)
      BY <1>1, <2>2, <2>4, <2>5, <2>6, <2>7 DEF LpArrays
    <2>9. routes' = w /\ configured' = z
      BY <1>5, <1>8 DEF w, z
    <2> QED BY <2>8, <2>9 DEF LpmInv, LpArrays, LpKey, LpPow, RtBlock
  <1>9. CASE F = {}
    <2> DEFINE w == Append(s, new)
    <2>1. /\ w \in Seq(LpRoute) /\ Len(w) = N + 1 /\ w[N + 1] = new
          /\ \A i \in 1..N : w[i] = s[i]
      BY <1>1, <1>6, AppendProperties
    <2> HIDE DEF w
    <2>2. \A i \in 1..N : LpKey(s[i]) # key
      BY <1>4, <1>9
    <2>3. \A i \in 1..Len(w) : i \in 1..N \/ i = N + 1
      BY <1>1, <2>1
    <2>4. N + 1 \in 1..Len(w) /\ \A i \in 1..N : i \in 1..Len(w)
      BY <1>1, <2>1
    <2>5. \A i \in 1..Len(w) : RtBlock(w[i].prefix, LpPow(w[i].len)) = w[i].prefix
      BY <1>1, <1>2, <1>6, <2>1, <2>3
    <2>6. \A i \in 1..Len(w) : LpKey(w[i]) \in DOMAIN z /\ w[i].hop = z[LpKey(w[i])]
      BY <1>1, <1>6, <1>7, <2>1, <2>2, <2>3
    <2>7. \A i, j \in 1..Len(w) : LpKey(w[j]) = LpKey(w[i]) => j = i
      BY <1>1, <1>6, <2>1, <2>2, <2>3
    <2>8. \A k \in DOMAIN z : \E i \in 1..Len(w) : LpKey(w[i]) = k
      BY <1>1, <1>6, <1>7, <2>1, <2>4
    <2>9. routes' = w /\ configured' = z /\ N < LpmCapacity
      BY <1>5, <1>9 DEF w, z
    <2>10. Len(w) <= LpmCapacity
      BY <1>1, <2>1, <2>9, LpConstants
    <2>11. w \in LpArrays(z)
      BY <2>1, <2>5, <2>6, <2>7, <2>8, <2>10 DEF LpArrays
    <2> QED BY <2>9, <2>11 DEF LpmInv, LpArrays, LpKey, LpPow, RtBlock
  <1> QED BY <1>8, <1>9

LEMMA LpRemove ==
    ASSUME LpmInv, NEW prefix \in Lpm!Addr, NEW len \in 0..LpmWidth,
           Lpm!RouteRemove(prefix, len)
    PROVE  LpmInv'
  <1> DEFINE b == RtBlock(prefix, LpPow(len))
             key == <<b, len>>
             s == routes
             t == configured
             N == Len(s)
             z == [k \in DOMAIN t \ {key} |-> t[k]]
  <1>1. /\ s \in Seq(LpRoute) /\ DOMAIN s = 1..N /\ N \in Nat /\ N <= LpmCapacity
        /\ \A i \in 1..N : RtBlock(s[i].prefix, LpPow(s[i].len)) = s[i].prefix
        /\ \A i \in 1..N : LpKey(s[i]) \in DOMAIN t /\ s[i].hop = t[LpKey(s[i])]
        /\ \A i, j \in 1..N : LpKey(s[j]) = LpKey(s[i]) => j = i
        /\ \A k \in DOMAIN t : \E i \in 1..N : LpKey(s[i]) = k
    BY LenProperties DEF LpmInv, LpArrays
  <1>2. b = (prefix \div 2^(LpmWidth - len)) * 2^(LpmWidth - len)
    BY DEF RtBlock, LpPow
  <1>3. Lpm!Find(prefix, len) = {i \in 1..N : LpKey(s[i]) = key}
    BY LpFind
  <1>4. configured' = z /\ \E i \in Lpm!Find(prefix, len) : routes' = Removed(s, i)
    BY <1>2 DEF Lpm!RouteRemove, Removed
  <1> HIDE DEF b
  <1>5. PICK i \in 1..N : LpKey(s[i]) = key /\ routes' = Removed(s, i)
    BY <1>3, <1>4
  <1>6. DOMAIN z = DOMAIN t \ {key} /\ \A k \in DOMAIN t : k # key => z[k] = t[k]
    OBVIOUS
  <1> DEFINE w == Removed(s, i)
  <1>7. w \in Seq(LpRoute) /\ Len(w) = N - 1
    BY <1>1, SwapRemoval
  <1>8. PICK f : Moves(f, s, i)
    BY <1>1, SwapRemoval
  <1>9. /\ f \in [1..(N - 1) -> (1..N) \ {i}]
        /\ \A k \in 1..(N - 1) : w[k] = s[f[k]]
        /\ \A k, l \in 1..(N - 1) : f[k] = f[l] => k = l
        /\ \A j \in (1..N) \ {i} : \E k \in 1..(N - 1) : f[k] = j
    BY <1>8 DEF Moves
  <1> HIDE DEF w, z, key
  <1>10. \A k \in 1..(N - 1) : f[k] \in 1..N /\ f[k] # i /\ w[k] = s[f[k]]
    BY <1>9
  <1>11. \A k \in 1..(N - 1) : RtBlock(w[k].prefix, LpPow(w[k].len)) = w[k].prefix
    BY <1>1, <1>10
  <1>12. \A k \in 1..(N - 1) : LpKey(w[k]) \in DOMAIN z /\ w[k].hop = z[LpKey(w[k])]
    <2> TAKE k \in 1..(N - 1)
    <2>1. f[k] \in 1..N /\ w[k] = s[f[k]] /\ LpKey(s[f[k]]) # key
      BY <1>1, <1>5, <1>10
    <2> QED BY <1>1, <1>6, <2>1
  <1>13. \A k, l \in 1..(N - 1) : LpKey(w[l]) = LpKey(w[k]) => l = k
    BY <1>1, <1>9, <1>10
  <1>14. ASSUME NEW k \in DOMAIN z PROVE \E l \in 1..(N - 1) : LpKey(w[l]) = k
    <2>1. PICK j \in 1..N : LpKey(s[j]) = k
      BY <1>1, <1>6
    <2>2. j # i
      BY <1>5, <1>6, <2>1
    <2>3. PICK l \in 1..(N - 1) : f[l] = j
      BY <1>9, <2>2
    <2> QED BY <1>9, <2>1, <2>3
  <1>15. Len(w) <= LpmCapacity
    BY <1>1, <1>7, LpConstants
  <1>16. w \in LpArrays(z)
    BY <1>7, <1>11, <1>12, <1>13, <1>14, <1>15 DEF LpArrays
  <1>17. routes' = w /\ configured' = z
    BY <1>4, <1>5 DEF w
  <1> QED BY <1>16, <1>17 DEF LpmInv, LpArrays, LpKey, LpPow, RtBlock

LEMMA LpmStep == ASSUME LpmInv, [Lpm!LpmNext]_lpmVars PROVE LpmInv'
  <1>1. CASE Lpm!LpmNext
    BY <1>1, LpAdd, LpRemove DEF Lpm!LpmNext
  <1>2. CASE UNCHANGED lpmVars
    BY <1>2 DEF LpmInv, lpmVars, LpArrays, LpKey, LpPow, RtBlock
  <1> QED BY <1>1, <1>2

\* A turn of the loop of nfs_route_lookup.
LpMatch(dst, n) == RtBlock(dst, LpPow(routes[n].len)) = routes[n].prefix

LpLookNext(b, n, dst) ==
    IF LpMatch(dst, n) /\ \A r \in b : routes[n].len > r.len THEN {routes[n]} ELSE b

LEMMA LpLooked ==
    ASSUME LpmInv, NEW dst \in Lpm!Addr
    PROVE  \E b : /\ Lpm!RouteLookup(dst) = b[Len(routes)] /\ b[0] = {}
                  /\ \A n \in 1..Len(routes) :
                         b[n - 1] \subseteq LpRoute => b[n] = LpLookNext(b[n - 1], n, dst)
  <1> DEFINE N == Len(routes)
             S == SUBSET LpRoute
             Matches(r) == Lpm!Masked(dst, r.len) = Lpm!Masked(r.prefix, r.len)
             f[i \in 0..Len(routes)] ==
                 IF i = 0 THEN {}
                 ELSE IF Matches(routes[i]) /\ \A b \in f[i - 1] : routes[i].len > b.len
                      THEN {routes[i]} ELSE f[i - 1]
             Is(h) == h = [i \in 0..Len(routes) |->
                 IF i = 0 THEN {}
                 ELSE IF Matches(routes[i]) /\ \A b \in h[i - 1] : routes[i].len > b.len
                      THEN {routes[i]} ELSE h[i - 1]]
             F == [n \in 1..N |-> [b \in S |-> LpLookNext(b, n, dst)]]
  <1>1. Lpm!RouteLookup(dst) = f[N]
    BY DEF Lpm!RouteLookup
  <1>2. /\ routes \in Seq(LpRoute) /\ N \in Nat
        /\ \A i \in 1..N : RtBlock(routes[i].prefix, LpPow(routes[i].len)) = routes[i].prefix
    BY LenProperties DEF LpmInv, LpArrays
  <1>3. \A n \in 1..N : routes[n] \in LpRoute
    BY <1>2, ElementOfSeq
  <1>4. ASSUME NEW n \in 1..N PROVE Matches(routes[n]) <=> LpMatch(dst, n)
    <2>1. routes[n].prefix \in Lpm!Addr /\ routes[n].len \in 0..LpmWidth
      BY <1>3 DEF LpRoute
    <2>2. Lpm!Masked(dst, routes[n].len) = RtBlock(dst, LpPow(routes[n].len))
      BY <2>1, LpMasked
    <2>3. Lpm!Masked(routes[n].prefix, routes[n].len) = routes[n].prefix
      BY <1>2, <2>1, LpMasked
    <2> QED BY <2>2, <2>3 DEF LpMatch
  <1> HIDE DEF Matches
  <1>5. \A n \in 1..N : \A b \in S : LpLookNext(b, n, dst) \in S
    BY <1>3 DEF LpLookNext
  <1>6. /\ \A n \in 1..N : F[n] \in [S -> S]
        /\ \A n \in 1..N : \A b \in S : F[n][b] = LpLookNext(b, n, dst)
    BY <1>5
  <1>7. {} \in S
    OBVIOUS
  <1> HIDE DEF F, S, N
  <1>8. PICK g : IsLoop(g, S, F, {}, N)
    BY <1>2, <1>6, <1>7, LoopExists
  <1>9. /\ g \in [0..N -> S] /\ g[0] = {}
        /\ \A n \in 1..N : g[n] = LpLookNext(g[n - 1], n, dst)
    <2>1. g \in [0..N -> S] /\ g[0] = {} /\ \A n \in 1..N : g[n] = F[n][g[n - 1]]
      BY <1>8 DEF IsLoop
    <2>2. \A n \in 1..N : g[n - 1] \in S
      BY <1>2, <2>1
    <2> QED BY <1>6, <2>1, <2>2
  <1>10. Is(g)
    <2>1. \A n \in 0..N : n = 0 \/ n \in 1..N
      BY <1>2
    <2>2. \A n \in 1..N : g[n] = IF Matches(routes[n]) /\ \A b \in g[n - 1] : routes[n].len > b.len
                                 THEN {routes[n]} ELSE g[n - 1]
      BY <1>4, <1>9 DEF LpLookNext
    <2>3. \A n \in 0..N : g[n] = IF n = 0 THEN {}
                 ELSE IF Matches(routes[n]) /\ \A b \in g[n - 1] : routes[n].len > b.len
                      THEN {routes[n]} ELSE g[n - 1]
      BY <1>9, <2>1, <2>2
    <2> QED BY <1>9, <2>3 DEF N
  <1>11. Is(f)
    <2>1. f = CHOOSE h : Is(h)
      OBVIOUS
    <2> HIDE DEF f, Is
    <2> QED BY <1>10, <2>1
  <1> HIDE DEF f
  <1>12. f[0] = {}
    <2>1. 0 \in 0..Len(routes)
      BY <1>2 DEF N
    <2> QED BY <1>11, <2>1
  <1>13. \A n \in 1..N : f[n] = LpLookNext(f[n - 1], n, dst)
    <2> TAKE n \in 1..N
    <2>1. n \in 0..Len(routes) /\ n # 0
      BY <1>2 DEF N
    <2>2. f[n] = IF Matches(routes[n]) /\ \A b \in f[n - 1] : routes[n].len > b.len
                 THEN {routes[n]} ELSE f[n - 1]
      BY <1>11, <2>1
    <2> HIDE DEF Is
    <2> QED BY <1>4, <2>2 DEF LpLookNext
  <1> QED BY <1>1, <1>12, <1>13 DEF N

\* What the loop has found after n routes: at most one, as long as any match.
LpBest(b, n, dst) ==
    /\ \A r \in b : \E j \in 1..n : r = routes[j] /\ LpMatch(dst, j)
    /\ \A l \in 1..n : LpMatch(dst, l) => \E r \in b : routes[l].len <= r.len
    /\ \A r, s \in b : r = s

LEMMA LpBestNext ==
    ASSUME NEW dst, NEW n \in 1..Len(routes), routes \in Seq(LpRoute),
           NEW b \in SUBSET LpRoute, LpBest(b, n - 1, dst)
    PROVE  /\ LpLookNext(b, n, dst) \in SUBSET LpRoute
           /\ LpBest(LpLookNext(b, n, dst), n, dst)
  <1> DEFINE d == LpLookNext(b, n, dst)
             q == routes[n]
  <1>1. /\ q \in LpRoute /\ n \in Nat
        /\ \A j \in 1..n : j = n \/ j \in 1..(n - 1)
        /\ \A j \in 1..(n - 1) : j \in 1..n
        /\ n \in 1..n
    BY LenProperties, ElementOfSeq
  <1>2. q.len \in Nat /\ \A r \in b : r.len \in Nat
    BY <1>1, LpConstants DEF LpRoute
  <1>3. \A j \in 1..(n - 1) : routes[j].len \in Nat
    <2> TAKE j \in 1..(n - 1)
    <2>1. j \in 1..Len(routes)
      BY LenProperties
    <2>2. routes[j] \in LpRoute
      BY <2>1, ElementOfSeq
    <2>3. routes[j].len \in 0..LpmWidth
      BY <2>2, Zenon DEF LpRoute
    <2> QED BY ONLY <2>3, LpConstants
  <1>4. CASE LpMatch(dst, n) /\ \A r \in b : q.len > r.len
    <2>1. d = {q}
      BY <1>4 DEF LpLookNext
    <2> HIDE DEF d
    <2>2. \A r \in d : \E j \in 1..n : r = routes[j] /\ LpMatch(dst, j)
      BY <1>1, <1>4, <2>1
    <2>3. ASSUME NEW l \in 1..n, LpMatch(dst, l) PROVE routes[l].len <= q.len
      <3>1. CASE l = n
        BY <1>2, <3>1
      <3>2. CASE l \in 1..(n - 1)
        <4>1. PICK r \in b : routes[l].len <= r.len
          BY <2>3, <3>2 DEF LpBest
        <4> QED BY <1>2, <1>3, <1>4, <3>2, <4>1
      <3> QED BY <1>1, <3>1, <3>2
    <2>4. \A r, s \in d : r = s
      BY <2>1
    <2>5. d \in SUBSET LpRoute
      BY <1>1, <2>1
    <2> QED BY <2>1, <2>2, <2>3, <2>4, <2>5 DEF LpBest, d
  <1>5. CASE ~(LpMatch(dst, n) /\ \A r \in b : q.len > r.len)
    <2>1. d = b
      BY <1>5 DEF LpLookNext
    <2> HIDE DEF d
    <2>2. \A r \in d : \E j \in 1..n : r = routes[j] /\ LpMatch(dst, j)
      BY <1>1, <2>1 DEF LpBest
    <2>3. ASSUME NEW l \in 1..n, LpMatch(dst, l) PROVE \E r \in d : routes[l].len <= r.len
      <3>1. CASE l = n
        <4>1. PICK r \in b : ~(q.len > r.len)
          BY <1>5, <2>3, <3>1
        <4>2. q.len <= r.len
          BY <1>2, <4>1
        <4> QED BY <2>1, <3>1, <4>2
      <3>2. CASE l \in 1..(n - 1)
        BY <2>1, <2>3, <3>2 DEF LpBest
      <3> QED BY <1>1, <3>1, <3>2
    <2>4. \A r, s \in d : r = s
      BY <2>1 DEF LpBest
    <2> QED BY <2>1, <2>2, <2>3, <2>4 DEF LpBest, d
  <1> QED BY <1>4, <1>5

LEMMA LpFound ==
    ASSUME LpmInv, NEW dst \in Lpm!Addr
    PROVE  LpBest(Lpm!RouteLookup(dst), Len(routes), dst)
  <1> DEFINE N == Len(routes)
             J == [n \in 0..N |-> {b \in SUBSET LpRoute : LpBest(b, n, dst)}]
  <1>1. routes \in Seq(LpRoute) /\ N \in Nat
    BY LenProperties DEF LpmInv, LpArrays
  <1>2. PICK b : /\ Lpm!RouteLookup(dst) = b[N] /\ b[0] = {}
                 /\ \A n \in 1..N : b[n - 1] \subseteq LpRoute => b[n] = LpLookNext(b[n - 1], n, dst)
    BY LpLooked
  <1>3. b[0] \in J[0]
    <2>1. LpBest({}, 0, dst)
      <3>1. 1..0 = {}
        OBVIOUS
      <3> QED BY <3>1 DEF LpBest
    <2>2. 0 \in 0..N
      BY <1>1
    <2> QED BY <1>2, <2>1, <2>2
  <1>4. ASSUME NEW n \in 1..N, b[n - 1] \in J[n - 1] PROVE b[n] \in J[n]
    <2>1. n - 1 \in 0..N /\ n \in 0..N
      BY <1>1
    <2>2. b[n - 1] \in SUBSET LpRoute /\ LpBest(b[n - 1], n - 1, dst)
      BY <1>4, <2>1
    <2>3. b[n] = LpLookNext(b[n - 1], n, dst)
      BY <1>2, <2>2
    <2>4. b[n] \in SUBSET LpRoute /\ LpBest(b[n], n, dst)
      BY <1>1, <2>2, <2>3, LpBestNext
    <2> QED BY <2>1, <2>4
  <1>5. N \in 0..N /\ J[N] = {c \in SUBSET LpRoute : LpBest(c, N, dst)}
    BY <1>1
  <1> HIDE DEF J
  <1>6. \A n \in 0..N : b[n] \in J[n]
    BY <1>1, <1>3, <1>4, LoopStays
  <1> QED BY <1>2, <1>5, <1>6

\* A lookup gives the next hop of the longest configured prefix.
LEMMA LpmConsequences ==
    ASSUME LpmInv
    PROVE  Lpm!LpmTypeOK /\ Lpm!LookupIsLongestMatch
  <1> DEFINE s == routes
             t == configured
             N == Len(s)
  <1>1. /\ s \in Seq(LpRoute) /\ N \in Nat /\ N <= LpmCapacity
        /\ \A i \in 1..N : RtBlock(s[i].prefix, LpPow(s[i].len)) = s[i].prefix
        /\ \A i \in 1..N : LpKey(s[i]) \in DOMAIN t /\ s[i].hop = t[LpKey(s[i])]
        /\ \A i, j \in 1..N : LpKey(s[j]) = LpKey(s[i]) => j = i
        /\ \A k \in DOMAIN t : \E i \in 1..N : LpKey(s[i]) = k
    BY LenProperties DEF LpmInv, LpArrays
  <1>2. Lpm!LpmTypeOK
    BY <1>1 DEF Lpm!LpmTypeOK, LpRoute
  <1>3. ASSUME NEW dst \in Lpm!Addr
        PROVE  {r.hop : r \in Lpm!RouteLookup(dst)} =
               {t[k] : k \in {c \in Lpm!Covering(dst) : \A d \in Lpm!Covering(dst) : d[2] <= c[2]}}
    <2> DEFINE b == Lpm!RouteLookup(dst)
               C == Lpm!Covering(dst)
    <2>1. LpBest(b, N, dst)
      BY LpFound
    <2>2. ASSUME NEW i \in 1..N
          PROVE  /\ LpMatch(dst, i) <=> LpKey(s[i]) \in C
                 /\ s[i].len \in Nat /\ LpKey(s[i])[2] = s[i].len
                 /\ LpMatch(dst, i) => s[i].prefix = RtBlock(dst, LpPow(s[i].len))
      <3>1. s[i] \in LpRoute
        BY <1>1, ElementOfSeq
      <3>2. s[i].prefix \in Lpm!Addr
        BY <3>1 DEF LpRoute
      <3>3. s[i].len \in 0..LpmWidth
        BY <3>1 DEF LpRoute
      <3>4. LpPow(s[i].len) \in Nat \ {0} /\ s[i].prefix \in Nat /\ dst \in Nat /\ s[i].len \in Nat
        <4>1. LpPow(s[i].len) \in Nat \ {0}
          BY <3>3, LpConstants
        <4>2. s[i].prefix \in Nat /\ dst \in Nat
          BY <3>2, LpConstants
        <4>3. s[i].len \in Nat
          BY ONLY <3>3
        <4> QED BY <4>1, <4>2, <4>3
      <3>5. LpMatch(dst, i) <=> s[i].prefix <= dst /\ dst < s[i].prefix + LpPow(s[i].len)
        BY <1>1, <3>4, RtCovers DEF LpMatch
      <3>6. LpKey(s[i])[1] = s[i].prefix /\ LpKey(s[i])[2] = s[i].len
        BY DEF LpKey
      <3>7. LpKey(s[i]) \in C <=> s[i].prefix <= dst /\ dst < s[i].prefix + LpPow(s[i].len)
        BY <1>1, <3>6 DEF Lpm!Covering, LpPow
      <3> QED BY <3>4, <3>5, <3>6, <3>7 DEF LpMatch
    <2>3. \A k \in C : k \in DOMAIN t
      BY DEF Lpm!Covering
    <2> HIDE DEF b, C
    <2>4. \A r \in b : \E j \in 1..N : r = s[j] /\ LpMatch(dst, j)
      BY <2>1 DEF LpBest
    <2>5. \A l \in 1..N : LpMatch(dst, l) => \E r \in b : s[l].len <= r.len
      BY <2>1 DEF LpBest
    <2>6. \A r, q \in b : r = q
      BY <2>1 DEF LpBest
    <2>7. ASSUME NEW r \in b
          PROVE  \E k \in C : (\A d \in C : d[2] <= k[2]) /\ r.hop = t[k]
      <3>1. PICK j \in 1..N : r = s[j] /\ LpMatch(dst, j)
        BY <2>4
      <3>2. LpKey(s[j]) \in C /\ LpKey(s[j])[2] = r.len /\ r.hop = t[LpKey(s[j])]
        BY <1>1, <2>2, <3>1
      <3>3. ASSUME NEW d \in C PROVE d[2] <= r.len
        <4>1. PICK l \in 1..N : LpKey(s[l]) = d
          BY <1>1, <2>3
        <4>2. LpMatch(dst, l) /\ d[2] = s[l].len
          BY <2>2, <4>1
        <4>3. PICK q \in b : s[l].len <= q.len
          BY <2>5, <4>2
        <4> QED BY <2>6, <4>2, <4>3
      <3> QED BY <3>2, <3>3
    <2>8. ASSUME NEW k \in C, \A d \in C : d[2] <= k[2]
          PROVE  \E r \in b : r.hop = t[k]
      <3>1. PICK l \in 1..N : LpKey(s[l]) = k
        BY <1>1, <2>3
      <3>2. LpMatch(dst, l) /\ k[2] = s[l].len /\ s[l].len \in Nat
        BY <2>2, <3>1
      <3>3. PICK r \in b : s[l].len <= r.len
        BY <2>5, <3>2
      <3>4. PICK j \in 1..N : r = s[j] /\ LpMatch(dst, j)
        BY <2>4
      <3>5. LpKey(s[j]) \in C /\ LpKey(s[j])[2] = s[j].len /\ s[j].len \in Nat
        BY <2>2, <3>4
      <3>6. s[j].len <= k[2]
        BY <2>8, <3>5
      <3>7. s[j].len = s[l].len
        BY <3>2, <3>3, <3>4, <3>5, <3>6
      <3>8. s[j].prefix = s[l].prefix
        BY <2>2, <3>2, <3>4, <3>7
      <3>9. LpKey(s[j]) = k
        BY <3>1, <3>7, <3>8 DEF LpKey
      <3> QED BY <1>1, <3>4, <3>9
    <2>9. {r.hop : r \in b} = {t[k] : k \in {c \in C : \A d \in C : d[2] <= c[2]}}
      BY <2>7, <2>8
    <2> QED BY <2>9 DEF b, C
  <1>4. Lpm!LookupIsLongestMatch
    BY <1>3 DEF Lpm!LookupIsLongestMatch
  <1> QED BY <1>2, <1>4

-----------------------------------------------------------------------------
\* The routing table: its routes are masked, and there are as many of a prefix
\* as were added and not removed.
RtPow(len) == 2^(RtWidth - len)

RtRoute == [dest : Rtable!Addr, len : 0..RtWidth, gw : Gateway, metric : Metrics, up : BOOLEAN]

RtKey(r) == <<r.dest, r.len>>

\* The places of the routes of a prefix.
RtOf(s, p) == {i \in 1..Len(s) : RtKey(s[i]) = p}

RtInv ==
    /\ rt_entries \in Seq(RtRoute) /\ Len(rt_entries) <= RtCapacity
    /\ \A i \in 1..Len(rt_entries) :
           RtBlock(rt_entries[i].dest, RtPow(rt_entries[i].len)) = rt_entries[i].dest
    /\ balance \in [Rtable!Prefixes -> Int]
    /\ \A p \in Rtable!Prefixes : balance[p] = Cardinality(RtOf(rt_entries, p))

LEMMA RtConstants ==
    /\ RtWidth \in Nat \ {0} /\ RtCapacity \in Nat /\ Metrics \subseteq Nat
    /\ \A len \in 0..RtWidth : RtPow(len) \in Nat \ {0}
    /\ Rtable!Addr \subseteq Nat
    /\ \A a \in Rtable!Addr : \A b \in 0..a : b \in Rtable!Addr
  <1>1. RtWidth \in Nat \ {0} /\ RtCapacity \in Nat /\ Metrics \subseteq Nat
    BY TableSuiteConstants DEF Rtable!RouteTablesConstants
  <1>2. ASSUME NEW len \in 0..RtWidth PROVE RtPow(len) \in Nat \ {0}
    <2>1. RtWidth - len \in Nat
      BY <1>1
    <2> QED BY <2>1, RtPower DEF RtPow
  <1>3. 2^RtWidth \in Nat \ {0}
    BY <1>1, RtPower
  <1>4. PICK p : p = 2^RtWidth
    OBVIOUS
  <1>5. Rtable!Addr = 0..(p - 1) /\ p \in Nat \ {0}
    BY <1>3, <1>4 DEF Rtable!Addr
  <1>6. Rtable!Addr \subseteq Nat /\ \A a \in Rtable!Addr : \A b \in 0..a : b \in Rtable!Addr
    BY <1>5
  <1> QED BY <1>1, <1>2, <1>6

LEMMA RtNet ==
    ASSUME NEW a \in Rtable!Addr, NEW len \in 0..RtWidth
    PROVE  /\ Rtable!Net(a, len) = RtBlock(a, RtPow(len))
           /\ RtBlock(a, RtPow(len)) \in Rtable!Addr
           /\ RtBlock(RtBlock(a, RtPow(len)), RtPow(len)) = RtBlock(a, RtPow(len))
  <1>1. RtPow(len) \in Nat \ {0} /\ a \in Nat
    BY RtConstants
  <1>2. Rtable!Net(a, len) = RtBlock(a, RtPow(len))
    BY DEF Rtable!Net, RtBlock, RtPow
  <1>3. RtBlock(a, RtPow(len)) \in Rtable!Addr
    BY <1>1, RtBlockIs, RtConstants
  <1> QED BY <1>1, <1>2, <1>3, RtBlockAgain

\* A prefix is masked already.
LEMMA RtPrefix ==
    ASSUME NEW p \in Rtable!Prefixes
    PROVE  /\ p[1] \in Rtable!Addr /\ p[2] \in 0..RtWidth /\ p = <<p[1], p[2]>>
           /\ Rtable!Net(p[1], p[2]) = p[1] /\ RtBlock(p[1], RtPow(p[2])) = p[1]
  <1>1. PICK a \in Rtable!Addr, len \in 0..RtWidth : p = <<Rtable!Net(a, len), len>>
    BY DEF Rtable!Prefixes
  <1>2. p[1] = RtBlock(a, RtPow(len)) /\ p[2] = len /\ p = <<p[1], p[2]>>
    BY <1>1, RtNet
  <1>3. p[1] \in Rtable!Addr /\ RtBlock(p[1], RtPow(p[2])) = p[1] /\ p[2] \in 0..RtWidth
    BY <1>2, RtNet
  <1>4. Rtable!Net(p[1], p[2]) = p[1]
    BY <1>3, RtNet
  <1> QED BY <1>2, <1>3, <1>4

LEMMA RtOfFinite ==
    ASSUME NEW s \in Seq(RtRoute), NEW p
    PROVE  IsFiniteSet(RtOf(s, p)) /\ Cardinality(RtOf(s, p)) \in Nat
  <1>1. Len(s) \in Nat
    BY LenProperties
  <1>2. IsFiniteSet(1..Len(s))
    BY <1>1, FS_Interval
  <1>3. RtOf(s, p) \in SUBSET (1..Len(s))
    BY DEF RtOf
  <1>4. IsFiniteSet(RtOf(s, p))
    BY <1>2, <1>3, FS_Subset
  <1> QED BY <1>4, FS_CardinalityType

LEMMA RtInitially == ASSUME Rtable!RtableInit PROVE RtInv
  <1>1. rt_entries = <<>> /\ balance = [p \in Rtable!Prefixes |-> 0]
    BY DEF Rtable!RtableInit
  <1>2. rt_entries \in Seq(RtRoute) /\ Len(rt_entries) = 0 /\ 1..Len(rt_entries) = {}
    BY <1>1, EmptySeq
  <1>3. Len(rt_entries) <= RtCapacity
    BY <1>2, RtConstants
  <1>4. \A p : RtOf(rt_entries, p) = {}
    BY <1>2 DEF RtOf
  <1>5. Cardinality({}) = 0
    BY FS_EmptySet
  <1>6. \A p \in Rtable!Prefixes : balance[p] = Cardinality(RtOf(rt_entries, p))
    BY <1>1, <1>4, <1>5
  <1>7. balance \in [Rtable!Prefixes -> Int]
    BY <1>1
  <1> QED BY <1>2, <1>3, <1>6, <1>7 DEF RtInv

LEMMA RtAdd ==
    ASSUME RtInv, NEW p \in Rtable!Prefixes, NEW gw \in Gateway, NEW metric \in Metrics,
           NEW up \in BOOLEAN, Rtable!RtableAdd(p[1], p[2], gw, metric, up)
    PROVE  RtInv'
  <1> DEFINE new == [dest |-> p[1], len |-> p[2], gw |-> gw, metric |-> metric, up |-> up]
             s == rt_entries
             N == Len(s)
             w == Append(s, new)
             z == [balance EXCEPT ![p] = @ + 1]
  <1>1. /\ s \in Seq(RtRoute) /\ N \in Nat /\ N <= RtCapacity
        /\ \A i \in 1..N : RtBlock(s[i].dest, RtPow(s[i].len)) = s[i].dest
        /\ balance \in [Rtable!Prefixes -> Int]
        /\ \A q \in Rtable!Prefixes : balance[q] = Cardinality(RtOf(s, q))
    BY LenProperties DEF RtInv
  <1>2. /\ p[1] \in Rtable!Addr /\ p[2] \in 0..RtWidth /\ p = <<p[1], p[2]>>
        /\ Rtable!Net(p[1], p[2]) = p[1] /\ RtBlock(p[1], RtPow(p[2])) = p[1]
    BY RtPrefix
  <1>3. N < RtCapacity /\ rt_entries' = w /\ balance' = z
    BY <1>2 DEF Rtable!RtableAdd
  <1>4. new \in RtRoute /\ new.dest = p[1] /\ new.len = p[2]
    BY <1>2 DEF RtRoute
  <1>5. RtKey(new) = p
    BY <1>2, <1>4 DEF RtKey
  <1> HIDE DEF new
  <1>6. /\ w \in Seq(RtRoute) /\ Len(w) = N + 1 /\ w[N + 1] = new
        /\ \A i \in 1..N : w[i] = s[i]
    BY <1>1, <1>4, AppendProperties
  <1>7. z \in [Rtable!Prefixes -> Int] /\ \A q \in Rtable!Prefixes : z[q] = IF q = p THEN balance[p] + 1 ELSE balance[q]
    BY <1>1
  <1> HIDE DEF w, z
  <1>8. /\ \A i \in 1..Len(w) : i \in 1..N \/ i = N + 1
        /\ N + 1 \in 1..Len(w) /\ \A i \in 1..N : i \in 1..Len(w)
        /\ N + 1 \notin 1..N
    BY <1>1, <1>6
  <1>9. \A i \in 1..Len(w) : RtBlock(w[i].dest, RtPow(w[i].len)) = w[i].dest
    BY <1>1, <1>2, <1>4, <1>6, <1>8
  <1>10. ASSUME NEW q \in Rtable!Prefixes PROVE z[q] = Cardinality(RtOf(w, q))
    <2>1. CASE q = p
      <3>1. RtOf(w, q) = RtOf(s, q) \cup {N + 1}
        BY <1>5, <1>6, <1>8, <2>1 DEF RtOf
      <3>2. N + 1 \notin RtOf(s, q)
        BY <1>8 DEF RtOf
      <3>3. Cardinality(RtOf(w, q)) = Cardinality(RtOf(s, q)) + 1
        BY <1>1, <3>1, <3>2, RtOfFinite, FS_AddElement
      <3>4. z[q] = balance[q] + 1
        BY <1>7, <2>1
      <3>5. balance[q] = Cardinality(RtOf(s, q))
        BY <1>1
      <3> QED BY ONLY <3>3, <3>4, <3>5
    <2>2. CASE q # p
      <3>1. RtOf(w, q) = RtOf(s, q)
        BY <1>5, <1>6, <1>8, <2>2 DEF RtOf
      <3> QED BY <1>1, <1>7, <2>2, <3>1
    <2> QED BY <2>1, <2>2
  <1>11. Len(w) <= RtCapacity
    BY <1>1, <1>3, <1>6, RtConstants
  <1> QED BY <1>3, <1>6, <1>7, <1>9, <1>10, <1>11 DEF RtInv, RtOf, RtKey, RtPow, RtBlock

\* The routes of a prefix that are left when one route is removed.
LEMMA RtOfRemoved ==
    ASSUME NEW s \in Seq(RtRoute), NEW i \in 1..Len(s), NEW q
    PROVE  Cardinality(RtOf(Removed(s, i), q)) = Cardinality(RtOf(s, q) \ {i})
  <1> DEFINE N == Len(s)
             w == Removed(s, i)
             A == RtOf(w, q)
             B == RtOf(s, q) \ {i}
  <1>1. N \in Nat /\ w \in Seq(RtRoute) /\ Len(w) = N - 1
    BY LenProperties, SwapRemoval
  <1>2. PICK f : Moves(f, s, i)
    BY SwapRemoval
  <1>3. /\ f \in [1..(N - 1) -> (1..N) \ {i}]
        /\ \A k \in 1..(N - 1) : w[k] = s[f[k]]
        /\ \A k, l \in 1..(N - 1) : f[k] = f[l] => k = l
        /\ \A j \in (1..N) \ {i} : \E k \in 1..(N - 1) : f[k] = j
    BY <1>2 DEF Moves
  <1>4. IsFiniteSet(A)
    BY <1>1, RtOfFinite
  <1>5. A = {k \in 1..(N - 1) : RtKey(w[k]) = q}
    BY <1>1 DEF RtOf
  <1>6. B = {j \in (1..N) \ {i} : RtKey(s[j]) = q}
    BY DEF RtOf
  <1> HIDE DEF A, B, w
  <1> DEFINE g == [k \in A |-> f[k]]
  <1>7. \A k \in A : f[k] \in B
    BY <1>3, <1>5, <1>6
  <1>8. g \in [A -> B]
    BY <1>7
  <1>9. \A k, l \in A : g[k] = g[l] => k = l
    BY <1>3, <1>5
  <1>10. \A j \in B : \E k \in A : g[k] = j
    <2> TAKE j \in B
    <2>1. PICK k \in 1..(N - 1) : f[k] = j
      BY <1>3, <1>6
    <2>2. k \in A
      BY <1>3, <1>5, <1>6, <2>1
    <2> QED BY <2>1, <2>2
  <1>11. DOMAIN g = A
    OBVIOUS
  <1> HIDE DEF g
  <1>12. g \in Injection(A, B)
    BY <1>8, <1>9, <1>11, Zenon DEF Injection, IsInjective
  <1>13. g \in Surjection(A, B)
    BY <1>8, <1>10, Zenon DEF Surjection
  <1>14. ExistsBijection(A, B)
    BY <1>12, <1>13, Zenon DEF ExistsBijection, Bijection
  <1>15. Cardinality(B) = Cardinality(A)
    BY <1>4, <1>14, FS_Bijection
  <1> QED BY <1>15 DEF A, B, w

LEMMA RtRemove ==
    ASSUME RtInv, NEW p \in Rtable!Prefixes, Rtable!RtableRemove(p[1], p[2])
    PROVE  RtInv'
  <1> DEFINE s == rt_entries
             N == Len(s)
             z == [balance EXCEPT ![p] = @ - 1]
  <1>1. /\ s \in Seq(RtRoute) /\ N \in Nat /\ N <= RtCapacity /\ DOMAIN s = 1..N
        /\ \A i \in 1..N : RtBlock(s[i].dest, RtPow(s[i].len)) = s[i].dest
        /\ balance \in [Rtable!Prefixes -> Int]
        /\ \A q \in Rtable!Prefixes : balance[q] = Cardinality(RtOf(s, q))
    BY LenProperties DEF RtInv
  <1>2. p = <<p[1], p[2]>> /\ Rtable!Net(p[1], p[2]) = p[1]
    BY RtPrefix
  <1>3. balance' = z /\ \E i \in 1..N : Rtable!IsRoute(s[i], p[1], p[2]) /\ rt_entries' = Removed(s, i)
    BY <1>1, <1>2 DEF Rtable!RtableRemove, Removed
  <1>4. PICK i \in 1..N : Rtable!IsRoute(s[i], p[1], p[2]) /\ rt_entries' = Removed(s, i)
    BY <1>3
  <1>5. RtKey(s[i]) = p
    BY <1>2, <1>4 DEF Rtable!IsRoute, RtKey
  <1>6. z \in [Rtable!Prefixes -> Int] /\ \A q \in Rtable!Prefixes : z[q] = IF q = p THEN balance[p] - 1 ELSE balance[q]
    BY <1>1
  <1> DEFINE w == Removed(s, i)
  <1>7. w \in Seq(RtRoute) /\ Len(w) = N - 1
    BY <1>1, SwapRemoval
  <1>8. PICK f : Moves(f, s, i)
    BY <1>1, SwapRemoval
  <1>9. \A k \in 1..(N - 1) : f[k] \in 1..N /\ w[k] = s[f[k]]
    BY <1>8 DEF Moves
  <1>10. \A q : Cardinality(RtOf(w, q)) = Cardinality(RtOf(s, q) \ {i})
    BY <1>1, RtOfRemoved
  <1> HIDE DEF w, z
  <1>11. \A k \in 1..Len(w) : RtBlock(w[k].dest, RtPow(w[k].len)) = w[k].dest
    BY <1>1, <1>7, <1>9
  <1>12. ASSUME NEW q \in Rtable!Prefixes PROVE z[q] = Cardinality(RtOf(w, q))
    <2>1. IsFiniteSet(RtOf(s, q))
      BY <1>1, RtOfFinite
    <2>2. CASE q = p
      <3>1. i \in RtOf(s, q)
        BY <1>5, <2>2 DEF RtOf
      <3>2. Cardinality(RtOf(s, q) \ {i}) = Cardinality(RtOf(s, q)) - 1
        BY <2>1, <3>1, FS_RemoveElement
      <3> QED BY <1>1, <1>6, <1>10, <2>2, <3>2
    <2>3. CASE q # p
      <3>1. RtOf(s, q) \ {i} = RtOf(s, q)
        BY <1>5, <2>3 DEF RtOf
      <3> QED BY <1>1, <1>6, <1>10, <2>3, <3>1
    <2> QED BY <2>2, <2>3
  <1>13. Len(w) <= RtCapacity
    BY <1>1, <1>7, RtConstants
  <1>14. rt_entries' = w /\ balance' = z
    BY <1>3, <1>4 DEF w
  <1> QED BY <1>6, <1>7, <1>11, <1>12, <1>13, <1>14 DEF RtInv, RtOf, RtKey, RtPow, RtBlock

LEMMA RtStep == ASSUME RtInv, [Rtable!RtableNext]_rtVars PROVE RtInv'
  <1>1. CASE Rtable!RtableNext
    BY <1>1, RtAdd, RtRemove DEF Rtable!RtableNext
  <1>2. CASE UNCHANGED rtVars
    BY <1>2 DEF RtInv, rtVars, RtOf, RtKey, RtPow, RtBlock
  <1> QED BY <1>1, <1>2

\* A turn of the loop of nfs_rtable_lookup.
RtMatch(dst, n) ==
    rt_entries[n].up /\ RtBlock(dst, RtPow(rt_entries[n].len)) = rt_entries[n].dest

RtLookNext(b, n, dst) ==
    IF RtMatch(dst, n) /\ \A r \in b : Rtable!Better(rt_entries[n], r) THEN {rt_entries[n]} ELSE b

LEMMA RtLooked ==
    ASSUME RtInv, NEW dst \in Rtable!Addr
    PROVE  \E b : /\ Rtable!RtableLookup(dst) = b[Len(rt_entries)] /\ b[0] = {}
                  /\ \A n \in 1..Len(rt_entries) : b[n] = RtLookNext(b[n - 1], n, dst)
  <1> DEFINE N == Len(rt_entries)
             S == SUBSET RtRoute
             f[i \in 0..Len(rt_entries)] ==
                 IF i = 0 THEN {}
                 ELSE IF /\ rt_entries[i].up
                         /\ Rtable!Net(dst, rt_entries[i].len) = rt_entries[i].dest
                         /\ \A b \in f[i - 1] : Rtable!Better(rt_entries[i], b)
                      THEN {rt_entries[i]} ELSE f[i - 1]
             Is(h) == h = [i \in 0..Len(rt_entries) |->
                 IF i = 0 THEN {}
                 ELSE IF /\ rt_entries[i].up
                         /\ Rtable!Net(dst, rt_entries[i].len) = rt_entries[i].dest
                         /\ \A b \in h[i - 1] : Rtable!Better(rt_entries[i], b)
                      THEN {rt_entries[i]} ELSE h[i - 1]]
             F == [n \in 1..N |-> [b \in S |-> RtLookNext(b, n, dst)]]
  <1>1. Rtable!RtableLookup(dst) = f[N]
    BY DEF Rtable!RtableLookup
  <1>2. rt_entries \in Seq(RtRoute) /\ N \in Nat
    BY LenProperties DEF RtInv
  <1>3. \A n \in 1..N : rt_entries[n] \in RtRoute
    BY <1>2, ElementOfSeq
  <1>4. \A n \in 1..N : Rtable!Net(dst, rt_entries[n].len) = RtBlock(dst, RtPow(rt_entries[n].len))
    BY DEF Rtable!Net, RtBlock, RtPow
  <1>5. \A n \in 1..N : \A b \in S : RtLookNext(b, n, dst) \in S
    BY <1>3 DEF RtLookNext
  <1>6. /\ \A n \in 1..N : F[n] \in [S -> S]
        /\ \A n \in 1..N : \A b \in S : F[n][b] = RtLookNext(b, n, dst)
    BY <1>5
  <1>7. {} \in S
    OBVIOUS
  <1> HIDE DEF F, S, N
  <1>8. PICK g : IsLoop(g, S, F, {}, N)
    BY <1>2, <1>6, <1>7, LoopExists
  <1>9. /\ g \in [0..N -> S] /\ g[0] = {}
        /\ \A n \in 1..N : g[n] = RtLookNext(g[n - 1], n, dst)
    <2>1. g \in [0..N -> S] /\ g[0] = {} /\ \A n \in 1..N : g[n] = F[n][g[n - 1]]
      BY <1>8 DEF IsLoop
    <2>2. \A n \in 1..N : g[n - 1] \in S
      BY <1>2, <2>1
    <2> QED BY <1>6, <2>1, <2>2
  <1>10. Is(g)
    <2>1. \A n \in 0..N : n = 0 \/ n \in 1..N
      BY <1>2
    <2>2. \A n \in 1..N :
              g[n] = IF /\ rt_entries[n].up
                        /\ Rtable!Net(dst, rt_entries[n].len) = rt_entries[n].dest
                        /\ \A b \in g[n - 1] : Rtable!Better(rt_entries[n], b)
                     THEN {rt_entries[n]} ELSE g[n - 1]
      BY <1>4, <1>9 DEF RtLookNext, RtMatch
    <2>3. \A n \in 0..N : g[n] = IF n = 0 THEN {}
                 ELSE IF /\ rt_entries[n].up
                         /\ Rtable!Net(dst, rt_entries[n].len) = rt_entries[n].dest
                         /\ \A b \in g[n - 1] : Rtable!Better(rt_entries[n], b)
                      THEN {rt_entries[n]} ELSE g[n - 1]
      BY <1>9, <2>1, <2>2
    <2> QED BY <1>9, <2>3 DEF N
  <1>11. Is(f)
    <2>1. f = CHOOSE h : Is(h)
      OBVIOUS
    <2> HIDE DEF f, Is
    <2> QED BY <1>10, <2>1
  <1> HIDE DEF f
  <1>12. f[0] = {}
    <2>1. 0 \in 0..Len(rt_entries)
      BY <1>2 DEF N
    <2> QED BY <1>11, <2>1
  <1>13. \A n \in 1..N : f[n] = RtLookNext(f[n - 1], n, dst)
    <2> TAKE n \in 1..N
    <2>1. n \in 0..Len(rt_entries) /\ n # 0
      BY <1>2 DEF N
    <2>2. f[n] = IF /\ rt_entries[n].up
                    /\ Rtable!Net(dst, rt_entries[n].len) = rt_entries[n].dest
                    /\ \A b \in f[n - 1] : Rtable!Better(rt_entries[n], b)
                 THEN {rt_entries[n]} ELSE f[n - 1]
      BY <1>11, <2>1
    <2> HIDE DEF Is
    <2> QED BY <1>4, <2>2 DEF RtLookNext, RtMatch
  <1> QED BY <1>1, <1>12, <1>13 DEF N

\* r is at least as good as q.
RtNoWorse(r, q) == q.len <= r.len /\ (q.len = r.len => r.metric <= q.metric)

\* What the loop has found after n routes.
RtBest(b, n, dst) ==
    /\ b \subseteq RtRoute
    /\ \A r \in b : \E j \in 1..n : RtMatch(dst, j)
    /\ \A l \in 1..n : RtMatch(dst, l) => \E r \in b : RtNoWorse(r, rt_entries[l])
    /\ \A r, s \in b : r = s

LEMMA RtNoWorseOrder ==
    ASSUME NEW a \in RtRoute, NEW b \in RtRoute
    PROVE  /\ RtNoWorse(a, a)
           /\ ~Rtable!Better(a, b) => RtNoWorse(b, a)
           /\ \A c \in RtRoute : Rtable!Better(a, b) /\ RtNoWorse(b, c) => RtNoWorse(a, c)
  <1>1. /\ a.len \in Nat /\ b.len \in Nat /\ a.metric \in Nat /\ b.metric \in Nat
        /\ \A c \in RtRoute : c.len \in Nat /\ c.metric \in Nat
    <2>1. \A c \in RtRoute : c.len \in 0..RtWidth /\ c.metric \in Metrics
      BY DEF RtRoute
    <2>2. \A c \in RtRoute : c.len \in Nat
      BY <2>1
    <2>3. \A c \in RtRoute : c.metric \in Nat
      BY <2>1, RtConstants
    <2> QED BY <2>2, <2>3
  <1>2. RtNoWorse(a, a)
    BY <1>1 DEF RtNoWorse
  <1>3. ~Rtable!Better(a, b) => RtNoWorse(b, a)
    BY <1>1 DEF RtNoWorse, Rtable!Better
  <1>4. \A c \in RtRoute : Rtable!Better(a, b) /\ RtNoWorse(b, c) => RtNoWorse(a, c)
    BY <1>1 DEF RtNoWorse, Rtable!Better
  <1> QED BY <1>2, <1>3, <1>4

LEMMA RtBestNext ==
    ASSUME NEW dst, NEW n \in 1..Len(rt_entries), rt_entries \in Seq(RtRoute),
           NEW b, RtBest(b, n - 1, dst)
    PROVE  RtBest(RtLookNext(b, n, dst), n, dst)
  <1> DEFINE d == RtLookNext(b, n, dst)
             q == rt_entries[n]
  <1>1. /\ q \in RtRoute /\ b \subseteq RtRoute
        /\ \A j \in 1..n : j = n \/ j \in 1..(n - 1)
        /\ \A j \in 1..(n - 1) : j \in 1..n
        /\ n \in 1..n
    BY LenProperties, ElementOfSeq DEF RtBest
  <1>2. \A j \in 1..n : rt_entries[j] \in RtRoute
    <2> TAKE j \in 1..n
    <2>1. j \in 1..Len(rt_entries)
      BY LenProperties
    <2> QED BY <2>1, ElementOfSeq
  <1>3. CASE RtMatch(dst, n) /\ \A r \in b : Rtable!Better(q, r)
    <2>1. d = {q}
      BY <1>3 DEF RtLookNext
    <2> HIDE DEF d
    <2>2. \A r \in d : \E j \in 1..n : RtMatch(dst, j)
      BY <1>1, <1>3
    <2>3. ASSUME NEW l \in 1..n, RtMatch(dst, l) PROVE RtNoWorse(q, rt_entries[l])
      <3>1. CASE l = n
        BY <1>1, <3>1, RtNoWorseOrder
      <3>2. CASE l \in 1..(n - 1)
        <4>1. PICK r \in b : RtNoWorse(r, rt_entries[l])
          BY <2>3, <3>2 DEF RtBest
        <4>2. Rtable!Better(q, r) /\ r \in RtRoute
          BY <1>1, <1>3
        <4> QED BY <1>1, <1>2, <4>1, <4>2, RtNoWorseOrder
      <3> QED BY <1>1, <3>1, <3>2
    <2>4. (\A r, s \in d : r = s) /\ d \subseteq RtRoute
      BY <1>1, <2>1
    <2> QED BY <2>1, <2>2, <2>3, <2>4 DEF RtBest, d
  <1>4. CASE ~(RtMatch(dst, n) /\ \A r \in b : Rtable!Better(q, r))
    <2>1. d = b
      BY <1>4 DEF RtLookNext
    <2> HIDE DEF d
    <2>2. \A r \in d : \E j \in 1..n : RtMatch(dst, j)
      BY <1>1, <2>1 DEF RtBest
    <2>3. ASSUME NEW l \in 1..n, RtMatch(dst, l) PROVE \E r \in d : RtNoWorse(r, rt_entries[l])
      <3>1. CASE l = n
        <4>1. PICK r \in b : ~Rtable!Better(q, r)
          BY <1>4, <2>3, <3>1
        <4>2. RtNoWorse(r, q)
          BY <1>1, <4>1, RtNoWorseOrder
        <4> QED BY <2>1, <3>1, <4>2
      <3>2. CASE l \in 1..(n - 1)
        BY <2>1, <2>3, <3>2 DEF RtBest
      <3> QED BY <1>1, <3>1, <3>2
    <2>4. (\A r, s \in d : r = s) /\ d \subseteq RtRoute
      BY <2>1 DEF RtBest
    <2> QED BY <2>2, <2>3, <2>4 DEF RtBest, d
  <1> QED BY <1>3, <1>4

LEMMA RtFound ==
    ASSUME RtInv, NEW dst \in Rtable!Addr
    PROVE  RtBest(Rtable!RtableLookup(dst), Len(rt_entries), dst)
  <1> DEFINE N == Len(rt_entries)
             J == [n \in 0..N |-> {b \in SUBSET RtRoute : RtBest(b, n, dst)}]
  <1>1. rt_entries \in Seq(RtRoute) /\ N \in Nat
    BY LenProperties DEF RtInv
  <1>2. PICK b : /\ Rtable!RtableLookup(dst) = b[N] /\ b[0] = {}
                 /\ \A n \in 1..N : b[n] = RtLookNext(b[n - 1], n, dst)
    BY RtLooked
  <1>3. b[0] \in J[0]
    <2>1. RtBest({}, 0, dst)
      <3>1. 1..0 = {}
        OBVIOUS
      <3> QED BY <3>1 DEF RtBest
    <2>2. 0 \in 0..N
      BY <1>1
    <2> QED BY <1>2, <2>1, <2>2
  <1>4. ASSUME NEW n \in 1..N, b[n - 1] \in J[n - 1] PROVE b[n] \in J[n]
    <2>1. n - 1 \in 0..N /\ n \in 0..N
      BY <1>1
    <2>2. RtBest(b[n - 1], n - 1, dst)
      BY <1>4, <2>1
    <2>3. RtBest(b[n], n, dst)
      BY <1>1, <1>2, <2>2, RtBestNext
    <2>4. b[n] \in SUBSET RtRoute
      BY <2>3 DEF RtBest
    <2> QED BY <2>1, <2>3, <2>4
  <1>5. N \in 0..N /\ J[N] = {c \in SUBSET RtRoute : RtBest(c, N, dst)}
    BY <1>1
  <1> HIDE DEF J
  <1>6. \A n \in 0..N : b[n] \in J[n]
    BY <1>1, <1>3, <1>4, LoopStays
  <1> QED BY <1>2, <1>5, <1>6

\* A lookup gives the best usable route, and a removal takes one of its own.
LEMMA RtConsequences ==
    ASSUME RtInv
    PROVE  Rtable!RtableTypeOK /\ Rtable!LookupIsBest
  <1> DEFINE s == rt_entries
             N == Len(s)
  <1>1. /\ s \in Seq(RtRoute) /\ N \in Nat /\ N <= RtCapacity /\ DOMAIN s = 1..N
        /\ \A i \in 1..N : RtBlock(s[i].dest, RtPow(s[i].len)) = s[i].dest
        /\ \A p \in Rtable!Prefixes : balance[p] = Cardinality(RtOf(s, p))
    BY LenProperties DEF RtInv
  <1>2. Rtable!RtableTypeOK
    BY <1>1 DEF Rtable!RtableTypeOK, RtRoute
  <1>3. ASSUME NEW dst \in Rtable!Addr
        PROVE  /\ Rtable!RtableLookup(dst) = {} <=> Rtable!Usable(dst) = {}
               /\ \A r \in Rtable!RtableLookup(dst), i \in Rtable!Usable(dst) :
                      /\ s[i].len <= r.len
                      /\ s[i].len = r.len => r.metric <= s[i].metric
    <2> DEFINE b == Rtable!RtableLookup(dst)
               U == Rtable!Usable(dst)
    <2>1. RtBest(b, N, dst)
      BY RtFound
    <2>2. ASSUME NEW i \in 1..N PROVE i \in U <=> RtMatch(dst, i)
      <3>1. s[i] \in RtRoute
        BY <1>1, ElementOfSeq
      <3>2. s[i].dest \in Rtable!Addr
        BY <3>1 DEF RtRoute
      <3>3. s[i].len \in 0..RtWidth
        BY <3>1 DEF RtRoute
      <3>5. RtPow(s[i].len) \in Nat \ {0}
        BY <3>3, RtConstants
      <3>6. s[i].dest \in Nat /\ dst \in Nat
        BY <3>2, RtConstants
      <3>7. RtBlock(dst, RtPow(s[i].len)) = s[i].dest
                <=> s[i].dest <= dst /\ dst < s[i].dest + RtPow(s[i].len)
        BY <1>1, <3>5, <3>6, RtCovers
      <3>8. i \in U <=> s[i].up /\ s[i].dest <= dst /\ dst < s[i].dest + RtPow(s[i].len)
        BY <1>1, Zenon DEF Rtable!Usable, RtPow
      <3> QED BY <3>7, <3>8 DEF RtMatch
    <2>3. \A i \in U : i \in 1..N
      BY <1>1 DEF Rtable!Usable
    <2> HIDE DEF b, U
    <2>4. b = {} <=> U = {}
      <3>1. b # {} => U # {}
        BY <2>1, <2>2 DEF RtBest
      <3>2. U # {} => b # {}
        BY <2>1, <2>2, <2>3 DEF RtBest
      <3> QED BY <3>1, <3>2
    <2>5. ASSUME NEW r \in b, NEW i \in U PROVE RtNoWorse(r, s[i])
      <3>1. PICK q \in b : RtNoWorse(q, s[i])
        BY <2>1, <2>2, <2>3 DEF RtBest
      <3>2. q = r
        BY <2>1 DEF RtBest
      <3> QED BY <3>1, <3>2
    <2> QED BY <2>4, <2>5 DEF RtNoWorse, b, U
  <1>4. ASSUME NEW p \in Rtable!Prefixes
        PROVE  balance[p] = Rtable!Cardinality({i \in DOMAIN s : <<s[i].dest, s[i].len>> = p})
    <2>1. RtOf(s, p) = {i \in DOMAIN s : <<s[i].dest, s[i].len>> = p}
      BY <1>1 DEF RtOf, RtKey
    <2>2. Rtable!Cardinality(RtOf(s, p)) = Cardinality(RtOf(s, p))
      BY Zenon DEF Rtable!Cardinality, Cardinality
    <2> QED BY <1>1, <2>1, <2>2
  <1>5. Rtable!LookupIsBest
    BY <1>3, <1>4 DEF Rtable!LookupIsBest
  <1> QED BY <1>2, <1>5

-----------------------------------------------------------------------------
\* A host that has spoken since it moved is reached, an ARP lookup gives the
\* address learned last, and a sweep misses no entry, whatever was moved, aged
\* or refused and however large the tables are (mac_table.c, bridge.c,
\* l2switch.c, arp_cache.c).
THEOREM HostsAreFollowed == Spec => []TrafficFollowsTheHosts
  <1> DEFINE Inv == ArpInv /\ MacInv /\ BrInv /\ SwitchInv
  <1>1. Init => Inv
    BY ArpInitially, MacInitially, BrInitially, SwitchInitially, Zenon DEF Init
  <1>2. Inv /\ [Next]_vars => Inv'
    BY TableSteps, ArpStep, MacStep, BrStep, SwitchStep, Zenon
  <1>3. Inv => TrafficFollowsTheHosts
    BY ArpConsequences, MacConsequences, BrConsequences, SwitchConsequences, Zenon
       DEF TrafficFollowsTheHosts
  <1> QED BY <1>1, <1>2, <1>3, PTL DEF Spec

\* No frame goes to a port because of what was learned or entered before it
\* was removed (bridge.c), and none is forwarded to a host in a VLAN it was
\* never heard in (l2switch.c).
THEOREM FramesAreContained == Spec => []FramesStayInside
  <1> DEFINE Inv == BrInv /\ SwitchInv
  <1>1. Init => Inv
    BY BrInitially, SwitchInitially, Zenon DEF Init
  <1>2. Inv /\ [Next]_vars => Inv'
    BY TableSteps, BrStep, SwitchStep, Zenon
  <1>3. Inv => FramesStayInside
    BY BrConsequences, SwitchConsequences, Zenon DEF FramesStayInside
  <1> QED BY <1>1, <1>2, <1>3, PTL DEF Spec

\* Fragments are put together to the packet that was cut and fit their arrays
\* unless the MTU is below the header or above a full array (fragment.c); a
\* reply reaches the endpoint its port was given to unless the ports have gone
\* round since that mapping or before it (nat.c); and a lookup finds the best of
\* the routes that are configured (lpm.c, rtable.c): for a packet of any size
\* and all MTUs, tables, port numbers and addresses of any size.
THEOREM PacketsArriveRight == Spec => []PacketsGoWhereTheyShould
  <1> DEFINE Inv == FragInv /\ NatInv /\ LpmInv /\ RtInv
  <1>1. Init => Inv
    BY FragInitially, NatInitially, LpmInitially, RtInitially, Zenon DEF Init
  <1>2. Inv /\ [Next]_vars => Inv'
    BY TableSteps, FragStep, NatStep, LpmStep, RtStep, Zenon
  <1>3. Inv => PacketsGoWhereTheyShould
    BY FragConsequences, NatConsequences, LpmConsequences, RtConsequences, Zenon
       DEF PacketsGoWhereTheyShould
  <1> QED BY <1>1, <1>2, <1>3, PTL DEF Spec
=============================================================================
