--------------------------- MODULE ProtocolProofs ---------------------------
(***************************************************************************)
(* Proofs about the suite of protocols (MCProtocols).  The parts of the    *)
(* suite are separate programs, so what one of them keeps invariant by     *)
(* itself the suite keeps invariant too (PartSteps, ProbingSteps,          *)
(* ConnectionSteps).                                                       *)
(*   - First the parts that learn what the network bears: the congestion   *)
(*     controllers, the timer estimator, the trace of a path and the path  *)
(*     MTU, for every segment size, threshold, filter length, set of       *)
(*     measurements, path and plateau table.                               *)
(*   - Then the parts that open, watch and close connections, for every    *)
(*     sequence space, table size, timeout and set of connections.         *)
(***************************************************************************)
EXTENDS MCProtocols, SequenceTheorems, FiniteSetTheorems, WellFoundedInduction, TLAPS

\* A step of the suite is, for each controller, a step of that controller or
\* one that leaves it alone.
LEMMA PartSteps ==
    ASSUME [Next]_vars
    PROVE  /\ [Basic!Next]_basicVars
           /\ [Reno!Next]_renoVars
           /\ [FastRecovery!Next]_frVars
           /\ [Cubic!Next]_cubicVars
           /\ [Bbr!Next]_bbrVars
           /\ [Rto!Next]_rtoVars
           /\ UNCHANGED which
  <1>1. CASE Next
    BY <1>1 DEF Next, Only
  <1>2. CASE UNCHANGED vars
    BY <1>2 DEF vars
  <1> QED BY <1>1, <1>2

-----------------------------------------------------------------------------
\* The increase of one acknowledgement in congestion avoidance is at least
\* one byte and at most a segment, however the integer division rounds.
LEMMA SmallIncrease ==
    ASSUME NEW m \in Nat \ {0}, NEW w \in Nat, w >= m
    PROVE  Basic!Larger((m * m) \div w, 1) \in 1..m
  <1> DEFINE k == (m * m) \div w
  <1>1. m * m \in Nat
    OBVIOUS
  <1>2. k \in Nat /\ k * w <= m * m
    BY <1>1
  <1>3. k <= m
    <2>1. SUFFICES ASSUME k >= m + 1 PROVE FALSE
      BY <1>2
    <2>2. k * w >= (m + 1) * w
      BY <2>1, <1>2
    <2>3. (m + 1) * w >= (m + 1) * m
      OBVIOUS
    <2> QED BY <2>2, <2>3, <1>1, <1>2
  <1> HIDE DEF k
  <1> QED BY <1>2, <1>3 DEF Basic!Larger, k

\* The assumptions on the constants of congestion.c, tcp_reno.c and
\* fast_recovery.c.
LEMMA ControllerConstants ==
    /\ Mss \in Nat \ {0}
    /\ InitSsthresh \in Nat /\ InitSsthresh >= 2 * Mss
    /\ MaxCwnd \in Nat /\ MaxCwnd >= Mss
    /\ InitCwnd \in Nat /\ InitCwnd >= Mss
    /\ MaxSeq \in Nat /\ MaxDups \in Nat
  BY ProtocolSuiteConstants
  DEF Basic!CongestionConstants, Reno!RenoConstants, FastRecovery!FastRecoveryConstants

-----------------------------------------------------------------------------
\* congestion.c.
BasicInv == Basic!TypeOK /\ Basic!AvoidanceAboveThreshold

\* congestion.c keeps its windows in range and uses linear growth only at or
\* above the threshold.
LEMMA BasicInvariant == Spec => []BasicInv
  <1> USE ControllerConstants
  <1>1. Init => BasicInv
    BY DEF Init, Basic!Init, BasicInv, Basic!TypeOK, Basic!AvoidanceAboveThreshold, Basic!Larger
  <1>2. BasicInv /\ [Next]_vars => BasicInv'
    <2> SUFFICES ASSUME BasicInv, [Next]_vars PROVE BasicInv'
      OBVIOUS
    <2> USE DEF BasicInv, Basic!TypeOK, Basic!AvoidanceAboveThreshold, Basic!Larger
    <2>1. CASE Basic!OnAck
      <3>1. Basic!AdditiveIncrease \in 1..Mss
        BY SmallIncrease DEF Basic!AdditiveIncrease
      <3> QED BY <2>1, <3>1 DEF Basic!OnAck
    <2>2. CASE Basic!OnLoss
      BY <2>2 DEF Basic!OnLoss, Basic!Halved, Basic!PhaseAfterLoss
    <2>3. CASE Basic!OnTripleDupAck
      BY <2>3 DEF Basic!OnTripleDupAck, Basic!Halved
    <2>4. CASE UNCHANGED basicVars
      BY <2>4 DEF basicVars
    <2> QED BY <2>1, <2>2, <2>3, <2>4, PartSteps DEF Basic!Next
  <1> QED BY <1>1, <1>2, PTL DEF Spec

-----------------------------------------------------------------------------
\* tcp_reno.c.
RenoInv == Reno!TypeOK /\ Reno!InflationIsAccounted

\* tcp_reno.c without its flag.
RenoWindows ==
    /\ reno_cwnd \in Mss..MaxCwnd
    /\ reno_ssthresh \in (2 * Mss)..Reno!Larger(InitSsthresh, MaxCwnd)
    /\ reno_dups \in Nat
    /\ ~reno_recovery => reno_dups < 3
    /\ Reno!InflationIsAccounted

\* tcp_reno.c keeps its windows in range and in recovery lends exactly one
\* segment for every duplicate counted.
LEMMA RenoInvariant == Spec => []RenoInv
  <1> USE ControllerConstants
  <1>1. RenoInv <=> reno_recovery \in BOOLEAN /\ RenoWindows
    BY DEF RenoInv, Reno!TypeOK, RenoWindows
  <1>2. Init => reno_recovery \in BOOLEAN
    BY DEF Init, Reno!Init
  <1>3. Init => RenoWindows
    BY DEF Init, Reno!Init, RenoWindows, Reno!InflationIsAccounted, Reno!Larger
  <1>4. RenoInv /\ [Next]_vars => reno_recovery' \in BOOLEAN
    BY PartSteps DEF RenoInv, Reno!TypeOK, renoVars, Reno!Next, Reno!OnAck, Reno!ExitRecovery,
        Reno!OnDupAck, Reno!OnTimeout
  <1>5. RenoInv /\ [Next]_vars => RenoWindows'
    <2> SUFFICES ASSUME RenoWindows, [Next]_vars PROVE RenoWindows'
      BY <1>1
    <2> USE DEF RenoWindows, Reno!InflationIsAccounted, Reno!Larger
    <2>1. CASE Reno!OnAck
      <3>1. Reno!WindowAfterAck \in (reno_cwnd + 1)..(reno_cwnd + Mss)
        BY SmallIncrease DEF Reno!WindowAfterAck, Basic!Larger
      <3>2. reno_ssthresh \in Nat /\ (reno_recovery => reno_ssthresh <= reno_cwnd)
        OBVIOUS
      <3> QED BY <2>1, <3>1, <3>2 DEF Reno!OnAck, Reno!ExitRecovery, Reno!DupsAfterRecovery
    <2>2. CASE Reno!OnDupAck /\ Reno!EntersRecovery
      <3>1. reno_dups' = 3 /\ reno_recovery'
        BY <2>2 DEF Reno!OnDupAck, Reno!EntersRecovery
      <3>2. reno_cwnd' = reno_ssthresh' + 3 * Mss
        BY <2>2 DEF Reno!OnDupAck
      <3>3. reno_cwnd' <= MaxCwnd /\ reno_ssthresh' = Reno!Halved
        BY <2>2 DEF Reno!OnDupAck
      <3> QED BY <3>1, <3>2, <3>3 DEF Reno!Halved
    <2>3. CASE Reno!OnDupAck /\ ~Reno!EntersRecovery
      <3>1. (reno_dups + 1) * Mss = reno_dups * Mss + Mss
        OBVIOUS
      <3> QED BY <2>3, <3>1 DEF Reno!OnDupAck, Reno!EntersRecovery
    <2>4. CASE Reno!OnTimeout
      BY <2>4 DEF Reno!OnTimeout, Reno!Halved
    <2>5. CASE UNCHANGED renoVars
      BY <2>5 DEF renoVars
    <2> QED BY <2>1, <2>2, <2>3, <2>4, <2>5, PartSteps DEF Reno!Next
  <1>6. Init => RenoInv
    BY <1>1, <1>2, <1>3
  <1>7. RenoInv /\ [Next]_vars => RenoInv'
    BY <1>4, <1>5 DEF RenoInv, Reno!TypeOK, RenoWindows
  <1> QED BY <1>6, <1>7, PTL DEF Spec

-----------------------------------------------------------------------------
\* fast_recovery.c: in recovery the window is above the threshold, so that
\* leaving it is a reduction.
FastRecoveryInv ==
    /\ FastRecovery!TypeOK
    /\ FastRecovery!OneReductionPerWindow
    /\ fr_recovery => fr_cwnd >= fr_ssthresh + 3 * Mss

\* fast_recovery.c without its flag.
FastRecoveryCounters ==
    /\ fr_cwnd \in Nat /\ fr_cwnd >= Mss
    /\ fr_ssthresh \in Nat /\ fr_ssthresh >= 2 * Mss
    /\ fr_dups \in 0..MaxDups
    /\ last_ack \in 0..snd_nxt /\ snd_nxt \in 0..MaxSeq
    /\ recovery_point \in 0..snd_nxt /\ reducedAt \in 0..snd_nxt
    /\ FastRecovery!OneReductionPerWindow
    /\ fr_recovery => fr_cwnd >= fr_ssthresh + 3 * Mss

\* fast_recovery.c leaves recovery only when all that was outstanding at the
\* reduction is acknowledged.
LEMMA FastRecoveryInvariant == Spec => []FastRecoveryInv
  <1> USE ControllerConstants
  <1>1. FastRecoveryInv <=> fr_recovery \in BOOLEAN /\ FastRecoveryCounters
    BY DEF FastRecoveryInv, FastRecovery!TypeOK, FastRecoveryCounters
  <1>2. Init => fr_recovery \in BOOLEAN
    BY DEF Init, FastRecovery!Init
  <1>3. Init => FastRecoveryCounters
    BY DEF Init, FastRecovery!Init, FastRecoveryCounters, FastRecovery!OneReductionPerWindow
  <1>4. FastRecoveryInv /\ [Next]_vars => fr_recovery' \in BOOLEAN
    BY PartSteps DEF FastRecoveryInv, FastRecovery!TypeOK, frVars, FastRecovery!Next,
        FastRecovery!SendSegment, FastRecovery!NewAck, FastRecovery!DupAck
  <1>5. FastRecoveryInv /\ [Next]_vars => FastRecoveryCounters'
    <2> SUFFICES ASSUME FastRecoveryCounters, [Next]_vars PROVE FastRecoveryCounters'
      BY <1>1
    <2> USE DEF FastRecoveryCounters, FastRecovery!OneReductionPerWindow
    <2>1. CASE FastRecovery!SendSegment
      BY <2>1 DEF FastRecovery!SendSegment
    <2>2. ASSUME NEW n \in 0..snd_nxt, FastRecovery!NewAck(n) PROVE FastRecoveryCounters'
      BY <2>2 DEF FastRecovery!NewAck, FastRecovery!FullAck
    <2>3. ASSUME NEW n \in 0..snd_nxt, FastRecovery!DupAck(n) PROVE FastRecoveryCounters'
      BY <2>3 DEF FastRecovery!DupAck, FastRecovery!EntersRecovery, FastRecovery!Halved
    <2>4. CASE UNCHANGED frVars
      BY <2>4 DEF frVars
    <2> QED BY <2>1, <2>2, <2>3, <2>4, PartSteps DEF FastRecovery!Next
  <1>6. Init => FastRecoveryInv
    BY <1>1, <1>2, <1>3
  <1>7. FastRecoveryInv /\ [Next]_vars => FastRecoveryInv'
    BY <1>4, <1>5 DEF FastRecoveryInv, FastRecovery!TypeOK, FastRecoveryCounters
  <1> QED BY <1>6, <1>7, PTL DEF Spec

-----------------------------------------------------------------------------
\* congestion.c, tcp_reno.c and fast_recovery.c implement additive increase,
\* multiplicative decrease: an acknowledgement adds at most a segment, a sign
\* of congestion halves, and leaving recovery takes back what was lent.
THEOREM ImplementsAimd == Spec => AimdSpec
  <1> USE ControllerConstants
  <1>1. Init => Controller!Init
    BY DEF Init, Controller!Init, Basic!Init, Reno!Init, FastRecovery!Init
  <1>2. ASSUME BasicInv, RenoInv, FastRecoveryInv, [Next]_vars
        PROVE  [Controller!Next]_(Controller!vars)
    <2> USE PartSteps
        DEF Controller!vars, Controller!Next, Controller!Grow, Controller!Congestion,
            Controller!Deflate, Controller!Larger
    <2>1. CASE which = "reno"
      <3> USE <1>2, <2>1 DEF RenoInv, Reno!TypeOK, Reno!InflationIsAccounted, Reno!Larger
      <3>1. CASE Reno!OnAck
        <4>1. Reno!WindowAfterAck \in (reno_cwnd + 1)..(reno_cwnd + Mss)
          BY SmallIncrease DEF Reno!WindowAfterAck, Basic!Larger
        <4>2. reno_recovery => reno_ssthresh < reno_cwnd
          OBVIOUS
        <4> QED BY <3>1, <4>1, <4>2 DEF Reno!OnAck, Reno!ExitRecovery
      <3>2. CASE Reno!OnDupAck
        BY <3>2 DEF Reno!OnDupAck, Reno!EntersRecovery, Reno!Halved
      <3>3. CASE Reno!OnTimeout
        BY <3>3 DEF Reno!OnTimeout, Reno!Halved
      <3>4. CASE UNCHANGED renoVars
        BY <3>4 DEF renoVars
      <3> QED BY <3>1, <3>2, <3>3, <3>4 DEF Reno!Next
    <2>2. CASE which = "fast_recovery"
      <3> USE <1>2, <2>2 DEF FastRecoveryInv, FastRecovery!TypeOK
      <3>1. CASE FastRecovery!SendSegment
        BY <3>1 DEF FastRecovery!SendSegment
      <3>2. ASSUME NEW n \in 0..snd_nxt, FastRecovery!NewAck(n)
            PROVE  [Controller!Next]_(Controller!vars)
        BY <3>2 DEF FastRecovery!NewAck, FastRecovery!FullAck
      <3>3. ASSUME NEW n \in 0..snd_nxt, FastRecovery!DupAck(n)
            PROVE  [Controller!Next]_(Controller!vars)
        BY <3>3 DEF FastRecovery!DupAck, FastRecovery!EntersRecovery, FastRecovery!Halved
      <3>4. CASE UNCHANGED frVars
        BY <3>4 DEF frVars
      <3> QED BY <3>1, <3>2, <3>3, <3>4 DEF FastRecovery!Next
    <2>3. CASE which \notin {"reno", "fast_recovery"}
      <3> USE <1>2, <2>3 DEF BasicInv, Basic!TypeOK, Basic!Larger
      <3>1. CASE Basic!OnAck
        <4>1. Basic!AdditiveIncrease \in 1..Mss
          BY SmallIncrease DEF Basic!AdditiveIncrease
        <4> QED BY <3>1, <4>1 DEF Basic!OnAck
      <3>2. CASE Basic!OnLoss
        BY <3>2 DEF Basic!OnLoss, Basic!Halved
      <3>3. CASE Basic!OnTripleDupAck
        BY <3>3 DEF Basic!OnTripleDupAck, Basic!Halved
      <3>4. CASE UNCHANGED basicVars
        BY <3>4 DEF basicVars
      <3> QED BY <3>1, <3>2, <3>3, <3>4 DEF Basic!Next
    <2> QED BY <2>1, <2>2, <2>3
  <1> QED BY <1>1, <1>2, BasicInvariant, RenoInvariant, FastRecoveryInvariant, PTL
          DEF Spec, AimdSpec, Controller!Spec

-----------------------------------------------------------------------------
\* A set of naturals that is not empty has a least element.
LEMMA LeastNatural ==
    ASSUME NEW T, T \subseteq Nat, T # {}
    PROVE  \E x \in T : \A y \in T : x <= y
  <1>1. \E x \in T : \A y \in T : ~(<<y, x>> \in OpToRel(<, Nat))
    BY NatLessThanWellFounded, WFMin
  <1>2. ASSUME NEW x \in T, NEW y \in T, ~(<<y, x>> \in OpToRel(<, Nat))
        PROVE  x <= y
    BY <1>2 DEF OpToRel
  <1> QED BY <1>1, <1>2

\* Every natural has an integer cube root, and CubeRoot returns it.
LEMMA CubeRootIsRoot ==
    ASSUME NEW x \in Nat
    PROVE  /\ Cubic!CubeRoot(x) \in 0..x
           /\ Cubic!Cube(Cubic!CubeRoot(x)) <= x
           /\ x < Cubic!Cube(Cubic!CubeRoot(x) + 1)
  <1> DEFINE T == {n \in Nat : x < (n + 1) * (n + 1) * (n + 1)}
  <1>1. x \in T
    <2>1. (x + 1) * (x + 1) >= x + 1
      OBVIOUS
    <2>2. (x + 1) * (x + 1) * (x + 1) >= x + 1
      BY <2>1
    <2> QED BY <2>2
  <1>2. PICK n \in T : \A k \in T : n <= k
    BY <1>1, LeastNatural
  <1>3. n \in 0..x
    BY <1>1, <1>2
  <1>4. n * n * n <= x
    <2>1. CASE n = 0
      BY <2>1
    <2>2. CASE n # 0
      <3>1. n - 1 \in Nat /\ n - 1 \notin T
        BY <1>2, <2>2
      <3>2. (n - 1) + 1 = n
        OBVIOUS
      <3> QED BY <3>1, <3>2
    <2> QED BY <2>1, <2>2
  <1>5. \E r \in 0..x : Cubic!Cube(r) <= x /\ x < Cubic!Cube(r + 1)
    BY <1>3, <1>4 DEF Cubic!Cube
  <1> QED BY <1>5 DEF Cubic!CubeRoot

\* A cube has the sign of its base.
LEMMA CubeOfNegative ==
    ASSUME NEW z \in Int, z <= 0
    PROVE  Cubic!Cube(z) \in Int /\ Cubic!Cube(z) <= 0
  <1>1. z * z \in Nat
    OBVIOUS
  <1>2. z * z * z \in Int /\ z * z * z <= 0
    BY <1>1
  <1> QED BY <1>2 DEF Cubic!Cube

\* tcp_cubic.c.
CubicInv == Cubic!TypeOK /\ lossCwnd \in Nat /\ Cubic!ConcaveBelowWmax

\* The assumptions on the constants of tcp_cubic.c.
LEMMA CubicConstantsHold ==
    /\ CubicMss \in Nat \ {0} /\ CubicSsthresh \in Nat /\ CubicSsthresh >= 2 * CubicMss
    /\ CubicMaxCwnd \in Nat /\ CubicMaxCwnd >= 2 * CubicMss /\ MaxTime \in Nat
  BY ProtocolSuiteConstants DEF Cubic!CubicConstants

\* Until K the target is not above the window at which the loss happened.
LEMMA TargetIsConcave ==
    ASSUME NEW w \in Nat, NEW t \in Int, NEW k \in Int, t <= k
    PROVE  Cubic!Larger((4 * Cubic!Cube(t - k) + 10 * w) \div 10, CubicMss)
             <= Cubic!Larger(w, CubicMss)
  <1>1. Cubic!Cube(t - k) \in Int /\ Cubic!Cube(t - k) <= 0
    BY CubeOfNegative
  <1>2. (4 * Cubic!Cube(t - k) + 10 * w) \div 10 <= w
    BY <1>1
  <1> QED BY <1>1, <1>2, CubicConstantsHold DEF Cubic!Larger

\* An acknowledgement in congestion avoidance opens the window.
LEMMA CubicIncreases ==
    ASSUME Cubic!TypeOK, NEW t \in Int, NEW k \in Int
    PROVE  Cubic!Increase(Cubic!Target(t, k)) \in Nat \ {0}
  <1> USE CubicConstantsHold DEF Cubic!TypeOK
  <1> DEFINE target == Cubic!Target(t, k)
             share == Cubic!Larger(cubic_cwnd \div CubicMss, 1)
  <1>1. Cubic!Cube(t - k) \in Int
    BY DEF Cubic!Cube
  <1>2. target \in Int
    BY <1>1 DEF Cubic!Target, Cubic!Larger
  <1>3. share \in Nat \ {0}
    BY DEF Cubic!Larger
  <1> HIDE DEF target, share
  <1>4. target > cubic_cwnd => (target - cubic_cwnd) \div share \in Nat
    BY <1>2, <1>3
  <1>5. Cubic!Increase(target) \in Nat \ {0}
    BY <1>2, <1>3, <1>4 DEF Cubic!Increase, Cubic!Larger, share
  <1> QED BY <1>5 DEF target

\* tcp_cubic.c never grows from below the threshold after a loss, and its
\* target is concave below the window of the loss.
LEMMA CubicInvariant == Spec => []CubicInv
  <1> USE CubicConstantsHold DEF Cubic!None
  <1>1. Init => CubicInv
    BY DEF Init, Cubic!Init, CubicInv, Cubic!TypeOK, Cubic!ConcaveBelowWmax, Cubic!Larger
  <1>2. CubicInv /\ [Next]_vars => CubicInv'
    <2> SUFFICES ASSUME CubicInv, [Next]_vars PROVE CubicInv'
      OBVIOUS
    <2> DEFINE Grown == lossCwnd > 0 => cubic_cwnd >= cubic_ssthresh /\ cubic_cwnd >= lossCwnd
    <2> SUFFICES Cubic!TypeOK' /\ (lossCwnd \in Nat)' /\ Grown'
      <3>1. Cubic!TypeOK' => (epoch' <= K' => Cubic!Target(epoch, K)' <= Cubic!Larger(wmax, CubicMss)')
        BY TargetIsConcave DEF Cubic!TypeOK, Cubic!Target
      <3> QED BY <3>1 DEF CubicInv, Cubic!ConcaveBelowWmax
    <2>1. Cubic!TypeOK /\ lossCwnd \in Nat /\ Grown
      BY DEF CubicInv, Cubic!ConcaveBelowWmax
    <2>2. \A w \in 0..CubicMaxCwnd : Cubic!RegrowthTime(w) \in 0..CubicMaxCwnd
      <3> SUFFICES ASSUME NEW w \in 0..CubicMaxCwnd
                   PROVE  Cubic!RegrowthTime(w) \in 0..CubicMaxCwnd
        OBVIOUS
      <3>1. (w * 3) \div 4 \in Nat /\ (w * 3) \div 4 <= w
        OBVIOUS
      <3>2. Cubic!CubeRoot((w * 3) \div 4) \in 0..((w * 3) \div 4)
        BY <3>1, CubeRootIsRoot
      <3> QED BY <3>1, <3>2 DEF Cubic!RegrowthTime
    <2>3. CASE Cubic!SlowStartAck
      BY <2>1, <2>3 DEF Cubic!SlowStartAck, Cubic!TypeOK, Cubic!Larger
    <2>4. CASE Cubic!AvoidanceAck
      <3>1. epoch' \in Cubic!None..MaxTime /\ K' \in 0..CubicMaxCwnd
        BY <2>1, <2>2, <2>4 DEF Cubic!AvoidanceAck, Cubic!TypeOK
      <3>2. Cubic!Increase(Cubic!Target(epoch', K')) \in Nat \ {0}
        BY <2>1, <3>1, CubicIncreases
      <3> QED BY <2>1, <2>4, <3>1, <3>2 DEF Cubic!AvoidanceAck, Cubic!TypeOK, Cubic!Larger
    <2>5. CASE Cubic!OnLoss
      <3>1. Cubic!Reduced \in (2 * CubicMss)..CubicMaxCwnd
        BY <2>1 DEF Cubic!Reduced, Cubic!TypeOK, Cubic!Larger
      <3>2. cubic_cwnd \in 0..CubicMaxCwnd
        BY <2>1 DEF Cubic!TypeOK
      <3> QED BY <2>2, <2>5, <3>1, <3>2 DEF Cubic!OnLoss, Cubic!TypeOK, Cubic!Larger
    <2>6. CASE Cubic!Tick
      BY <2>1, <2>6 DEF Cubic!Tick, Cubic!TypeOK
    <2>7. CASE UNCHANGED cubicVars
      BY <2>1, <2>7 DEF cubicVars, Cubic!TypeOK
    <2> QED BY <2>3, <2>4, <2>5, <2>6, <2>7, PartSteps DEF Cubic!Next, Cubic!OnAck
  <1> QED BY <1>1, <1>2, PTL DEF Spec

-----------------------------------------------------------------------------
\* The maximum of a bounded set of naturals that is not empty is its largest
\* element.
LEMMA MaxOfBounded ==
    ASSUME NEW T, T \subseteq Nat, T # {}, NEW b \in Nat, \A y \in T : y <= b
    PROVE  Bbr!Max(T) \in T /\ \A y \in T : Bbr!Max(T) >= y
  <1> DEFINE U == {u \in Nat : \A y \in T : y <= u}
  <1>1. PICK u \in U : \A v \in U : u <= v
    BY LeastNatural
  <1>2. u \in T
    <2>1. SUFFICES ASSUME u \notin T PROVE FALSE
      OBVIOUS
    <2>2. \A y \in T : y <= u /\ y # u
      BY <1>1, <2>1
    <2>3. PICK y \in T : TRUE
      OBVIOUS
    <2>4. u - 1 \in Nat /\ \A z \in T : z <= u - 1
      BY <1>1, <2>2, <2>3
    <2>5. u - 1 \in U
      BY <2>4
    <2> QED BY <1>1, <2>5
  <1>3. \A y \in T : u >= y
    BY <1>1
  <1> QED BY <1>2, <1>3 DEF Bbr!Max

\* The assumptions on the constants of bbr.c.
LEMMA BbrConstantsHold ==
    /\ Rates \subseteq Nat \ {0} /\ Rtts \subseteq Nat \ {0}
    /\ Unit \in Nat \ {0} /\ FilterLen \in Nat \ {0} /\ RtWindow \in Nat \ {0}
    /\ ProbeRttTime \in Nat \ {0} /\ BbrMss \in Nat \ {0}
  BY ProtocolSuiteConstants DEF Bbr!BbrConstants

\* Where the i-th newest sample lies in the circular buffer.
SlotOf(i) == IF i <= head THEN head - i ELSE head + FilterLen - i

\* The circular buffer of bw_filter_add and the samples it stands for.
RingTypes ==
    /\ head \in 0..(FilterLen - 1) /\ bbr_count \in 0..FilterLen
    /\ samples \in [0..(FilterLen - 1) -> Rates \cup {0}]
    /\ bbr_count < FilterLen => head = bbr_count
    /\ recent \in Seq(Nat) /\ Len(recent) = bbr_count
    /\ \E b \in Nat : \A i \in 0..(FilterLen - 1) : samples[i] <= b
RingIsRecent ==
    \A i \in 1..bbr_count : recent[i] = samples[SlotOf(i)]
FilterIsMax ==
    btl_bw = Bbr!Max({samples[i] : i \in 0..(bbr_count - 1)} \cup {0})
BbrRing == RingTypes /\ RingIsRecent /\ FilterIsMax

\* The ring, once it has gone round too, holds just the recent samples.
LEMMA RingHoldsRecent ==
    ASSUME RingTypes, RingIsRecent
    PROVE  {samples[i] : i \in 0..(bbr_count - 1)} = {recent[i] : i \in DOMAIN recent}
  <1> USE BbrConstantsHold DEF RingTypes
  <1>1. DOMAIN recent = 1..bbr_count
    BY LenProperties
  <1>2. ASSUME NEW i \in 1..bbr_count PROVE SlotOf(i) \in 0..(bbr_count - 1)
    BY DEF SlotOf
  <1>3. ASSUME NEW i \in 0..(bbr_count - 1) PROVE \E k \in 1..bbr_count : SlotOf(k) = i
    <2>1. CASE i < head
      <3>1. head - i \in 1..bbr_count /\ SlotOf(head - i) = i
        BY <2>1 DEF SlotOf
      <3> QED BY <3>1
    <2>2. CASE i >= head
      <3>1. bbr_count = FilterLen
        BY <2>2
      <3>2. head + FilterLen - i \in 1..bbr_count /\ SlotOf(head + FilterLen - i) = i
        BY <2>2, <3>1 DEF SlotOf
      <3> QED BY <3>2
    <2> QED BY <2>1, <2>2
  <1>4. ASSUME NEW i \in 1..bbr_count PROVE \E k \in 0..(bbr_count - 1) : samples[k] = recent[i]
    BY <1>2 DEF RingIsRecent
  <1>5. ASSUME NEW i \in 0..(bbr_count - 1) PROVE \E k \in 1..bbr_count : samples[i] = recent[k]
    BY <1>3 DEF RingIsRecent
  <1> HIDE DEF RingTypes
  <1> DEFINE S == {samples[i] : i \in 0..(bbr_count - 1)}
             R == {recent[i] : i \in 1..bbr_count}
  <1>6. S \subseteq R
    BY <1>5
  <1>7. R \subseteq S
    BY <1>4
  <1> QED BY <1>1, <1>6, <1>7

\* The estimate is a natural number.
LEMMA FilterIsNat ==
    ASSUME NEW sam \in [0..(FilterLen - 1) -> Rates \cup {0}], NEW c \in 0..FilterLen,
           NEW b \in Nat, \A i \in 0..(FilterLen - 1) : sam[i] <= b
    PROVE  Bbr!Max({sam[i] : i \in 0..(c - 1)} \cup {0}) \in Nat
  <1> DEFINE T == {sam[i] : i \in 0..(c - 1)} \cup {0}
  <1>1. ASSUME NEW i \in 0..(c - 1) PROVE i \in 0..(FilterLen - 1) /\ sam[i] \in Nat
    <2>1. i \in 0..(FilterLen - 1)
      BY BbrConstantsHold
    <2>2. sam[i] \in Rates \cup {0}
      BY <2>1
    <2>3. Rates \cup {0} \subseteq Nat
      BY BbrConstantsHold
    <2> QED BY <2>1, <2>2, <2>3, Zenon
  <1>2. T \subseteq Nat /\ T # {}
    BY <1>1
  <1>3. \A y \in T : y <= b
    BY <1>1
  <1>4. Bbr!Max(T) \in T
    BY <1>2, <1>3, MaxOfBounded
  <1> QED BY <1>2, <1>4

\* Naturals are closed under products.
LEMMA ProductIsNat ==
    ASSUME NEW x \in Nat, NEW y \in Nat
    PROVE  x * y \in Nat
  OBVIOUS

\* Counting round a circle of n places.
LEMMA NextModulo ==
    ASSUME NEW n \in Nat \ {0}, NEW x \in 0..(n - 1)
    PROVE  (x + 1) % n = IF x = n - 1 THEN 0 ELSE x + 1
  OBVIOUS

\* A new sample goes to the head of the ring and of the history.
LEMMA AddSampleKeepsRing ==
    ASSUME BbrRing, NEW rate \in Rates, Bbr!AddSample(rate)
    PROVE  BbrRing'
  <1> USE BbrConstantsHold DEF BbrRing, RingTypes
  <1>1. /\ samples' = [samples EXCEPT ![head] = rate]
        /\ head' = IF head = FilterLen - 1 THEN 0 ELSE head + 1
        /\ bbr_count' = IF bbr_count < FilterLen THEN bbr_count + 1 ELSE bbr_count
        /\ recent' = SubSeq(<<rate>> \o recent, 1, bbr_count')
    <2>1. head' = (head + 1) % FilterLen
      BY DEF Bbr!AddSample, Bbr!NextHead
    <2> QED BY <2>1, NextModulo DEF Bbr!AddSample
  <1> DEFINE longer == <<rate>> \o recent
  <1>2. /\ longer \in Seq(Nat) /\ Len(longer) = bbr_count + 1
        /\ longer[1] = rate
        /\ \A i \in 2..(bbr_count + 1) : longer[i] = recent[i - 1]
    OBVIOUS
  <1>3. bbr_count' \in 1..FilterLen /\ bbr_count' <= bbr_count + 1
    BY <1>1
  <1> HIDE DEF longer
  <1>4. /\ recent' \in Seq(Nat) /\ Len(recent') = bbr_count'
        /\ \A i \in 1..bbr_count' : recent'[i] = longer[i]
    BY <1>1, <1>2, <1>3, SMTT(60) DEF longer
  <1>5. \E b \in Nat : \A i \in 0..(FilterLen - 1) : samples'[i] <= b
    <2>1. PICK b \in Nat : \A i \in 0..(FilterLen - 1) : samples[i] <= b
      OBVIOUS
    <2>2. rate \in Nat /\ b + rate \in Nat
      OBVIOUS
    <2>3. ASSUME NEW i \in 0..(FilterLen - 1) PROVE samples'[i] <= b + rate
      <3>1. samples[i] \in Nat /\ samples[i] <= b
        <4>1. samples[i] \in Rates \cup {0}
          OBVIOUS
        <4>2. Rates \cup {0} \subseteq Nat
          OBVIOUS
        <4>3. samples[i] <= b
          BY <2>1
        <4> QED BY <4>1, <4>2, <4>3
      <3>2. samples'[i] = IF i = head THEN rate ELSE samples[i]
        BY <1>1
      <3> QED BY <2>2, <3>1, <3>2
    <2> QED BY <2>2, <2>3
  <1>6. RingTypes'
    BY <1>1, <1>3, <1>4, <1>5
  <1>7. RingIsRecent'
    <2> SUFFICES ASSUME NEW i \in 1..bbr_count' PROVE recent'[i] = samples'[SlotOf(i)']
      BY DEF RingIsRecent
    <2>1. CASE i = 1
      <3>1. SlotOf(i)' = head
        BY <1>1, <2>1 DEF SlotOf
      <3> QED BY <1>1, <1>2, <1>4, <2>1, <3>1
    <2>2. CASE i # 1
      <3>1. i - 1 \in 1..bbr_count /\ i \in 2..(bbr_count + 1)
        BY <1>3, <2>2
      <3>2. /\ head' = IF head = FilterLen - 1 THEN 0 ELSE head + 1
            /\ head \in 0..(FilterLen - 1) /\ i - 1 \in 1..FilterLen
            /\ i <= FilterLen
        BY <1>1, <1>3, <3>1
      <3>a. SlotOf(i)' = SlotOf(i - 1)
        <4>1. CASE i - 1 <= head
          BY <3>2, <4>1 DEF SlotOf
        <4>2. CASE ~(i - 1 <= head)
          BY <3>2, <4>2 DEF SlotOf
        <4> QED BY <4>1, <4>2
      <3>b. SlotOf(i - 1) # head /\ SlotOf(i - 1) \in 0..(FilterLen - 1)
        <4> HIDE DEF BbrRing, RingTypes
        <4> QED BY <3>2 DEF SlotOf
      <3>3. recent'[i] = samples[SlotOf(i - 1)]
        BY <1>2, <1>4, <3>1 DEF RingIsRecent
      <3> QED BY <1>1, <3>a, <3>b, <3>3
    <2> QED BY <2>1, <2>2
  <1>8. FilterIsMax'
    BY DEF Bbr!AddSample, FilterIsMax
  <1> QED BY <1>6, <1>7, <1>8

\* bbr.c without its ring.
BbrCounters ==
    /\ bbr_state \in {"STARTUP", "DRAIN", "PROBE_BW", "PROBE_RTT"}
    /\ probe_bw_phase \in 0..(Bbr!Phases - 1)
    /\ full_bw_count \in 0..3
    /\ bbr_state = "STARTUP" => full_bw_count <= 2
    /\ probe_rtt_left \in 0..ProbeRttTime
    /\ rt_prop \in Nat
    /\ bbr_cwnd >= Bbr!MinCwnd
PipeIsKnown == filled_pipe <=> bbr_state # "STARTUP"
BbrInv == BbrRing /\ BbrCounters /\ PipeIsKnown

\* The window of nfs_bbr_on_ack is never below four segments.
LEMMA BbrWindow ==
    ASSUME NEW x \in Nat
    PROVE  Bbr!Max({Bbr!MinCwnd, x}) >= Bbr!MinCwnd
  <1> DEFINE T == {Bbr!MinCwnd, x}
  <1>1. Bbr!MinCwnd \in Nat
    BY BbrConstantsHold DEF Bbr!MinCwnd
  <1>2. T \subseteq Nat /\ T # {} /\ Bbr!MinCwnd + x \in Nat
        /\ \A y \in T : y <= Bbr!MinCwnd + x
    BY <1>1
  <1>3. \A y \in T : Bbr!Max(T) >= y
    BY <1>2, MaxOfBounded
  <1> QED BY <1>3

\* One acknowledgement of bbr.c.
LEMMA BbrOnAck ==
    ASSUME BbrInv, NEW rtt \in Rtts \cup {0}, NEW rate \in Rates \cup {0}, Bbr!OnAck(rtt, rate)
    PROVE  BbrInv'
  <1> USE BbrConstantsHold
  <1>1. BbrRing'
    <2>1. CASE rate > 0
      <3>1. rate \in Rates /\ Bbr!AddSample(rate)
        BY <2>1 DEF Bbr!OnAck
      <3> QED BY <3>1, AddSampleKeepsRing DEF BbrInv
    <2>2. CASE ~(rate > 0)
      <3>1. UNCHANGED <<samples, head, bbr_count, btl_bw, recent>>
        BY <2>2 DEF Bbr!OnAck
      <3> QED BY <3>1 DEF BbrInv, BbrRing, RingTypes, RingIsRecent, FilterIsMax, SlotOf
    <2> QED BY <2>1, <2>2
  <1>2. btl_bw' \in Nat
    <2>1. PICK b \in Nat : \A i \in 0..(FilterLen - 1) : samples'[i] <= b
      BY <1>1 DEF BbrRing, RingTypes
    <2>2. /\ samples' \in [0..(FilterLen - 1) -> Rates \cup {0}] /\ bbr_count' \in 0..FilterLen
          /\ btl_bw' = Bbr!Max({samples'[i] : i \in 0..(bbr_count' - 1)} \cup {0})
      BY <1>1 DEF BbrRing, RingTypes, FilterIsMax
    <2> QED BY <2>1, <2>2, FilterIsNat
  <1>3. rt_prop' \in Nat
    BY DEF BbrInv, BbrCounters, Bbr!OnAck
  <1>4. /\ full_bw_count' \in 0..3
        /\ bbr_state = "STARTUP" /\ ~filled_pipe' => full_bw_count' <= 2
        /\ bbr_state # "STARTUP" => filled_pipe'
    <2>1. CASE bbr_state = "STARTUP"
      <3>1. filled_pipe' = (filled_pipe \/ full_bw_count' >= 3)
        BY <2>1 DEF Bbr!OnAck, Bbr!CheckStartup
      <3>2. full_bw_count \in 0..2
        BY <2>1 DEF BbrInv, BbrCounters
      <3>3. full_bw_count' \in 0..3
        BY <2>1, <3>2 DEF Bbr!OnAck, Bbr!CheckStartup
      <3>4. ~filled_pipe' => ~(full_bw_count' >= 3)
        BY <3>1
      <3> QED BY <2>1, <3>3, <3>4
    <2>2. CASE bbr_state # "STARTUP"
      <3>1. filled_pipe' = filled_pipe /\ full_bw_count' = full_bw_count
        BY <2>2 DEF Bbr!OnAck, Bbr!CheckStartup
      <3> QED BY <2>2, <3>1 DEF BbrInv, BbrCounters, PipeIsKnown
    <2> QED BY <2>1, <2>2
  <1>5. bbr_state' \in {"STARTUP", "DRAIN", "PROBE_BW", "PROBE_RTT"}
    BY DEF BbrInv, BbrCounters, Bbr!OnAck, Bbr!AfterDrain, Bbr!AfterStartup
  <1>6. bbr_state' = "STARTUP" <=> bbr_state = "STARTUP" /\ ~filled_pipe'
    BY DEF BbrInv, BbrCounters, Bbr!OnAck, Bbr!AfterDrain, Bbr!AfterStartup,
           Bbr!EntersProbeRtt, Bbr!LeavesProbeRtt
  <1>7. probe_bw_phase' \in 0..(Bbr!Phases - 1)
    BY DEF BbrInv, BbrCounters, Bbr!OnAck, Bbr!PhaseBefore, Bbr!Phases
  <1>8. probe_rtt_left' \in 0..ProbeRttTime
    BY DEF BbrInv, BbrCounters, Bbr!OnAck
  <1>9. bbr_cwnd' >= Bbr!MinCwnd
    <2> DEFINE bdp == IF rt_prop' = Bbr!Unknown THEN 0 ELSE Bbr!Bdp(btl_bw', rt_prop')
               x == (bdp * Bbr!CwndGain(bbr_state')) \div 1000
    <2>1. bdp \in Nat
      <3>1. btl_bw' * rt_prop' \in Nat
        BY <1>2, <1>3, ProductIsNat
      <3> QED BY <3>1 DEF Bbr!Bdp
    <2>2. Bbr!CwndGain(bbr_state') \in Nat
      <3>1. CASE bbr_state' \in {"STARTUP", "DRAIN"}
        BY <3>1 DEF Bbr!CwndGain
      <3>2. CASE bbr_state' = "PROBE_BW"
        BY <3>2 DEF Bbr!CwndGain
      <3>3. CASE bbr_state' = "PROBE_RTT"
        BY <3>3 DEF Bbr!CwndGain
      <3> QED BY <1>5, <3>1, <3>2, <3>3
    <2>3. x \in Nat
      <3> HIDE DEF bdp
      <3>1. bdp * Bbr!CwndGain(bbr_state') \in Nat
        BY <2>1, <2>2, ProductIsNat
      <3> QED BY <3>1
    <2>4. bbr_cwnd' = Bbr!Max({Bbr!MinCwnd, x})
      BY DEF Bbr!OnAck
    <2> HIDE DEF x
    <2> QED BY <2>3, <2>4, BbrWindow
  <1>10. BbrCounters'
    BY <1>3, <1>4, <1>5, <1>6, <1>7, <1>8, <1>9 DEF BbrCounters, Bbr!MinCwnd
  <1>11. PipeIsKnown'
    BY <1>4, <1>6 DEF PipeIsKnown
  <1> QED BY <1>1, <1>10, <1>11 DEF BbrInv

\* bbr.c keeps the maximum of its last samples, however often the ring has
\* gone round.
LEMMA BbrInvariant == Spec => []BbrInv
  <1> USE BbrConstantsHold
  <1>1. Init => BbrInv
    <2> SUFFICES ASSUME Bbr!Init PROVE BbrInv
      BY DEF Init
    <2>1. RingTypes /\ RingIsRecent
      BY DEF Bbr!Init, RingTypes, RingIsRecent
    <2>2. FilterIsMax
      <3>1. {samples[i] : i \in 0..(bbr_count - 1)} \cup {0} = {0}
        BY DEF Bbr!Init
      <3>2. Bbr!Max({0}) = 0
        BY DEF Bbr!Max
      <3> QED BY <3>1, <3>2 DEF Bbr!Init, FilterIsMax
    <2>3. BbrCounters
      BY DEF Bbr!Init, BbrCounters, Bbr!Phases, Bbr!Unknown, Bbr!MinCwnd
    <2>4. PipeIsKnown
      BY DEF Bbr!Init, PipeIsKnown
    <2> QED BY <2>1, <2>2, <2>3, <2>4 DEF BbrInv, BbrRing
  <1>2. BbrInv /\ [Next]_vars => BbrInv'
    <2> SUFFICES ASSUME BbrInv, [Next]_vars PROVE BbrInv'
      OBVIOUS
    <2>1. CASE Bbr!AckArrives
      BY <2>1, BbrOnAck DEF Bbr!AckArrives
    <2>2. CASE Bbr!Tick
      BY <2>2 DEF Bbr!Tick, BbrInv, BbrRing, RingTypes, RingIsRecent, FilterIsMax, SlotOf,
                  BbrCounters, PipeIsKnown
    <2>3. CASE UNCHANGED bbrVars
      BY <2>3 DEF bbrVars, BbrInv, BbrRing, RingTypes, RingIsRecent, FilterIsMax, SlotOf,
                  BbrCounters, PipeIsKnown
    <2> QED BY <2>1, <2>2, <2>3, PartSteps DEF Bbr!Next
  <1> QED BY <1>1, <1>2, PTL DEF Spec

\* What the invariant says of the filter.
LEMMA BbrFilter == BbrInv => Bbr!TypeOK /\ Bbr!BandwidthIsRecentMax
  <1> SUFFICES ASSUME BbrInv PROVE Bbr!TypeOK /\ Bbr!BandwidthIsRecentMax
    OBVIOUS
  <1>1. Bbr!TypeOK
    BY DEF BbrInv, BbrRing, RingTypes, BbrCounters, Bbr!TypeOK
  <1>2. Bbr!BandwidthIsRecentMax
    BY RingHoldsRecent DEF BbrInv, BbrRing, FilterIsMax, PipeIsKnown, Bbr!BandwidthIsRecentMax
  <1> QED BY <1>1, <1>2

-----------------------------------------------------------------------------
\* Whatever the order of acknowledgements, duplicates, losses and timeouts,
\* each controller's memory of the past agrees with the windows it has set:
\* congestion.c its phase, tcp_reno.c the inflation, fast_recovery.c one
\* reduction for one loss event, tcp_cubic.c the window of the loss, bbr.c
\* the bandwidth filter.
THEOREM WindowsAccounted == Spec => []WindowsAreAccounted
  <1>1. BasicInv /\ RenoInv /\ FastRecoveryInv /\ CubicInv /\ BbrInv => WindowsAreAccounted
    BY BbrFilter DEF BasicInv, RenoInv, FastRecoveryInv, CubicInv, WindowsAreAccounted
  <1> QED BY <1>1, BasicInvariant, RenoInvariant, FastRecoveryInvariant, CubicInvariant,
             BbrInvariant, PTL

-----------------------------------------------------------------------------
\* Multiplication by a unit keeps the order.
LEMMA ScaledOrder ==
    ASSUME NEW a \in Nat, NEW b \in Nat, NEW g \in Nat, a <= b
    PROVE  a * g <= b * g
  OBVIOUS

\* A product of naturals is one.
LEMMA ProductNat ==
    ASSUME NEW a \in Nat, NEW g \in Nat
    PROVE  a * g \in Nat
  OBVIOUS

\* A unit eight times finer.
LEMMA ScaledEight ==
    ASSUME NEW a \in Nat, NEW g \in Nat
    PROVE  a * (8 * g) = 8 * (a * g)
  OBVIOUS

\* The assumptions on the constants of rto.c.
LEMMA RtoConstantsHold ==
    Scale \in Nat \ {0} /\ Samples \subseteq Nat /\ MaxSamples \in Nat
  BY ProtocolSuiteConstants DEF Rto!RtoConstants

\* rto.c: the range of what was measured, with the samples that bound it, the
\* estimate and the variance within it.
Measured(lo, hi) ==
    /\ lo \in Rto!Range(seen) /\ hi \in Rto!Range(seen)
    /\ \A y \in Rto!Range(seen) : lo <= y /\ y <= hi
    /\ lo * grain <= srtt /\ srtt <= hi * grain
    /\ 2 * rttvar <= Rto!Larger(2 * (hi - lo), seen[Len(seen)]) * grain

RtoTypes ==
    /\ srtt \in Nat /\ rttvar \in Nat /\ grain \in Nat \ {0} /\ rto \in Nat
    /\ seen \in Seq(Nat)

RtoInv ==
    /\ RtoTypes
    /\ Rto!RtoMin * grain <= rto /\ rto <= Rto!RtoMax * grain
    /\ initialized = (seen # <<>>)
    /\ seen # <<>> => \E lo, hi \in Nat : Measured(lo, hi)
    /\ Rto!TimerCoversLastSample

\* One more sample in front: the others and the first one stay.
LEMMA OneMoreSample ==
    ASSUME NEW s \in Seq(Nat), NEW r \in Nat
    PROVE  LET t == <<r>> \o s
           IN  /\ t \in Seq(Nat) /\ t # <<>> /\ t[1] = r
               /\ Rto!Range(t) = Rto!Range(s) \cup {r}
               /\ t[Len(t)] = IF s = <<>> THEN r ELSE s[Len(s)]
  <1> DEFINE t == <<r>> \o s
  <1>1. t \in Seq(Nat) /\ Len(t) = Len(s) + 1 /\ t[1] = r /\ \A k \in 1..Len(s) : t[k + 1] = s[k]
    OBVIOUS
  <1>2. Len(s) \in Nat /\ DOMAIN s = 1..Len(s) /\ DOMAIN t = 1..Len(t)
    BY <1>1
  <1>3. s = <<>> <=> Len(s) = 0
    BY EmptySeq
  <1>4. t # <<>>
    BY <1>1, <1>2, EmptySeq
  <1> HIDE DEF t
  <1>5. ASSUME NEW y PROVE y \in Rto!Range(t) <=> y \in Rto!Range(s) \cup {r}
    <2>1. \A k \in DOMAIN t : k = 1 \/ (k - 1 \in 1..Len(s) /\ t[k] = s[k - 1])
      BY <1>1, <1>2
    <2>2. ASSUME y \in Rto!Range(t) PROVE y \in Rto!Range(s) \cup {r}
      <3>1. PICK k \in DOMAIN t : y = t[k]
        BY <2>2 DEF Rto!Range
      <3>2. CASE k = 1
        BY <3>1, <3>2, <1>1
      <3>3. CASE k - 1 \in 1..Len(s) /\ t[k] = s[k - 1]
        BY <3>1, <3>3, <1>2 DEF Rto!Range
      <3> QED BY <2>1, <3>2, <3>3
    <2>3. ASSUME y \in Rto!Range(s) \cup {r} PROVE y \in Rto!Range(t)
      <3>1. CASE y = r
        BY <3>1, <1>1, <1>2 DEF Rto!Range
      <3>2. CASE y \in Rto!Range(s)
        <4>1. PICK k \in 1..Len(s) : y = s[k]
          BY <3>2, <1>2 DEF Rto!Range
        <4>2. k + 1 \in DOMAIN t /\ y = t[k + 1]
          BY <4>1, <1>1, <1>2
        <4> QED BY <4>2 DEF Rto!Range
      <3> QED BY <2>3, <3>1, <3>2
    <2> QED BY <2>2, <2>3
  <1>6. t[Len(t)] = IF s = <<>> THEN r ELSE s[Len(s)]
    BY <1>1, <1>2, <1>3
  <1> QED BY <1>1, <1>4, <1>5, <1>6 DEF t

\* The weights of nfs_rto_update keep the estimate between the bounds and the
\* variance within the spread.  The products with the unit are given as such.
LEMMA WeightsKeepBounds ==
    ASSUME NEW s \in Nat, NEW v \in Nat, NEW R \in Nat, NEW L \in Nat, NEW H \in Nat, NEW D \in Nat,
           L <= s, s <= H, L <= R, R <= H, 2 * v <= D, 2 * (H - L) <= D
    PROVE  /\ 8 * L <= Rto!Smoothed(s, R) /\ Rto!Smoothed(s, R) <= 8 * H
           /\ 2 * Rto!Deviation(v, Rto!Distance(s, R)) <= 8 * D
  BY DEF Rto!Smoothed, Rto!Deviation, Rto!Distance

\* Four times the new variance covers what the new estimate lags behind.
LEMMA WeightsCoverSample ==
    ASSUME NEW s \in Nat, NEW v \in Nat, NEW R \in Nat
    PROVE  /\ Rto!Smoothed(s, R) \in Nat /\ Rto!Deviation(v, Rto!Distance(s, R)) \in Nat
           /\ Rto!Smoothed(s, R) + 4 * Rto!Deviation(v, Rto!Distance(s, R)) >= 8 * R
  BY DEF Rto!Smoothed, Rto!Deviation, Rto!Distance

\* clamp_rto stays in the limits and never cuts below the smaller of the upper
\* limit and what it is given.
LEMMA ClampRange ==
    ASSUME NEW t \in Nat, NEW g \in Nat
    PROVE  /\ Rto!Clamp(t, g) \in Nat
           /\ Rto!RtoMin * g <= Rto!Clamp(t, g) /\ Rto!Clamp(t, g) <= Rto!RtoMax * g
           /\ \A u \in Nat : u <= t /\ u <= Rto!RtoMax * g => u <= Rto!Clamp(t, g)
  <1> DEFINE a == Rto!RtoMin * g
             b == Rto!RtoMax * g
  <1>1. a \in Nat /\ b \in Nat /\ a <= b
    <2>1. Rto!RtoMin \in Nat /\ Rto!RtoMax \in Nat /\ Rto!RtoMin <= Rto!RtoMax
      BY RtoConstantsHold DEF Rto!RtoMin, Rto!RtoMax
    <2> QED BY <2>1, ScaledOrder, ProductNat
  <1> HIDE DEF a, b
  <1>2. Rto!Clamp(t, g) = Rto!Larger(a, Rto!Smaller(b, t))
    BY DEF Rto!Clamp, a, b
  <1>3. /\ Rto!Larger(a, Rto!Smaller(b, t)) \in Nat
        /\ a <= Rto!Larger(a, Rto!Smaller(b, t)) /\ Rto!Larger(a, Rto!Smaller(b, t)) <= b
        /\ \A u \in Nat : u <= t /\ u <= b => u <= Rto!Larger(a, Rto!Smaller(b, t))
    BY <1>1 DEF Rto!Larger, Rto!Smaller
  <1> QED BY <1>2, <1>3 DEF a, b

\* The smaller of the upper limit and a sample, in the unit that is kept.
LEMMA SmallerScaled ==
    ASSUME NEW r \in Nat, NEW g \in Nat
    PROVE  LET u == Rto!Smaller(Rto!RtoMax, r) * g
           IN  u \in Nat /\ u <= r * g /\ u <= Rto!RtoMax * g
  <1>1. Rto!RtoMax \in Nat
    BY RtoConstantsHold DEF Rto!RtoMax
  <1>2. /\ Rto!Smaller(Rto!RtoMax, r) \in Nat
        /\ Rto!Smaller(Rto!RtoMax, r) <= r /\ Rto!Smaller(Rto!RtoMax, r) <= Rto!RtoMax
    BY <1>1 DEF Rto!Smaller
  <1> QED BY <1>1, <1>2, ScaledOrder, ProductNat
\* What nfs_rto_update keeps.
LEMMA RtoUpdates ==
    ASSUME RtoInv, NEW r \in Samples, Rto!Update(r)
    PROVE  RtoInv'
  <1> DEFINE R == r * grain
  <1>1. r \in Nat /\ grain \in Nat \ {0} /\ R \in Nat /\ srtt \in Nat /\ rttvar \in Nat /\ seen \in Seq(Nat)
    BY RtoConstantsHold, ProductNat DEF RtoInv, RtoTypes
  <1> HIDE DEF R
  <1>2. /\ grain' = 8 * grain /\ initialized' = TRUE /\ seen' = <<r>> \o seen
        /\ rto' = Rto!TimeoutFor(srtt', rttvar', grain')
    BY DEF Rto!Update
  <1>3. /\ seen' \in Seq(Nat) /\ seen' # <<>> /\ seen'[1] = r
        /\ Rto!Range(seen') = Rto!Range(seen) \cup {r}
        /\ seen'[Len(seen')] = IF seen = <<>> THEN r ELSE seen[Len(seen)]
    BY <1>1, <1>2, OneMoreSample
  <1>4. r * grain' = 8 * R
    BY <1>1, <1>2, ScaledEight DEF R
  <1>5. ASSUME seen = <<>>
        PROVE  /\ srtt' \in Nat /\ rttvar' \in Nat /\ srtt' + 4 * rttvar' >= 8 * R
               /\ \E lo, hi \in Nat : Measured(lo, hi)'
    <2>1. srtt' = 8 * R /\ rttvar' = 4 * R
      BY <1>5 DEF RtoInv, Rto!Update, R
    <2>2. Rto!Range(seen) = {}
      BY <1>5 DEF Rto!Range
    <2>3. Rto!Range(seen') = {r} /\ seen'[Len(seen')] = r
      BY <1>3, <1>5, <2>2
    <2>4. Rto!Larger(2 * (r - r), r) = r
      BY <1>1 DEF Rto!Larger
    <2>5. Measured(r, r)'
      BY <1>1, <1>4, <2>1, <2>3, <2>4 DEF Measured
    <2> QED BY <1>1, <2>1, <2>5
  <1>6. ASSUME seen # <<>>
        PROVE  /\ srtt' \in Nat /\ rttvar' \in Nat /\ srtt' + 4 * rttvar' >= 8 * R
               /\ \E lo, hi \in Nat : Measured(lo, hi)'
    <2>1. /\ srtt' = Rto!Smoothed(srtt, R)
          /\ rttvar' = Rto!Deviation(rttvar, Rto!Distance(srtt, R))
      BY <1>6 DEF RtoInv, Rto!Update, R
    <2>2. PICK lo \in Nat, hi \in Nat : Measured(lo, hi)
      BY <1>6 DEF RtoInv
    <2> DEFINE lo1 == Rto!Smaller(lo, r)
               hi1 == Rto!Larger(hi, r)
               last == seen[Len(seen)]
               d == Rto!Larger(2 * (hi - lo), last)
               d1 == Rto!Larger(2 * (hi1 - lo1), last)
    <2>3. /\ lo1 \in Nat /\ hi1 \in Nat /\ lo1 <= lo /\ lo1 <= r /\ hi <= hi1 /\ r <= hi1
          /\ lo1 \in {lo, r} /\ hi1 \in {hi, r}
      BY <1>1, <2>2 DEF Rto!Smaller, Rto!Larger
    <2>4. lo <= hi /\ last \in Nat
      <3>1. lo <= hi
        BY <2>2 DEF Measured
      <3>2. last \in Nat
        BY <1>1, <1>6, EmptySeq
      <3> QED BY <3>1, <3>2
    <2> HIDE DEF lo1, hi1, last
    <2>5. d \in Nat /\ d1 \in Nat /\ d <= d1 /\ 2 * (hi1 - lo1) <= d1
      BY <2>2, <2>3, <2>4 DEF Rto!Larger
    <2>6. 2 * rttvar <= d * grain /\ lo * grain <= srtt /\ srtt <= hi * grain
      BY <2>2 DEF Measured, last
    <2> HIDE DEF d, d1
    <2> DEFINE L == lo1 * grain
               H == hi1 * grain
               D == d1 * grain
    <2>7. /\ L \in Nat /\ H \in Nat /\ D \in Nat
          /\ L <= R /\ R <= H
      BY <1>1, <2>3, <2>5, ScaledOrder, ProductNat DEF R
    <2>8. L <= lo * grain /\ hi * grain <= H /\ d * grain <= D
      BY <1>1, <2>3, <2>5, ScaledOrder, ProductNat
    <2>9. lo * grain \in Nat /\ hi * grain \in Nat /\ d * grain \in Nat
      BY <1>1, <2>2, <2>5, ProductNat
    <2>10. 2 * (H - L) <= D
      <3>1. lo1 <= hi1
        BY <1>1, <2>3
      <3>2. 2 * (hi1 - lo1) \in Nat
        BY <2>3, <3>1
      <3>3. (2 * (hi1 - lo1)) * grain <= D
        BY <1>1, <2>5, <3>2, ScaledOrder
      <3>4. (2 * (hi1 - lo1)) * grain = 2 * (H - L)
        BY <1>1, <2>3
      <3> QED BY <3>3, <3>4
    <2>11. L <= srtt /\ srtt <= H /\ 2 * rttvar <= D
      <3> HIDE DEF L, H, D
      <3>1. \A x, y, z \in Nat : x <= y /\ y <= z => x <= z
        OBVIOUS
      <3>2. 2 * rttvar \in Nat
        BY <1>1
      <3> QED BY <1>1, <2>6, <2>7, <2>8, <2>9, <3>1, <3>2
    <2>12. lo1 * grain' = 8 * L /\ hi1 * grain' = 8 * H /\ d1 * grain' = 8 * D
      BY <1>1, <1>2, <2>3, <2>5, ScaledEight
    <2> HIDE DEF L, H, D
    <2>13. /\ 8 * L <= srtt' /\ srtt' <= 8 * H /\ 2 * rttvar' <= 8 * D
      BY <1>1, <2>1, <2>7, <2>10, <2>11, WeightsKeepBounds
    <2>14. /\ lo1 \in Rto!Range(seen') /\ hi1 \in Rto!Range(seen')
           /\ \A y \in Rto!Range(seen') : lo1 <= y /\ y <= hi1
      <3>1. \A y \in Rto!Range(seen) : y \in Nat
        BY <1>1 DEF Rto!Range
      <3>2. \A y \in Rto!Range(seen) : lo <= y /\ y <= hi
        BY <2>2 DEF Measured
      <3>3. lo \in Rto!Range(seen) /\ hi \in Rto!Range(seen)
        BY <2>2 DEF Measured
      <3> QED BY <1>1, <1>3, <2>2, <2>3, <3>1, <3>2, <3>3
    <2>15. seen'[Len(seen')] = last
      BY <1>3, <1>6 DEF last
    <2>16. Measured(lo1, hi1)'
      BY <2>12, <2>13, <2>14, <2>15 DEF Measured, d1
    <2>17. srtt' \in Nat /\ rttvar' \in Nat /\ srtt' + 4 * rttvar' >= 8 * R
      BY <1>1, <2>1, WeightsCoverSample
    <2> QED BY <2>3, <2>16, <2>17
  <1>7. /\ srtt' \in Nat /\ rttvar' \in Nat /\ srtt' + 4 * rttvar' >= 8 * R
        /\ \E lo, hi \in Nat : Measured(lo, hi)'
    BY <1>5, <1>6
  <1>8. grain' \in Nat \ {0}
    BY <1>1, <1>2
  <1> DEFINE t == srtt' + 4 * rttvar'
  <1>9. rto' = Rto!Clamp(t, grain') /\ t \in Nat
    <2>1. \A v \in Nat : Rto!Larger(Rto!G, Rto!K * v) = 4 * v
      BY DEF Rto!Larger, Rto!G, Rto!K
    <2>2. rto' = Rto!Clamp(srtt' + Rto!Larger(Rto!G, Rto!K * rttvar'), grain')
      BY <1>2 DEF Rto!TimeoutFor
    <2>3. rttvar' \in Nat /\ srtt' \in Nat
      BY <1>7
    <2>4. Rto!Larger(Rto!G, Rto!K * rttvar') = 4 * rttvar'
      BY <2>1, <2>3
    <2>5. rto' = Rto!Clamp(t, grain')
      BY <2>2, <2>4, Zenon
    <2>6. \A a, b \in Nat : a + 4 * b \in Nat
      OBVIOUS
    <2>7. t \in Nat
      BY <2>3, <2>6, Zenon
    <2> QED BY <2>5, <2>7
  <1>10. t >= r * grain'
    BY <1>4, <1>7
  <1> HIDE DEF t
  <1>11. /\ rto' \in Nat
         /\ Rto!RtoMin * grain' <= rto' /\ rto' <= Rto!RtoMax * grain'
         /\ \A u \in Nat : u <= t /\ u <= Rto!RtoMax * grain' => u <= rto'
    BY <1>8, <1>9, ClampRange
  <1>12. rto' >= Rto!Smaller(Rto!RtoMax, r) * grain'
    <2> DEFINE u == Rto!Smaller(Rto!RtoMax, r) * grain'
    <2>1. u \in Nat /\ u <= r * grain' /\ u <= Rto!RtoMax * grain'
      BY <1>1, <1>8, SmallerScaled
    <2>2. r * grain' \in Nat
      BY <1>1, <1>8, ProductNat
    <2> HIDE DEF u
    <2>3. u <= t
      BY <1>9, <1>10, <2>1, <2>2
    <2>4. u <= rto'
      BY <1>11, <2>1, <2>3
    <2> QED BY <1>11, <2>1, <2>4 DEF u
  <1> QED BY <1>2, <1>3, <1>7, <1>8, <1>11, <1>12
      DEF RtoInv, RtoTypes, Rto!TimerCoversLastSample, Rto!RtoMin, Rto!RtoMax

\* rto.c keeps its estimate within the samples and its timer within the limits.
LEMMA RtoInvariant == Spec => []RtoInv
  <1>1. Init => RtoInv
    <2> SUFFICES ASSUME Rto!Init PROVE RtoInv
      BY DEF Init
    <2>1. initialized = (seen # <<>>)
      BY DEF Rto!Init
    <2>2. RtoTypes /\ Rto!RtoMin * grain <= rto /\ rto <= Rto!RtoMax * grain
      BY RtoConstantsHold DEF Rto!Init, RtoTypes, Rto!RtoMin, Rto!RtoMax
    <2>3. seen = <<>>
      BY DEF Rto!Init
    <2> QED BY <2>1, <2>2, <2>3 DEF RtoInv, Rto!TimerCoversLastSample
  <1>2. RtoInv /\ [Next]_vars => RtoInv'
    <2> SUFFICES ASSUME RtoInv, [Next]_vars PROVE RtoInv'
      OBVIOUS
    <2>1. ASSUME NEW r \in Samples, Rto!Update(r) PROVE RtoInv'
      BY <2>1, RtoUpdates
    <2>2. CASE Rto!Backoff
      <3>1. /\ UNCHANGED <<srtt, rttvar, initialized, grain, seen>>
            /\ rto' = Rto!Clamp(rto * 2, grain)
        BY <2>2 DEF Rto!Backoff, Rto!BackedOff
      <3>2. rto \in Nat /\ grain \in Nat /\ rto * 2 \in Nat /\ rto <= rto * 2
        BY DEF RtoInv, RtoTypes
      <3>3. /\ rto' \in Nat /\ Rto!RtoMin * grain <= rto' /\ rto' <= Rto!RtoMax * grain
            /\ \A u \in Nat : u <= rto * 2 /\ u <= Rto!RtoMax * grain => u <= rto'
        BY <3>1, <3>2, ClampRange
      <3>4. rto' >= rto
        BY <3>2, <3>3 DEF RtoInv
      <3>5. Rto!TimerCoversLastSample'
        <4>1. SUFFICES ASSUME seen # <<>> PROVE rto' >= Rto!Smaller(Rto!RtoMax, seen[1]) * grain
          BY <3>1 DEF Rto!TimerCoversLastSample, Rto!RtoMin, Rto!RtoMax
        <4>2. seen[1] \in Nat
          BY <4>1, EmptySeq DEF RtoInv, RtoTypes
        <4>3. Rto!Smaller(Rto!RtoMax, seen[1]) * grain \in Nat
          BY <3>2, <4>2, SmallerScaled
        <4>4. rto >= Rto!Smaller(Rto!RtoMax, seen[1]) * grain
          BY <4>1 DEF RtoInv, Rto!TimerCoversLastSample
        <4> QED BY <3>2, <3>3, <3>4, <4>3, <4>4
      <3> QED BY <3>1, <3>3, <3>5 DEF RtoInv, RtoTypes, Measured, Rto!RtoMin, Rto!RtoMax
    <2>3. CASE UNCHANGED rtoVars
      BY <2>3 DEF rtoVars, RtoInv, RtoTypes, Measured, Rto!TimerCoversLastSample, Rto!RtoMin, Rto!RtoMax
    <2> QED BY <2>1, <2>2, <2>3, PartSteps DEF Rto!Next
  <1> QED BY <1>1, <1>2, PTL DEF Spec

\* The invariant is about the smallest and the largest sample that rto.c saw.
LEMMA RtoFollows ==
    ASSUME RtoInv
    PROVE  Rto!TypeOK /\ Rto!EstimateWithinSamples /\ Rto!TimerCoversLastSample
  <1>1. Rto!TypeOK
    <2>1. initialized \in BOOLEAN
      BY DEF RtoInv
    <2>2. Rto!RtoMin * grain \in Nat /\ Rto!RtoMax * grain \in Nat
      BY RtoConstantsHold, ProductNat DEF RtoInv, RtoTypes, Rto!RtoMin, Rto!RtoMax
    <2>3. rto \in (Rto!RtoMin * grain)..(Rto!RtoMax * grain)
      BY <2>2 DEF RtoInv, RtoTypes
    <2> QED BY <2>1, <2>3 DEF RtoInv, RtoTypes, Rto!TypeOK
  <1>2. ASSUME seen # <<>>
        PROVE  LET lo == CHOOSE x \in Rto!Range(seen) : \A y \in Rto!Range(seen) : x <= y
                   hi == CHOOSE x \in Rto!Range(seen) : \A y \in Rto!Range(seen) : x >= y
               IN  /\ srtt \in (lo * grain)..(hi * grain)
                   /\ 2 * rttvar <= Rto!Larger(2 * (hi - lo), seen[Len(seen)]) * grain
    <2> DEFINE lo == CHOOSE x \in Rto!Range(seen) : \A y \in Rto!Range(seen) : x <= y
               hi == CHOOSE x \in Rto!Range(seen) : \A y \in Rto!Range(seen) : x >= y
    <2>1. PICK a \in Nat, b \in Nat : Measured(a, b)
      BY <1>2 DEF RtoInv
    <2>2. Rto!Range(seen) \subseteq Nat
      BY DEF RtoInv, RtoTypes, Rto!Range
    <2>3. /\ a \in Rto!Range(seen) /\ b \in Rto!Range(seen)
          /\ \A y \in Rto!Range(seen) : a <= y /\ b >= y
      BY <2>1, <2>2 DEF Measured
    <2>4. lo \in Rto!Range(seen) /\ \A y \in Rto!Range(seen) : lo <= y
      BY <2>3
    <2>5. hi \in Rto!Range(seen) /\ \A y \in Rto!Range(seen) : hi >= y
      BY <2>3
    <2> HIDE DEF lo, hi
    <2>6. lo = a /\ hi = b
      <3>1. lo <= a /\ a <= lo /\ hi >= b /\ b >= hi
        BY <2>3, <2>4, <2>5
      <3> QED BY <3>1, <2>2, <2>3, <2>4, <2>5
    <2>7. srtt \in (a * grain)..(b * grain)
      BY <2>1, ProductNat DEF Measured, RtoInv, RtoTypes
    <2>8. 2 * rttvar <= Rto!Larger(2 * (b - a), seen[Len(seen)]) * grain
      BY <2>1 DEF Measured
    <2>9. /\ srtt \in (lo * grain)..(hi * grain)
          /\ 2 * rttvar <= Rto!Larger(2 * (hi - lo), seen[Len(seen)]) * grain
      BY <2>6, <2>7, <2>8
    <2> QED BY <2>9 DEF lo, hi
  <1> QED BY <1>1, <1>2 DEF RtoInv, Rto!EstimateWithinSamples

\* The retransmission timer follows what was measured: the estimate stays
\* between the shortest and the longest round trip, and the timer covers the
\* last one, whatever came before and however often it backed off
\* (nfs_rto_update, nfs_rto_backoff).
THEOREM TimerFollows == Spec => []TimerFollowsSamples
  <1>1. RtoInv => TimerFollowsSamples
    BY RtoFollows DEF TimerFollowsSamples
  <1> QED BY <1>1, RtoInvariant, PTL

-----------------------------------------------------------------------------
\* A step of the suite is, for each of the parts that probe the network, a
\* step of that part or one that leaves it alone.
LEMMA ProbingSteps ==
    ASSUME [Next]_vars
    PROVE  [Pmtud!Next]_pmVars /\ [Traceroute!Next]_trVars /\ UNCHANGED which
  <1>1. CASE Next
    BY <1>1 DEF Next, Only
  <1>2. CASE UNCHANGED vars
    BY <1>2 DEF vars
  <1> QED BY <1>1, <1>2

\* The assumptions on the constants of ttl.c.
LEMMA TracerouteConstantsHold ==
    /\ MaxHops \in Nat /\ MaxResults \in Nat /\ TtlMod \in Nat \ {0}
    /\ MaxHops + 1 < TtlMod \/ MaxResults < TtlMod
  BY ProtocolSuiteConstants DEF Traceroute!TracerouteConstants

\* What may answer, and who answers the k-th probe along the path.
Answers == {Traceroute!Hop(r, b) : r \in Routers \cup {Traceroute!Dst}, b \in BOOLEAN}
AnswerAt(k) == IF k <= Len(hops) THEN Traceroute!Hop(hops[k], FALSE) ELSE Traceroute!Hop(Traceroute!Dst, TRUE)

\* ttl.c: the answers so far lie along the path; while a trace is on, the
\* number of the probe is one more than there are answers, and what a probe on
\* its way has lost of its TTL is the routers it has passed.
TraceTypes ==
    /\ hops \in Seq(Routers) /\ Len(hops) <= MaxHops
    /\ results \in Seq(Answers) /\ Len(results) <= MaxResults
    /\ ttl \in 0..(TtlMod - 1)
    /\ tr_phase \in {"idle", "probe", "walk", "done"}

Along ==
    /\ Len(results) <= Len(hops) + 1
    /\ \A k \in 1..Len(results) : results[k] = AnswerAt(k)

TraceCounters ==
    /\ tr_phase = "idle" => results = <<>>
    /\ tr_phase \in {"probe", "walk"} =>
           /\ probe_ttl \in Nat \ {0}
           /\ Len(results) = probe_ttl - 1 /\ probe_ttl - 1 <= Len(hops)
    /\ tr_phase = "walk" =>
           /\ Len(results) < MaxResults
           /\ tr_i \in 1..probe_ttl /\ tr_i <= Len(hops) + 1
           /\ ttl = probe_ttl - (tr_i - 1)

TraceInv == TraceTypes /\ Along /\ TraceCounters

\* Only routers of the path and the destination answer.
LEMMA AnswerType ==
    ASSUME hops \in Seq(Routers), NEW k \in Nat \ {0}
    PROVE  AnswerAt(k) \in Answers
  <1>1. \A r \in Routers \cup {Traceroute!Dst}, b \in BOOLEAN : Traceroute!Hop(r, b) \in Answers
    BY DEF Answers
  <1>2. CASE k <= Len(hops)
    <2>1. hops[k] \in Routers
      BY <1>2
    <2>2. AnswerAt(k) = Traceroute!Hop(hops[k], FALSE)
      BY <1>2 DEF AnswerAt
    <2> QED BY <1>1, <2>1, <2>2, Zenon
  <1>3. CASE ~(k <= Len(hops))
    <2>1. AnswerAt(k) = Traceroute!Hop(Traceroute!Dst, TRUE)
      BY <1>3 DEF AnswerAt
    <2> QED BY <1>1, <2>1, Zenon
  <1> QED BY <1>2, <1>3

\* What is along a path stays along it.
LEMMA StillAlong == ASSUME Along, UNCHANGED <<hops, results>> PROVE Along'
  BY DEF Along, AnswerAt

\* One more answer.
LEMMA AnswerAppended ==
    ASSUME TraceInv, Len(results) < MaxResults, Len(results) <= Len(hops),
           results' = Append(results, AnswerAt(Len(results) + 1)), UNCHANGED hops
    PROVE  /\ results' \in Seq(Answers) /\ Len(results') = Len(results) + 1
           /\ Len(results') <= MaxResults /\ Along'
  <1>1. hops \in Seq(Routers) /\ results \in Seq(Answers) /\ Len(results) \in Nat /\ Len(hops) \in Nat
    BY DEF TraceInv, TraceTypes
  <1>2. AnswerAt(Len(results) + 1) \in Answers
    BY <1>1, AnswerType
  <1>3. \A k : AnswerAt(k)' = AnswerAt(k)
    BY DEF AnswerAt
  <1>4. \A k \in 1..Len(results) : results[k] = AnswerAt(k)
    BY DEF TraceInv, Along
  <1> DEFINE e == AnswerAt(Len(results) + 1)
  <1>5. /\ results' \in Seq(Answers) /\ Len(results') = Len(results) + 1
        /\ \A k \in 1..Len(results) : results'[k] = results[k]
        /\ results'[Len(results) + 1] = e
    BY <1>1, <1>2, AppendProperties
  <1>6. \A k \in 1..Len(results') : k \in 1..Len(results) \/ k = Len(results) + 1
    BY <1>1, <1>5
  <1>7. \A k \in 1..Len(results') : results'[k] = AnswerAt(k)'
    BY <1>3, <1>4, <1>5, <1>6, Zenon
  <1>8. Len(results') <= Len(hops') + 1 /\ Len(results') <= MaxResults
    BY <1>1, <1>5, TracerouteConstantsHold
  <1> QED BY <1>5, <1>7, <1>8 DEF Along

\* A number below a modulus is its own remainder.
LEMMA SmallModulo ==
    ASSUME NEW n \in Nat, NEW m \in Nat \ {0}, n < m
    PROVE  n % m = n
  OBVIOUS

\* Each step of nfs_traceroute_sim keeps TraceInv.
LEMMA TraceStep ==
    ASSUME TraceInv, Traceroute!Next
    PROVE  TraceInv'
  <1> USE TracerouteConstantsHold
  <1>1. ASSUME NEW p \in Traceroute!BoundedSeq(Routers, MaxHops), Traceroute!Call(p)
        PROVE  TraceInv'
    <2>1. p \in Seq(Routers) /\ Len(p) <= MaxHops /\ Len(p) \in Nat
      <3>1. PICK m \in 0..MaxHops : p \in [1..m -> Routers]
        BY <1>1 DEF Traceroute!BoundedSeq, Traceroute!SeqOf
      <3>2. p \in Seq(Routers) /\ Len(p) = m
        BY <3>1
      <3> QED BY <3>1, <3>2
    <2>2. /\ tr_phase = "idle" /\ tr_phase' = "probe" /\ probe_ttl' = 1 /\ hops' = p
          /\ UNCHANGED <<ttl, tr_i, results>>
      BY <1>1 DEF Traceroute!Call
    <2>3. results = <<>> /\ Len(results) = 0
      BY <2>2, EmptySeq DEF TraceInv, TraceTypes, TraceCounters
    <2>4. TraceTypes'
      BY <2>1, <2>2, <2>3 DEF TraceInv, TraceTypes
    <2>5. Along'
      BY <2>1, <2>2, <2>3 DEF Along
    <2> QED BY <2>1, <2>2, <2>3, <2>4, <2>5 DEF TraceInv, TraceCounters
  <1>2. CASE Traceroute!Probe /\ Traceroute!NoRoom
    <2>1. tr_phase = "probe" /\ tr_phase' = "done" /\ UNCHANGED <<hops, probe_ttl, results, ttl, tr_i>>
      BY <1>2 DEF Traceroute!Probe
    <2> QED BY <2>1, StillAlong DEF TraceInv, TraceTypes, TraceCounters
  <1>3. CASE Traceroute!Probe /\ ~Traceroute!NoRoom
    <2>1. /\ tr_phase = "probe" /\ tr_phase' = "walk" /\ UNCHANGED <<hops, probe_ttl, results>>
          /\ ttl' = probe_ttl % TtlMod /\ tr_i' = 1 /\ ~(Len(results) >= MaxResults)
      BY <1>3 DEF Traceroute!Probe, Traceroute!NoRoom
    <2>2. probe_ttl \in Nat \ {0} /\ Len(results) = probe_ttl - 1 /\ probe_ttl - 1 <= Len(hops)
      BY <2>1 DEF TraceInv, TraceCounters
    <2>3. Len(hops) \in Nat /\ Len(results) \in Nat /\ Len(hops) <= MaxHops
      BY DEF TraceInv, TraceTypes
    <2>4. probe_ttl < TtlMod
      BY <2>1, <2>2, <2>3
    <2>5. ttl' = probe_ttl
      BY <2>1, <2>2, <2>4, SmallModulo
    <2>6. ttl' \in 0..(TtlMod - 1) /\ Len(results) < MaxResults
      BY <2>1, <2>2, <2>3, <2>4, <2>5
    <2>7. TraceTypes'
      BY <2>1, <2>6 DEF TraceInv, TraceTypes
    <2> QED BY <2>1, <2>2, <2>3, <2>5, <2>6, <2>7, StillAlong DEF TraceInv, TraceCounters
  <1>4. CASE Traceroute!Router
    <2>1. /\ tr_phase = "walk" /\ tr_i <= Len(hops) /\ UNCHANGED hops
          /\ probe_ttl \in Nat \ {0} /\ Len(results) = probe_ttl - 1 /\ probe_ttl - 1 <= Len(hops)
          /\ Len(results) < MaxResults /\ tr_i \in 1..probe_ttl /\ ttl = probe_ttl - (tr_i - 1)
          /\ Len(hops) \in Nat /\ Len(results) \in Nat
      BY <1>4 DEF Traceroute!Router, TraceInv, TraceTypes, TraceCounters
    <2>2. CASE Traceroute!Expires
      <3>1. /\ results' = Append(results, Traceroute!Hop(hops[tr_i], FALSE))
            /\ tr_phase' = "probe" /\ probe_ttl' = probe_ttl + 1 /\ UNCHANGED <<ttl, tr_i>>
        BY <1>4, <2>1, <2>2 DEF Traceroute!Router, Traceroute!Expires
      <3>2. tr_i = Len(results) + 1
        BY <2>1, <2>2 DEF Traceroute!Expires
      <3>3. results' = Append(results, AnswerAt(Len(results) + 1)) /\ Len(results) <= Len(hops)
        BY <2>1, <3>1, <3>2 DEF AnswerAt
      <3>4. /\ results' \in Seq(Answers) /\ Len(results') = Len(results) + 1
            /\ Len(results') <= MaxResults /\ Along'
        BY <2>1, <3>3, AnswerAppended
      <3>5. TraceTypes'
        BY <2>1, <3>1, <3>4 DEF TraceInv, TraceTypes
      <3> QED BY <2>1, <3>1, <3>2, <3>4, <3>5 DEF TraceInv, TraceCounters
    <2>3. CASE ~Traceroute!Expires
      <3>1. ttl # 0 /\ ttl # 1
        BY <2>1, <2>3 DEF Traceroute!Expires
      <3>2. ttl' = ttl - 1 /\ tr_i' = tr_i + 1 /\ UNCHANGED <<probe_ttl, results, tr_phase>>
        BY <1>4, <2>3, <3>1 DEF Traceroute!Router
      <3>3. TraceTypes'
        BY <2>1, <3>1, <3>2 DEF TraceInv, TraceTypes
      <3> QED BY <2>1, <3>1, <3>2, <3>3, StillAlong DEF TraceInv, TraceCounters
    <2> QED BY <2>2, <2>3
  <1>5. CASE Traceroute!Destination
    <2>1. /\ tr_phase = "walk" /\ tr_i > Len(hops) /\ UNCHANGED <<hops, probe_ttl, ttl, tr_i>>
          /\ results' = Append(results, Traceroute!Hop(Traceroute!Dst, TRUE)) /\ tr_phase' = "done"
      BY <1>5 DEF Traceroute!Destination
    <2>2. /\ probe_ttl \in Nat \ {0} /\ Len(results) = probe_ttl - 1 /\ probe_ttl - 1 <= Len(hops)
          /\ Len(results) < MaxResults /\ tr_i \in 1..probe_ttl
          /\ Len(hops) \in Nat /\ Len(results) \in Nat
      BY <2>1, SMTT(60) DEF TraceInv, TraceTypes, TraceCounters
    <2>3. Len(results) = Len(hops)
      BY <2>1, <2>2
    <2>4. results' = Append(results, AnswerAt(Len(results) + 1)) /\ Len(results) <= Len(hops)
      <3>1. ~(Len(results) + 1 <= Len(hops)) /\ Len(results) <= Len(hops)
        BY <2>2, <2>3
      <3> QED BY <2>1, <3>1, Zenon DEF AnswerAt
    <2>5. /\ results' \in Seq(Answers) /\ Len(results') = Len(results) + 1
          /\ Len(results') <= MaxResults /\ Along'
      BY <2>1, <2>2, <2>4, AnswerAppended
    <2>6. TraceTypes'
      BY <2>1, <2>5 DEF TraceInv, TraceTypes
    <2> QED BY <2>1, <2>5, <2>6 DEF TraceInv, TraceCounters
  <1> QED BY <1>1, <1>2, <1>3, <1>4, <1>5 DEF Traceroute!Next, Traceroute!Step

\* ttl.c keeps its answers along the path.
LEMMA TraceInvariant == Spec => []TraceInv
  <1>1. Init => TraceInv
    <2> SUFFICES ASSUME Traceroute!Init PROVE TraceInv
      BY DEF Init
    <2>1. hops = <<>> /\ results = <<>> /\ tr_phase = "idle" /\ ttl = 0
      BY DEF Traceroute!Init
    <2>2. Len(hops) = 0 /\ Len(results) = 0 /\ hops \in Seq(Routers) /\ results \in Seq(Answers)
      BY <2>1, EmptySeq
    <2> QED BY <2>1, <2>2, TracerouteConstantsHold DEF TraceInv, TraceTypes, TraceCounters, Along
  <1>2. TraceInv /\ [Next]_vars => TraceInv'
    <2>1. TraceInv /\ UNCHANGED trVars => TraceInv'
      BY StillAlong DEF trVars, TraceInv, TraceTypes, TraceCounters
    <2> QED BY <2>1, TraceStep, ProbingSteps
  <1> QED BY <1>1, <1>2, PTL DEF Spec

\* Answers along the path are a prefix of the whole path.
LEMMA TraceIsPrefix ==
    ASSUME TraceInv
    PROVE  Traceroute!TypeOK /\ Traceroute!AnswersAreThePath
  <1> DEFINE whole == [k \in 1..(Len(hops) + 1) |->
                    IF k <= Len(hops) THEN Traceroute!Hop(hops[k], FALSE)
                    ELSE Traceroute!Hop(Traceroute!Dst, TRUE)]
             n == Len(results)
  <1>1. hops \in Seq(Routers) /\ results \in Seq(Answers) /\ n \in Nat /\ Len(hops) \in Nat
    BY DEF TraceInv, TraceTypes
  <1>2. \A k \in 1..(Len(hops) + 1) : whole[k] = AnswerAt(k)
    BY DEF AnswerAt
  <1>3. \A k \in 1..(Len(hops) + 1) : whole[k] \in Answers
    <2>1. \A k \in 1..(Len(hops) + 1) : AnswerAt(k) \in Answers
      BY <1>1, AnswerType
    <2> HIDE DEF whole
    <2> QED BY <1>2, <2>1
  <1>4. whole \in Seq(Answers) /\ Len(whole) = Len(hops) + 1
    <2>1. whole \in [1..(Len(hops) + 1) -> Answers]
      BY <1>3, Zenon
    <2>2. Len(hops) + 1 \in Nat
      BY <1>1
    <2> HIDE DEF whole, Answers
    <2> QED BY <2>1, <2>2
  <1> HIDE DEF whole, Answers
  <1>5. n <= Len(hops) + 1 /\ \A k \in 1..n : results[k] = whole[k]
    BY <1>1, <1>2 DEF TraceInv, Along
  <1> DEFINE a == SubSeq(results, 1, n)
             b == SubSeq(whole, 1, n)
  <1>6. a \in Seq(Answers) /\ Len(a) = n /\ \A k \in 1..n : a[k] = results[k]
    BY <1>1, SubSeqFull
  <1>7. b \in Seq(Answers) /\ Len(b) = n /\ \A k \in 1..n : b[k] = whole[k]
    <2>1. \A k \in 1..n : whole[k] \in Answers
      BY <1>1, <1>3, <1>5
    <2>2. /\ b \in Seq(Answers) /\ Len(b) = IF 1 <= n THEN n - 1 + 1 ELSE 0
          /\ \A k \in 1..(n - 1 + 1) : b[k] = whole[1 + k - 1]
      BY <1>1, <2>1, SubSeqProperties
    <2> HIDE DEF b
    <2> QED BY <1>1, <2>2
  <1> HIDE DEF a, b
  <1>8. a = b
    BY <1>5, <1>6, <1>7, SeqEqual
  <1>9. Traceroute!IsPrefix(results, whole)
    BY <1>4, <1>5, <1>8 DEF Traceroute!IsPrefix, a, b
  <1>10. Traceroute!AnswersAreThePath
    BY <1>9 DEF Traceroute!AnswersAreThePath, whole
  <1> QED BY <1>10 DEF TraceInv, TraceTypes, Traceroute!TypeOK

-----------------------------------------------------------------------------
\* The MTUs the cache may hold, and its entries.
Mtus == Plateaus \cup PathMtus \cup {LinkMtu}
PathEntry == [dest : Dest, pmtu : Mtus, age : 0..PmtudInterval]

\* The assumptions on the constants of pmtud.c.
LEMMA PmtudConstantsHold ==
    /\ Capacity \in Nat /\ Plateaus \subseteq Nat /\ Plateaus # {}
    /\ PathMtus \subseteq Nat /\ PathMtus # {} /\ LinkMtu \in Nat
    /\ \A m \in PathMtus : m >= Pmtud!Floor /\ m <= LinkMtu
    /\ PmtudInterval \in Nat \ {0}
    /\ Mtus \subseteq Nat
  BY ProtocolSuiteConstants DEF Pmtud!PmtudConstants, Mtus

\* The least element of a set of naturals is its minimum.
LEMMA MinOfNaturals ==
    ASSUME NEW T, T \subseteq Nat, T # {}
    PROVE  Pmtud!Min(T) \in T /\ \A y \in T : Pmtud!Min(T) <= y
  <1>1. PICK x \in T : \A y \in T : x <= y
    BY LeastNatural
  <1> QED BY <1>1 DEF Pmtud!Min

\* The largest element of a bounded set of naturals is its maximum.
LEMMA MaxOfNaturals ==
    ASSUME NEW T, T \subseteq Nat, T # {}, NEW b \in Nat, \A y \in T : y <= b
    PROVE  Pmtud!Max(T) \in T /\ \A y \in T : Pmtud!Max(T) >= y
  <1>1. Pmtud!Max(T) = Bbr!Max(T)
    BY Zenon DEF Pmtud!Max, Bbr!Max
  <1> QED BY <1>1, MaxOfBounded

\* An MTU is not too low for a path when no plateau under the narrowest link
\* lies above it.
NotTooLow(d, m) == \A p \in Plateaus : p <= narrowest[d] => p <= m

PathTypes ==
    /\ pm_entries \in Seq(PathEntry) /\ Len(pm_entries) <= Capacity
    /\ path \in [Dest -> PathMtus] /\ narrowest \in [Dest -> PathMtus]
    /\ flight \in [Dest -> Mtus \cup {0}]
    /\ \A d \in Dest : narrowest[d] <= path[d]

\* pmtud.c: what the cache holds, and what is under way with a size the cache
\* will hold if it arrives, is not too low.
CacheNotTooLow == \A k \in DOMAIN pm_entries : NotTooLow(pm_entries[k].dest, pm_entries[k].pmtu)
FlightNotTooLow == \A d \in Dest : flight[d] # 0 => NotTooLow(d, flight[d])

PathInv ==
    /\ PathTypes
    /\ reached \in [Dest -> BOOLEAN]
    /\ CacheNotTooLow
    /\ FlightNotTooLow

\* nfs_pmtu_cache_update with an MTU that is not too low.
LEMMA CacheUpdated ==
    ASSUME PathInv, NEW d \in Dest, NEW m \in Mtus, NotTooLow(d, m),
           pm_entries' = Pmtud!CacheUpdate(d, m), UNCHANGED narrowest
    PROVE  pm_entries' \in Seq(PathEntry) /\ Len(pm_entries') <= Capacity /\ CacheNotTooLow'
  <1> DEFINE new == [dest |-> d, pmtu |-> m, age |-> 0]
  <1>1. new \in PathEntry /\ new.dest = d /\ new.pmtu = m
    BY PmtudConstantsHold DEF PathEntry
  <1>2. pm_entries \in Seq(PathEntry) /\ Len(pm_entries) <= Capacity /\ Len(pm_entries) \in Nat
    BY DEF PathInv, PathTypes
  <1>3. DOMAIN pm_entries = 1..Len(pm_entries)
    BY <1>2
  <1>4. \A x, y : NotTooLow(x, y)' <=> NotTooLow(x, y)
    BY DEF NotTooLow
  <1>5. \A k \in DOMAIN pm_entries : NotTooLow(pm_entries[k].dest, pm_entries[k].pmtu)
    BY DEF PathInv, CacheNotTooLow
  <1> HIDE DEF new
  <1>6. SUFFICES /\ pm_entries' \in Seq(PathEntry) /\ Len(pm_entries') <= Capacity
                 /\ \A k \in DOMAIN pm_entries' : NotTooLow(pm_entries'[k].dest, pm_entries'[k].pmtu)
    BY <1>4, Zenon DEF CacheNotTooLow
  <1>7. CASE Pmtud!Find(d) # {}
    <2>1. pm_entries' = [k \in DOMAIN pm_entries |-> IF k \in Pmtud!Find(d) THEN new ELSE pm_entries[k]]
      BY <1>7, Zenon DEF Pmtud!CacheUpdate, new
    <2>2. /\ DOMAIN pm_entries' = DOMAIN pm_entries
          /\ \A k \in DOMAIN pm_entries : pm_entries'[k] = new \/ pm_entries'[k] = pm_entries[k]
      BY <2>1, Zenon
    <2>3. pm_entries' \in [1..Len(pm_entries) -> PathEntry]
      <3>1. \A k \in 1..Len(pm_entries) : pm_entries[k] \in PathEntry
        BY <1>2, ElementOfSeq
      <3> QED BY <2>1, <1>1, <1>3, <3>1, Zenon
    <2>4. pm_entries' \in Seq(PathEntry) /\ Len(pm_entries') = Len(pm_entries)
      <3> HIDE DEF PathEntry
      <3> QED BY <2>3, <1>2
    <2>5. \A k \in DOMAIN pm_entries' : NotTooLow(pm_entries'[k].dest, pm_entries'[k].pmtu)
      BY <1>1, <1>5, <2>2, Zenon
    <2> QED BY <1>2, <2>4, <2>5
  <1>8. CASE Pmtud!Find(d) = {} /\ Len(pm_entries) < Capacity
    <2>1. pm_entries' = Append(pm_entries, new)
      BY <1>8, Zenon DEF Pmtud!CacheUpdate, new
    <2>2. /\ pm_entries' \in Seq(PathEntry) /\ Len(pm_entries') = Len(pm_entries) + 1
          /\ \A k \in 1..Len(pm_entries) : pm_entries'[k] = pm_entries[k]
          /\ pm_entries'[Len(pm_entries) + 1] = new
      BY <1>1, <1>2, <2>1, AppendProperties
    <2>3. \A k \in DOMAIN pm_entries' : k \in 1..Len(pm_entries) \/ k = Len(pm_entries) + 1
      BY <1>2, <2>2
    <2>4. \A k \in DOMAIN pm_entries' : NotTooLow(pm_entries'[k].dest, pm_entries'[k].pmtu)
      BY <1>1, <1>3, <1>5, <2>2, <2>3, Zenon
    <2>5. Len(pm_entries') <= Capacity
      BY <1>2, <1>8, <2>2, PmtudConstantsHold
    <2> QED BY <2>2, <2>4, <2>5
  <1>9. CASE Pmtud!Find(d) = {} /\ ~(Len(pm_entries) < Capacity)
    <2>1. pm_entries' = pm_entries
      BY <1>9, Zenon DEF Pmtud!CacheUpdate
    <2> QED BY <1>2, <1>5, <2>1
  <1> QED BY <1>7, <1>8, <1>9

\* nfs_pmtu_next_lower gives a plateau, and not one below a plateau that is
\* smaller than what failed.
LEMMA NextLowerRule ==
    ASSUME NEW m \in Nat
    PROVE  /\ Pmtud!NextLower(m) \in Plateaus
           /\ \A p \in Plateaus : p < m => p <= Pmtud!NextLower(m)
  <1> DEFINE lower == {p \in Plateaus : p < m}
  <1>1. CASE lower = {}
    <2>1. Pmtud!NextLower(m) = Pmtud!Floor
      BY <1>1 DEF Pmtud!NextLower
    <2>2. Pmtud!Floor \in Plateaus
      BY MinOfNaturals, PmtudConstantsHold DEF Pmtud!Floor
    <2> QED BY <1>1, <2>1, <2>2
  <1>2. CASE lower # {}
    <2>1. Pmtud!NextLower(m) = Pmtud!Max(lower)
      BY <1>2 DEF Pmtud!NextLower
    <2>2. lower \subseteq Nat /\ \A y \in lower : y <= m
      <3>1. ASSUME NEW y \in lower PROVE y \in Nat /\ y <= m
        <4>1. y \in Nat /\ y < m
          BY PmtudConstantsHold
        <4> QED BY <4>1
      <3> QED BY <3>1
    <2> HIDE DEF lower
    <2>3. Pmtud!Max(lower) \in lower /\ \A y \in lower : Pmtud!Max(lower) >= y
      BY <1>2, <2>2, MaxOfNaturals
    <2>4. lower \subseteq Plateaus /\ \A p \in Plateaus : p < m => p \in lower
      BY DEF lower
    <2>5. \A x, y \in Nat : x >= y => y <= x
      OBVIOUS
    <2> QED BY <2>1, <2>2, <2>3, <2>4, <2>5
  <1> QED BY <1>1, <1>2

\* What nfs_pmtu_cache_lookup finds is not too low.
LEMMA LookupNotTooLow ==
    ASSUME PathInv, NEW d \in Dest, Pmtud!Find(d) # {}
    PROVE  Pmtud!CacheLookup(d) \in Mtus /\ NotTooLow(d, Pmtud!CacheLookup(d))
  <1> DEFINE k == CHOOSE x \in Pmtud!Find(d) : TRUE
  <1>1. k \in Pmtud!Find(d)
    OBVIOUS
  <1>2. k \in DOMAIN pm_entries /\ pm_entries[k].dest = d
    BY <1>1 DEF Pmtud!Find
  <1>3. Pmtud!CacheLookup(d) = pm_entries[k].pmtu
    BY DEF Pmtud!CacheLookup
  <1> HIDE DEF k
  <1>4. pm_entries[k] \in PathEntry
    BY <1>2, ElementOfSeq DEF PathInv, PathTypes
  <1>5. pm_entries[k].pmtu \in Mtus
    BY <1>4 DEF PathEntry
  <1>6. NotTooLow(d, pm_entries[k].pmtu)
    BY <1>2, Zenon DEF PathInv, CacheNotTooLow
  <1> QED BY <1>3, <1>5, <1>6

\* The size of the next packet is not too low.
LEMMA SizeNotTooLow ==
    ASSUME PathInv, NEW d \in Dest
    PROVE  Pmtud!SizeFor(d) \in Mtus /\ NotTooLow(d, Pmtud!SizeFor(d))
  <1>1. LinkMtu \in Mtus /\ NotTooLow(d, LinkMtu)
    <2>1. narrowest[d] \in PathMtus
      BY DEF PathInv, PathTypes
    <2>2. narrowest[d] \in Nat /\ narrowest[d] <= LinkMtu
      BY <2>1, PmtudConstantsHold
    <2> QED BY <2>2, PmtudConstantsHold DEF NotTooLow, Mtus
  <1> QED BY <1>1, LookupNotTooLow DEF Pmtud!SizeFor

\* Every packet, answer and change of route keeps PathInv.
LEMMA PathStep ==
    ASSUME PathInv, Pmtud!Next
    PROVE  PathInv'
  <1> USE PmtudConstantsHold
  <1>0. /\ pm_entries \in Seq(PathEntry) /\ Len(pm_entries) <= Capacity
        /\ path \in [Dest -> PathMtus] /\ narrowest \in [Dest -> PathMtus]
        /\ flight \in [Dest -> Mtus \cup {0}]
        /\ \A d \in Dest : narrowest[d] <= path[d]
        /\ reached \in [Dest -> BOOLEAN]
    BY DEF PathInv, PathTypes
  <1>a. ASSUME UNCHANGED narrowest, NEW d \in Dest, NEW f \in Mtus \cup {0}, f # 0 => NotTooLow(d, f),
               flight' = [flight EXCEPT ![d] = f]
        PROVE  flight' \in [Dest -> Mtus \cup {0}] /\ FlightNotTooLow'
    <2>1. \A x, y : NotTooLow(x, y)' <=> NotTooLow(x, y)
      BY <1>a DEF NotTooLow
    <2>2. \A e \in Dest : flight'[e] = IF e = d THEN f ELSE flight[e]
      BY <1>0, <1>a
    <2>3. FlightNotTooLow
      BY DEF PathInv
    <2>4. FlightNotTooLow'
      BY <1>a, <2>1, <2>2, <2>3, Zenon DEF FlightNotTooLow
    <2> QED BY <1>0, <1>a, <2>4
  <1>1. ASSUME NEW d \in Dest, Pmtud!Send(d) PROVE PathInv'
    <2>1. /\ flight' = [flight EXCEPT ![d] = Pmtud!SizeFor(d)]
          /\ UNCHANGED <<pm_entries, path, reached, narrowest>>
      BY <1>1 DEF Pmtud!Send
    <2>2. flight' \in [Dest -> Mtus \cup {0}] /\ FlightNotTooLow'
      BY <2>1, <1>a, SizeNotTooLow
    <2>3. CacheNotTooLow'
      BY <2>1 DEF PathInv, CacheNotTooLow, NotTooLow
    <2> QED BY <1>0, <2>1, <2>2, <2>3 DEF PathInv, PathTypes
  <1>2. ASSUME NEW d \in Dest, Pmtud!Deliver(d) PROVE PathInv'
    <2>1. /\ flight[d] # 0 /\ pm_entries' = Pmtud!CacheUpdate(d, flight[d])
          /\ flight' = [flight EXCEPT ![d] = 0] /\ reached' = [reached EXCEPT ![d] = TRUE]
          /\ UNCHANGED <<path, narrowest>>
      BY <1>2 DEF Pmtud!Deliver
    <2>2. flight[d] \in Mtus /\ NotTooLow(d, flight[d])
      BY <1>0, <2>1 DEF PathInv, FlightNotTooLow
    <2>3. pm_entries' \in Seq(PathEntry) /\ Len(pm_entries') <= Capacity /\ CacheNotTooLow'
      BY <2>1, <2>2, CacheUpdated
    <2>4. flight' \in [Dest -> Mtus \cup {0}] /\ FlightNotTooLow'
      BY <2>1, <1>a
    <2>5. reached' \in [Dest -> BOOLEAN]
      BY <1>0, <2>1, Zenon
    <2> QED BY <1>0, <2>1, <2>3, <2>4, <2>5 DEF PathInv, PathTypes
  <1>3. ASSUME NEW d \in Dest, NEW named \in BOOLEAN, Pmtud!FragNeeded(d, named) PROVE PathInv'
    <2> DEFINE m == IF named THEN path[d] ELSE Pmtud!NextLower(flight[d])
    <2>1. /\ flight[d] > path[d] /\ pm_entries' = Pmtud!CacheUpdate(d, m)
          /\ flight' = [flight EXCEPT ![d] = 0] /\ reached' = [reached EXCEPT ![d] = FALSE]
          /\ UNCHANGED <<path, narrowest>>
      BY <1>3 DEF Pmtud!FragNeeded
    <2>2. /\ path[d] \in PathMtus /\ path[d] \in Nat /\ narrowest[d] \in Nat /\ narrowest[d] <= path[d]
          /\ flight[d] \in Nat
      <3>1. path[d] \in PathMtus /\ narrowest[d] \in PathMtus /\ flight[d] \in Mtus \cup {0}
        BY <1>0
      <3>2. narrowest[d] <= path[d]
        BY <1>0
      <3>3. PathMtus \subseteq Nat /\ Mtus \cup {0} \subseteq Nat
        OBVIOUS
      <3> QED BY <3>1, <3>2, <3>3, Zenon
    <2>3. path[d] \in Mtus /\ NotTooLow(d, path[d])
      BY <2>2 DEF Mtus, NotTooLow
    <2>4. Pmtud!NextLower(flight[d]) \in Mtus /\ NotTooLow(d, Pmtud!NextLower(flight[d]))
      <3>1. \A p \in Plateaus : p <= narrowest[d] => p < flight[d]
        BY <2>1, <2>2
      <3> QED BY <2>2, <3>1, NextLowerRule DEF Mtus, NotTooLow
    <2>5. m \in Mtus /\ NotTooLow(d, m)
      BY <2>3, <2>4
    <2> HIDE DEF m
    <2>6. pm_entries' \in Seq(PathEntry) /\ Len(pm_entries') <= Capacity /\ CacheNotTooLow'
      BY <2>1, <2>5, CacheUpdated
    <2>7. flight' \in [Dest -> Mtus \cup {0}] /\ FlightNotTooLow'
      BY <2>1, <1>a
    <2>8. reached' \in [Dest -> BOOLEAN]
      BY <1>0, <2>1, Zenon
    <2> QED BY <1>0, <2>1, <2>6, <2>7, <2>8 DEF PathInv, PathTypes
  <1>4. ASSUME NEW d \in Dest, Pmtud!Lose(d) PROVE PathInv'
    <2>1. /\ flight' = [flight EXCEPT ![d] = 0]
          /\ UNCHANGED <<pm_entries, path, reached, narrowest>>
      BY <1>4 DEF Pmtud!Lose
    <2>2. flight' \in [Dest -> Mtus \cup {0}] /\ FlightNotTooLow'
      BY <2>1, <1>a
    <2>3. CacheNotTooLow'
      BY <2>1 DEF PathInv, CacheNotTooLow, NotTooLow
    <2> QED BY <1>0, <2>1, <2>2, <2>3 DEF PathInv, PathTypes
  <1>5. ASSUME NEW d \in Dest, NEW m \in PathMtus, Pmtud!Reroute(d, m) PROVE PathInv'
    <2>1. /\ path' = [path EXCEPT ![d] = m]
          /\ narrowest' = [narrowest EXCEPT ![d] = Pmtud!Min({narrowest[d], m})]
          /\ reached' = [reached EXCEPT ![d] = FALSE]
          /\ UNCHANGED <<pm_entries, flight>>
      BY <1>0, <1>5 DEF Pmtud!Reroute
    <2>2. narrowest[d] \in PathMtus /\ {narrowest[d], m} \subseteq Nat /\ {narrowest[d], m} # {}
      BY <1>0
    <2>3. /\ Pmtud!Min({narrowest[d], m}) \in {narrowest[d], m}
          /\ Pmtud!Min({narrowest[d], m}) <= narrowest[d] /\ Pmtud!Min({narrowest[d], m}) <= m
      BY <2>2, MinOfNaturals
    <2>4. /\ narrowest' \in [Dest -> PathMtus] /\ path' \in [Dest -> PathMtus]
          /\ \A e \in Dest : narrowest'[e] <= narrowest[e] /\ narrowest'[e] <= path'[e]
      <3> DEFINE n == Pmtud!Min({narrowest[d], m})
      <3>1. n \in PathMtus /\ n <= narrowest[d] /\ n <= m
        BY <2>2, <2>3
      <3> HIDE DEF n
      <3>2. narrowest' = [narrowest EXCEPT ![d] = n]
        BY <2>1 DEF n
      <3>3. narrowest' \in [Dest -> PathMtus] /\ path' \in [Dest -> PathMtus]
        BY <1>0, <2>1, <3>1, <3>2
      <3>4. ASSUME NEW e \in Dest PROVE narrowest'[e] <= narrowest[e] /\ narrowest'[e] <= path'[e]
        <4>1. narrowest[e] \in Nat /\ narrowest[e] <= path[e]
          BY <1>0
        <4>2. CASE e = d
          BY <1>0, <2>1, <3>1, <3>2, <4>2
        <4>3. CASE e # d
          BY <1>0, <2>1, <3>2, <4>1, <4>3
        <4> QED BY <4>2, <4>3
      <3> QED BY <3>3, <3>4
    <2>5. ASSUME NEW e \in Dest, NEW x \in Mtus, NotTooLow(e, x) PROVE NotTooLow(e, x)'
      <3>1. narrowest[e] \in Nat /\ narrowest'[e] \in Nat /\ narrowest'[e] <= narrowest[e]
        BY <1>0, <2>4
      <3>2. ASSUME NEW p \in Plateaus, p <= narrowest'[e] PROVE p <= narrowest[e]
        <4>1. p \in Nat
          OBVIOUS
        <4> QED BY <3>1, <3>2, <4>1
      <3> QED BY <2>5, <3>2, Zenon DEF NotTooLow
    <2>6. FlightNotTooLow'
      <3>1. \A e \in Dest : flight[e] # 0 => flight[e] \in Mtus /\ NotTooLow(e, flight[e])
        BY <1>0 DEF PathInv, FlightNotTooLow
      <3> QED BY <2>1, <2>5, <3>1, Zenon DEF FlightNotTooLow
    <2>7. CacheNotTooLow'
      <3>1. \A k \in DOMAIN pm_entries : pm_entries[k] \in PathEntry
        BY <1>0, ElementOfSeq
      <3>2. \A k \in DOMAIN pm_entries : pm_entries[k].dest \in Dest /\ pm_entries[k].pmtu \in Mtus
        BY <3>1 DEF PathEntry
      <3> QED BY <2>1, <2>5, <3>2, Zenon DEF PathInv, CacheNotTooLow
    <2>8. reached' \in [Dest -> BOOLEAN]
      BY <1>0, <2>1, Zenon
    <2> QED BY <1>0, <2>1, <2>4, <2>6, <2>7, <2>8 DEF PathInv, PathTypes
  <1>6. CASE Pmtud!Tick
    <2>1. /\ pm_entries' = [k \in DOMAIN pm_entries |->
                 [pm_entries[k] EXCEPT !.age = IF @ < PmtudInterval THEN @ + 1 ELSE @]]
          /\ UNCHANGED <<path, flight, reached, narrowest>>
      BY <1>6 DEF Pmtud!Tick
    <2>2. \A k \in DOMAIN pm_entries : pm_entries[k] \in PathEntry
      BY <1>0, ElementOfSeq
    <2>3. ASSUME NEW e \in PathEntry
          PROVE  LET f == [e EXCEPT !.age = IF @ < PmtudInterval THEN @ + 1 ELSE @]
                 IN  f \in PathEntry /\ f.dest = e.dest /\ f.pmtu = e.pmtu
      BY DEF PathEntry
    <2>4. DOMAIN pm_entries' = DOMAIN pm_entries
      BY <2>1
    <2>5. \A k \in DOMAIN pm_entries :
              /\ pm_entries'[k] \in PathEntry
              /\ pm_entries'[k].dest = pm_entries[k].dest /\ pm_entries'[k].pmtu = pm_entries[k].pmtu
      BY <2>1, <2>2, <2>3, Zenon
    <2>6. DOMAIN pm_entries = 1..Len(pm_entries) /\ Len(pm_entries) \in Nat
      BY <1>0
    <2>7. pm_entries' \in [1..Len(pm_entries) -> PathEntry]
      <3> DEFINE F == [k \in DOMAIN pm_entries |->
                 [pm_entries[k] EXCEPT !.age = IF @ < PmtudInterval THEN @ + 1 ELSE @]]
      <3>1. pm_entries' = [k \in DOMAIN pm_entries |-> F[k]]
        BY <2>1
      <3>2. \A k \in DOMAIN pm_entries : F[k] \in PathEntry
        BY <2>1, <2>5, Zenon
      <3> HIDE DEF F
      <3> QED BY <2>6, <3>1, <3>2, Zenon
    <2>8. pm_entries' \in Seq(PathEntry) /\ Len(pm_entries') = Len(pm_entries)
      <3> HIDE DEF PathEntry
      <3> QED BY <2>6, <2>7
    <2>9. CacheNotTooLow'
      <3>1. \A x, y : NotTooLow(x, y)' <=> NotTooLow(x, y)
        BY <2>1 DEF NotTooLow
      <3>2. CacheNotTooLow
        BY DEF PathInv
      <3> QED BY <2>4, <2>5, <3>1, <3>2, Zenon DEF CacheNotTooLow
    <2>10. FlightNotTooLow'
      BY <2>1 DEF PathInv, FlightNotTooLow, NotTooLow
    <2> QED BY <1>0, <2>1, <2>8, <2>9, <2>10 DEF PathInv, PathTypes
  <1> QED BY <1>1, <1>2, <1>3, <1>4, <1>5, <1>6 DEF Pmtud!Next, Pmtud!Refuse

\* pmtud.c keeps its cache from falling too low.
LEMMA PathInvariant == Spec => []PathInv
  <1>1. Init => PathInv
    <2> SUFFICES ASSUME Pmtud!Init PROVE PathInv
      BY DEF Init
    <2>1. /\ pm_entries = <<>> /\ path = [d \in Dest |-> Pmtud!Widest] /\ flight = [d \in Dest |-> 0]
          /\ reached = [d \in Dest |-> FALSE] /\ narrowest = [d \in Dest |-> Pmtud!Widest]
      BY DEF Pmtud!Init
    <2>2. Pmtud!Widest \in PathMtus /\ Pmtud!Widest \in Nat
      BY PmtudConstantsHold, MaxOfNaturals DEF Pmtud!Widest
    <2>3. pm_entries \in Seq(PathEntry) /\ Len(pm_entries) = 0 /\ DOMAIN pm_entries = {}
      BY <2>1, EmptySeq
    <2>4. PathTypes
      BY <2>1, <2>2, <2>3, PmtudConstantsHold DEF PathTypes
    <2>5. reached \in [Dest -> BOOLEAN]
      BY <2>1, Zenon
    <2>6. CacheNotTooLow /\ FlightNotTooLow
      BY <2>1, <2>3 DEF CacheNotTooLow, FlightNotTooLow
    <2> QED BY <2>4, <2>5, <2>6 DEF PathInv
  <1>2. PathInv /\ [Next]_vars => PathInv'
    <2>1. PathInv /\ UNCHANGED pmVars => PathInv'
      BY DEF pmVars, PathInv, PathTypes, CacheNotTooLow, FlightNotTooLow, NotTooLow
    <2> QED BY <2>1, PathStep, ProbingSteps
  <1> QED BY <1>1, <1>2, PTL DEF Spec

\* A cache that is not too low answers with an estimate that is not.
LEMMA PathEstimate ==
    ASSUME PathInv
    PROVE  Pmtud!TypeOK /\ Pmtud!EstimateIsNotTooLow
  <1>1. Pmtud!TypeOK
    <2>1. flight \in [Dest -> Nat]
      <3>1. Mtus \cup {0} \subseteq Nat
        BY PmtudConstantsHold
      <3> QED BY <3>1 DEF PathInv, PathTypes
    <2> QED BY <2>1 DEF PathInv, PathTypes, PathEntry, Mtus, Pmtud!TypeOK
  <1>2. ASSUME NEW d \in Dest, Pmtud!CacheLookup(d) # 0
        PROVE  Pmtud!CacheLookup(d) >= Pmtud!Max({p \in Plateaus : p <= narrowest[d]})
    <2> DEFINE under == {p \in Plateaus : p <= narrowest[d]}
    <2>1. narrowest[d] \in PathMtus
      BY DEF PathInv, PathTypes
    <2>2. narrowest[d] \in Nat /\ narrowest[d] >= Pmtud!Floor
      BY <2>1, PmtudConstantsHold
    <2>3. Pmtud!Floor \in Plateaus /\ Pmtud!Floor \in Nat
      BY MinOfNaturals, PmtudConstantsHold DEF Pmtud!Floor
    <2>4. Pmtud!Floor \in under
      BY <2>2, <2>3
    <2>5. under \subseteq Nat /\ \A y \in under : y <= narrowest[d]
      BY PmtudConstantsHold
    <2>6. under # {}
      BY <2>4
    <2>7. Pmtud!Max(under) \in under
      <3> HIDE DEF under
      <3> QED BY <2>2, <2>5, <2>6, MaxOfNaturals
    <2>8. Pmtud!CacheLookup(d) \in Mtus /\ NotTooLow(d, Pmtud!CacheLookup(d))
      BY <1>2, LookupNotTooLow DEF Pmtud!CacheLookup
    <2>9. Pmtud!Max(under) \in Plateaus /\ Pmtud!Max(under) <= narrowest[d]
      BY <2>7
    <2>10. Pmtud!Max(under) <= Pmtud!CacheLookup(d)
      BY <2>8, <2>9, Zenon DEF NotTooLow
    <2>11. Pmtud!Max(under) \in Nat /\ Pmtud!CacheLookup(d) \in Nat
      BY <2>8, <2>9, PmtudConstantsHold
    <2> HIDE DEF under
    <2>12. Pmtud!CacheLookup(d) >= Pmtud!Max(under)
      BY <2>10, <2>11
    <2> QED BY <2>12 DEF under
  <1> QED BY <1>1, <1>2 DEF Pmtud!EstimateIsNotTooLow

\* What is believed of a path is true of it: the answers of a trace are the
\* routers of the path in their order (nfs_traceroute_sim), and the path MTU is
\* never searched below the plateau under the narrowest link the path has had,
\* whichever answers are lost, late or without a number (pmtud.c).
THEOREM PathsKnown == Spec => []PathsAreKnown
  <1>1. TraceInv /\ PathInv => PathsAreKnown
    BY TraceIsPrefix, PathEstimate DEF PathsAreKnown
  <1> QED BY <1>1, TraceInvariant, PathInvariant, PTL

-----------------------------------------------------------------------------
\* A step of the suite is, for each part, a step of that part or one that
\* leaves it alone.
LEMMA ConnectionSteps ==
    ASSUME [Next]_vars
    PROVE  /\ [TcpFsm!Next]_fsmVars
           /\ [Teardown!Next]_tdVars
           /\ [Keepalive!Next]_kaVars
           /\ [Handshake!Next]_hsVars
           /\ [Ecn!Next]_ecnVars
           /\ [Conntrack!Next]_ctVars
           /\ UNCHANGED which
  <1>1. CASE Next
    BY <1>1 DEF Next, Only
  <1>2. CASE UNCHANGED vars
    BY <1>2 DEF vars
  <1> QED BY <1>1, <1>2

-----------------------------------------------------------------------------
\* keepalive.c without its flags.
KeepaliveCounters ==
    /\ idle \in 0..Keepalive!LastThreshold
    /\ probes_sent \in 0..MaxProbes
    /\ went \in 0..probes_sent /\ sinceProbe \in 0..Interval
    /\ Keepalive!ProbesFollowSilence
KeepaliveInv == KeepaliveCounters /\ enabled \in BOOLEAN /\ peerUp \in BOOLEAN

\* The assumptions on the constants of keepalive.c.
LEMMA KeepaliveConstantsHold ==
    /\ IdleTimeout \in Nat /\ Interval \in Nat \ {0} /\ MaxProbes \in Nat \ {0}
    /\ Keepalive!LastThreshold \in Nat
  <1>1. IdleTimeout \in Nat /\ Interval \in Nat \ {0} /\ MaxProbes \in Nat \ {0}
    BY ProtocolSuiteConstants DEF Keepalive!KeepaliveConstants
  <1>2. MaxProbes * Interval \in Nat
    BY <1>1
  <1> QED BY <1>1, <1>2 DEF Keepalive!LastThreshold

\* keepalive.c counts a probe only after the silence it stands for, however
\* late and however often it is called.
LEMMA KeepaliveInvariant == Spec => []KeepaliveInv
  <1> USE KeepaliveConstantsHold
  <1>1. Init => KeepaliveInv
    <2> SUFFICES ASSUME Keepalive!Init PROVE KeepaliveInv
      BY DEF Init
    <2>1. KeepaliveCounters
      BY DEF Keepalive!Init, KeepaliveCounters, Keepalive!ProbesFollowSilence
    <2>2. enabled \in BOOLEAN /\ peerUp \in BOOLEAN
      BY DEF Keepalive!Init
    <2> QED BY <2>1, <2>2 DEF KeepaliveInv
  <1>2. KeepaliveInv /\ [Next]_vars => KeepaliveInv'
    <2> SUFFICES ASSUME KeepaliveInv, [Next]_vars PROVE KeepaliveInv'
      OBVIOUS
    <2>1. (enabled \in BOOLEAN)' /\ (peerUp \in BOOLEAN)'
      BY ConnectionSteps DEF KeepaliveInv, kaVars, Keepalive!Next, Keepalive!SetEnabled,
          Keepalive!DataReceived, Keepalive!Check, Keepalive!PeerDies, Keepalive!Tick
    <2>2. KeepaliveCounters'
      <3> USE DEF KeepaliveInv, KeepaliveCounters, Keepalive!ProbesFollowSilence
      <3>1. ASSUME NEW on \in BOOLEAN, Keepalive!SetEnabled(on) PROVE KeepaliveCounters'
        BY <3>1 DEF Keepalive!SetEnabled
      <3>2. CASE Keepalive!DataReceived
        BY <3>2 DEF Keepalive!DataReceived
      <3>3. CASE Keepalive!Check
        <4>1. /\ probes_sent' = probes_sent + 1 /\ probes_sent < MaxProbes
              /\ idle' = idle /\ idle >= IdleTimeout + probes_sent * Interval
          BY <3>3 DEF Keepalive!Check, Keepalive!IsDead, Keepalive!ProbeDue, Keepalive!Threshold
        <4>2. went' \in 0..probes_sent' /\ sinceProbe' \in 0..Interval
          BY <3>3, <4>1 DEF Keepalive!Check
        <4>3. probes_sent' - 1 = probes_sent
          BY <4>1
        <4> QED BY <4>1, <4>2, <4>3
      <3>4. CASE Keepalive!PeerDies
        BY <3>4 DEF Keepalive!PeerDies
      <3>5. CASE Keepalive!Tick
        <4>1. probes_sent' = probes_sent /\ went' = went /\ sinceProbe' \in 0..Interval
          BY <3>5 DEF Keepalive!Tick
        <4>2. idle' \in 0..Keepalive!LastThreshold /\ idle' >= idle
          BY <3>5 DEF Keepalive!Tick
        <4>3. (probes_sent - 1) * Interval \in Int
          OBVIOUS
        <4> QED BY <4>1, <4>2, <4>3
      <3>6. CASE UNCHANGED kaVars
        BY <3>6 DEF kaVars
      <3> QED BY <3>1, <3>2, <3>3, <3>4, <3>5, <3>6, ConnectionSteps DEF Keepalive!Next
    <2> QED BY <2>1, <2>2 DEF KeepaliveInv
  <1> QED BY <1>1, <1>2, PTL DEF Spec

-----------------------------------------------------------------------------
\* ecn.c: the flags that can be under way, of which only the answer of a peer
\* that runs ECN and was asked for it has ECE without CWR.
SegInv ==
    \/ seg = {} \/ seg = {"SYN"} \/ seg = Ecn!SynFlags \/ seg = Ecn!SynAckRejectFlags
    \/ seg = Ecn!SynFlags \cup {"ACK"}
    \/ seg = Ecn!SynAckAcceptFlags /\ kind = "ecn" /\ responder.state = "REQUESTED"
\* Nothing is sent before the negotiation has ended.
NegotiationInv ==
    /\ kind = "none" \/ seg # {} => initiator = Ecn!Fresh
    /\ kind = "none" => seg = {}
    /\ initiator.state = "UNKNOWN" => packet = Ecn!NoPacket
    /\ packet.ecn # "NOT_ECT" => initiator.ecn_capable
EcnInv == Ecn!TypeOK /\ SegInv /\ NegotiationInv /\ Ecn!CapableMeansAgreed

\* ECN is used only where both ends agreed on it.
LEMMA EcnInvariant == Spec => []EcnInv
  <1>1. Init => EcnInv
    <2> SUFFICES ASSUME Ecn!Init PROVE EcnInv
      BY DEF Init
    <2> USE DEF Ecn!Init, Ecn!Fresh, Ecn!NoPacket
    <2>1. Ecn!TypeOK
      BY DEF Ecn!TypeOK, Ecn!Negotiation, Ecn!Codepoint
    <2>2. SegInv /\ NegotiationInv
      BY DEF SegInv, NegotiationInv
    <2>3. Ecn!CapableMeansAgreed
      BY DEF Ecn!CapableMeansAgreed
    <2> QED BY <2>1, <2>2, <2>3 DEF EcnInv
  <1>2. EcnInv /\ [Next]_vars => EcnInv'
    <2> SUFFICES ASSUME EcnInv, [Next]_vars PROVE EcnInv'
      OBVIOUS
    <2>1. ASSUME NEW k \in {"ecn", "plain", "reflects"}, NEW f \in {Ecn!SynFlags, {"SYN"}},
                 Ecn!Connect(k, f)
          PROVE  EcnInv'
      <3> USE <2>1 DEF Ecn!Connect, EcnInv
      <3>1. Ecn!TypeOK'
        BY DEF Ecn!TypeOK, Ecn!SynFlags
      <3>2. SegInv'
        BY DEF SegInv
      <3>3. NegotiationInv'
        BY DEF NegotiationInv
      <3>4. Ecn!CapableMeansAgreed'
        BY DEF NegotiationInv, Ecn!CapableMeansAgreed, Ecn!Fresh
      <3> QED BY <3>1, <3>2, <3>3, <3>4
    <2>2. CASE Ecn!Respond
      <3> USE <2>2 DEF EcnInv
      <3>1. seg = {"SYN"} \/ seg = Ecn!SynFlags
        BY DEF Ecn!Respond, SegInv, Ecn!SynAckRejectFlags, Ecn!SynAckAcceptFlags
      <3>2. /\ UNCHANGED <<initiator, kind, packet, sent>> /\ kind # "none"
            /\ initiator = Ecn!Fresh /\ packet = Ecn!NoPacket
        BY DEF Ecn!Respond, NegotiationInv, Ecn!Fresh
      <3>3. CASE kind = "ecn" /\ seg = Ecn!SynFlags
        <4>1. Ecn!RequestsEcn(seg)
          BY <3>3 DEF Ecn!RequestsEcn, Ecn!SynFlags
        <4>2. seg' = Ecn!SynAckAcceptFlags /\ responder' = [responder EXCEPT !.state = "REQUESTED"]
          BY <3>3, <4>1 DEF Ecn!Respond
        <4>3. Ecn!TypeOK'
          BY <3>2, <4>2 DEF Ecn!TypeOK, Ecn!SynAckAcceptFlags, Ecn!Negotiation
        <4>4. responder'.state = "REQUESTED"
          BY <4>2 DEF Ecn!TypeOK, Ecn!Negotiation
        <4>5. SegInv' /\ NegotiationInv'
          BY <3>2, <3>3, <4>2, <4>4 DEF SegInv, NegotiationInv, Ecn!NoPacket
        <4> QED BY <3>2, <3>3, <4>3, <4>4, <4>5 DEF Ecn!CapableMeansAgreed
      <3>4. CASE ~(kind = "ecn" /\ seg = Ecn!SynFlags)
        <4>1. seg = {"SYN"} => ~Ecn!RequestsEcn(seg)
          BY DEF Ecn!RequestsEcn
        <4>5. /\ seg' = Ecn!SynAckRejectFlags \/ seg' = Ecn!SynFlags \cup {"ACK"}
              /\ responder' = responder
          <5>1. CASE kind = "ecn"
            BY <3>1, <3>4, <4>1, <5>1 DEF Ecn!Respond
          <5>2. CASE kind = "plain"
            BY <5>2 DEF Ecn!Respond
          <5>3. CASE kind = "reflects"
            BY <3>1, <5>3 DEF Ecn!Respond, Ecn!SynAckRejectFlags
          <5> QED BY <3>2, <5>1, <5>2, <5>3 DEF Ecn!TypeOK
        <4>6. Ecn!TypeOK'
          BY <3>2, <4>5 DEF Ecn!TypeOK, Ecn!SynAckRejectFlags, Ecn!SynFlags
        <4>7. SegInv' /\ NegotiationInv'
          BY <3>2, <4>5 DEF SegInv, NegotiationInv, Ecn!NoPacket
        <4> QED BY <3>2, <4>5, <4>6, <4>7 DEF Ecn!CapableMeansAgreed
      <3> QED BY <3>3, <3>4
    <2>3. CASE Ecn!ProcessSynAck
      <3> USE <2>3 DEF EcnInv
      <3>1. /\ seg # {} /\ seg' = {} /\ kind # "none"
            /\ UNCHANGED <<responder, kind, packet, sent>> /\ packet = Ecn!NoPacket
        BY DEF Ecn!ProcessSynAck, NegotiationInv, Ecn!Fresh
      <3>2. \/ initiator' = [state |-> "ACCEPTED", ecn_capable |-> TRUE] /\ Ecn!Accepts(seg)
            \/ initiator' = [state |-> "REJECTED", ecn_capable |-> FALSE]
        BY DEF Ecn!ProcessSynAck
      <3>3. Ecn!Accepts(seg) => kind = "ecn" /\ responder.state = "REQUESTED"
        BY DEF Ecn!Accepts, SegInv, Ecn!SynFlags, Ecn!SynAckRejectFlags
      <3>4. Ecn!TypeOK'
        <4>1. initiator' \in Ecn!Negotiation
          <5>1. CASE initiator' = [state |-> "ACCEPTED", ecn_capable |-> TRUE]
            BY <5>1, Zenon DEF Ecn!Negotiation
          <5>2. CASE initiator' = [state |-> "REJECTED", ecn_capable |-> FALSE]
            BY <5>2, Zenon DEF Ecn!Negotiation
          <5> QED BY <3>2, <5>1, <5>2
        <4> QED BY <3>1, <4>1 DEF Ecn!TypeOK
      <3>5. SegInv' /\ NegotiationInv'
        BY <3>1, <3>2 DEF SegInv, NegotiationInv, Ecn!NoPacket
      <3>6. Ecn!CapableMeansAgreed'
        BY <3>1, <3>2, <3>3 DEF Ecn!CapableMeansAgreed, Ecn!NoPacket
      <3> QED BY <3>4, <3>5, <3>6
    <2>4. ASSUME NEW d \in Dscp, NEW e \in {"ECT0", "ECT1"}, Ecn!Send(d, e) PROVE EcnInv'
      <3> USE <2>4 DEF EcnInv
      <3>1. /\ UNCHANGED <<initiator, responder, kind, seg>> /\ initiator.state # "UNKNOWN"
            /\ sent' = packet'
            /\ packet' = [dscp |-> d, ecn |-> IF initiator.ecn_capable THEN e ELSE "NOT_ECT"]
        BY DEF Ecn!Send
      <3>2. packet'.ecn \in {"NOT_ECT", e} /\ packet'.dscp = d
            /\ (packet'.ecn # "NOT_ECT" => initiator.ecn_capable)
        BY <3>1
      <3>3. Ecn!TypeOK'
        BY <3>1, <3>2 DEF Ecn!TypeOK, Ecn!Codepoint
      <3>4. SegInv' /\ NegotiationInv'
        BY <3>1, <3>2 DEF SegInv, NegotiationInv
      <3>5. Ecn!CapableMeansAgreed'
        BY <3>1, <3>2 DEF Ecn!CapableMeansAgreed
      <3> QED BY <3>3, <3>4, <3>5
    <2>5. CASE Ecn!Congested
      <3> USE <2>5 DEF EcnInv
      <3>1. UNCHANGED <<initiator, responder, kind, seg, sent>> /\ packet # Ecn!NoPacket
        BY DEF Ecn!Congested
      <3>2. packet \in [dscp : Dscp \cup {NoDscp}, ecn : Ecn!Codepoint]
        BY DEF Ecn!TypeOK
      <3>3. \/ /\ packet' = [packet EXCEPT !.ecn = "CE"] /\ packet.ecn # "NOT_ECT"
            \/ packet' = packet
            \/ packet' = Ecn!NoPacket
        BY DEF Ecn!Congested, Ecn!Markable, Ecn!IsEct
      <3>4. packet' \in [dscp : Dscp \cup {NoDscp}, ecn : Ecn!Codepoint]
        BY <3>2, <3>3 DEF Ecn!NoPacket, Ecn!Codepoint
      <3>5. /\ packet' # Ecn!NoPacket => packet'.dscp = packet.dscp
            /\ packet'.ecn # "NOT_ECT" => packet.ecn # "NOT_ECT"
        BY <3>2, <3>3 DEF Ecn!NoPacket
      <3>6. Ecn!TypeOK' /\ SegInv'
        BY <3>1, <3>4 DEF Ecn!TypeOK, SegInv
      <3>7. NegotiationInv'
        BY <3>1, <3>5 DEF NegotiationInv
      <3>8. Ecn!CapableMeansAgreed'
        BY <3>1, <3>5 DEF Ecn!CapableMeansAgreed, NegotiationInv
      <3> QED BY <3>6, <3>7, <3>8
    <2>6. CASE UNCHANGED ecnVars
      BY <2>6 DEF ecnVars, EcnInv, Ecn!TypeOK, SegInv, NegotiationInv, Ecn!CapableMeansAgreed
    <2> QED BY <2>1, <2>2, <2>3, <2>4, <2>5, <2>6, ConnectionSteps DEF Ecn!Next
  <1> QED BY <1>1, <1>2, PTL DEF Spec

-----------------------------------------------------------------------------
\* tcp.c: the contexts, and the segments ever sent.
Number == 0..(Word - 1)
ContextInv ==
    /\ client \in [state : {"CLOSED", "SYN_SENT", "ESTABLISHED"}, local_seq : Number,
                   remote_seq : Number]
    /\ answers \subseteq Number \X Number
    /\ client.state = "ESTABLISHED" => <<client.local_seq, client.remote_seq>> \in answers
\* A SYN-ACK acknowledges the SYN it answers, and an ACK such an answer.
SegmentInv(s) ==
    /\ s.flags \in {{"SYN"}, {"SYN", "ACK"}, {"ACK"}}
    /\ s.seq \in Number
    /\ s.flags = {"SYN", "ACK"} =>
           \E n \in Number : <<n, s.seq>> \in answers /\ s.ack = Handshake!Plus1(n)
    /\ s.flags = {"ACK"} =>
           \E pair \in answers : s.seq = Handshake!Plus1(pair[1]) /\ s.ack = Handshake!Plus1(pair[2])
HandshakeInv == ContextInv /\ \A s \in net : SegmentInv(s)

\* The assumptions on the constants of the handshake of tcp.c.
LEMMA HandshakeConstantsHold == Word \in Nat \ {0} /\ Isns \subseteq Number
  BY ProtocolSuiteConstants DEF Handshake!HandshakeConstants, Number

\* Different numbers have different successors, also where the space wraps.
LEMMA Plus1Injective ==
    ASSUME NEW m \in Number, NEW n \in Number, Handshake!Plus1(m) = Handshake!Plus1(n)
    PROVE  m = n
  <1>1. ASSUME NEW x \in Number PROVE Handshake!Plus1(x) = IF x = Word - 1 THEN 0 ELSE x + 1
    BY HandshakeConstantsHold DEF Handshake!Plus1, Number
  <1> QED BY <1>1, HandshakeConstantsHold DEF Number

\* The successor of a number is a number.
LEMMA Plus1Type == ASSUME NEW n \in Number PROVE Handshake!Plus1(n) \in Number
  BY HandshakeConstantsHold DEF Handshake!Plus1, Number

\* tcp.c establishes a client only on an answer to its own latest SYN.
LEMMA HandshakeInvariant == Spec => []HandshakeInv
  <1> USE HandshakeConstantsHold
  <1>1. Init => HandshakeInv
    BY DEF Init, Handshake!Init, Handshake!Context, HandshakeInv, ContextInv, Number
  <1>2. HandshakeInv /\ [Next]_vars => HandshakeInv'
    <2> SUFFICES ASSUME HandshakeInv, [Next]_vars PROVE HandshakeInv'
      OBVIOUS
    <2> USE DEF HandshakeInv
    <2>1. ASSUME NEW isn \in Isns, Handshake!BuildSyn(isn) PROVE HandshakeInv'
      <3> DEFINE new == Handshake!Segment({"SYN"}, isn, 0)
      <3>1. /\ client' = [client EXCEPT !.state = "SYN_SENT", !.local_seq = isn]
            /\ net' = net \cup {new} /\ answers' = answers
        BY <2>1 DEF Handshake!BuildSyn
      <3>2. ContextInv'
        BY <3>1 DEF ContextInv
      <3>3. SegmentInv(new)'
        BY DEF SegmentInv, Handshake!Segment
      <3>4. \A s \in net : SegmentInv(s)'
        BY <3>1 DEF SegmentInv
      <3> QED BY <3>1, <3>2, <3>3, <3>4
    <2>2. ASSUME NEW seg_1 \in net, NEW isn \in Isns, seg_1.flags = {"SYN"},
                 Handshake!BuildSynAck(seg_1, isn)
          PROVE  HandshakeInv'
      <3> DEFINE n == seg_1.seq
                 new == Handshake!Segment({"SYN", "ACK"}, isn, Handshake!Plus1(n))
      <3>1. /\ client' = client /\ net' = net \cup {new}
            /\ answers' = answers \cup {<<n, isn>>} /\ n \in Number /\ isn \in Number
        BY <2>2 DEF Handshake!BuildSynAck, SegmentInv
      <3> HIDE DEF n
      <3>2. ContextInv'
        BY <3>1 DEF ContextInv
      <3>3. SegmentInv(new)'
        <4>1. new.flags = {"SYN", "ACK"} /\ new.seq = isn /\ new.ack = Handshake!Plus1(n)
          BY DEF Handshake!Segment
        <4> QED BY <3>1, <4>1 DEF SegmentInv
      <3>4. \A s \in net : SegmentInv(s)'
        BY <3>1 DEF SegmentInv
      <3> QED BY <3>1, <3>2, <3>3, <3>4
    <2>3. ASSUME NEW seg_1 \in net, Handshake!BuildAck(seg_1) PROVE HandshakeInv'
      <3> DEFINE m == client.local_seq
                 k == seg_1.seq
                 new == Handshake!Segment({"ACK"}, Handshake!Plus1(m), Handshake!Plus1(k))
      <3>1. /\ client' = [client EXCEPT !.state = "ESTABLISHED", !.remote_seq = k]
            /\ net' = net \cup {new} /\ answers' = answers
            /\ {"SYN", "ACK"} \subseteq seg_1.flags /\ seg_1.ack = Handshake!Plus1(m)
        BY <2>3 DEF Handshake!BuildAck, Handshake!AcknowledgesOurSyn
      <3>2. k \in Number /\ m \in Number /\ seg_1.flags = {"SYN", "ACK"}
        BY <3>1 DEF SegmentInv, ContextInv
      <3>3. PICK n \in Number : <<n, k>> \in answers /\ seg_1.ack = Handshake!Plus1(n)
        BY <3>2 DEF SegmentInv
      <3>4. <<m, k>> \in answers
        BY <3>1, <3>2, <3>3, Plus1Injective
      <3>5. ContextInv'
        BY <3>1, <3>2, <3>4 DEF ContextInv
      <3>6. ASSUME NEW s, s = new PROVE SegmentInv(s)'
        <4>1. /\ s.flags = {"ACK"} /\ s.seq = Handshake!Plus1(m)
              /\ s.ack = Handshake!Plus1(k)
          BY <3>6 DEF Handshake!Segment
        <4>2. \E pair \in answers :
                 s.seq = Handshake!Plus1(pair[1]) /\ s.ack = Handshake!Plus1(pair[2])
          BY <3>4, <4>1
        <4>3. s.seq \in Number
          BY <3>2, <4>1, Plus1Type
        <4> QED BY <3>1, <4>1, <4>2, <4>3 DEF SegmentInv
      <3>7. \A s \in net : SegmentInv(s)'
        BY <3>1 DEF SegmentInv
      <3> QED BY <3>1, <3>5, <3>6, <3>7
    <2>4. CASE UNCHANGED hsVars
      BY <2>4 DEF hsVars, ContextInv, SegmentInv
    <2> QED BY <2>1, <2>2, <2>3, <2>4, ConnectionSteps DEF Handshake!Next
  <1> QED BY <1>1, <1>2, PTL DEF Spec

\* What the invariant says of an established client.
LEMMA HandshakeEstablished == HandshakeInv => Handshake!EstablishedOnItsOwnSyn
  BY DEF HandshakeInv, ContextInv, SegmentInv, Handshake!EstablishedOnItsOwnSyn

-----------------------------------------------------------------------------
\* conntrack.c: the slots in use, and what is known of them.
Used == [active : {TRUE}, conn : Conntrack!Conn, dir : Conntrack!Dir,
         state : {"NEW", "ESTABLISHED"}, idle : 0..IdleLimit]
Active == {x \in 1..Slots : entries[x].active}

TableInv ==
    /\ entries \in [1..Slots -> Conntrack!Entry]
    /\ \A x, y \in Active : entries[x].conn = entries[y].conn => x = y
\* The first direction of an entry was heard, and the other one too where it
\* has made the entry of a UDP exchange ESTABLISHED.
WasHeard(e) ==
    /\ <<e.conn, e.dir>> \in heard
    /\ e.conn \in UdpConn /\ e.state = "ESTABLISHED" => Conntrack!Of(e.conn) \subseteq heard
EntriesHeard ==
    /\ heard \subseteq Conntrack!Conn \X Conntrack!Dir
    /\ \A x \in Active : WasHeard(entries[x])
VerdictInv ==
    /\ verdict = <<>> \/ verdict \in Conntrack!Conn \X {"NEW", "ESTABLISHED", "INVALID"}
    /\ \A c \in UdpConn : verdict = <<c, "ESTABLISHED">> => Conntrack!Of(c) \subseteq heard
CountInv == count = Cardinality(Active)
ConntrackInv == TableInv /\ EntriesHeard /\ VerdictInv /\ CountInv

\* The assumptions on the constants of conntrack.c.
LEMMA ConntrackConstantsHold ==
    TcpConn \cap UdpConn = {} /\ Slots \in Nat /\ IdleLimit \in Nat \ {0}
  BY ProtocolSuiteConstants DEF Conntrack!ConntrackConstants

\* An entry is free or has all its fields.
LEMMA EntryFacts ==
    ASSUME NEW e \in Conntrack!Entry
    PROVE  /\ e.active <=> e \in Used
           /\ ~e.active <=> e = Conntrack!Free
  <1>1. ~Conntrack!Free.active
    BY DEF Conntrack!Free
  <1>2. ASSUME NEW u \in Used PROVE u.active
    BY DEF Used
  <1>3. e = Conntrack!Free \/ e \in Used
    BY DEF Conntrack!Entry, Used
  <1> QED BY <1>1, <1>2, <1>3

\* Changes of one field of an entry in use.
LEMMA FieldChanged ==
    ASSUME NEW e \in Used, NEW n \in 0..IdleLimit, NEW st \in {"NEW", "ESTABLISHED"}
    PROVE  /\ [e EXCEPT !.idle = n] \in Used
           /\ [e EXCEPT !.idle = n].conn = e.conn
           /\ [e EXCEPT !.idle = n].state = e.state
           /\ [e EXCEPT !.idle = n].dir = e.dir
           /\ [e EXCEPT !.state = st] \in Used
           /\ [e EXCEPT !.state = st].conn = e.conn
           /\ [e EXCEPT !.state = st].state = st
           /\ [e EXCEPT !.state = st].dir = e.dir
  <1>1. [e EXCEPT !.idle = n] \in Used
    BY DEF Used
  <1>2. [e EXCEPT !.state = st] \in Used
    BY DEF Used
  <1>3. /\ [e EXCEPT !.idle = n].conn = e.conn /\ [e EXCEPT !.idle = n].state = e.state
        /\ [e EXCEPT !.idle = n].dir = e.dir
    BY DEF Used
  <1>4. /\ [e EXCEPT !.state = st].conn = e.conn /\ [e EXCEPT !.state = st].state = st
        /\ [e EXCEPT !.state = st].dir = e.dir
    BY DEF Used
  <1> QED BY <1>1, <1>2, <1>3, <1>4

\* The slots in use are finitely many.
LEMMA ActiveFinite ==
    IsFiniteSet(Active) /\ Cardinality(Active) \in Nat /\ Cardinality(Active) <= Slots
  <1>1. IsFiniteSet(1..Slots) /\ Cardinality(1..Slots) = Slots
    BY ConntrackConstantsHold, FS_Interval
  <1>2. Active \subseteq 1..Slots
    BY DEF Active
  <1> QED BY <1>1, <1>2, FS_Subset, FS_CardinalityType

\* The entry of a connection that has one.
LEMMA FoundEntry ==
    ASSUME TableInv, NEW c \in Conntrack!Conn, Conntrack!Matching(c) # {}
    PROVE  LET x == Conntrack!Lowest(Conntrack!Matching(c))
           IN  x \in Active /\ entries[x] \in Used /\ entries[x].conn = c
  <1>1. PICK x \in 1..Slots : entries[x].active /\ entries[x].conn = c
    BY DEF Conntrack!Matching
  <1>2. \A y \in Conntrack!Matching(c) : y = x
    BY <1>1 DEF TableInv, Active, Conntrack!Matching
  <1>3. Conntrack!Matching(c) = {x}
    BY <1>1, <1>2 DEF Conntrack!Matching
  <1>4. Conntrack!Lowest({x}) = x
    BY DEF Conntrack!Lowest
  <1>5. entries[x] \in Used
    BY <1>1, EntryFacts DEF TableInv
  <1> QED BY <1>1, <1>3, <1>4, <1>5 DEF Active

\* A change of the entry of a connection leaves it the only one.
LEMMA EntryChanged ==
    ASSUME TableInv, NEW x \in Active, NEW f \in Used, f.conn = entries[x].conn,
           entries' = [entries EXCEPT ![x] = f]
    PROVE  /\ TableInv' /\ Active' = Active
           /\ entries'[x] = f
           /\ \A y \in Active : y # x => entries'[y] = entries[y]
  <1>1. x \in 1..Slots /\ f \in Conntrack!Entry /\ f.active
    BY DEF Active, Used, Conntrack!Entry
  <1>2. entries' \in [1..Slots -> Conntrack!Entry]
    BY <1>1 DEF TableInv
  <1>3. \A y \in 1..Slots : entries'[y] = IF y = x THEN f ELSE entries[y]
    BY DEF TableInv
  <1>4. Active' = Active
    BY <1>1, <1>3 DEF Active
  <1>5. \A y \in Active : entries'[y].conn = entries[y].conn
    BY <1>3 DEF Active
  <1>6. \A y, z \in Active' : entries'[y].conn = entries'[z].conn => y = z
    BY <1>4, <1>5 DEF TableInv
  <1> QED BY <1>1, <1>2, <1>3, <1>4, <1>6 DEF TableInv, Active

\* A packet of a connection that has an entry.
LEMMA KnownPacket ==
    ASSUME ConntrackInv, NEW c \in Conntrack!Conn, NEW d \in Conntrack!Dir, NEW flags,
           Conntrack!ProcessKnown(c, d, flags)
    PROVE  ConntrackInv'
  <1> DEFINE x == Conntrack!Lowest(Conntrack!Matching(c))
  <1> USE ConntrackConstantsHold
  <1>1. x \in Active /\ entries[x] \in Used /\ entries[x].conn = c
    BY FoundEntry DEF ConntrackInv, Conntrack!ProcessKnown
  <1>2. CASE c \in TcpConn /\ "RST" \in flags
    <2>1. /\ entries' = [entries EXCEPT ![x] = Conntrack!Free] /\ count' = count - 1
          /\ verdict' = <<c, "INVALID">> /\ heard' = heard \ Conntrack!Of(c)
      BY <1>2 DEF Conntrack!ProcessKnown
    <2> HIDE DEF x
    <2>2. entries' \in [1..Slots -> Conntrack!Entry]
      BY <2>1 DEF ConntrackInv, TableInv, Conntrack!Entry
    <2>3. \A y \in 1..Slots : entries'[y] = IF y = x THEN Conntrack!Free ELSE entries[y]
      BY <2>1 DEF ConntrackInv, TableInv
    <2>4. Active' = Active \ {x}
      BY <1>1, <2>3 DEF Active, Conntrack!Free
    <2>5. TableInv'
      BY <2>2, <2>3, <2>4 DEF ConntrackInv, TableInv, Active
    <2>6. EntriesHeard'
      <3>1. \A y \in Active' : entries'[y] = entries[y] /\ entries[y].conn # c /\ y \in Active
        BY <1>1, <2>3, <2>4 DEF ConntrackInv, TableInv, Active
      <3> QED BY <2>1, <3>1 DEF ConntrackInv, EntriesHeard, WasHeard, Conntrack!Of
    <2>7. VerdictInv'
      BY <2>1 DEF VerdictInv
    <2>8. CountInv'
      <3>1. Cardinality(Active \ {x}) = Cardinality(Active) - 1
        BY <1>1, ActiveFinite, FS_RemoveElement
      <3> QED BY <2>1, <2>4, <3>1 DEF ConntrackInv, CountInv
    <2> QED BY <2>5, <2>6, <2>7, <2>8 DEF ConntrackInv
  <1>3. CASE ~(c \in TcpConn /\ "RST" \in flags)
    <2> DEFINE e == entries[x]
               f1 == [e EXCEPT !.idle = 0]
               f2 == [f1 EXCEPT !.state = "ESTABLISHED"]
    <2>1. heard' = heard \cup {<<c, d>>}
      BY <1>3 DEF Conntrack!ProcessKnown
    <2>2. /\ count' = count
          /\ \/ /\ entries' = [entries EXCEPT ![x].idle = 0]
                /\ verdict' \in {<<c, "INVALID">>, <<c, entries'[x].state>>}
             \/ /\ entries' = [[entries EXCEPT ![x].idle = 0] EXCEPT ![x].state = "ESTABLISHED"]
                /\ Conntrack!Promotes(c, d, flags, e)
                /\ verdict' = <<c, entries'[x].state>>
      BY <1>3 DEF Conntrack!ProcessKnown
    <2> HIDE DEF x
    <2>3. entries \in [1..Slots -> Conntrack!Entry] /\ x \in 1..Slots
      BY <1>1 DEF ConntrackInv, TableInv, Active
    <2>4. PICK f \in {f1, f2} :
            /\ entries' = [entries EXCEPT ![x] = f]
            /\ f = f2 => f = f1 \/ Conntrack!Promotes(c, d, flags, e)
            /\ verdict' \in {<<c, "INVALID">>, <<c, f.state>>}
      <3>1. [entries EXCEPT ![x].idle = 0] = [entries EXCEPT ![x] = f1]
        BY <2>3
      <3>2. [[entries EXCEPT ![x].idle = 0] EXCEPT ![x].state = "ESTABLISHED"]
              = [entries EXCEPT ![x] = f2]
        BY <2>3
      <3> HIDE DEF f1, f2
      <3> QED BY <2>2, <2>3, <3>1, <3>2
    <2>5. /\ f1 \in Used /\ f1.conn = c /\ f1.state = e.state /\ f1.dir = e.dir
          /\ f2 \in Used /\ f2.conn = c /\ f2.dir = e.dir
      <3>1. 0 \in 0..IdleLimit
        OBVIOUS
      <3>2. f1 \in Used /\ f1.conn = c /\ f1.state = e.state /\ f1.dir = e.dir
        BY <1>1, <3>1, FieldChanged
      <3> HIDE DEF f1
      <3>3. f2 \in Used /\ f2.conn = c /\ f2.dir = e.dir
        BY <3>1, <3>2, FieldChanged
      <3> QED BY <3>2, <3>3
    <2>6. f \in Used /\ f.conn = c /\ f.dir = e.dir
      BY <2>5
    <2>7. /\ <<c, f.dir>> \in heard'
          /\ c \in UdpConn /\ f.state = "ESTABLISHED" => Conntrack!Of(c) \subseteq heard'
      <3>1. /\ <<c, e.dir>> \in heard
            /\ c \in UdpConn /\ e.state = "ESTABLISHED" => Conntrack!Of(c) \subseteq heard
        BY <1>1 DEF ConntrackInv, EntriesHeard, WasHeard
      <3>2. c \in UdpConn /\ Conntrack!Promotes(c, d, flags, e) => Conntrack!Of(c) \subseteq heard'
        <4> SUFFICES ASSUME c \in UdpConn, d # e.dir PROVE Conntrack!Of(c) \subseteq heard'
          BY DEF Conntrack!Promotes
        <4>1. e.dir \in Conntrack!Dir
          BY <1>1 DEF Used
        <4>2. \A g \in Conntrack!Dir : g = d \/ g = e.dir
          BY <4>1 DEF Conntrack!Dir
        <4> HIDE DEF e
        <4> QED BY <2>1, <3>1, <4>2 DEF Conntrack!Of
      <3> HIDE DEF f1, f2, e
      <3> QED BY <2>1, <2>4, <2>5, <2>6, <3>1, <3>2
    <2> HIDE DEF f1, f2, e
    <2>8. /\ TableInv' /\ Active' = Active /\ entries'[x] = f
          /\ \A y \in Active : y # x => entries'[y] = entries[y]
      BY <1>1, <2>4, <2>6, EntryChanged DEF ConntrackInv
    <2>9. EntriesHeard'
      <3>1. heard \subseteq heard' /\ heard' \subseteq Conntrack!Conn \X Conntrack!Dir
        BY <2>1 DEF ConntrackInv, EntriesHeard
      <3>2. ASSUME NEW y \in Active PROVE WasHeard(entries[y])'
        <4>1. WasHeard(entries[y])
          BY DEF ConntrackInv, EntriesHeard
        <4>2. CASE y = x
          BY <2>6, <2>7, <2>8, <4>2 DEF WasHeard
        <4>3. CASE y # x
          BY <2>8, <3>1, <4>1, <4>3 DEF WasHeard
        <4> QED BY <4>2, <4>3
      <3> QED BY <2>8, <3>1, <3>2 DEF EntriesHeard
    <2>10. VerdictInv'
      <3>1. f.state \in {"NEW", "ESTABLISHED"}
        BY <2>6 DEF Used
      <3> QED BY <2>4, <2>7, <3>1 DEF VerdictInv
    <2>11. CountInv'
      BY <2>2, <2>8 DEF ConntrackInv, CountInv
    <2> QED BY <2>8, <2>9, <2>10, <2>11 DEF ConntrackInv
  <1> QED BY <1>2, <1>3

\* A packet of a connection without an entry.
LEMMA UnknownPacket ==
    ASSUME ConntrackInv, NEW c \in Conntrack!Conn, NEW d \in Conntrack!Dir, NEW flags,
           Conntrack!ProcessUnknown(c, d, flags)
    PROVE  ConntrackInv'
  <1> DEFINE x == Conntrack!Lowest(Conntrack!FreeSlots)
             f == [active |-> TRUE, conn |-> c, dir |-> d, state |-> "NEW", idle |-> 0]
  <1>1. CASE Conntrack!Opens(c, flags) /\ Conntrack!FreeSlots # {}
    <2>1. /\ entries' = [entries EXCEPT ![x] = f] /\ count' = count + 1
          /\ verdict' = <<c, "NEW">> /\ heard' = (heard \ Conntrack!Of(c)) \cup {<<c, d>>}
          /\ Conntrack!Matching(c) = {}
      BY <1>1 DEF Conntrack!ProcessUnknown
    <2>2. x \in Conntrack!FreeSlots
      <3>1. Conntrack!FreeSlots \subseteq Nat
        BY ConntrackConstantsHold DEF Conntrack!FreeSlots
      <3>2. \E y \in Conntrack!FreeSlots : \A z \in Conntrack!FreeSlots : y <= z
        BY <1>1, <3>1, LeastNatural
      <3> QED BY <3>2 DEF Conntrack!Lowest
    <2>3. /\ f \in Used /\ f.conn = c /\ f.state = "NEW" /\ f.active /\ f \in Conntrack!Entry
          /\ f.dir = d
      BY ConntrackConstantsHold DEF Used, Conntrack!Entry
    <2> HIDE DEF x, f
    <2>4. x \in 1..Slots /\ x \notin Active
      BY <2>2 DEF Conntrack!FreeSlots, Active
    <2>5. entries' \in [1..Slots -> Conntrack!Entry]
      BY <2>1, <2>3 DEF ConntrackInv, TableInv
    <2>6. \A y \in 1..Slots : entries'[y] = IF y = x THEN f ELSE entries[y]
      BY <2>1 DEF ConntrackInv, TableInv
    <2>7. Active' = Active \cup {x}
      BY <2>3, <2>4, <2>6 DEF Active
    <2>8. \A y \in Active : entries'[y] = entries[y] /\ entries[y].conn # c
      BY <2>1, <2>4, <2>6 DEF Active, Conntrack!Matching
    <2>9. entries'[x] = f
      BY <2>4, <2>6
    <2>10. TableInv'
      <3>1. \A y, z \in Active' : entries'[y].conn = entries'[z].conn => y = z
        BY <2>3, <2>7, <2>8, <2>9 DEF ConntrackInv, TableInv
      <3> QED BY <2>5, <3>1 DEF TableInv
    <2>11. EntriesHeard'
      <3>1. heard' \subseteq Conntrack!Conn \X Conntrack!Dir
        BY <2>1 DEF ConntrackInv, EntriesHeard
      <3>2. ASSUME NEW y \in Active PROVE WasHeard(entries[y])'
        <4>1. WasHeard(entries[y])
          BY DEF ConntrackInv, EntriesHeard
        <4> QED BY <2>1, <2>8, <4>1 DEF WasHeard, Conntrack!Of
      <3>3. <<f.conn, f.dir>> \in heard' /\ f.state # "ESTABLISHED"
        BY <2>1, <2>3
      <3>4. ASSUME NEW y \in Active' PROVE WasHeard(entries[y])'
        <4>1. CASE y \in Active
          BY <3>2, <4>1
        <4>2. CASE y \notin Active
          <5>1. entries'[y] = f
            BY <2>7, <2>9, <4>2
          <5> QED BY <3>3, <5>1 DEF WasHeard
        <4> QED BY <4>1, <4>2
      <3> QED BY <3>1, <3>4 DEF EntriesHeard
    <2>12. VerdictInv'
      BY <2>1 DEF VerdictInv
    <2>13. CountInv'
      <3>1. Cardinality(Active \cup {x}) = Cardinality(Active) + 1
        BY <2>4, ActiveFinite, FS_AddElement
      <3> QED BY <2>1, <2>7, <3>1 DEF ConntrackInv, CountInv
    <2> QED BY <2>10, <2>11, <2>12, <2>13 DEF ConntrackInv
  <1>2. CASE ~(Conntrack!Opens(c, flags) /\ Conntrack!FreeSlots # {})
    <2>1. UNCHANGED <<entries, count, heard>> /\ verdict' = <<c, "INVALID">>
      BY <1>2 DEF Conntrack!ProcessUnknown
    <2>2. TableInv' /\ EntriesHeard' /\ CountInv'
      BY <2>1 DEF ConntrackInv, TableInv, EntriesHeard, WasHeard, CountInv, Active
    <2>3. VerdictInv'
      BY <2>1 DEF VerdictInv
    <2> QED BY <2>2, <2>3 DEF ConntrackInv
  <1> QED BY <1>1, <1>2

\* The cardinality that Conntrack takes from FiniteSets is the one of this module.
LEMMA SameCardinality == ASSUME NEW S PROVE Conntrack!Cardinality(S) = Cardinality(S)
  BY Zenon DEF Conntrack!Cardinality, Cardinality

\* nfs_conntrack_expire takes as many from the count as from the table.
LEMMA ExpiryStep ==
    ASSUME ConntrackInv, Conntrack!Expire
    PROVE  ConntrackInv'
  <1> DEFINE expired == {x \in 1..Slots : entries[x].active /\ entries[x].idle >= IdleLimit}
  <1>a. entries' = [x \in 1..Slots |-> IF x \in expired THEN Conntrack!Free ELSE entries[x]]
    BY Zenon DEF Conntrack!Expire
  <1>b. count' = count - Cardinality(expired)
    <2>1. count' = Conntrack!CountAfterExpiry(expired)
      BY Zenon DEF Conntrack!Expire
    <2> HIDE DEF expired
    <2> QED BY <2>1, SameCardinality DEF Conntrack!CountAfterExpiry
  <1>c. heard' = heard \ UNION {Conntrack!Of(entries[x].conn) : x \in expired}
    BY Zenon DEF Conntrack!Expire
  <1>d. verdict' = <<>>
    BY DEF Conntrack!Expire
  <1>1. /\ entries' = [x \in 1..Slots |-> IF x \in expired THEN Conntrack!Free ELSE entries[x]]
        /\ count' = count - Cardinality(expired)
        /\ heard' = heard \ UNION {Conntrack!Of(entries[x].conn) : x \in expired}
        /\ verdict' = <<>>
    BY <1>a, <1>b, <1>c, <1>d
  <1>2. expired \subseteq Active /\ expired \subseteq 1..Slots
    BY DEF Active
  <1> HIDE DEF expired
  <1>3. Active' = Active \ expired
    BY <1>1, <1>2 DEF Active, Conntrack!Free
  <1>4. \A x \in Active' : x \in Active /\ x \notin expired /\ entries'[x] = entries[x]
    BY <1>1, <1>3 DEF Active
  <1>5. TableInv'
    <2>1. entries' \in [1..Slots -> Conntrack!Entry]
      BY <1>1 DEF ConntrackInv, TableInv, Conntrack!Entry
    <2> QED BY <1>4, <2>1 DEF ConntrackInv, TableInv
  <1>6. EntriesHeard'
    <2>1. \A x \in Active', y \in expired : entries[x].conn # entries[y].conn
      BY <1>2, <1>4 DEF ConntrackInv, TableInv
    <2>2. heard' \subseteq Conntrack!Conn \X Conntrack!Dir
      BY <1>1 DEF ConntrackInv, EntriesHeard
    <2>3. ASSUME NEW x \in Active' PROVE WasHeard(entries[x])'
      <3>1. WasHeard(entries[x]) /\ entries'[x] = entries[x]
        BY <1>4 DEF ConntrackInv, EntriesHeard
      <3>2. ASSUME NEW p \in heard, p[1] = entries[x].conn PROVE p \in heard'
        <4>1. \A y \in expired : p \notin Conntrack!Of(entries[y].conn)
          BY <2>1, <3>2 DEF Conntrack!Of
        <4> QED BY <1>1, <4>1
      <3>3. <<entries[x].conn, entries[x].dir>> \in heard'
        BY <3>1, <3>2 DEF WasHeard
      <3>4. \A p \in Conntrack!Of(entries[x].conn) : p[1] = entries[x].conn
        BY DEF Conntrack!Of
      <3>5. Conntrack!Of(entries[x].conn) \subseteq heard => Conntrack!Of(entries[x].conn) \subseteq heard'
        BY <3>2, <3>4
      <3> QED BY <3>1, <3>3, <3>5 DEF WasHeard
    <2> QED BY <2>2, <2>3 DEF EntriesHeard
  <1>7. VerdictInv'
    BY <1>1 DEF VerdictInv
  <1>8. CountInv'
    <2>1. IsFiniteSet(expired) /\ Active \cap expired = expired
      BY <1>2, ActiveFinite, FS_Subset
    <2>2. Cardinality(Active \ expired) = Cardinality(Active) - Cardinality(expired)
      BY <2>1, ActiveFinite, FS_Difference
    <2> QED BY <1>1, <1>3, <2>2 DEF ConntrackInv, CountInv
  <1> QED BY <1>5, <1>6, <1>7, <1>8 DEF ConntrackInv

\* The passing of time changes the idle times only.
LEMMA ConntrackTick ==
    ASSUME ConntrackInv, Conntrack!Tick
    PROVE  ConntrackInv'
  <1> USE ConntrackConstantsHold
  <1>1. ASSUME NEW x \in 1..Slots
        PROVE  /\ entries'[x] \in Conntrack!Entry
               /\ entries'[x].active <=> entries[x].active
               /\ x \in Active => /\ entries'[x].conn = entries[x].conn
                                  /\ entries'[x].state = entries[x].state
                                  /\ entries'[x].dir = entries[x].dir
    <2> DEFINE e == entries[x]
    <2>1. e \in Conntrack!Entry
      BY DEF ConntrackInv, TableInv
    <2>2. entries'[x] = IF e.active /\ e.idle < IdleLimit THEN [e EXCEPT !.idle = @ + 1] ELSE e
      BY DEF Conntrack!Tick
    <2>3. CASE e.active /\ e.idle < IdleLimit
      <3>1. e \in Used
        BY <2>1, <2>3, EntryFacts
      <3>2. /\ [e EXCEPT !.idle = @ + 1] \in Used
            /\ [e EXCEPT !.idle = @ + 1].conn = e.conn
            /\ [e EXCEPT !.idle = @ + 1].state = e.state
            /\ [e EXCEPT !.idle = @ + 1].dir = e.dir
        <4>1. e.idle + 1 \in 0..IdleLimit
          <5>1. e.idle \in 0..IdleLimit /\ e.idle < IdleLimit
            BY <2>3, <3>1 DEF Used
          <5> HIDE DEF e
          <5> QED BY <5>1
        <4> QED BY <3>1, <4>1, FieldChanged
      <3>3. [e EXCEPT !.idle = @ + 1] \in Conntrack!Entry
        BY <3>2 DEF Used, Conntrack!Entry
      <3> HIDE DEF e
      <3> QED BY <2>2, <2>3, <3>2, <3>3, EntryFacts DEF e
    <2>4. CASE ~(e.active /\ e.idle < IdleLimit)
      BY <2>1, <2>2, <2>4
    <2> QED BY <2>3, <2>4
  <1>2. entries' \in [1..Slots -> Conntrack!Entry]
    BY <1>1 DEF Conntrack!Tick
  <1>3. Active' = Active
    BY <1>1 DEF Active
  <1>4. \A x \in Active : /\ entries'[x].conn = entries[x].conn /\ entries'[x].state = entries[x].state
                          /\ entries'[x].dir = entries[x].dir
    BY <1>1 DEF Active
  <1>5. UNCHANGED <<count, heard, verdict>>
    BY DEF Conntrack!Tick
  <1>6. TableInv'
    BY <1>2, <1>3, <1>4 DEF ConntrackInv, TableInv
  <1>7. EntriesHeard'
    BY <1>3, <1>4, <1>5 DEF ConntrackInv, EntriesHeard, WasHeard
  <1>8. VerdictInv' /\ CountInv'
    BY <1>3, <1>5 DEF ConntrackInv, VerdictInv, CountInv
  <1> QED BY <1>6, <1>7, <1>8 DEF ConntrackInv

\* The table of conntrack.c is consistent after every packet and expiry.
LEMMA ConntrackInvariant == Spec => []ConntrackInv
  <1>1. Init => ConntrackInv
    <2> SUFFICES ASSUME Conntrack!Init PROVE ConntrackInv
      BY DEF Init
    <2>1. Active = {}
      BY DEF Conntrack!Init, Active, Conntrack!Free
    <2>2. TableInv
      BY <2>1 DEF TableInv, Conntrack!Init, Conntrack!Entry
    <2>3. EntriesHeard /\ VerdictInv
      BY <2>1 DEF EntriesHeard, VerdictInv, Conntrack!Init
    <2>4. CountInv
      BY <2>1, FS_EmptySet DEF CountInv, Conntrack!Init
    <2> QED BY <2>2, <2>3, <2>4 DEF ConntrackInv
  <1>2. ConntrackInv /\ [Next]_vars => ConntrackInv'
    <2> SUFFICES ASSUME ConntrackInv, [Next]_vars PROVE ConntrackInv'
      OBVIOUS
    <2>1. ASSUME NEW c \in Conntrack!Conn, NEW d \in Conntrack!Dir, NEW f, Conntrack!Process(c, d, f)
          PROVE  ConntrackInv'
      BY <2>1, KnownPacket, UnknownPacket DEF Conntrack!Process
    <2>2. TcpConn \subseteq Conntrack!Conn /\ UdpConn \subseteq Conntrack!Conn
      BY DEF Conntrack!Conn
    <2>3. CASE UNCHANGED ctVars
      BY <2>3 DEF ctVars, ConntrackInv, TableInv, EntriesHeard, WasHeard, VerdictInv, CountInv, Active
    <2> QED BY <2>1, <2>2, <2>3, ExpiryStep, ConntrackTick, ConnectionSteps DEF Conntrack!Next
  <1> QED BY <1>1, <1>2, PTL DEF Spec

\* What the invariant says of the table.
LEMMA ConntrackConsistent == ConntrackInv => Conntrack!TypeOK /\ Conntrack!TableIsConsistent
  <1> SUFFICES ASSUME ConntrackInv PROVE Conntrack!TypeOK /\ Conntrack!TableIsConsistent
    OBVIOUS
  <1>1. Conntrack!TypeOK
    BY ActiveFinite DEF ConntrackInv, TableInv, EntriesHeard, VerdictInv, CountInv, Conntrack!TypeOK
  <1>2. ASSUME NEW c \in Conntrack!Conn PROVE Cardinality(Conntrack!Matching(c)) <= 1
    <2>1. CASE Conntrack!Matching(c) = {}
      BY <2>1, FS_EmptySet
    <2>2. CASE Conntrack!Matching(c) # {}
      <3>1. PICK x \in Conntrack!Matching(c) : TRUE
        BY <2>2
      <3>2. Conntrack!Matching(c) = {x}
        BY <3>1 DEF ConntrackInv, TableInv, Active, Conntrack!Matching
      <3> QED BY <3>2, FS_Singleton
    <2> QED BY <2>1, <2>2
  <1>3. Conntrack!TableIsConsistent
    <2>1. count = Cardinality({x \in 1..Slots : entries[x].active})
      BY DEF ConntrackInv, CountInv, Active
    <2>2. \A x \in 1..Slots : /\ entries[x].active /\ entries[x].state = "ESTABLISHED"
                             /\ entries[x].conn \in UdpConn
                             => Conntrack!Of(entries[x].conn) \subseteq heard
      BY DEF ConntrackInv, EntriesHeard, WasHeard, Active
    <2>3. \A c \in UdpConn : verdict = <<c, "ESTABLISHED">> => Conntrack!Of(c) \subseteq heard
      BY DEF ConntrackInv, VerdictInv
    <2>4. \A c \in Conntrack!Conn : Cardinality(Conntrack!Matching(c)) <= 1
      BY <1>2
    <2> QED BY <2>1, <2>2, <2>3, <2>4, SameCardinality DEF Conntrack!TableIsConsistent
  <1> QED BY <1>1, <1>3

-----------------------------------------------------------------------------
\* The segments of a connection, and the queues of at most two of them that
\* occur.
Kinds == {"SYN", "SYNACK", "ACK", "FIN"}
Empty(q) == q \in Seq(Kinds) /\ Len(q) = 0
One(q, k) == q \in Seq(Kinds) /\ Len(q) = 1 /\ q[1] = k
Two(q, j, k) == q \in Seq(Kinds) /\ Len(q) = 2 /\ q[1] = j /\ q[2] = k

\* The queue after a segment was sent.
LEMMA Emitted ==
    ASSUME NEW q \in Seq(Kinds), NEW k \in Kinds
    PROVE  /\ Empty(q) => One(TcpFsm!Emit(q, k), k)
           /\ \A j : One(q, j) => Two(TcpFsm!Emit(q, k), j, k)
  <1>1. TcpFsm!Emit(q, k) = Append(q, k)
    BY DEF TcpFsm!Emit, Kinds
  <1> HIDE DEF Kinds
  <1>2. Append(q, k) \in Seq(Kinds) /\ Len(Append(q, k)) = Len(q) + 1
    BY AppendProperties
  <1>3. \A i \in 1..Len(q) : Append(q, k)[i] = q[i]
    BY AppendProperties
  <1>4. Append(q, k)[Len(q) + 1] = k
    BY AppendProperties
  <1>5. CASE Empty(q)
    BY <1>1, <1>2, <1>4, <1>5 DEF Empty, One
  <1>6. ASSUME NEW j, One(q, j) PROVE Two(TcpFsm!Emit(q, k), j, k)
    <2>1. Len(q) = 1 /\ 1 \in 1..Len(q) /\ Len(q) + 1 = 2
      BY <1>6 DEF One
    <2> QED BY <1>1, <1>2, <1>3, <1>4, <1>6, <2>1 DEF One, Two
  <1> QED BY <1>5, <1>6 DEF One, Empty

\* The queue after its first segment was taken.
LEMMA Taken ==
    ASSUME NEW q \in Seq(Kinds)
    PROVE  /\ \A j : One(q, j) => ~Empty(q) /\ Head(q) = j /\ Empty(Tail(q))
           /\ \A j, k : Two(q, j, k) => ~Empty(q) /\ Head(q) = j /\ One(Tail(q), k)
  <1>1. ASSUME NEW j, One(q, j) PROVE ~Empty(q) /\ Head(q) = j /\ Empty(Tail(q))
    <2>1. ~Empty(q) /\ Head(q) = j
      BY <1>1 DEF One, Empty
    <2>2. Empty(Tail(q))
      BY <1>1, HeadTailProperties DEF One, Empty
    <2> QED BY <2>1, <2>2
  <1>2. ASSUME NEW j, NEW k, Two(q, j, k) PROVE ~Empty(q) /\ Head(q) = j /\ One(Tail(q), k)
    <2>1. ~Empty(q) /\ Head(q) = j
      BY <1>2 DEF Two, Empty
    <2>2. Tail(q) \in Seq(Kinds) /\ Len(Tail(q)) = 1
      BY <1>2, HeadTailProperties, SMTT(60) DEF Two
    <2>3. \A i \in 1..Len(Tail(q)) : Tail(q)[i] = q[i + 1]
      <3> HIDE DEF Kinds
      <3> QED BY <1>2, HeadTailProperties DEF Two
    <2>4. Tail(q)[1] = q[2]
      <3> DEFINE n == Len(Tail(q))
      <3>1. n = 1
        BY <2>2
      <3> HIDE DEF n
      <3>2. 1 \in 1..n /\ 1 + 1 = 2
        BY <3>1
      <3> QED BY <2>3, <3>2, Zenon DEF n
    <2> QED BY <1>2, <2>1, <2>2, <2>4 DEF Two, One
  <1> QED BY <1>1, <1>2

First(q) == Head(q)
Rest(q) == Tail(q)

\* Both for the segments the ends send, with the sequence operators hidden.
LEMMA QueueRules ==
    /\ \A q : Empty(q) => One(TcpFsm!Emit(q, "SYN"), "SYN") /\ One(TcpFsm!Emit(q, "SYNACK"), "SYNACK")
                          /\ One(TcpFsm!Emit(q, "ACK"), "ACK") /\ One(TcpFsm!Emit(q, "FIN"), "FIN")
    /\ \A q, j : One(q, j) => Two(TcpFsm!Emit(q, "ACK"), j, "ACK") /\ Two(TcpFsm!Emit(q, "FIN"), j, "FIN")
    /\ \A q, j : One(q, j) => ~Empty(q) /\ First(q) = j /\ Empty(Rest(q))
    /\ \A q, j, k : Two(q, j, k) => ~Empty(q) /\ First(q) = j /\ One(Rest(q), k)
    /\ \A q : TcpFsm!Emit(q, "NONE") = q
  <1>1. "SYN" \in Kinds /\ "SYNACK" \in Kinds /\ "ACK" \in Kinds /\ "FIN" \in Kinds
    BY DEF Kinds
  <1>2. \A q, j, k : (Empty(q) => q \in Seq(Kinds)) /\ (One(q, j) => q \in Seq(Kinds)) /\ (Two(q, j, k) => q \in Seq(Kinds))
    BY DEF Empty, One, Two
  <1>3. \A q : TcpFsm!Emit(q, "NONE") = q
    BY DEF TcpFsm!Emit
  <1> QED BY <1>1, <1>2, <1>3, Emitted, Taken DEF First, Rest

\* The positions of a handshake: the client's state and queue, then the
\* listener's.  A new listener may meet a client still in TIME_WAIT.
Handshaking(s, q, t, r) ==
    \/ s = "CLOSED" /\ Empty(q) /\ t = "LISTEN" /\ Empty(r)
    \/ s = "TIME_WAIT" /\ Empty(q) /\ t = "LISTEN" /\ Empty(r)
    \/ s = "SYN_SENT" /\ Empty(q) /\ t = "LISTEN" /\ One(r, "SYN")
    \/ s = "SYN_SENT" /\ One(q, "SYNACK") /\ t = "SYN_RCVD" /\ Empty(r)
    \/ s = "ESTABLISHED" /\ Empty(q) /\ t = "SYN_RCVD" /\ One(r, "ACK")
    \/ s = "FIN_WAIT_1" /\ Empty(q) /\ t = "SYN_RCVD" /\ Two(r, "ACK", "FIN")

\* The positions of a connection that is open, closing or closed, seen from
\* one of the two ends.
Closing(s, q, t, r) ==
    \/ s = "ESTABLISHED" /\ Empty(q) /\ t = "ESTABLISHED" /\ Empty(r)
    \/ s = "ESTABLISHED" /\ One(q, "FIN") /\ t = "FIN_WAIT_1" /\ Empty(r)
    \/ s = "CLOSE_WAIT" /\ Empty(q) /\ t = "FIN_WAIT_1" /\ One(r, "ACK")
    \/ s = "CLOSE_WAIT" /\ Empty(q) /\ t = "FIN_WAIT_2" /\ Empty(r)
    \/ s = "LAST_ACK" /\ Empty(q) /\ t = "FIN_WAIT_1" /\ Two(r, "ACK", "FIN")
    \/ s = "LAST_ACK" /\ Empty(q) /\ t = "FIN_WAIT_2" /\ One(r, "FIN")
    \/ s = "LAST_ACK" /\ One(q, "ACK") /\ t = "TIME_WAIT" /\ Empty(r)
    \/ s = "FIN_WAIT_1" /\ One(q, "FIN") /\ t = "FIN_WAIT_1" /\ One(r, "FIN")
    \/ s = "CLOSING" /\ Empty(q) /\ t = "FIN_WAIT_1" /\ Two(r, "FIN", "ACK")
    \/ s = "CLOSING" /\ One(q, "ACK") /\ t = "CLOSING" /\ One(r, "ACK")
    \/ s = "CLOSING" /\ One(q, "ACK") /\ t = "TIME_WAIT" /\ Empty(r)
    \/ s = "TIME_WAIT" /\ Empty(q) /\ t = "TIME_WAIT" /\ Empty(r)
    \/ s = "TIME_WAIT" /\ Empty(q) /\ t = "CLOSED" /\ Empty(r)
    \/ s = "CLOSED" /\ Empty(q) /\ t = "CLOSED" /\ Empty(r)

\* The states in which the FIN of the peer has been taken.
Heard(s) == s \in {"CLOSE_WAIT", "LAST_ACK", "CLOSING", "TIME_WAIT"}

\* The same, seen from either end.
Closes(s, q, t, r) == Closing(s, q, t, r) \/ Closing(t, r, s, q)

\* What the table holds for a state and an event.
Valid(s, event) == \E u : TcpFsm!Transitions(s, event) = {u}
After(s, event) == (CHOOSE u \in TcpFsm!Transitions(s, event) : TRUE).next
Sends(s, event) == (CHOOSE u \in TcpFsm!Transitions(s, event) : TRUE).action

\* A state and an event with one row in the table.
LEMMA OneRow == ASSUME NEW s, NEW event, NEW n, NEW a, TcpFsm!Transitions(s, event) = {TcpFsm!Row(s, event, n, a)}
  PROVE Valid(s, event) /\ After(s, event) = n /\ Sends(s, event) = a
  <1>1. (CHOOSE u \in TcpFsm!Transitions(s, event) : TRUE) = TcpFsm!Row(s, event, n, a)
    OBVIOUS
  <1>2. Valid(s, event)
    BY DEF Valid
  <1> QED BY <1>1, <1>2 DEF After, Sends, TcpFsm!Row

Does(s, event, n, a) == Valid(s, event) /\ After(s, event) = n /\ Sends(s, event) = a
\* The rows of the table that the ends go through.
LEMMA TableRows ==
    /\ Does("CLOSED", "OPEN_PASSIVE", "LISTEN", "NONE")
    /\ Does("CLOSED", "OPEN_ACTIVE", "SYN_SENT", "SYN")
    /\ Does("LISTEN", "CLOSE", "CLOSED", "NONE")
    /\ Does("LISTEN", "SYN", "SYN_RCVD", "SYNACK")
    /\ Does("SYN_SENT", "SYNACK", "ESTABLISHED", "ACK")
    /\ Does("SYN_RCVD", "ACK", "ESTABLISHED", "NONE")
    /\ Does("ESTABLISHED", "CLOSE", "FIN_WAIT_1", "FIN")
    /\ Does("ESTABLISHED", "FIN", "CLOSE_WAIT", "ACK")
    /\ Does("FIN_WAIT_1", "ACK", "FIN_WAIT_2", "NONE")
    /\ Does("FIN_WAIT_1", "FIN", "CLOSING", "ACK")
    /\ Does("FIN_WAIT_2", "FIN", "TIME_WAIT", "ACK")
    /\ Does("CLOSE_WAIT", "CLOSE", "LAST_ACK", "FIN")
    /\ Does("CLOSING", "ACK", "TIME_WAIT", "NONE")
    /\ Does("LAST_ACK", "ACK", "CLOSED", "NONE")
    /\ Does("TIME_WAIT", "TIMEOUT", "CLOSED", "NONE")
  <1>1. Does("CLOSED", "OPEN_PASSIVE", "LISTEN", "NONE")
    <2>1. TcpFsm!Transitions("CLOSED", "OPEN_PASSIVE") = {TcpFsm!Row("CLOSED", "OPEN_PASSIVE", "LISTEN", "NONE")}
      BY DEF TcpFsm!Transitions, TcpFsm!Table, TcpFsm!Row, TcpFsm!CloseInEstablished
    <2> QED BY <2>1, OneRow DEF Does
  <1>2. Does("CLOSED", "OPEN_ACTIVE", "SYN_SENT", "SYN")
    <2>1. TcpFsm!Transitions("CLOSED", "OPEN_ACTIVE") = {TcpFsm!Row("CLOSED", "OPEN_ACTIVE", "SYN_SENT", "SYN")}
      BY DEF TcpFsm!Transitions, TcpFsm!Table, TcpFsm!Row, TcpFsm!CloseInEstablished
    <2> QED BY <2>1, OneRow DEF Does
  <1>3. Does("LISTEN", "CLOSE", "CLOSED", "NONE")
    <2>1. TcpFsm!Transitions("LISTEN", "CLOSE") = {TcpFsm!Row("LISTEN", "CLOSE", "CLOSED", "NONE")}
      BY DEF TcpFsm!Transitions, TcpFsm!Table, TcpFsm!Row, TcpFsm!CloseInEstablished
    <2> QED BY <2>1, OneRow DEF Does
  <1>4. Does("LISTEN", "SYN", "SYN_RCVD", "SYNACK")
    <2>1. TcpFsm!Transitions("LISTEN", "SYN") = {TcpFsm!Row("LISTEN", "SYN", "SYN_RCVD", "SYNACK")}
      BY DEF TcpFsm!Transitions, TcpFsm!Table, TcpFsm!Row, TcpFsm!CloseInEstablished
    <2> QED BY <2>1, OneRow DEF Does
  <1>5. Does("SYN_SENT", "SYNACK", "ESTABLISHED", "ACK")
    <2>1. TcpFsm!Transitions("SYN_SENT", "SYNACK") = {TcpFsm!Row("SYN_SENT", "SYNACK", "ESTABLISHED", "ACK")}
      BY DEF TcpFsm!Transitions, TcpFsm!Table, TcpFsm!Row, TcpFsm!CloseInEstablished
    <2> QED BY <2>1, OneRow DEF Does
  <1>6. Does("SYN_RCVD", "ACK", "ESTABLISHED", "NONE")
    <2>1. TcpFsm!Transitions("SYN_RCVD", "ACK") = {TcpFsm!Row("SYN_RCVD", "ACK", "ESTABLISHED", "NONE")}
      BY DEF TcpFsm!Transitions, TcpFsm!Table, TcpFsm!Row, TcpFsm!CloseInEstablished
    <2> QED BY <2>1, OneRow DEF Does
  <1>7. Does("ESTABLISHED", "CLOSE", "FIN_WAIT_1", "FIN")
    <2>1. TcpFsm!Transitions("ESTABLISHED", "CLOSE") = {TcpFsm!Row("ESTABLISHED", "CLOSE", "FIN_WAIT_1", "FIN")}
      BY DEF TcpFsm!Transitions, TcpFsm!Table, TcpFsm!Row, TcpFsm!CloseInEstablished
    <2> QED BY <2>1, OneRow DEF Does
  <1>8. Does("ESTABLISHED", "FIN", "CLOSE_WAIT", "ACK")
    <2>1. TcpFsm!Transitions("ESTABLISHED", "FIN") = {TcpFsm!Row("ESTABLISHED", "FIN", "CLOSE_WAIT", "ACK")}
      BY DEF TcpFsm!Transitions, TcpFsm!Table, TcpFsm!Row, TcpFsm!CloseInEstablished
    <2> QED BY <2>1, OneRow DEF Does
  <1>9. Does("FIN_WAIT_1", "ACK", "FIN_WAIT_2", "NONE")
    <2>1. TcpFsm!Transitions("FIN_WAIT_1", "ACK") = {TcpFsm!Row("FIN_WAIT_1", "ACK", "FIN_WAIT_2", "NONE")}
      BY DEF TcpFsm!Transitions, TcpFsm!Table, TcpFsm!Row, TcpFsm!CloseInEstablished
    <2> QED BY <2>1, OneRow DEF Does
  <1>10. Does("FIN_WAIT_1", "FIN", "CLOSING", "ACK")
    <2>1. TcpFsm!Transitions("FIN_WAIT_1", "FIN") = {TcpFsm!Row("FIN_WAIT_1", "FIN", "CLOSING", "ACK")}
      BY DEF TcpFsm!Transitions, TcpFsm!Table, TcpFsm!Row, TcpFsm!CloseInEstablished
    <2> QED BY <2>1, OneRow DEF Does
  <1>11. Does("FIN_WAIT_2", "FIN", "TIME_WAIT", "ACK")
    <2>1. TcpFsm!Transitions("FIN_WAIT_2", "FIN") = {TcpFsm!Row("FIN_WAIT_2", "FIN", "TIME_WAIT", "ACK")}
      BY DEF TcpFsm!Transitions, TcpFsm!Table, TcpFsm!Row, TcpFsm!CloseInEstablished
    <2> QED BY <2>1, OneRow DEF Does
  <1>12. Does("CLOSE_WAIT", "CLOSE", "LAST_ACK", "FIN")
    <2>1. TcpFsm!Transitions("CLOSE_WAIT", "CLOSE") = {TcpFsm!Row("CLOSE_WAIT", "CLOSE", "LAST_ACK", "FIN")}
      BY DEF TcpFsm!Transitions, TcpFsm!Table, TcpFsm!Row, TcpFsm!CloseInEstablished
    <2> QED BY <2>1, OneRow DEF Does
  <1>13. Does("CLOSING", "ACK", "TIME_WAIT", "NONE")
    <2>1. TcpFsm!Transitions("CLOSING", "ACK") = {TcpFsm!Row("CLOSING", "ACK", "TIME_WAIT", "NONE")}
      BY DEF TcpFsm!Transitions, TcpFsm!Table, TcpFsm!Row, TcpFsm!CloseInEstablished
    <2> QED BY <2>1, OneRow DEF Does
  <1>14. Does("LAST_ACK", "ACK", "CLOSED", "NONE")
    <2>1. TcpFsm!Transitions("LAST_ACK", "ACK") = {TcpFsm!Row("LAST_ACK", "ACK", "CLOSED", "NONE")}
      BY DEF TcpFsm!Transitions, TcpFsm!Table, TcpFsm!Row, TcpFsm!CloseInEstablished
    <2> QED BY <2>1, OneRow DEF Does
  <1>15. Does("TIME_WAIT", "TIMEOUT", "CLOSED", "NONE")
    <2>1. TcpFsm!Transitions("TIME_WAIT", "TIMEOUT") = {TcpFsm!Row("TIME_WAIT", "TIMEOUT", "CLOSED", "NONE")}
      BY DEF TcpFsm!Transitions, TcpFsm!Table, TcpFsm!Row, TcpFsm!CloseInEstablished
    <2> QED BY <2>1, OneRow DEF Does
  <1> QED BY <1>1, <1>2, <1>3, <1>4, <1>5, <1>6, <1>7, <1>8, <1>9, <1>10, <1>11, <1>12, <1>13, <1>14, <1>15

\* A segment taken while the connection is open or closing leads to another
\* of these positions, and what counts as having heard a FIN follows a FIN.
LEMMA ReceiveClosing ==
  ASSUME NEW s, NEW q, NEW t, NEW r, Closes(s, q, t, r), ~Empty(q)
  PROVE  /\ Valid(s, First(q))
         /\ Closes(After(s, First(q)), Rest(q), t, TcpFsm!Emit(r, Sends(s, First(q))))
         /\ Heard(After(s, First(q))) => Heard(s) \/ First(q) = "FIN"
         /\ After(s, First(q)) # "LISTEN" /\ t # "CLOSED" /\ t # "LISTEN"
         /\ After(s, First(q)) = "CLOSED" => s = "LAST_ACK"
  <1> USE QueueRules, TableRows DEF Does, Closing, Closes
  <1>1. CASE Closing(s, q, t, r)
    <2>1. /\ Valid(s, First(q))
          /\ Closes(After(s, First(q)), Rest(q), t, TcpFsm!Emit(r, Sends(s, First(q))))
      BY <1>1
    <2>2. /\ Heard(After(s, First(q))) => Heard(s) \/ First(q) = "FIN"
          /\ After(s, First(q)) # "LISTEN" /\ t # "CLOSED" /\ t # "LISTEN"
          /\ After(s, First(q)) = "CLOSED" => s = "LAST_ACK"
      BY <1>1 DEF Heard
    <2> QED BY <2>1, <2>2
  <1>2. CASE Closing(t, r, s, q)
    <2>1. /\ Valid(s, First(q))
          /\ Closes(After(s, First(q)), Rest(q), t, TcpFsm!Emit(r, Sends(s, First(q))))
      <3>1. CASE s = "FIN_WAIT_1" /\ t # "FIN_WAIT_1"
        BY <1>2, <3>1
      <3>2. CASE s = "FIN_WAIT_1" /\ t = "FIN_WAIT_1"
        BY <1>2, <3>2
      <3>3. CASE s # "FIN_WAIT_1"
        BY <1>2, <3>3
      <3> QED BY <3>1, <3>2, <3>3
    <2>2. /\ Heard(After(s, First(q))) => Heard(s) \/ First(q) = "FIN"
          /\ After(s, First(q)) # "LISTEN" /\ t # "CLOSED" /\ t # "LISTEN"
          /\ After(s, First(q)) = "CLOSED" => s = "LAST_ACK"
      BY <1>2 DEF Heard
    <2> QED BY <2>1, <2>2
  <1> QED BY <1>1, <1>2

\* So does a close.
LEMMA CloseClosing ==
  ASSUME NEW s, NEW q, NEW t, NEW r, Closes(s, q, t, r), s \in {"ESTABLISHED", "CLOSE_WAIT"}
  PROVE  /\ Valid(s, "CLOSE")
         /\ Closes(After(s, "CLOSE"), q, t, TcpFsm!Emit(r, Sends(s, "CLOSE")))
         /\ Heard(After(s, "CLOSE")) => Heard(s)
         /\ After(s, "CLOSE") # "CLOSED" /\ t # "CLOSED" /\ t # "LISTEN"
         /\ After(s, "CLOSE") # "LISTEN"
  <1> USE QueueRules, TableRows DEF Does, Closing, Closes, Heard
  <1>1. CASE s = "ESTABLISHED"
    BY <1>1
  <1>2. CASE s = "CLOSE_WAIT"
    BY <1>2
  <1> QED BY <1>1, <1>2

\* The client's side of the handshake.
LEMMA ReceiveOpener ==
  ASSUME NEW s, NEW q, NEW t, NEW r, Handshaking(s, q, t, r), ~Empty(q)
  PROVE  /\ Valid(s, First(q))
         /\ Handshaking(After(s, First(q)), Rest(q), t, TcpFsm!Emit(r, Sends(s, First(q))))
         /\ ~Heard(After(s, First(q))) /\ After(s, First(q)) # "CLOSED" /\ t = "SYN_RCVD"
  BY QueueRules, TableRows DEF Does, Handshaking, Heard

\* The listener's side of the handshake.
LEMMA ReceiveListener ==
  ASSUME NEW s, NEW q, NEW t, NEW r, Handshaking(s, q, t, r), ~Empty(r)
  PROVE  /\ Valid(t, First(r))
         /\ \/ Handshaking(s, TcpFsm!Emit(q, Sends(t, First(r))), After(t, First(r)), Rest(r))
            \/ Closes(s, TcpFsm!Emit(q, Sends(t, First(r))), After(t, First(r)), Rest(r))
         /\ After(t, First(r)) \in {"SYN_RCVD", "ESTABLISHED"}
         /\ s \in {"SYN_SENT", "ESTABLISHED", "FIN_WAIT_1"}
  BY QueueRules, TableRows DEF Does, Closing, Closes, Handshaking, Heard

\* A client that closes before its last ACK has arrived.
LEMMA CloseOpener ==
  ASSUME NEW s, NEW q, NEW t, NEW r, Handshaking(s, q, t, r), s \in {"ESTABLISHED", "CLOSE_WAIT"}
  PROVE  /\ Valid(s, "CLOSE")
         /\ Handshaking(After(s, "CLOSE"), q, t, TcpFsm!Emit(r, Sends(s, "CLOSE")))
         /\ After(s, "CLOSE") = "FIN_WAIT_1" /\ t = "SYN_RCVD"
  BY QueueRules, TableRows DEF Does, Handshaking, Heard

\* One end opens actively, and the applications close what is established.
Opener == IF A \in ActiveOpeners THEN A ELSE B
Listener == TcpFsm!Peer(Opener)
OneOpener == ActiveOpeners \in {{A}, {B}} /\ ClosesIn \subseteq {"ESTABLISHED", "CLOSE_WAIT"}

IsOfEnds(f) == f = [e \in TcpFsm!Endpoint |-> f[e]]

\* The inductive invariant: the ends are in one of these positions, have heard
\* the FIN that their state stands for, and a listener has opened once more
\* than the client it waits for.
PositionInv ==
    \/ Handshaking(fsm_state[Opener], fsm_chan[Opener], fsm_state[Listener], fsm_chan[Listener])
    \/ Closes(fsm_state[Opener], fsm_chan[Opener], fsm_state[Listener], fsm_chan[Listener])
HeardInv ==
    \A e \in TcpFsm!Endpoint :
        Heard(fsm_state[e]) \/ (fsm_state[e] = "CLOSED" /\ fsm_state[TcpFsm!Peer(e)] = "TIME_WAIT")
            => finSeen[e]
OpensInv ==
    /\ opens \in [TcpFsm!Endpoint -> Nat]
    /\ opens[Opener] <= opens[Listener]
    /\ fsm_state[Listener] = "LISTEN" /\ fsm_state[Opener] # "SYN_SENT"
           => opens[Opener] < opens[Listener]
FsmInv ==
    /\ IsOfEnds(fsm_state) /\ IsOfEnds(fsm_chan) /\ IsOfEnds(finSeen)
    /\ PositionInv /\ HeardInv /\ OpensInv

\* The ends and their roles.
LEMMA TwoEnds ==
    ASSUME OneOpener
    PROVE  /\ Opener \in TcpFsm!Endpoint /\ Listener \in TcpFsm!Endpoint /\ Opener # Listener
           /\ TcpFsm!Peer(Opener) = Listener /\ TcpFsm!Peer(Listener) = Opener
           /\ \A e \in TcpFsm!Endpoint : e = Opener \/ e = Listener
           /\ Opener \in ActiveOpeners /\ Listener \notin ActiveOpeners
  BY ProtocolSuiteConstants DEF TcpFsm!TcpFsmConstants, Opener, Listener, OneOpener, TcpFsm!Endpoint, TcpFsm!Peer

\* nfs_tcp_fsm_handle takes the one row there is.
LEMMA TransitionTaken ==
    ASSUME NEW e \in TcpFsm!Endpoint, NEW ev, NEW queue, Valid(fsm_state[e], ev), TcpFsm!Handle(e, ev, queue)
    PROVE  /\ fsm_state' = [fsm_state EXCEPT ![e] = After(fsm_state[e], ev)]
           /\ fsm_chan' = [queue EXCEPT ![TcpFsm!Peer(e)] = TcpFsm!Emit(@, Sends(fsm_state[e], ev))]
  <1>1. PICK u : TcpFsm!Transitions(fsm_state[e], ev) = {u}
    BY DEF Valid
  <1>2. (CHOOSE v \in TcpFsm!Transitions(fsm_state[e], ev) : TRUE) = u
    BY <1>1
  <1>3. After(fsm_state[e], ev) = u.next /\ Sends(fsm_state[e], ev) = u.action
    BY <1>2 DEF After, Sends
  <1> QED BY <1>1, <1>3 DEF TcpFsm!Handle

\* What a step of one end does to the states and the queues.
LEMMA EndMoves ==
    ASSUME NEW e \in TcpFsm!Endpoint, NEW ev, NEW queue, Valid(fsm_state[e], ev), TcpFsm!Handle(e, ev, queue),
           IsOfEnds(fsm_state), IsOfEnds(queue), OneOpener
    PROVE  /\ IsOfEnds(fsm_state)' /\ IsOfEnds(fsm_chan)'
           /\ fsm_state'[e] = After(fsm_state[e], ev)
           /\ fsm_state'[TcpFsm!Peer(e)] = fsm_state[TcpFsm!Peer(e)]
           /\ fsm_chan'[e] = queue[e]
           /\ fsm_chan'[TcpFsm!Peer(e)] = TcpFsm!Emit(queue[TcpFsm!Peer(e)], Sends(fsm_state[e], ev))
  <1>1. TcpFsm!Peer(e) \in TcpFsm!Endpoint /\ TcpFsm!Peer(e) # e
    BY TwoEnds
  <1>2. /\ fsm_state' = [fsm_state EXCEPT ![e] = After(fsm_state[e], ev)]
        /\ fsm_chan' = [queue EXCEPT ![TcpFsm!Peer(e)] = TcpFsm!Emit(@, Sends(fsm_state[e], ev))]
    BY TransitionTaken
  <1>3. IsOfEnds(fsm_state)' /\ fsm_state'[e] = After(fsm_state[e], ev)
        /\ fsm_state'[TcpFsm!Peer(e)] = fsm_state[TcpFsm!Peer(e)]
    BY <1>1, <1>2 DEF IsOfEnds
  <1>4. IsOfEnds(fsm_chan)' /\ fsm_chan'[e] = queue[e]
        /\ fsm_chan'[TcpFsm!Peer(e)] = TcpFsm!Emit(queue[TcpFsm!Peer(e)], Sends(fsm_state[e], ev))
    BY <1>1, <1>2 DEF IsOfEnds
  <1> QED BY <1>3, <1>4

\* A segment arrives at one end.
LEMMA FsmReceives ==
    ASSUME FsmInv, OneOpener, NEW e \in TcpFsm!Endpoint, TcpFsm!Receive(e)
    PROVE  FsmInv'
  <1> DEFINE p == TcpFsm!Peer(e)
             queue == [fsm_chan EXCEPT ![e] = Tail(@)]
             s == fsm_state[e]
             k == First(fsm_chan[e])
  <1>1. p \in TcpFsm!Endpoint /\ p # e /\ TcpFsm!Peer(p) = e
    BY TwoEnds
  <1>2. /\ IsOfEnds(queue) /\ queue[e] = Rest(fsm_chan[e]) /\ queue[p] = fsm_chan[p]
        /\ TcpFsm!Handle(e, k, queue)
        /\ opens' = opens
        /\ finSeen' = [finSeen EXCEPT ![e] = @ \/ k = "FIN"]
        /\ ~Empty(fsm_chan[e])
    <2>1. IsOfEnds(queue) /\ queue[e] = Rest(fsm_chan[e]) /\ queue[p] = fsm_chan[p]
      BY <1>1 DEF FsmInv, IsOfEnds, Rest
    <2>2. ~Empty(fsm_chan[e])
      BY DEF TcpFsm!Receive, Empty
    <2> QED BY <2>1, <2>2 DEF TcpFsm!Receive, First
  <1> HIDE DEF p, queue, s, k
  <1>3. IsOfEnds(finSeen)' /\ finSeen'[p] = finSeen[p] /\ (finSeen[e] \/ k = "FIN" => finSeen'[e])
    BY <1>1, <1>2 DEF FsmInv, IsOfEnds
  <1>4. ASSUME Valid(s, k)
        PROVE  /\ IsOfEnds(fsm_state)' /\ IsOfEnds(fsm_chan)'
               /\ fsm_state'[e] = After(s, k)
               /\ fsm_state'[p] = fsm_state[p]
               /\ fsm_chan'[e] = Rest(fsm_chan[e])
               /\ fsm_chan'[p] = TcpFsm!Emit(fsm_chan[p], Sends(s, k))
    BY <1>2, <1>4, EndMoves DEF FsmInv, s, p
  <1>5. CASE Closes(s, fsm_chan[e], fsm_state[p], fsm_chan[p])
    <2>1. /\ Valid(s, k)
          /\ Closes(After(s, k), Rest(fsm_chan[e]), fsm_state[p], TcpFsm!Emit(fsm_chan[p], Sends(s, k)))
          /\ Heard(After(s, k)) => Heard(s) \/ k = "FIN"
          /\ After(s, k) # "LISTEN" /\ fsm_state[p] # "CLOSED" /\ fsm_state[p] # "LISTEN"
          /\ After(s, k) = "CLOSED" => s = "LAST_ACK"
      BY <1>2, <1>5, ReceiveClosing DEF k
    <2>2. Closes(fsm_state'[e], fsm_chan'[e], fsm_state'[p], fsm_chan'[p])
      BY <1>4, <2>1
    <2>3. PositionInv'
      BY <2>2, TwoEnds DEF PositionInv, Closes, p
    <2>4. HeardInv'
      <3>1. Heard(s) => finSeen[e]
        BY DEF FsmInv, HeardInv, s
      <3>2. Heard(fsm_state[p]) => finSeen[p]
        BY <1>1 DEF FsmInv, HeardInv
      <3>3. s = "LAST_ACK" => Heard(s)
        BY DEF Heard
      <3> QED BY <1>1, <1>3, <1>4, <2>1, <3>1, <3>2, <3>3, TwoEnds DEF HeardInv, p
    <2>5. OpensInv'
      BY <1>1, <1>2, <1>4, <2>1, TwoEnds DEF OpensInv, FsmInv, p
    <2> QED BY <1>3, <1>4, <2>1, <2>3, <2>4, <2>5 DEF FsmInv
  <1>6. CASE e = Opener /\ Handshaking(s, fsm_chan[e], fsm_state[p], fsm_chan[p])
    <2>1. /\ Valid(s, k)
          /\ Handshaking(After(s, k), Rest(fsm_chan[e]), fsm_state[p], TcpFsm!Emit(fsm_chan[p], Sends(s, k)))
          /\ ~Heard(After(s, k)) /\ After(s, k) # "CLOSED" /\ fsm_state[p] = "SYN_RCVD"
      BY <1>2, <1>6, ReceiveOpener DEF k
    <2>2. Handshaking(fsm_state'[e], fsm_chan'[e], fsm_state'[p], fsm_chan'[p])
      BY <1>4, <2>1
    <2>3. PositionInv'
      BY <1>6, <2>2, TwoEnds DEF PositionInv, p
    <2>4. HeardInv'
      <3>1. ~Heard("SYN_RCVD")
        BY DEF Heard
      <3> QED BY <1>1, <1>3, <1>4, <2>1, <3>1, TwoEnds DEF HeardInv, p
    <2>5. OpensInv'
      BY <1>1, <1>2, <1>4, <1>6, <2>1, TwoEnds DEF OpensInv, FsmInv, p
    <2> QED BY <1>3, <1>4, <2>1, <2>3, <2>4, <2>5 DEF FsmInv
  <1>7. CASE e = Listener /\ Handshaking(fsm_state[p], fsm_chan[p], s, fsm_chan[e])
    <2>1. /\ Valid(s, k)
          /\ \/ Handshaking(fsm_state[p], TcpFsm!Emit(fsm_chan[p], Sends(s, k)), After(s, k), Rest(fsm_chan[e]))
             \/ Closes(fsm_state[p], TcpFsm!Emit(fsm_chan[p], Sends(s, k)), After(s, k), Rest(fsm_chan[e]))
          /\ After(s, k) \in {"SYN_RCVD", "ESTABLISHED"}
          /\ fsm_state[p] \in {"SYN_SENT", "ESTABLISHED", "FIN_WAIT_1"}
      BY <1>2, <1>7, ReceiveListener DEF k
    <2>2. \/ Handshaking(fsm_state'[p], fsm_chan'[p], fsm_state'[e], fsm_chan'[e])
          \/ Closes(fsm_state'[p], fsm_chan'[p], fsm_state'[e], fsm_chan'[e])
      BY <1>4, <2>1
    <2>3. PositionInv'
      BY <1>7, <2>2, TwoEnds DEF PositionInv, p
    <2>4. HeardInv'
      <3>1. ~Heard(fsm_state'[e]) /\ ~Heard(fsm_state'[p]) /\ fsm_state'[e] # "CLOSED" /\ fsm_state'[p] # "CLOSED"
        BY <1>4, <2>1 DEF Heard
      <3> QED BY <1>1, <3>1, TwoEnds DEF HeardInv, p
    <2>5. OpensInv'
      BY <1>1, <1>2, <1>4, <1>7, <2>1, TwoEnds DEF OpensInv, FsmInv, p
    <2> QED BY <1>3, <1>4, <2>1, <2>3, <2>4, <2>5 DEF FsmInv
  <1> QED BY <1>5, <1>6, <1>7, TwoEnds DEF FsmInv, PositionInv, Closes, p, s

\* A close of an established connection, with the other end anywhere in it.
LEMMA FsmCloses ==
    ASSUME FsmInv, OneOpener, NEW e \in TcpFsm!Endpoint, TcpFsm!Close(e)
    PROVE  FsmInv'
  <1> DEFINE p == TcpFsm!Peer(e)
             s == fsm_state[e]
  <1>1. p \in TcpFsm!Endpoint /\ p # e /\ TcpFsm!Peer(p) = e
    BY TwoEnds
  <1>2. s \in {"ESTABLISHED", "CLOSE_WAIT"} /\ opens' = opens /\ finSeen' = finSeen
        /\ TcpFsm!Handle(e, "CLOSE", fsm_chan)
    BY DEF TcpFsm!Close, OneOpener
  <1> HIDE DEF p, s
  <1>3. ASSUME Valid(s, "CLOSE")
        PROVE  /\ IsOfEnds(fsm_state)' /\ IsOfEnds(fsm_chan)'
               /\ fsm_state'[e] = After(s, "CLOSE")
               /\ fsm_state'[p] = fsm_state[p]
               /\ fsm_chan'[e] = fsm_chan[e]
               /\ fsm_chan'[p] = TcpFsm!Emit(fsm_chan[p], Sends(s, "CLOSE"))
    BY <1>2, <1>3, EndMoves DEF FsmInv, s, p
  <1>4. CASE Closes(s, fsm_chan[e], fsm_state[p], fsm_chan[p])
    <2>1. /\ Valid(s, "CLOSE")
          /\ Closes(After(s, "CLOSE"), fsm_chan[e], fsm_state[p], TcpFsm!Emit(fsm_chan[p], Sends(s, "CLOSE")))
          /\ Heard(After(s, "CLOSE")) => Heard(s)
          /\ After(s, "CLOSE") # "CLOSED" /\ fsm_state[p] # "CLOSED" /\ fsm_state[p] # "LISTEN"
          /\ After(s, "CLOSE") # "LISTEN"
      BY <1>2, <1>4, CloseClosing
    <2>2. PositionInv'
      <3>1. Closes(fsm_state'[e], fsm_chan'[e], fsm_state'[p], fsm_chan'[p])
        BY <1>3, <2>1
      <3> QED BY <3>1, TwoEnds DEF PositionInv, Closes, p
    <2>3. HeardInv'
      <3>1. (Heard(s) => finSeen[e]) /\ (Heard(fsm_state[p]) => finSeen[p])
        BY <1>1 DEF FsmInv, HeardInv, s
      <3> QED BY <1>1, <1>2, <1>3, <2>1, <3>1, TwoEnds DEF HeardInv, p
    <2>4. OpensInv'
      BY <1>1, <1>2, <1>3, <2>1, TwoEnds DEF OpensInv, FsmInv, p
    <2> QED BY <1>2, <1>3, <2>1, <2>2, <2>3, <2>4 DEF FsmInv, IsOfEnds
  <1>5. CASE e = Opener /\ Handshaking(s, fsm_chan[e], fsm_state[p], fsm_chan[p])
    <2>1. /\ Valid(s, "CLOSE")
          /\ Handshaking(After(s, "CLOSE"), fsm_chan[e], fsm_state[p], TcpFsm!Emit(fsm_chan[p], Sends(s, "CLOSE")))
          /\ After(s, "CLOSE") = "FIN_WAIT_1" /\ fsm_state[p] = "SYN_RCVD"
      BY <1>2, <1>5, CloseOpener
    <2>2. PositionInv'
      BY <1>3, <1>5, <2>1, TwoEnds DEF PositionInv, p
    <2>3. HeardInv'
      <3>1. ~Heard("FIN_WAIT_1") /\ ~Heard("SYN_RCVD")
        BY DEF Heard
      <3> QED BY <1>1, <1>3, <2>1, <3>1, TwoEnds DEF HeardInv, p
    <2>4. OpensInv'
      BY <1>1, <1>2, <1>3, <1>5, <2>1, TwoEnds DEF OpensInv, FsmInv, p
    <2> QED BY <1>2, <1>3, <2>1, <2>2, <2>3, <2>4 DEF FsmInv, IsOfEnds
  <1>6. CASE e = Listener /\ Handshaking(fsm_state[p], fsm_chan[p], s, fsm_chan[e])
    BY <1>2, <1>6 DEF Handshaking
  <1> QED BY <1>4, <1>5, <1>6, TwoEnds DEF FsmInv, PositionInv, Closes, p, s

\* An end that is closed opens: a listener while its peer may still be in
\* TIME_WAIT, a client only when it is listened to.
LEMMA FsmOpens ==
    ASSUME FsmInv, OneOpener, NEW e \in TcpFsm!Endpoint, TcpFsm!Open(e)
    PROVE  FsmInv'
  <1> USE QueueRules, TableRows DEF Does
  <1>1. IsOfEnds(finSeen)' /\ opens' = [opens EXCEPT ![e] = @ + 1] /\ fsm_state[e] = "CLOSED"
    BY DEF TcpFsm!Open, FsmInv, IsOfEnds
  <1>2. CASE e = Opener
    <2>1. fsm_state[Listener] = "LISTEN" /\ TcpFsm!Handle(e, "OPEN_ACTIVE", fsm_chan)
      BY <1>2, TwoEnds DEF TcpFsm!Open
    <2>2. Valid(fsm_state[e], "OPEN_ACTIVE")
      BY <1>1
    <2>3. /\ IsOfEnds(fsm_state)' /\ IsOfEnds(fsm_chan)'
          /\ fsm_state'[e] = After(fsm_state[e], "OPEN_ACTIVE")
          /\ fsm_state'[Listener] = fsm_state[Listener]
          /\ fsm_chan'[e] = fsm_chan[e]
          /\ fsm_chan'[Listener] = TcpFsm!Emit(fsm_chan[Listener], Sends(fsm_state[e], "OPEN_ACTIVE"))
      BY <1>2, <2>1, <2>2, TwoEnds, EndMoves DEF FsmInv
    <2>4. fsm_state'[Opener] = "SYN_SENT" /\ fsm_state'[Listener] = "LISTEN"
      BY <1>1, <1>2, <2>1, <2>3
    <2>5. Empty(fsm_chan[Opener]) /\ Empty(fsm_chan[Listener])
      BY <1>1, <1>2, <2>1 DEF FsmInv, PositionInv, Handshaking, Closes, Closing
    <2>6. Empty(fsm_chan'[Opener]) /\ One(fsm_chan'[Listener], "SYN")
      BY <1>1, <1>2, <2>3, <2>5
    <2>7. PositionInv'
      BY <2>4, <2>6 DEF PositionInv, Handshaking
    <2>8. HeardInv'
      BY <2>4, TwoEnds DEF HeardInv, Heard
    <2>9. OpensInv'
      BY <1>1, <1>2, <2>1, <2>4, TwoEnds DEF FsmInv, OpensInv
    <2> QED BY <1>1, <2>3, <2>7, <2>8, <2>9 DEF FsmInv
  <1>3. CASE e = Listener
    <2>1. TcpFsm!Handle(e, "OPEN_PASSIVE", fsm_chan)
      BY <1>3, TwoEnds DEF TcpFsm!Open
    <2>2. Valid(fsm_state[e], "OPEN_PASSIVE")
      BY <1>1
    <2>3. /\ IsOfEnds(fsm_state)' /\ IsOfEnds(fsm_chan)'
          /\ fsm_state'[e] = After(fsm_state[e], "OPEN_PASSIVE")
          /\ fsm_state'[Opener] = fsm_state[Opener]
          /\ fsm_chan'[e] = fsm_chan[e]
          /\ fsm_chan'[Opener] = TcpFsm!Emit(fsm_chan[Opener], Sends(fsm_state[e], "OPEN_PASSIVE"))
      BY <1>3, <2>1, <2>2, TwoEnds, EndMoves DEF FsmInv
    <2>4. fsm_state'[Listener] = "LISTEN" /\ fsm_state'[Opener] = fsm_state[Opener]
      BY <1>1, <1>3, <2>3
    <2>5. /\ Empty(fsm_chan[Opener]) /\ Empty(fsm_chan[Listener])
          /\ fsm_state[Opener] \in {"CLOSED", "TIME_WAIT"}
      BY <1>1, <1>3 DEF FsmInv, PositionInv, Handshaking, Closes, Closing
    <2>6. Empty(fsm_chan'[Opener]) /\ Empty(fsm_chan'[Listener])
      BY <1>1, <1>3, <2>3, <2>5
    <2>7. PositionInv'
      BY <2>4, <2>5, <2>6 DEF PositionInv, Handshaking
    <2>8. HeardInv'
      <3>1. finSeen'[Opener] = finSeen[Opener]
        BY <1>3, TwoEnds DEF TcpFsm!Open, FsmInv, IsOfEnds
      <3> QED BY <2>4, <3>1, TwoEnds DEF FsmInv, HeardInv, Heard
    <2>9. OpensInv'
      BY <1>1, <1>3, <2>4, TwoEnds DEF FsmInv, OpensInv
    <2> QED BY <1>1, <2>3, <2>7, <2>8, <2>9 DEF FsmInv
  <1> QED BY <1>2, <1>3, TwoEnds

\* A server that gives up listening, and the end of TIME_WAIT.
LEMMA FsmEnds ==
    ASSUME FsmInv, OneOpener, NEW e \in TcpFsm!Endpoint, TcpFsm!CloseListener(e) \/ TcpFsm!Timeout(e)
    PROVE  FsmInv'
  <1> USE QueueRules, TableRows DEF Does
  <1> DEFINE p == TcpFsm!Peer(e)
  <1>1. p \in TcpFsm!Endpoint /\ p # e /\ TcpFsm!Peer(p) = e
    BY TwoEnds
  <1>2. opens' = opens /\ finSeen' = finSeen
    BY DEF TcpFsm!CloseListener, TcpFsm!Timeout
  <1>3. PICK ev \in {"CLOSE", "TIMEOUT"} :
            /\ TcpFsm!Handle(e, ev, fsm_chan)
            /\ Valid(fsm_state[e], ev) /\ After(fsm_state[e], ev) = "CLOSED" /\ Sends(fsm_state[e], ev) = "NONE"
    <2>1. CASE TcpFsm!CloseListener(e)
      BY <2>1 DEF TcpFsm!CloseListener
    <2>2. CASE TcpFsm!Timeout(e)
      BY <2>2 DEF TcpFsm!Timeout
    <2> QED BY <2>1, <2>2
  <1>4. /\ IsOfEnds(fsm_state)' /\ IsOfEnds(fsm_chan)'
        /\ fsm_state'[e] = "CLOSED" /\ fsm_state'[p] = fsm_state[p]
        /\ fsm_chan'[e] = fsm_chan[e] /\ fsm_chan'[p] = fsm_chan[p]
    <2>1. /\ IsOfEnds(fsm_state)' /\ IsOfEnds(fsm_chan)'
          /\ fsm_state'[e] = After(fsm_state[e], ev) /\ fsm_state'[p] = fsm_state[p]
          /\ fsm_chan'[e] = fsm_chan[e] /\ fsm_chan'[p] = TcpFsm!Emit(fsm_chan[p], Sends(fsm_state[e], ev))
      BY <1>3, EndMoves DEF FsmInv
    <2> QED BY <1>3, <2>1
  <1>5. /\ fsm_state[p] \in {"CLOSED", "TIME_WAIT", "LISTEN"}
        /\ fsm_state[p] = "LISTEN" => e = Opener /\ fsm_state[e] = "TIME_WAIT"
        /\ fsm_state[e] = "LISTEN" => fsm_state[p] = "CLOSED"
        /\ fsm_state[e] \in {"LISTEN", "TIME_WAIT"}
        /\ Empty(fsm_chan[e]) /\ Empty(fsm_chan[p])
    <2>1. CASE TcpFsm!CloseListener(e)
      <3>1. fsm_state[e] = "LISTEN" /\ fsm_state[p] \in {"CLOSED", "LISTEN"}
        BY <2>1 DEF TcpFsm!CloseListener
      <3>2. CASE e = Opener
        <4> HIDE DEF p
        <4> QED BY <3>1, <3>2 DEF FsmInv, PositionInv, Handshaking, Closes, Closing
      <3>3. CASE e = Listener /\ p = Opener
        <4> HIDE DEF p
        <4> QED BY <3>1, <3>3 DEF FsmInv, PositionInv, Handshaking, Closes, Closing
      <3> QED BY <3>2, <3>3, TwoEnds
    <2>2. CASE TcpFsm!Timeout(e)
      <3>1. fsm_state[e] = "TIME_WAIT" /\ Len(fsm_chan[e]) = 0 /\ Len(fsm_chan[p]) = 0
        BY <2>2 DEF TcpFsm!Timeout
      <3>2. \A j, k : /\ ~One(fsm_chan[e], j) /\ ~Two(fsm_chan[e], j, k)
                      /\ ~One(fsm_chan[p], j) /\ ~Two(fsm_chan[p], j, k)
        BY <3>1 DEF One, Two
      <3>3. CASE e = Opener /\ p = Listener
        <4> HIDE DEF p
        <4> QED BY <3>1, <3>2, <3>3 DEF FsmInv, PositionInv, Handshaking, Closes, Closing
      <3>4. CASE e = Listener /\ p = Opener
        <4> HIDE DEF p
        <4> QED BY <3>1, <3>2, <3>4 DEF FsmInv, PositionInv, Handshaking, Closes, Closing
      <3> QED BY <3>3, <3>4, TwoEnds
    <2> QED BY <2>1, <2>2
  <1> HIDE DEF p
  <1>6. PositionInv'
    <2>1. CASE e = Opener
      BY <1>4, <1>5, <2>1, TwoEnds DEF PositionInv, Handshaking, Closes, Closing, p
    <2>2. CASE e = Listener
      BY <1>4, <1>5, <2>2, TwoEnds DEF PositionInv, Handshaking, Closes, Closing, p
    <2> QED BY <2>1, <2>2, TwoEnds
  <1>7. HeardInv'
    <2>1. (fsm_state[e] = "TIME_WAIT" => finSeen[e]) /\ (fsm_state[p] = "TIME_WAIT" => finSeen[p])
      BY <1>1 DEF FsmInv, HeardInv, Heard
    <2> QED BY <1>1, <1>2, <1>4, <1>5, <2>1, TwoEnds DEF HeardInv, Heard, p
  <1>8. OpensInv'
    BY <1>1, <1>2, <1>4, <1>5, TwoEnds DEF FsmInv, OpensInv, p
  <1> QED BY <1>2, <1>4, <1>6, <1>7, <1>8 DEF FsmInv, IsOfEnds

\* The two state machines stay in the positions listed above.
LEMMA FsmInvariant == OneOpener /\ Spec => []FsmInv
  <1>1. OneOpener /\ Init => FsmInv
    <2> SUFFICES ASSUME OneOpener, TcpFsm!Init PROVE FsmInv
      BY DEF Init
    <2>1. \A e \in TcpFsm!Endpoint : fsm_state[e] = "CLOSED" /\ Empty(fsm_chan[e]) /\ opens[e] = 0
      BY DEF TcpFsm!Init, Empty
    <2>2. PositionInv
      BY <2>1, TwoEnds DEF PositionInv, Closes, Closing
    <2>3. HeardInv
      BY <2>1, TwoEnds DEF HeardInv, Heard
    <2>4. OpensInv
      BY <2>1, TwoEnds DEF OpensInv, TcpFsm!Init
    <2> QED BY <2>2, <2>3, <2>4 DEF FsmInv, TcpFsm!Init, IsOfEnds
  <1>2. OneOpener /\ FsmInv /\ [Next]_vars => FsmInv'
    <2> SUFFICES ASSUME OneOpener, FsmInv, [Next]_vars PROVE FsmInv'
      OBVIOUS
    <2>1. CASE UNCHANGED fsmVars
      BY <2>1 DEF fsmVars, FsmInv, IsOfEnds, PositionInv, HeardInv, OpensInv
    <2> QED BY <2>1, FsmOpens, FsmCloses, FsmReceives, FsmEnds, ConnectionSteps DEF TcpFsm!Next
  <1>3. OneOpener => OneOpener'
    BY DEF OneOpener
  <1> QED BY <1>1, <1>2, <1>3, PTL DEF Spec

\* What the positions say of the two ends.
LEMMA FsmConsistent == OneOpener /\ FsmInv => TcpFsm!NoHalfOpen /\ TcpFsm!OurFinWasSeen
  <1> SUFFICES ASSUME OneOpener, FsmInv PROVE TcpFsm!NoHalfOpen /\ TcpFsm!OurFinWasSeen
    OBVIOUS
  <1>1. \/ fsm_state[Opener] = "TIME_WAIT" /\ fsm_state[Listener] = "LISTEN"
        \/ \A e \in TcpFsm!Endpoint :
              /\ fsm_state[e] = "FIN_WAIT_2" => fsm_state[TcpFsm!Peer(e)] \in {"CLOSE_WAIT", "LAST_ACK"}
              /\ fsm_state[e] = "TIME_WAIT" =>
                     fsm_state[TcpFsm!Peer(e)] \in {"LAST_ACK", "CLOSING", "TIME_WAIT", "CLOSED"}
              /\ fsm_state[e] = "ESTABLISHED" =>
                     fsm_state[TcpFsm!Peer(e)] \in {"ESTABLISHED", "FIN_WAIT_1", "SYN_RCVD"}
    BY TwoEnds DEF FsmInv, PositionInv, Handshaking, Closes, Closing
  <1>2. TcpFsm!NoHalfOpen
    BY <1>1, TwoEnds DEF TcpFsm!NoHalfOpen
  <1>3. TcpFsm!OurFinWasSeen
    <2> SUFFICES ASSUME NEW e \in TcpFsm!Endpoint, fsm_state[e] \in {"FIN_WAIT_2", "TIME_WAIT"}
                 PROVE  finSeen[TcpFsm!Peer(e)] \/ opens[TcpFsm!Peer(e)] > opens[e]
      BY DEF TcpFsm!OurFinWasSeen
    <2>1. CASE fsm_state[Opener] = "TIME_WAIT" /\ fsm_state[Listener] = "LISTEN"
      BY <2>1, TwoEnds DEF FsmInv, OpensInv
    <2>2. CASE ~(fsm_state[Opener] = "TIME_WAIT" /\ fsm_state[Listener] = "LISTEN")
      BY <1>1, <2>2, TwoEnds DEF FsmInv, HeardInv, Heard
    <2> QED BY <2>1, <2>2
  <1> QED BY <1>2, <1>3

\* The queues of teardown.c by the kinds of their segments.
Segs == [kind : Kinds, age : 0..Msl]
KindsOf(q) == [n \in 1..Len(q) |-> q[n].kind]

\* The kinds of the segments of a queue.
LEMMA KindsOfFacts ==
    ASSUME NEW q \in Seq(Segs)
    PROVE  /\ KindsOf(q) \in Seq(Kinds) /\ Len(KindsOf(q)) = Len(q)
           /\ \A n \in 1..Len(q) : KindsOf(q)[n] = q[n].kind /\ q[n] \in Segs
  <1>0. \A n \in 1..Len(q) : q[n] \in Segs
    BY ElementOfSeq
  <1>1. \A n \in 1..Len(q) : q[n] \in Segs /\ q[n].kind \in Kinds
    BY <1>0 DEF Segs
  <1>2. KindsOf(q) \in [1..Len(q) -> Kinds] /\ Len(q) \in Nat
    BY <1>1 DEF KindsOf
  <1> HIDE DEF Kinds
  <1> QED BY <1>1, <1>2 DEF KindsOf

\* The kinds after the first segment was taken.
LEMMA KindsOfTail ==
    ASSUME NEW q \in Seq(Segs), q # <<>>
    PROVE  /\ Tail(q) \in Seq(Segs) /\ ~Empty(KindsOf(q))
           /\ First(KindsOf(q)) = Head(q).kind /\ Head(q) \in Segs
           /\ Rest(KindsOf(q)) = KindsOf(Tail(q))
  <1> DEFINE u == KindsOf(q)
             v == KindsOf(Tail(q))
  <1> HIDE DEF Kinds, Segs
  <1>1. Tail(q) \in Seq(Segs) /\ Len(Tail(q)) = Len(q) - 1 /\ Len(q) >= 1
    BY HeadTailProperties
  <1>2. \A n \in 1..Len(Tail(q)) : Tail(q)[n] = q[n + 1]
    BY HeadTailProperties
  <1>3. u \in Seq(Kinds) /\ Len(u) = Len(q) /\ \A n \in 1..Len(q) : u[n] = q[n].kind
    BY KindsOfFacts
  <1>4. v \in Seq(Kinds) /\ Len(v) = Len(Tail(q)) /\ \A n \in 1..Len(Tail(q)) : v[n] = Tail(q)[n].kind
    BY <1>1, KindsOfFacts
  <1>5. u # <<>> /\ Head(u) = u[1] /\ Head(q) = q[1] /\ q[1] \in Segs
    BY <1>1, <1>3
  <1> HIDE DEF u, v
  <1>6. Tail(u) \in Seq(Kinds) /\ Len(Tail(u)) = Len(u) - 1 /\ \A n \in 1..Len(Tail(u)) : Tail(u)[n] = u[n + 1]
    BY <1>3, <1>5, HeadTailProperties
  <1>7. Tail(u) = v
    <2> DEFINE w == Tail(u)
               z == Tail(q)
    <2>1. w \in Seq(Kinds) /\ Len(w) = Len(u) - 1 /\ \A n \in 1..Len(w) : w[n] = u[n + 1]
      BY <1>6
    <2>2. z \in Seq(Segs) /\ Len(z) = Len(q) - 1 /\ \A n \in 1..Len(z) : z[n] = q[n + 1]
      BY <1>1, <1>2
    <2>3. Len(v) = Len(z) /\ \A n \in 1..Len(z) : v[n] = z[n].kind
      BY <1>4
    <2> HIDE DEF w, z
    <2>4. Len(w) = Len(v) /\ \A n \in 1..Len(w) : w[n] = v[n]
      BY <1>1, <1>3, <2>1, <2>2, <2>3
    <2>5. w = v
      BY <1>4, <2>1, <2>4, SeqEqual
    <2> QED BY <2>5 DEF w
  <1>8. ~Empty(u)
    BY <1>1, <1>3 DEF Empty
  <1>9. u[1] = q[1].kind
    BY <1>1, <1>3
  <1> QED BY <1>1, <1>5, <1>7, <1>8, <1>9 DEF First, Rest, u, v

\* The kinds after a segment was sent.
LEMMA KindsOfAppend ==
    ASSUME NEW q \in Seq(Segs), NEW k \in Kinds
    PROVE  /\ Append(q, Teardown!Segment(k)) \in Seq(Segs)
           /\ KindsOf(Append(q, Teardown!Segment(k))) = TcpFsm!Emit(KindsOf(q), k)
  <1> DEFINE g == Teardown!Segment(k)
             w == Append(q, g)
             u == KindsOf(q)
             v == KindsOf(w)
  <1>1. g \in Segs /\ g.kind = k
    BY ProtocolSuiteConstants DEF Teardown!TeardownConstants, Teardown!Segment, Segs
  <1>2. TcpFsm!Emit(u, k) = Append(u, k)
    BY DEF TcpFsm!Emit, Kinds
  <1> HIDE DEF Kinds, Segs, g
  <1>3. /\ w \in Seq(Segs) /\ Len(w) = Len(q) + 1
        /\ w[Len(q) + 1] = g /\ \A n \in 1..Len(q) : w[n] = q[n]
    BY <1>1, AppendProperties
  <1>4. u \in Seq(Kinds) /\ Len(u) = Len(q) /\ \A n \in 1..Len(q) : u[n] = q[n].kind
    BY KindsOfFacts
  <1> HIDE DEF w
  <1>5. v \in Seq(Kinds) /\ Len(v) = Len(w) /\ \A n \in 1..Len(w) : v[n] = w[n].kind
    BY <1>3, KindsOfFacts
  <1> DEFINE z == Append(u, k)
  <1> HIDE DEF u, v
  <1>6. /\ z \in Seq(Kinds) /\ Len(z) = Len(u) + 1
        /\ z[Len(u) + 1] = k /\ \A n \in 1..Len(u) : z[n] = u[n]
    BY <1>4, AppendProperties
  <1> HIDE DEF z
  <1>7. Len(z) = Len(v) /\ Len(q) \in Nat
    BY <1>3, <1>4, <1>5, <1>6
  <1>8. ASSUME NEW n \in 1..Len(z) PROVE z[n] = v[n]
    <2>1. CASE n = Len(q) + 1
      BY <1>1, <1>3, <1>4, <1>5, <1>6, <1>7, <2>1
    <2>2. CASE n \in 1..Len(q)
      BY <1>3, <1>4, <1>5, <1>6, <1>7, <2>2
    <2> QED BY <1>4, <1>6, <1>7, <2>1, <2>2
  <1>9. z = v
    BY <1>5, <1>6, <1>7, <1>8, SeqEqual
  <1> QED BY <1>2, <1>3, <1>9 DEF z, u, v, w, g

\* One tick later.
Aged(q) == [n \in DOMAIN q |-> [q[n] EXCEPT !.age = @ + 1]]

\* Ageing changes no kind.
LEMMA KindsOfAged ==
    ASSUME NEW q \in Seq(Segs), \A n \in DOMAIN q : q[n].age < Msl
    PROVE  /\ Aged(q) \in Seq(Segs) /\ Len(Aged(q)) = Len(q) /\ KindsOf(Aged(q)) = KindsOf(q)
           /\ \A n \in 1..Len(q) : Aged(q)[n].age = q[n].age + 1
  <1> HIDE DEF Kinds
  <1>1. Msl \in Nat
    BY ProtocolSuiteConstants DEF Teardown!TeardownConstants
  <1>2. DOMAIN q = 1..Len(q) /\ Len(q) \in Nat /\ \A n \in 1..Len(q) : q[n] \in Segs
    BY ElementOfSeq
  <1>3. ASSUME NEW g \in Segs, g.age < Msl
        PROVE  /\ [g EXCEPT !.age = @ + 1] \in Segs
               /\ [g EXCEPT !.age = @ + 1].kind = g.kind
               /\ [g EXCEPT !.age = @ + 1].age = g.age + 1
    <2>1. g = [kind |-> g.kind, age |-> g.age] /\ g.kind \in Kinds /\ g.age \in 0..Msl
      BY DEF Segs
    <2>2. g.age + 1 \in 0..Msl
      BY <1>1, <1>3, <2>1
    <2> QED BY <2>1, <2>2 DEF Segs
  <1>4. ASSUME NEW n \in 1..Len(q)
        PROVE  Aged(q)[n] \in Segs /\ Aged(q)[n].kind = q[n].kind /\ Aged(q)[n].age = q[n].age + 1
    BY <1>2, <1>3 DEF Aged
  <1>5. Aged(q) \in [1..Len(q) -> Segs]
    BY <1>2, <1>4 DEF Aged
  <1> HIDE DEF Segs
  <1>6. Aged(q) \in Seq(Segs) /\ Len(Aged(q)) = Len(q)
    BY <1>2, <1>5
  <1>7. KindsOf(Aged(q)) = KindsOf(q)
    BY <1>4, <1>6 DEF KindsOf
  <1> QED BY <1>4, <1>6, <1>7

\* teardown.c takes a FIN and an ACK to the states that tcp_fsm.c goes to.
LEMMA ClosingSegments ==
    ASSUME NEW s, NEW q, NEW t, NEW r, Closes(s, q, t, r), ~Empty(q)
    PROVE  \/ /\ First(q) = "FIN" /\ s \in {"ESTABLISHED", "FIN_WAIT_1", "FIN_WAIT_2"}
              /\ After(s, "FIN") = Teardown!AfterFin[s] /\ Sends(s, "FIN") = "ACK"
           \/ /\ First(q) = "ACK" /\ s \in {"FIN_WAIT_1", "CLOSING", "LAST_ACK"}
              /\ After(s, "ACK") = Teardown!AfterAck[s] /\ Sends(s, "ACK") = "NONE"
  <1>1. \/ First(q) = "FIN" /\ s \in {"ESTABLISHED", "FIN_WAIT_1", "FIN_WAIT_2"}
        \/ First(q) = "ACK" /\ s \in {"FIN_WAIT_1", "CLOSING", "LAST_ACK"}
    BY QueueRules DEF Closing, Closes
  <1>2. ASSUME s \in {"ESTABLISHED", "FIN_WAIT_1", "FIN_WAIT_2"}
        PROVE  After(s, "FIN") = Teardown!AfterFin[s] /\ Sends(s, "FIN") = "ACK"
    BY <1>2, TableRows DEF Does, Teardown!AfterFin
  <1>3. ASSUME s \in {"FIN_WAIT_1", "CLOSING", "LAST_ACK"}
        PROVE  After(s, "ACK") = Teardown!AfterAck[s] /\ Sends(s, "ACK") = "NONE"
    BY <1>3, TableRows DEF Does, Teardown!AfterAck
  <1> QED BY <1>1, <1>2, <1>3

\* The invariant of teardown.c: the ends are in a position of a closing
\* connection, and have counted the FINs that their states stand for.
Unsent(s) == s \in {"ESTABLISHED", "CLOSE_WAIT"}
Ended(s) == Heard(s) \/ s = "CLOSED"

TdTypes ==
    /\ IsOfEnds(state) /\ IsOfEnds(local_seq) /\ IsOfEnds(remote_seq)
    /\ IsOfEnds(waited) /\ IsOfEnds(chan) /\ IsOfEnds(finAcked)
    /\ \A e \in Teardown!End : chan[e] \in Seq(Segs) /\ waited[e] \in Nat
TdPosition == Closes(state[A], KindsOf(chan[A]), state[B], KindsOf(chan[B]))
TdCounts ==
    \A e \in Teardown!End :
        /\ local_seq[e] = IF Unsent(state[e]) THEN 0 ELSE 1
        /\ remote_seq[e] = IF Ended(state[e]) THEN 1 ELSE 0
TdAcked == \A e \in Teardown!End : state[e] = "FIN_WAIT_2" => finAcked[e]
\* A segment to the other end is at least as old as the wait.
TdAges ==
    \A e \in Teardown!End : state[e] = "TIME_WAIT" =>
        \A n \in 1..Len(chan[Teardown!Peer(e)]) : waited[e] <= chan[Teardown!Peer(e)][n].age
TdInv == TdTypes /\ TdPosition /\ TdCounts /\ TdAcked /\ TdAges

\* The two ends of a teardown.
LEMMA TwoConns ==
    /\ A # B /\ Teardown!End = {A, B} /\ TcpFsm!Endpoint = {A, B} /\ Msl \in Nat \ {0}
    /\ \A e \in {A, B} : Teardown!Peer(e) \in {A, B} /\ Teardown!Peer(e) # e
                         /\ Teardown!Peer(Teardown!Peer(e)) = e
    /\ \A e, d \in {A, B} : d = e \/ d = Teardown!Peer(e)
    /\ Teardown!Peer(A) = B /\ Teardown!Peer(B) = A
  BY ProtocolSuiteConstants DEF Teardown!TeardownConstants, Teardown!End, TcpFsm!Endpoint, Teardown!Peer

\* The position of both, seen from one of them.
LEMMA TdSeenFrom ==
    ASSUME NEW e \in Teardown!End
    PROVE  TdPosition <=> Closes(state[e], KindsOf(chan[e]), state[Teardown!Peer(e)], KindsOf(chan[Teardown!Peer(e)]))
  BY TwoConns DEF TdPosition, Closes

\* nfs_conn_close.
LEMMA TdCloses ==
    ASSUME TdInv, NEW e \in Teardown!End, Teardown!Close(e)
    PROVE  TdInv'
  <1> DEFINE p == Teardown!Peer(e)
             s == state[e]
             g == Append(chan[p], Teardown!Segment("FIN"))
  <1> USE TwoConns
  <1>1. p \in {A, B} /\ p # e /\ e \in {A, B} /\ chan[p] \in Seq(Segs) /\ "FIN" \in Kinds
    BY DEF TdInv, TdTypes, Kinds
  <1>2. s \in {"ESTABLISHED", "CLOSE_WAIT"}
    BY DEF Teardown!Close, Teardown!AfterClose
  <1>3. After(s, "CLOSE") = Teardown!AfterClose[s] /\ Sends(s, "CLOSE") = "FIN"
    BY <1>2, TableRows DEF Does, Teardown!AfterClose
  <1>4. Closes(s, KindsOf(chan[e]), state[p], KindsOf(chan[p]))
    BY TdSeenFrom DEF TdInv
  <1>5. /\ Closes(After(s, "CLOSE"), KindsOf(chan[e]), state[p], TcpFsm!Emit(KindsOf(chan[p]), "FIN"))
        /\ Heard(After(s, "CLOSE")) => Heard(s)
        /\ After(s, "CLOSE") # "CLOSED"
    BY <1>2, <1>3, <1>4, CloseClosing
  <1>6. g \in Seq(Segs) /\ KindsOf(g) = TcpFsm!Emit(KindsOf(chan[p]), "FIN")
    BY <1>1, KindsOfAppend
  <1> HIDE DEF g
  <1>7. /\ IsOfEnds(state)' /\ IsOfEnds(waited)' /\ IsOfEnds(local_seq)' /\ IsOfEnds(chan)'
        /\ IsOfEnds(remote_seq)' /\ IsOfEnds(finAcked)'
        /\ remote_seq' = remote_seq /\ finAcked' = finAcked
    BY <1>1 DEF Teardown!Close, Teardown!Goto, TdInv, TdTypes, IsOfEnds
  <1>8. /\ state'[e] = After(s, "CLOSE") /\ state'[p] = state[p]
        /\ waited'[e] = 0 /\ waited'[p] = waited[p]
        /\ local_seq'[e] = local_seq[e] + 1 /\ local_seq'[p] = local_seq[p]
        /\ chan'[e] = chan[e] /\ chan'[p] = g
    BY <1>1, <1>3 DEF Teardown!Close, Teardown!Goto, TdInv, TdTypes, IsOfEnds, g
  <1> HIDE DEF p, s
  <1>9. After(s, "CLOSE") \in {"FIN_WAIT_1", "LAST_ACK"} /\ (After(s, "CLOSE") = "LAST_ACK" <=> s = "CLOSE_WAIT")
    BY <1>2, TableRows DEF Does
  <1>10. TdPosition'
    <2>1. Closes(state'[e], KindsOf(chan'[e]), state'[p], KindsOf(chan'[p]))
      BY <1>5, <1>6, <1>8
    <2> QED BY <2>1 DEF TdPosition, Closes, p
  <1>11. TdTypes'
    <2>1. \A d \in Teardown!End : d = e \/ d = p
      BY DEF p
    <2> QED BY <1>1, <1>6, <1>7, <1>8, <2>1 DEF TdInv, TdTypes
  <1>12. TdCounts'
    <2>1. local_seq[e] = 0 /\ remote_seq[e] = IF Ended(s) THEN 1 ELSE 0
      BY <1>1, <1>2 DEF TdInv, TdCounts, Unsent, s
    <2>2. ~Unsent(After(s, "CLOSE")) /\ (Ended(After(s, "CLOSE")) <=> Ended(s))
      BY <1>2, <1>9 DEF Unsent, Ended, Heard
    <2>3. \A d \in Teardown!End : d = e \/ d = p
      BY DEF p
    <2>4. local_seq[p] = (IF Unsent(state[p]) THEN 0 ELSE 1) /\ remote_seq[p] = (IF Ended(state[p]) THEN 1 ELSE 0)
      BY <1>1 DEF TdInv, TdCounts
    <2> QED BY <1>7, <1>8, <2>1, <2>2, <2>3, <2>4 DEF TdCounts
  <1>13. TdAcked'
    BY <1>1, <1>7, <1>8, <1>9 DEF TdInv, TdAcked, p
  <1>14. TdAges'
    <2>1. state'[e] # "TIME_WAIT"
      BY <1>8, <1>9
    <2>2. chan'[Teardown!Peer(p)] = chan[Teardown!Peer(p)]
      BY <1>8 DEF p
    <2>3. \A d \in Teardown!End : d = e \/ d = p
      BY DEF p
    <2> QED BY <1>1, <1>8, <2>1, <2>2, <2>3 DEF TdInv, TdAges
  <1> QED BY <1>10, <1>11, <1>12, <1>13, <1>14 DEF TdInv

\* nfs_conn_recv_fin and nfs_conn_recv_ack: one segment is taken, and a FIN
\* answered.
LEMMA TdDelivers ==
    ASSUME TdInv, NEW e \in Teardown!End, Teardown!Deliver(e)
    PROVE  TdInv'
  <1> DEFINE p == Teardown!Peer(e)
             s == state[e]
             k == Head(chan[e]).kind
             g == Append(chan[p], Teardown!Segment("ACK"))
  <1> USE TwoConns
  <1>1. /\ p \in {A, B} /\ p # e /\ e \in {A, B} /\ chan[p] \in Seq(Segs) /\ chan[e] \in Seq(Segs)
        /\ "ACK" \in Kinds /\ Teardown!Peer(p) = e
    BY DEF TdInv, TdTypes, Kinds
  <1>2. chan[e] # <<>>
    BY DEF Teardown!Deliver, Teardown!RecvFin, Teardown!RecvAck
  <1>3. Closes(s, KindsOf(chan[e]), state[p], KindsOf(chan[p]))
    BY TdSeenFrom DEF TdInv
  <1>4. /\ Tail(chan[e]) \in Seq(Segs) /\ ~Empty(KindsOf(chan[e]))
        /\ First(KindsOf(chan[e])) = k /\ Rest(KindsOf(chan[e])) = KindsOf(Tail(chan[e]))
    BY <1>1, <1>2, KindsOfTail
  <1>5. /\ Closes(After(s, k), KindsOf(Tail(chan[e])), state[p], TcpFsm!Emit(KindsOf(chan[p]), Sends(s, k)))
        /\ Heard(After(s, k)) => Heard(s) \/ k = "FIN"
        /\ After(s, k) = "CLOSED" => s = "LAST_ACK"
        /\ state[p] # "CLOSED"
    BY <1>3, <1>4, ReceiveClosing
  <1>6. \/ /\ k = "FIN" /\ s \in {"ESTABLISHED", "FIN_WAIT_1", "FIN_WAIT_2"}
           /\ After(s, "FIN") = Teardown!AfterFin[s] /\ Sends(s, "FIN") = "ACK"
        \/ /\ k = "ACK" /\ s \in {"FIN_WAIT_1", "CLOSING", "LAST_ACK"}
           /\ After(s, "ACK") = Teardown!AfterAck[s] /\ Sends(s, "ACK") = "NONE"
    BY <1>3, <1>4, ClosingSegments
  <1>7. g \in Seq(Segs) /\ KindsOf(g) = TcpFsm!Emit(KindsOf(chan[p]), "ACK")
    BY <1>1, KindsOfAppend
  <1>8. /\ \A n \in 1..Len(chan[p]) : g[n] = chan[p][n]
        /\ Len(g) = Len(chan[p]) + 1 /\ \A n \in 1..Len(g) : g[n] \in Segs
    <2>1. Teardown!Segment("ACK") \in Segs
      BY <1>1 DEF Teardown!Segment, Segs
    <2> HIDE DEF Segs
    <2>2. g \in Seq(Segs) /\ Len(g) = Len(chan[p]) + 1 /\ \A n \in 1..Len(chan[p]) : g[n] = chan[p][n]
      BY <1>1, <2>1, AppendProperties
    <2> HIDE DEF g
    <2> QED BY <2>2, ElementOfSeq
  <1> HIDE DEF g, p
  <1>9. CASE Teardown!RecvFin(e) /\ k = "FIN"
    <2>1. state[e] \in DOMAIN Teardown!AfterFin /\ After(s, "FIN") = Teardown!AfterFin[s]
      BY <1>6, <1>9 DEF Teardown!AfterFin
    <2> DEFINE c == Tail(chan[e])
    <2> HIDE DEF c
    <2>2. /\ state' = [state EXCEPT ![e] = After(s, "FIN")]
          /\ waited' = [waited EXCEPT ![e] = 0]
          /\ remote_seq' = [remote_seq EXCEPT ![e] = @ + 1]
          /\ chan' = [chan EXCEPT ![e] = c, ![p] = g]
          /\ local_seq' = local_seq /\ finAcked' = finAcked
      BY <1>1, <1>9, <2>1 DEF Teardown!RecvFin, Teardown!Goto, Teardown!SeqAfterFin, c, g, p
    <2>3. /\ IsOfEnds(state)' /\ IsOfEnds(waited)' /\ IsOfEnds(local_seq)' /\ IsOfEnds(chan)'
          /\ IsOfEnds(remote_seq)' /\ IsOfEnds(finAcked)'
      BY <1>1, <2>2 DEF TdInv, TdTypes, IsOfEnds
    <2>4. /\ state'[e] = After(s, "FIN") /\ state'[p] = state[p]
          /\ waited'[e] = 0 /\ waited'[p] = waited[p]
          /\ remote_seq'[e] = remote_seq[e] + 1 /\ remote_seq'[p] = remote_seq[p]
          /\ chan'[e] = c /\ chan'[p] = g
      BY <1>1, <2>2 DEF TdInv, TdTypes, IsOfEnds
    <2>5. \A d \in Teardown!End : d = e \/ d = p
      BY DEF p
    <2>6. TdPosition'
      <3>1. Closes(state'[e], KindsOf(chan'[e]), state'[p], KindsOf(chan'[p]))
        BY <1>5, <1>6, <1>7, <1>9, <2>4 DEF c
      <3> QED BY <3>1 DEF TdPosition, Closes, p
    <2>7. TdTypes'
      <3>1. c \in Seq(Segs)
        BY <1>4 DEF c
      <3>2. \A d \in Teardown!End : chan'[d] \in Seq(Segs) /\ waited'[d] \in Nat
        BY <1>1, <1>7, <2>4, <2>5, <3>1 DEF TdInv, TdTypes
      <3> QED BY <2>3, <3>2 DEF TdTypes
    <2>8. TdCounts'
      <3>1. /\ s \in {"ESTABLISHED", "FIN_WAIT_1", "FIN_WAIT_2"}
            /\ After(s, "FIN") \in {"CLOSE_WAIT", "CLOSING", "TIME_WAIT"}
            /\ After(s, "FIN") = "CLOSE_WAIT" <=> s = "ESTABLISHED"
        BY <1>6, <1>9, TableRows DEF Does
      <3>2. ~Ended(s) /\ Ended(After(s, "FIN")) /\ (Unsent(s) <=> Unsent(After(s, "FIN")))
        BY <3>1 DEF Ended, Heard, Unsent
      <3> QED BY <1>1, <2>2, <2>4, <2>5, <3>2 DEF TdInv, TdCounts
    <2>9. TdAcked'
      <3>1. After(s, "FIN") # "FIN_WAIT_2"
        BY <1>6, <1>9, TableRows DEF Does
      <3> QED BY <1>1, <2>2, <2>4, <2>5, <3>1 DEF TdInv, TdAcked
    <2>10. TdAges'
      <3>1. \A n \in 1..Len(g) : 0 <= g[n].age
        BY <1>8 DEF Segs
      <3>2. state[p] = "TIME_WAIT" => \A n \in 1..Len(chan[e]) : waited[p] <= chan[e][n].age
        BY <1>1 DEF TdInv, TdAges
      <3>3. state[p] = "TIME_WAIT" => \A n \in 1..Len(c) : waited[p] <= c[n].age
        <4>1. Len(c) = Len(chan[e]) - 1 /\ \A n \in 1..Len(c) : c[n] = chan[e][n + 1]
          <5> HIDE DEF Segs
          <5> QED BY <1>1, <1>2, HeadTailProperties DEF c
        <4>2. Len(chan[e]) \in Nat /\ Len(c) \in Nat
          BY <1>1, <1>4 DEF c
        <4> QED BY <3>2, <4>1, <4>2
      <3> QED BY <1>1, <2>4, <2>5, <3>1, <3>3 DEF TdAges, p
    <2> QED BY <2>6, <2>7, <2>8, <2>9, <2>10 DEF TdInv
  <1>10. CASE Teardown!RecvAck(e) /\ k = "ACK"
    <2>1. state[e] \in DOMAIN Teardown!AfterAck /\ After(s, "ACK") = Teardown!AfterAck[s]
      BY <1>6, <1>10 DEF Teardown!AfterAck
    <2> DEFINE c == Tail(chan[e])
    <2> HIDE DEF c
    <2>2. /\ state' = [state EXCEPT ![e] = After(s, "ACK")]
          /\ waited' = [waited EXCEPT ![e] = 0]
          /\ chan' = [chan EXCEPT ![e] = c]
          /\ finAcked' = [finAcked EXCEPT ![e] = @ \/ k = "ACK"]
          /\ local_seq' = local_seq /\ remote_seq' = remote_seq
      BY <1>1, <1>10, <2>1 DEF Teardown!RecvAck, Teardown!Goto, c
    <2>3. /\ IsOfEnds(state)' /\ IsOfEnds(waited)' /\ IsOfEnds(local_seq)' /\ IsOfEnds(chan)'
          /\ IsOfEnds(remote_seq)' /\ IsOfEnds(finAcked)'
      BY <1>1, <2>2 DEF TdInv, TdTypes, IsOfEnds
    <2>4. /\ state'[e] = After(s, "ACK") /\ state'[p] = state[p]
          /\ waited'[e] = 0 /\ waited'[p] = waited[p]
          /\ chan'[e] = c /\ chan'[p] = chan[p]
          /\ finAcked'[e] /\ finAcked'[p] = finAcked[p]
      BY <1>1, <1>10, <2>2 DEF TdInv, TdTypes, IsOfEnds
    <2>5. \A d \in Teardown!End : d = e \/ d = p
      BY DEF p
    <2>6. TdPosition'
      <3>1. TcpFsm!Emit(KindsOf(chan[p]), "NONE") = KindsOf(chan[p])
        BY DEF TcpFsm!Emit
      <3>2. Closes(state'[e], KindsOf(chan'[e]), state'[p], KindsOf(chan'[p]))
        BY <1>5, <1>6, <1>10, <2>4, <3>1 DEF c
      <3> QED BY <3>2 DEF TdPosition, Closes, p
    <2>7. TdTypes'
      <3>1. c \in Seq(Segs)
        BY <1>4 DEF c
      <3>2. \A d \in Teardown!End : chan'[d] \in Seq(Segs) /\ waited'[d] \in Nat
        BY <1>1, <2>4, <2>5, <3>1 DEF TdInv, TdTypes
      <3> QED BY <2>3, <3>2 DEF TdTypes
    <2>8. TdCounts'
      <3>1. /\ s \in {"FIN_WAIT_1", "CLOSING", "LAST_ACK"}
            /\ After(s, "ACK") \in {"FIN_WAIT_2", "TIME_WAIT", "CLOSED"}
            /\ After(s, "ACK") = "FIN_WAIT_2" <=> s = "FIN_WAIT_1"
        BY <1>6, <1>10, TableRows DEF Does
      <3>2. (Ended(s) <=> Ended(After(s, "ACK"))) /\ ~Unsent(s) /\ ~Unsent(After(s, "ACK"))
        BY <3>1 DEF Ended, Heard, Unsent
      <3> QED BY <1>1, <2>2, <2>4, <2>5, <3>2 DEF TdInv, TdCounts
    <2>9. TdAcked'
      BY <1>1, <2>4, <2>5 DEF TdInv, TdAcked
    <2>10. TdAges'
      <3>1. \A n \in 1..Len(chan[p]) : 0 <= chan[p][n].age
        <4>1. \A n \in 1..Len(chan[p]) : chan[p][n] \in Segs
          BY <1>1, ElementOfSeq
        <4> QED BY <4>1 DEF Segs
      <3>2. state[p] = "TIME_WAIT" => \A n \in 1..Len(chan[e]) : waited[p] <= chan[e][n].age
        BY <1>1 DEF TdInv, TdAges
      <3>3. state[p] = "TIME_WAIT" => \A n \in 1..Len(c) : waited[p] <= c[n].age
        <4>1. Len(c) = Len(chan[e]) - 1 /\ \A n \in 1..Len(c) : c[n] = chan[e][n + 1]
          <5> HIDE DEF Segs
          <5> QED BY <1>1, <1>2, HeadTailProperties DEF c
        <4>2. Len(chan[e]) \in Nat /\ Len(c) \in Nat
          BY <1>1, <1>4 DEF c
        <4> QED BY <3>2, <4>1, <4>2
      <3> QED BY <1>1, <2>4, <2>5, <3>1, <3>3 DEF TdAges, p
    <2> QED BY <2>6, <2>7, <2>8, <2>9, <2>10 DEF TdInv
  <1> QED BY <1>6, <1>9, <1>10 DEF Teardown!Deliver, Teardown!RecvFin, Teardown!RecvAck

\* The end of TIME_WAIT: what was sent to the other end would be older than a
\* segment can get.
LEMMA TdQuiet ==
    ASSUME TdInv, NEW e \in Teardown!End, Teardown!TimeWaitExpired(e)
    PROVE  chan[e] = <<>> /\ chan[Teardown!Peer(e)] = <<>> /\ state[Teardown!Peer(e)] \in {"TIME_WAIT", "CLOSED"}
  <1> DEFINE p == Teardown!Peer(e)
  <1> USE TwoConns
  <1>1. p \in {A, B} /\ chan[p] \in Seq(Segs) /\ chan[e] \in Seq(Segs)
    BY DEF TdInv, TdTypes
  <1>2. state[e] = "TIME_WAIT" /\ waited[e] >= 2 * Msl /\ waited[e] \in Nat
    BY DEF Teardown!TimeWaitExpired, Teardown!Expired, TdInv, TdTypes
  <1>3. Closes(state[e], KindsOf(chan[e]), state[p], KindsOf(chan[p]))
    BY TdSeenFrom DEF TdInv
  <1>4. chan[p] = <<>>
    <2> SUFFICES ASSUME chan[p] # <<>> PROVE FALSE
      OBVIOUS
    <2>1. 1 \in 1..Len(chan[p])
      BY <1>1
    <2>2. chan[p][1] \in Segs
      BY <1>1, <2>1, ElementOfSeq
    <2>3. chan[p][1].age \in 0..Msl
      BY <2>2 DEF Segs
    <2>4. waited[e] <= chan[p][1].age
      BY <1>2, <2>1 DEF TdInv, TdAges
    <2> QED BY <1>2, <2>3, <2>4
  <1> HIDE DEF p
  <1>5. Len(KindsOf(chan[p])) = 0 /\ Len(KindsOf(chan[e])) = Len(chan[e])
    BY <1>1, <1>4, KindsOfFacts
  <1>6. \A j, k : ~One(KindsOf(chan[p]), j) /\ ~Two(KindsOf(chan[p]), j, k)
    BY <1>5 DEF One, Two
  <1>7. Empty(KindsOf(chan[e])) /\ state[p] \in {"TIME_WAIT", "CLOSED"}
    BY <1>2, <1>3, <1>6 DEF Closes, Closing
  <1>8. chan[e] = <<>>
    <2>1. Len(chan[e]) = 0
      BY <1>5, <1>7 DEF Empty
    <2> HIDE DEF Segs
    <2> QED BY <1>1, <2>1, EmptySeq
  <1> QED BY <1>4, <1>7, <1>8 DEF p

\* The end of TIME_WAIT keeps the invariant.
LEMMA TdExpires ==
    ASSUME TdInv, NEW e \in Teardown!End, Teardown!TimeWaitExpired(e)
    PROVE  TdInv'
  <1> DEFINE p == Teardown!Peer(e)
  <1> USE TwoConns
  <1>1. p \in {A, B} /\ p # e /\ e \in {A, B} /\ Teardown!Peer(p) = e
    OBVIOUS
  <1>2. chan[e] = <<>> /\ chan[p] = <<>> /\ state[p] \in {"TIME_WAIT", "CLOSED"}
    BY TdQuiet
  <1>3. state[e] = "TIME_WAIT" /\ UNCHANGED <<local_seq, remote_seq, chan, finAcked>>
    BY DEF Teardown!TimeWaitExpired
  <1> HIDE DEF p
  <1>4. /\ IsOfEnds(state)' /\ IsOfEnds(waited)' /\ IsOfEnds(local_seq)' /\ IsOfEnds(chan)'
        /\ IsOfEnds(remote_seq)' /\ IsOfEnds(finAcked)'
    BY <1>1, <1>3 DEF Teardown!TimeWaitExpired, Teardown!Goto, TdInv, TdTypes, IsOfEnds
  <1>5. state'[e] = "CLOSED" /\ state'[p] = state[p] /\ waited'[e] = 0 /\ waited'[p] = waited[p]
    BY <1>1 DEF Teardown!TimeWaitExpired, Teardown!Goto, TdInv, TdTypes, IsOfEnds
  <1>6. \A d \in Teardown!End : d = e \/ d = p
    BY DEF p
  <1>7. TdTypes'
    BY <1>1, <1>3, <1>4, <1>5, <1>6 DEF TdInv, TdTypes
  <1>8. TdPosition'
    <2>1. Empty(KindsOf(chan[e])) /\ Empty(KindsOf(chan[p]))
      BY <1>1, <1>2, KindsOfFacts DEF TdInv, TdTypes, Empty
    <2>2. Closes(state'[e], KindsOf(chan'[e]), state'[p], KindsOf(chan'[p]))
      BY <1>2, <1>3, <1>5, <2>1 DEF Closes, Closing
    <2> QED BY <2>2 DEF TdPosition, Closes, p
  <1>9. TdCounts'
    BY <1>1, <1>3, <1>5, <1>6 DEF TdInv, TdCounts, Unsent, Ended, Heard
  <1>10. TdAcked'
    BY <1>1, <1>3, <1>5, <1>6 DEF TdInv, TdAcked
  <1>11. TdAges'
    <2>1. Len(chan'[e]) = 0 /\ Len(chan'[p]) = 0
      BY <1>2, <1>3
    <2> QED BY <1>1, <1>6, <2>1 DEF TdAges, p
  <1> QED BY <1>7, <1>8, <1>9, <1>10, <1>11 DEF TdInv

\* Time passes for the segments and for those who wait.
LEMMA TdTicks ==
    ASSUME TdInv, Teardown!Tick
    PROVE  TdInv'
  <1> USE TwoConns
  <1>1. ASSUME NEW e \in Teardown!End
        PROVE  /\ chan'[e] \in Seq(Segs) /\ KindsOf(chan'[e]) = KindsOf(chan[e])
               /\ Len(chan'[e]) = Len(chan[e]) /\ Len(chan[e]) \in Nat
               /\ \A n \in 1..Len(chan[e]) : chan'[e][n].age = chan[e][n].age + 1 /\ chan[e][n].age \in Nat
    <2>1. chan[e] \in Seq(Segs) /\ \A n \in DOMAIN chan[e] : chan[e][n].age < Msl
      BY DEF TdInv, TdTypes, Teardown!Tick
    <2>2. chan'[e] = Aged(chan[e])
      BY DEF Teardown!Tick, Aged
    <2>3. \A n \in 1..Len(chan[e]) : chan[e][n] \in Segs
      BY <2>1, ElementOfSeq
    <2>4. \A n \in 1..Len(chan[e]) : chan[e][n].age \in Nat
      BY <2>3 DEF Segs
    <2> QED BY <2>1, <2>2, <2>4, KindsOfAged
  <1>2. /\ UNCHANGED <<state, local_seq, remote_seq, finAcked>>
        /\ \A e \in Teardown!End : waited'[e] \in Nat /\ waited'[e] <= waited[e] + 1 /\ waited[e] \in Nat
    BY DEF Teardown!Tick, TdInv, TdTypes
  <1>3. TdTypes'
    <2>1. IsOfEnds(chan)' /\ IsOfEnds(waited)'
      BY DEF Teardown!Tick, IsOfEnds
    <2> QED BY <1>1, <1>2, <2>1 DEF TdInv, TdTypes, IsOfEnds
  <1>4. TdPosition'
    BY <1>1, <1>2 DEF TdInv, TdPosition
  <1>5. TdCounts' /\ TdAcked'
    BY <1>2 DEF TdInv, TdCounts, TdAcked
  <1>6. TdAges'
    <2> SUFFICES ASSUME NEW e \in Teardown!End, state[e] = "TIME_WAIT",
                        NEW n \in 1..Len(chan'[Teardown!Peer(e)])
                 PROVE  waited'[e] <= chan'[Teardown!Peer(e)][n].age
      BY <1>2 DEF TdAges
    <2> DEFINE p == Teardown!Peer(e)
    <2>1. p \in Teardown!End
      OBVIOUS
    <2> HIDE DEF p
    <2>2. n \in 1..Len(chan[p]) /\ chan'[p][n].age = chan[p][n].age + 1 /\ chan[p][n].age \in Nat
      BY <1>1, <2>1 DEF p
    <2>3. waited[e] <= chan[p][n].age
      BY <2>2 DEF TdInv, TdAges, p
    <2>4. waited'[e] <= chan'[p][n].age
      BY <1>2, <2>2, <2>3, SMTT(60)
    <2> QED BY <2>4 DEF p
  <1> QED BY <1>3, <1>4, <1>5, <1>6 DEF TdInv

\* The ends of a teardown without acknowledgements of data under way.
LEMMA TdInvariant == DataAcks = 0 /\ Spec => []TdInv
  <1>1. DataAcks = 0 /\ Init => TdInv
    <2> SUFFICES ASSUME DataAcks = 0, Teardown!Init PROVE TdInv
      BY DEF Init
    <2> USE TwoConns
    <2>1. \A e \in {A, B} : /\ state[e] = "ESTABLISHED" /\ local_seq[e] = 0 /\ remote_seq[e] = 0
                            /\ waited[e] = 0 /\ ~finAcked[e]
      BY DEF Teardown!Init
    <2>2. \A e \in {A, B} : chan[e] = <<>>
      BY DEF Teardown!Init
    <2>3. \A e \in {A, B} : chan[e] \in Seq(Segs)
      BY <2>2, EmptySeq
    <2>4. TdTypes
      BY <2>1, <2>3 DEF TdTypes, IsOfEnds, Teardown!Init
    <2>5. TdPosition
      <3>1. \A e \in {A, B} : Empty(KindsOf(chan[e]))
        BY <2>2, <2>3, KindsOfFacts DEF Empty
      <3> QED BY <2>1, <3>1 DEF TdPosition, Closes, Closing
    <2>6. TdCounts /\ TdAcked /\ TdAges
      BY <2>1 DEF TdCounts, TdAcked, TdAges, Unsent, Ended, Heard
    <2> QED BY <2>4, <2>5, <2>6 DEF TdInv
  <1>2. TdInv /\ [Next]_vars => TdInv'
    <2> SUFFICES ASSUME TdInv, [Next]_vars PROVE TdInv'
      OBVIOUS
    <2>1. CASE UNCHANGED tdVars
      BY <2>1 DEF tdVars, TdInv, TdTypes, IsOfEnds, TdPosition, TdCounts, TdAcked, TdAges
    <2> QED BY <2>1, TdTicks, TdCloses, TdDelivers, TdExpires, ConnectionSteps DEF Teardown!Next
  <1> QED BY <1>1, <1>2, PTL DEF Spec

\* What the invariant says of the FINs.
LEMMA TdConsistent == TdInv => Teardown!FinsAreCountedOnce /\ Teardown!FinWait2MeansAcked
  <1> SUFFICES ASSUME TdInv PROVE Teardown!FinsAreCountedOnce /\ Teardown!FinWait2MeansAcked
    OBVIOUS
  <1> USE TwoConns
  <1>1. ASSUME NEW e \in Teardown!End, Ended(state[Teardown!Peer(e)]) PROVE ~Unsent(state[e])
    <2>1. Closes(state[e], KindsOf(chan[e]), state[Teardown!Peer(e)], KindsOf(chan[Teardown!Peer(e)]))
      BY TdSeenFrom DEF TdInv
    <2> QED BY <1>1, <2>1 DEF Closes, Closing, Ended, Heard, Unsent
  <1>2. Teardown!FinsAreCountedOnce
    <2>1. Ended("CLOSED") /\ ~Unsent("CLOSED")
      BY DEF Ended, Unsent
    <2> QED BY <1>1, <2>1 DEF TdInv, TdCounts, Teardown!FinsAreCountedOnce
  <1> QED BY <1>2 DEF TdInv, TdAcked, Teardown!FinWait2MeansAcked

-----------------------------------------------------------------------------
\* keepalive.c gives nobody up before its time, and conntrack.c has at most one
\* entry for a connection, a counter that agrees with the table, and calls no
\* UDP exchange established before both ends were heard since its entry was
\* made.  Of TCP nothing like that is claimed: the promoting ACK may be the
\* opener's own.
THEOREM ConnectionsJudged == Spec => []JudgedOnEvidence
  <1>1. KeepaliveInv /\ ConntrackInv => JudgedOnEvidence
    BY ConntrackConsistent DEF KeepaliveInv, KeepaliveCounters, JudgedOnEvidence
  <1> QED BY <1>1, KeepaliveInvariant, ConntrackInvariant, PTL

\* Nobody is in a connection alone: an established end of tcp_fsm.c has a peer
\* that takes part, a client of tcp.c was answered on its latest SYN, and ECN
\* is on only when both ends of ecn.c agreed.
THEOREM ConnectionsMutual == OneOpener /\ Spec => []EstablishedIsMutual
  <1>1. OneOpener /\ FsmInv /\ HandshakeInv /\ EcnInv => EstablishedIsMutual
    BY FsmConsistent, HandshakeEstablished DEF EcnInv, EstablishedIsMutual
  <1>2. OneOpener => OneOpener'
    BY DEF OneOpener
  <1> QED BY <1>1, <1>2, FsmInvariant, HandshakeInvariant, EcnInvariant, PTL

\* The ends agree where the streams end, in tcp_fsm.c and in teardown.c.
THEOREM FinsAgreed == OneOpener /\ DataAcks = 0 /\ Spec => []FinsAreAgreed
  <1>1. OneOpener /\ FsmInv /\ TdInv => FinsAreAgreed
    BY FsmConsistent, TdConsistent DEF FinsAreAgreed
  <1>2. OneOpener => OneOpener'
    BY DEF OneOpener
  <1> QED BY <1>1, <1>2, FsmInvariant, TdInvariant, PTL

\* teardown.c leaves TIME_WAIT only when nothing of the connection is under
\* way: a segment is at least as old as the wait of the end that sent it last,
\* and no segment gets older than one Msl.
THEOREM QuietTimeWait == DataAcks = 0 /\ Spec => QuietAfterTimeWait
  <1>1. TdInv /\ [Next]_vars =>
            [\A e \in Teardown!End : Teardown!TimeWaitExpired(e) => chan = [d \in Teardown!End |-> <<>>]]_(Teardown!vars)
    <2> SUFFICES ASSUME TdInv, NEW e \in Teardown!End, Teardown!TimeWaitExpired(e)
                 PROVE  chan = [d \in Teardown!End |-> <<>>]
      OBVIOUS
    <2>1. \A d \in Teardown!End : chan[d] = <<>>
      BY TdQuiet, TwoConns
    <2> QED BY <2>1, TwoConns DEF TdInv, TdTypes, IsOfEnds
  <1> QED BY <1>1, TdInvariant, PTL DEF Spec, QuietAfterTimeWait, Teardown!QuietAfterTimeWait

\* Every part of the suite keeps its state in its types and its counters in
\* their limits: the windows of the controllers, the timer between 1 s and 60 s,
\* the tables of conntrack.c and pmtud.c within their capacity, a trace
\* within the room for its answers.
THEOREM ProtocolTypes == Spec => []TypeOK
  <1>1. /\ BasicInv => Basic!TypeOK
        /\ RenoInv => Reno!TypeOK
        /\ FastRecoveryInv => FastRecovery!TypeOK
        /\ CubicInv => Cubic!TypeOK
        /\ EcnInv => Ecn!TypeOK
    BY DEF BasicInv, RenoInv, FastRecoveryInv, CubicInv, EcnInv
  <1>2. KeepaliveInv => Keepalive!TypeOK
    <2>1. KeepaliveCounters => went \in 0..MaxProbes
      BY KeepaliveConstantsHold DEF KeepaliveCounters
    <2> QED BY <2>1, Zenon DEF KeepaliveInv, KeepaliveCounters, Keepalive!TypeOK
  <1>3. /\ BasicInv /\ RenoInv /\ FastRecoveryInv /\ CubicInv /\ BbrInv /\ RtoInv /\ KeepaliveInv
        /\ EcnInv /\ ConntrackInv /\ PathInv /\ TraceInv
        => TypeOK
    BY <1>1, <1>2, BbrFilter, RtoFollows, ConntrackConsistent, PathEstimate, TraceIsPrefix DEF TypeOK
  <1> QED BY <1>3, BasicInvariant, RenoInvariant, FastRecoveryInvariant, CubicInvariant, BbrInvariant,
             RtoInvariant, KeepaliveInvariant, EcnInvariant, ConntrackInvariant, PathInvariant,
             TraceInvariant, PTL
=============================================================================
