---------------------------- MODULE GameLoopsProofs ----------------------------
(***************************************************************************)
(* Proofs about GameLoops, for every value of its constants: its types,    *)
(* and that the network thread and the client gain ground exactly in the   *)
(* iterations that leave time over (GainsGround).  Liveness stays with TLC. *)
(*                                                                         *)
(* What the server's step stands for is computed from the sum of a window  *)
(* of durations, so that the first half is about sums: the recursive       *)
(* function behind Total exists, and its values have bounds.               *)
(***************************************************************************)
EXTENDS GameLoops, FiniteSetTheorems, TLAPS

(* Every set of naturals with a member has a least one.                    *)
LEMMA LeastNatural ==
  ASSUME NEW S \in SUBSET Nat, NEW n \in S
  PROVE  \E m \in S : \A k \in S : m <= k
  <1>. DEFINE R == {p \in Nat \X Nat : p[1] < p[2]}
  <1>1. IsWellFoundedOn(R, Nat)
    BY NatLessThanWellFounded DEF OpToRel
  <1>. HIDE DEF R
  <1>2. PICK m \in S : \A k \in S : <<k, m>> \notin R
    BY <1>1, WFMin
  <1>3. \A k \in S : ~(k < m)
    BY <1>2 DEF R
  <1>. QED
    BY <1>3

(* A set with 0 that has with every natural the next one has them all.     *)
LEMMA Inductive ==
  ASSUME NEW S, 0 \in S, \A n \in Nat : n \in S => n + 1 \in S
  PROVE  Nat \subseteq S
  <1>. SUFFICES ASSUME NEW x \in Nat, x \notin S PROVE FALSE
    OBVIOUS
  <1>1. PICK m \in Nat \ S : \A k \in Nat \ S : m <= k
    BY LeastNatural
  <1>2. m # 0 /\ m - 1 \in Nat /\ (m - 1) + 1 = m
    BY <1>1
  <1>3. m - 1 \in S
    BY <1>1, <1>2
  <1>. QED
    BY <1>1, <1>2, <1>3
-----------------------------------------------------------------------------
(* A member of a set, the sum of f over s if g has the sums over smaller   *)
(* sets, and the function of all sums.                                     *)
Some(s) == CHOOSE x \in s : TRUE
SumFrom(g, f, s) == IF s = {} THEN 0 ELSE f[Some(s)] + g[s \ {Some(s)}]
Sums(I, f) == CHOOSE g : g = [s \in SUBSET I |-> SumFrom(g, f, s)]

(* The fold behind Total is one of these functions.                        *)
LEMMA TotalIsSum ==
  ASSUME NEW r
  PROVE  Total(r) = Sums(DOMAIN r, r)[DOMAIN r]
  BY DEF Total, Sums, SumFrom, Some, FoldSeq, FoldFunction, FoldFunctionOnSet, MapThenFoldSet

(* The function exists: up to any size of sets, by induction on the size.  *)
LEMMA SumsExist ==
  ASSUME NEW I, IsFiniteSet(I), NEW f \in [I -> Int]
  PROVE  \E g \in [SUBSET I -> Int] : g = [s \in SUBSET I |-> SumFrom(g, f, s)]
  <1>. DEFINE Conforms(g, n) ==
                \A s \in SUBSET I : Cardinality(s) <= n => g[s] = SumFrom(g, f, s)
              Sizes == {n \in Nat : \E g \in [SUBSET I -> Int] : Conforms(g, n)}
  <1>1. \A s \in SUBSET I : IsFiniteSet(s) /\ Cardinality(s) \in Nat
    BY FS_Subset, FS_CardinalityType
  <1>2. \A s \in SUBSET I : s # {} =>
          Some(s) \in s /\ s \ {Some(s)} \in SUBSET I /\ f[Some(s)] \in Int
    BY DEF Some
  <1>3. \A s \in SUBSET I : s # {} => Cardinality(s \ {Some(s)}) = Cardinality(s) - 1
    BY <1>1, <1>2, FS_RemoveElement
  <1>4. 0 \in Sizes
    <2>1. \A s \in SUBSET I : Cardinality(s) <= 0 => s = {}
      BY <1>1, FS_EmptySet
    <2>2. [s \in SUBSET I |-> 0] \in [SUBSET I -> Int]
      OBVIOUS
    <2>3. Conforms([s \in SUBSET I |-> 0], 0)
      BY <2>1 DEF SumFrom
    <2>. QED
      BY <2>2, <2>3
  <1>5. ASSUME NEW n \in Nat, n \in Sizes PROVE n + 1 \in Sizes
    <2>1. PICK g \in [SUBSET I -> Int] : Conforms(g, n)
      BY <1>5
    <2>. DEFINE h == [s \in SUBSET I |-> SumFrom(g, f, s)]
    <2>2. h \in [SUBSET I -> Int]
      BY <1>2 DEF SumFrom
    <2>3. \A s \in SUBSET I : Cardinality(s) <= n => h[s] = g[s]
      BY <2>1
    <2>. HIDE DEF h
    <2>4. ASSUME NEW s \in SUBSET I, Cardinality(s) <= n + 1 PROVE h[s] = SumFrom(h, f, s)
      <3>1. CASE s = {}
        BY <3>1 DEF SumFrom, h
      <3>2. CASE s # {}
        <4>1. Cardinality(s \ {Some(s)}) <= n
          BY <1>1, <1>3, <2>4, <3>2
        <4>2. h[s \ {Some(s)}] = g[s \ {Some(s)}]
          BY <1>2, <2>3, <3>2, <4>1
        <4>3. SumFrom(h, f, s) = SumFrom(g, f, s)
          BY <3>2, <4>2 DEF SumFrom
        <4>. QED
          BY <4>3 DEF h
      <3>. QED
        BY <3>1, <3>2
    <2>. QED
      BY <2>2, <2>4
  <1>6. Cardinality(I) \in Sizes
    <2>. HIDE DEF Sizes
    <2>1. Nat \subseteq Sizes
      BY <1>4, <1>5, Inductive
    <2>. QED
      BY <1>1, <2>1
  <1>7. PICK g \in [SUBSET I -> Int] : Conforms(g, Cardinality(I))
    BY <1>6
  <1>8. \A s \in SUBSET I : Cardinality(s) <= Cardinality(I)
    BY FS_Subset
  <1>. QED
    BY <1>7, <1>8

(* The sum of values from 1 to M is at least their number, at most M times *)
(* their number; by induction on the number.                               *)
LEMMA SumsBounds ==
  ASSUME NEW I, IsFiniteSet(I), NEW M \in Nat, NEW f \in [I -> 1 .. M]
  PROVE  \A s \in SUBSET I : /\ Sums(I, f)[s] \in Int
                             /\ Cardinality(s) <= Sums(I, f)[s]
                             /\ Sums(I, f)[s] <= M * Cardinality(s)
  <1>. DEFINE g == Sums(I, f)
              Bounded(s) == /\ g[s] \in Int
                            /\ Cardinality(s) <= g[s]
                            /\ g[s] <= M * Cardinality(s)
              Sizes == {n \in Nat : \A s \in SUBSET I : Cardinality(s) = n => Bounded(s)}
  <1>1. g = [s \in SUBSET I |-> SumFrom(g, f, s)]
    <2>1. f \in [I -> Int]
      OBVIOUS
    <2>2. \E h : h = [s \in SUBSET I |-> SumFrom(h, f, s)]
      BY <2>1, SumsExist
    <2>. QED
      BY <2>2, Zenon DEF Sums
  <1>. HIDE DEF g
  <1>2. \A s \in SUBSET I : IsFiniteSet(s) /\ Cardinality(s) \in Nat
    BY FS_Subset, FS_CardinalityType
  <1>3. 0 \in Sizes
    <2>1. \A s \in SUBSET I : Cardinality(s) = 0 => s = {}
      BY <1>2, FS_EmptySet
    <2>2. g[{}] = 0
      BY <1>1 DEF SumFrom
    <2>3. Cardinality({}) = 0 /\ M * 0 = 0
      BY FS_EmptySet
    <2>4. Bounded({})
      BY <2>2, <2>3
    <2>. HIDE DEF Bounded
    <2>. QED
      BY <2>1, <2>4
  <1>4. ASSUME NEW n \in Nat, n \in Sizes PROVE n + 1 \in Sizes
    <2>. SUFFICES ASSUME NEW s \in SUBSET I, Cardinality(s) = n + 1 PROVE Bounded(s)
      OBVIOUS
    <2>. DEFINE x == Some(s)
                t == s \ {x}
    <2>1. s # {}
      BY FS_EmptySet
    <2>2. x \in s /\ t \in SUBSET I /\ f[x] \in 1 .. M
      BY <2>1 DEF Some
    <2>3. Cardinality(t) = n
      BY <1>2, <2>2, FS_RemoveElement
    <2>4. g[s] = f[x] + g[t]
      BY <1>1, <2>1 DEF SumFrom
    <2>. HIDE DEF x, t
    <2>5. Bounded(t)
      BY <1>4, <2>2, <2>3
    <2>6. M * (n + 1) = M * n + M
      OBVIOUS
    <2>. QED
      BY <2>2, <2>3, <2>4, <2>5, <2>6
  <1>5. Nat \subseteq Sizes
    <2>. HIDE DEF Sizes
    <2>. QED
      BY <1>3, <1>4, Inductive
  <1>. QED
    BY <1>2, <1>5 DEF g

LEMMA TotalBounds ==
  ASSUME NEW M \in Nat, NEW r \in Seq(1 .. M)
  PROVE  Total(r) \in Nat /\ Len(r) <= Total(r) /\ Total(r) <= M * Len(r)
  <1>1. r \in [1 .. Len(r) -> 1 .. M] /\ DOMAIN r = 1 .. Len(r) /\ Len(r) \in Nat
    OBVIOUS
  <1>2. IsFiniteSet(1 .. Len(r)) /\ Cardinality(1 .. Len(r)) = Len(r)
    <2>. DEFINE n == Len(r)
    <2>1. n \in Nat /\ n \in Int /\ 1 \in Int
      BY <1>1
    <2>. HIDE DEF n
    <2>2. IsFiniteSet(1 .. n) /\ Cardinality(1 .. n) = IF 1 > n THEN 0 ELSE n - 1 + 1
      BY <2>1, FS_Interval
    <2>. QED
      BY <2>1, <2>2 DEF n
  <1>. DEFINE total == Sums(1 .. Len(r), r)[1 .. Len(r)]
  <1>3. total \in Int /\ Len(r) <= total /\ total <= M * Len(r)
    <2>. DEFINE I == 1 .. Len(r)
    <2>1. r \in [I -> 1 .. M] /\ IsFiniteSet(I) /\ I \in SUBSET I
      BY <1>1, <1>2
    <2>. HIDE DEF I
    <2>2. /\ Sums(I, r)[I] \in Int
          /\ Cardinality(I) <= Sums(I, r)[I]
          /\ Sums(I, r)[I] <= M * Cardinality(I)
      BY <2>1, SumsBounds
    <2>. QED
      BY <1>2, <2>2 DEF I
  <1>4. Total(r) = total
    BY <1>1, TotalIsSum
  <1>. QED
    BY <1>1, <1>3, <1>4
-----------------------------------------------------------------------------
LEMMA RatioUpBounds ==
  ASSUME NEW a \in Nat, NEW b \in Nat \ {0}
  PROVE  /\ RatioUp(a, b) \in Nat
         /\ a > 0 => RatioUp(a, b) > 0
         /\ \A x \in Nat : a <= b * x => RatioUp(a, b) <= x
  <1>. DEFINE q == (a + b - 1) \div b
              c == a + b - 1
  <1>1. c \in Nat
    OBVIOUS
  <1>. HIDE DEF c
  <1>2. q \in Int /\ b * q <= c /\ c < b * q + b
    BY <1>1 DEF c
  <1>. QED
    BY <1>2 DEF RatioUp, c

(* However late the server is and whatever its window holds, one step      *)
(* stands for some time, and for no more than the fixed timestep or the    *)
(* longest iteration that counts, whichever is more                        *)
(* (server_instance.cpp:51-66).                                            *)
THEOREM TimestepBounds ==
  ASSUME NEW due \in Nat, NEW record \in Seq(1 .. MaxElapsed), record # <<>>
  PROVE  /\ CurrentTimestep(due, record) \in Nat \ {0}
         /\ \/ CurrentTimestep(due, record) <= FixedTimestep
            \/ CurrentTimestep(due, record) <= MaxElapsed
  <1>. DEFINE n == Len(record)
              T == Total(record)
              F == FixedTimestep
              E == MaxElapsed
              ramp == 3 * F
              alpha == Clamp(due - F, 0, ramp)
              beta == ramp - alpha
              a == 9 * T * alpha + 10 * n * F * beta
              b == 10 * n * ramp
  <1>1. F \in Nat \ {0} /\ E \in Nat \ {0}
    BY LoopAssumption
  <1>2. n \in Nat \ {0} /\ T \in Nat /\ n <= T /\ T <= E * n
    BY <1>1, TotalBounds
  <1>3. alpha \in Nat /\ beta \in Nat /\ alpha + beta = ramp
    BY <1>1 DEF Clamp, Least
  <1>4. CurrentTimestep(due, record) = RatioUp(a, b)
    BY DEF CurrentTimestep
  <1>. HIDE DEF n, T, F, E, alpha, beta
  <1>5. ramp \in Nat \ {0} /\ b \in Nat \ {0} /\ a \in Nat
    BY <1>1, <1>2, <1>3
  <1>6. a > 0
    <2>1. CASE alpha = 0
      <3>1. beta > 0 /\ n * F > 0 /\ n * F \in Nat
        BY <1>1, <1>2, <1>3, <2>1
      <3>2. (n * F) * beta > 0
        BY <1>3, <3>1
      <3>. QED
        BY <1>1, <1>2, <1>3, <2>1, <3>2
    <2>2. CASE alpha > 0
      <3>1. T * alpha > 0 /\ (n * F) * beta >= 0
        BY <1>1, <1>2, <1>3, <2>2
      <3>. QED
        BY <1>1, <1>2, <1>3, <3>1
    <2>. QED
      BY <1>3, <2>1, <2>2
  <1>7. ASSUME NEW x \in Nat, F <= x, E <= x PROVE a <= b * x
    <2>1. T <= n * x
      <3>1. E * n <= x * n
        BY <1>1, <1>2, <1>7
      <3>. QED
        BY <1>1, <1>2, <3>1
    <2>2. T * alpha <= (n * x) * alpha /\ n * F <= n * x
      BY <1>1, <1>2, <1>3, <1>7, <2>1
    <2>3. (n * F) * beta <= (n * x) * beta
      BY <1>1, <1>2, <1>3, <2>2
    <2>4. (n * x) * alpha + (n * x) * beta = (n * x) * ramp
      BY <1>1, <1>2, <1>3
    <2>5. 9 * T * alpha <= 10 * ((n * x) * alpha)
      BY <1>2, <1>3, <2>2
    <2>. QED
      BY <1>1, <1>2, <1>3, <2>3, <2>4, <2>5
  <1>8. \A x \in Nat : F <= x /\ E <= x => RatioUp(a, b) <= x
    BY <1>5, <1>7, RatioUpBounds
  <1>9. RatioUp(a, b) \in Nat /\ RatioUp(a, b) > 0
    BY <1>5, <1>6, RatioUpBounds
  <1>. QED
    BY <1>1, <1>4, <1>8, <1>9 DEF F, E
-----------------------------------------------------------------------------
(* Every step is an iteration, with or without load, or one of the two     *)
(* ends of the loop.                                                       *)
LEMMA Steps ==
  ASSUME TypeOK, Next
  PROVE  \/ /\ heavy' \in {heavy, heavy + 1} /\ (heavy' # heavy => heavy < MaxHeavy)
            /\ \E work \in Nat \ {0} : Iteration(work)
         \/ ChangeScreen \/ Stop \/ Exit
  <1>1. HeavyWork \subseteq Nat \ {0}
    BY LoopAssumption
  <1>2. usual \in Nat \ {0}
    BY LoopAssumption DEF TypeOK, Usual
  <1>. QED
    BY <1>1, <1>2 DEF Next, Light, Heavy

LEMMA AdvanceTypes ==
  ASSUME NEW due \in Nat, NEW timestep \in Nat, NEW maySleep, Advance(due, timestep, maySleep)
  PROVE  remainingTime' \in 0 .. MaxBacklog /\ sleepTime' \in 0 .. MaxSleep /\ stepped' \in BOOLEAN
  BY LoopAssumption DEF Advance, Least, Clamp

(* An iteration of the server: the window never has more than Window       *)
(* durations, and at least this iteration's.                               *)
LEMMA ServerTypes ==
  ASSUME TypeOK, NEW work \in Nat \ {0}, ServerIteration(work)
  PROVE  /\ remainingTime' \in 0 .. MaxBacklog /\ sleepTime' \in 0 .. MaxSleep
         /\ stepped' \in BOOLEAN
         /\ stepDurationRecord' \in Seq(1 .. MaxElapsed) /\ Len(stepDurationRecord') <= Window
  <1>. DEFINE elapsed == Least(MaxElapsed, sleepTime + work)
              due == remainingTime + elapsed
              all == Append(stepDurationRecord, elapsed)
              record == IF Len(all) > Window THEN Tail(all) ELSE all
  <1>1. elapsed \in 1 .. MaxElapsed
    BY LoopAssumption DEF TypeOK, Least
  <1>2. due \in Nat
    BY <1>1, LoopAssumption DEF TypeOK
  <1>3. stepDurationRecord' = record /\ Advance(due, CurrentTimestep(due, record), TRUE)
    BY DEF ServerIteration
  <1>. HIDE DEF elapsed, due
  <1>4. all \in Seq(1 .. MaxElapsed) /\ Len(all) = Len(stepDurationRecord) + 1
    BY <1>1 DEF TypeOK
  <1>. HIDE DEF all
  <1>5. record \in Seq(1 .. MaxElapsed) /\ Len(record) <= Window /\ Len(record) > 0
    <2>1. Window \in Nat \ {0} /\ Len(stepDurationRecord) <= Window
      BY LoopAssumption DEF TypeOK
    <2>2. Len(stepDurationRecord) \in Nat
      BY DEF TypeOK
    <2>3. CASE Len(all) > Window
      <3>1. Tail(all) \in Seq(1 .. MaxElapsed) /\ Len(Tail(all)) = Len(all) - 1
        BY <1>4, <2>1, <2>2, <2>3
      <3>. QED
        BY <1>4, <2>1, <2>2, <2>3, <3>1
    <2>4. CASE ~(Len(all) > Window)
      BY <1>4, <2>1, <2>2, <2>4
    <2>. QED
      BY <2>3, <2>4
  <1>. HIDE DEF record
  <1>6. record # <<>>
    BY <1>5
  <1>7. CurrentTimestep(due, record) \in Nat
    BY <1>2, <1>5, <1>6, TimestepBounds
  <1>. QED
    BY <1>2, <1>3, <1>5, <1>7, AdvanceTypes

LEMMA OtherTypes ==
  ASSUME TypeOK, NEW work \in Nat \ {0}, NetworkIteration(work) \/ ClientIteration(work)
  PROVE  /\ remainingTime' \in 0 .. MaxBacklog /\ sleepTime' \in 0 .. MaxSleep
         /\ stepped' \in BOOLEAN
         /\ stepDurationRecord' = stepDurationRecord
  <1>1. TickPeriod \in Nat /\ FixedTimestep \in Nat /\ MaxElapsed \in Nat /\ MaxSleep \in Nat
    BY LoopAssumption
  <1>2. remainingTime \in Nat /\ Least(MaxElapsed, sleepTime + work) \in Nat
    BY <1>1, LoopAssumption DEF TypeOK, Least
  <1>3. CASE NetworkIteration(work)
    <2>. DEFINE due == remainingTime + Least(MaxElapsed, sleepTime + work)
    <2>1. due \in Nat
      BY <1>2
    <2>2. Advance(due, TickPeriod, TRUE) /\ UNCHANGED stepDurationRecord
      BY <1>3, Zenon DEF NetworkIteration
    <2>. HIDE DEF due
    <2>. QED
      BY <1>1, <2>1, <2>2, AdvanceTypes
  <1>4. CASE ClientIteration(work)
    <2>. DEFINE due == remainingTime + work
    <2>1. due \in Nat
      BY <1>2
    <2>2. Advance(due, FixedTimestep, FALSE) /\ UNCHANGED stepDurationRecord
      BY <1>4, Zenon DEF ClientIteration
    <2>. HIDE DEF due
    <2>. QED
      BY <1>1, <2>1, <2>2, AdvanceTypes
  <1>. QED
    BY <1>3, <1>4

(* Every variable of a loop has its type: no step takes more time off the  *)
(* backlog than there is, the window of durations stays within its size,   *)
(* and the sum the server's step is computed from is one of numbers.       *)
THEOREM TypeCorrect == Spec => []TypeOK
  <1>1. Init => TypeOK
    <2>1. 0 \in 0 .. MaxBacklog /\ 0 \in 0 .. MaxSleep /\ 0 \in 0 .. MaxHeavy /\ 0 <= Window
      BY LoopAssumption
    <2>2. <<>> \in Seq(1 .. MaxElapsed) /\ Len(<<>>) = 0
      OBVIOUS
    <2>. QED
      BY <2>1, <2>2 DEF Init, TypeOK
  <1>2. TypeOK /\ [Next]_vars => TypeOK'
    <2>. SUFFICES ASSUME TypeOK, [Next]_vars PROVE TypeOK'
      OBVIOUS
    <2>1. CASE UNCHANGED vars
      BY <2>1 DEF TypeOK, Usual, vars
    <2>2. CASE ChangeScreen \/ Stop \/ Exit
      BY <2>2 DEF TypeOK, Usual, ChangeScreen, Stop, Exit
    <2>3. ASSUME heavy' \in {heavy, heavy + 1}, heavy' # heavy => heavy < MaxHeavy,
                 NEW work \in Nat \ {0}, Iteration(work)
          PROVE  TypeOK'
      <3>1. ServerIteration(work) \/ NetworkIteration(work) \/ ClientIteration(work)
        BY <2>3 DEF Iteration
      <3>2. /\ remainingTime' \in 0 .. MaxBacklog /\ sleepTime' \in 0 .. MaxSleep
            /\ stepped' \in BOOLEAN
            /\ stepDurationRecord' \in Seq(1 .. MaxElapsed) /\ Len(stepDurationRecord') <= Window
        <4>1. CASE ServerIteration(work)
          BY <4>1, ServerTypes
        <4>2. CASE NetworkIteration(work) \/ ClientIteration(work)
          BY <4>2, OtherTypes DEF TypeOK
        <4>. QED
          BY <3>1, <4>1, <4>2
      <3>3. UNCHANGED <<loop, killFlag, ended, usual>>
        BY <2>3 DEF Iteration
      <3>4. heavy' \in 0 .. MaxHeavy
        BY <2>3, LoopAssumption DEF TypeOK
      <3>. QED
        BY <3>2, <3>3, <3>4 DEF TypeOK, Usual
    <2>. QED
      BY <2>1, <2>2, <2>3, Steps
  <1>. QED
    BY <1>1, <1>2, PTL DEF Spec
-----------------------------------------------------------------------------
(* The sleep of the network thread ends when the next step is due, and a   *)
(* loop that is late does not sleep.                                       *)
PaceInv ==
  loop = "network" => sleepTime = 0 \/ remainingTime + sleepTime <= TickPeriod

THEOREM PaceInvariance == Spec => [](TypeOK /\ PaceInv)
  <1>1. Init => PaceInv
    BY DEF Init, PaceInv
  <1>2. TypeOK /\ PaceInv /\ [Next]_vars => PaceInv'
    <2>. SUFFICES ASSUME TypeOK, PaceInv, [Next]_vars PROVE PaceInv'
      OBVIOUS
    <2>1. CASE UNCHANGED vars
      BY <2>1 DEF PaceInv, vars
    <2>2. CASE ChangeScreen \/ Stop \/ Exit
      BY <2>2 DEF PaceInv, ChangeScreen, Stop, Exit
    <2>3. ASSUME NEW work \in Nat \ {0}, Iteration(work) PROVE PaceInv'
      <3>1. loop' = loop
        BY <2>3 DEF Iteration
      <3>2. CASE NetworkIteration(work)
        <4>. DEFINE due == remainingTime + Least(MaxElapsed, sleepTime + work)
        <4>1. due \in Nat /\ TickPeriod \in Nat
          BY LoopAssumption DEF TypeOK, Least
        <4>2. Advance(due, TickPeriod, TRUE)
          BY <3>2 DEF NetworkIteration
        <4>. HIDE DEF due
        <4>3. MaxBacklog \in Nat /\ MaxSleep \in Nat
          BY LoopAssumption
        <4>4. sleepTime' = 0 \/ remainingTime' + sleepTime' <= TickPeriod
          BY <4>1, <4>2, <4>3 DEF Advance, Least, Clamp
        <4>. QED
          BY <4>4 DEF PaceInv
      <3>3. CASE ~NetworkIteration(work)
        BY <2>3, <3>1, <3>3 DEF Iteration, ServerIteration, ClientIteration, PaceInv
      <3>. QED
        BY <3>2, <3>3
    <2>. QED
      BY <2>1, <2>2, <2>3, Steps
  <1>. QED
    BY <1>1, <1>2, TypeCorrect, PTL DEF Spec

(* For every length of a step, a frame and a stall: a late network thread  *)
(* or client comes closer to the present in exactly the iterations that    *)
(* leave time over, and one that is not late stays so in them              *)
(* (network_server.cpp:284-296, client_instance.cpp:55-77).                *)
THEOREM GroundGained == Spec => GainsGround
  <1>1. ASSUME TypeOK, PaceInv, Light, loop # "server"
        PROVE  /\ Behind => (remainingTime' < remainingTime <=> Roomy)
               /\ ~Behind /\ Roomy => ~Behind'
    <2>1. /\ TickPeriod \in Nat \ {0} /\ FixedTimestep \in Nat \ {0}
          /\ MaxElapsed \in Nat /\ MaxBacklog \in Nat /\ TickPeriod <= MaxElapsed
      BY LoopAssumption, CapAssumption
    <2>2. remainingTime \in 0 .. MaxBacklog /\ sleepTime \in Nat /\ usual \in Nat
      BY <1>1, LoopAssumption DEF TypeOK, Usual
    <2>3. Iteration(usual) /\ loop' = loop
      BY <1>1 DEF Light, Iteration
    <2>4. CASE loop = "network"
      <3>1. NetworkIteration(usual)
        BY <2>3, <2>4 DEF Iteration, ServerIteration, ClientIteration
      <3>. DEFINE elapsed == Least(MaxElapsed, sleepTime + usual)
                  due == remainingTime + elapsed
      <3>2. /\ elapsed \in Nat /\ elapsed <= sleepTime + usual
            /\ elapsed = sleepTime + usual \/ elapsed >= TickPeriod
        BY <2>1, <2>2 DEF Least
      <3>3. Advance(due, TickPeriod, TRUE)
        BY <3>1, Zenon DEF NetworkIteration
      <3>. HIDE DEF elapsed
      <3>4. remainingTime' =
              Least(IF due >= TickPeriod THEN due - TickPeriod ELSE due, MaxBacklog)
        BY <3>3 DEF Advance
      <3>5. sleepTime = 0 \/ remainingTime + sleepTime <= TickPeriod
        BY <1>1, <2>4 DEF PaceInv
      <3>6. Behind <=> remainingTime >= TickPeriod
        BY <2>4 DEF Behind, Nominal
      <3>7. Behind' <=> remainingTime' >= TickPeriod
        BY <2>3, <2>4 DEF Behind, Nominal
      <3>8. Roomy <=> usual < TickPeriod
        BY <2>4 DEF Roomy, Nominal
      <3>. QED
        BY <2>1, <2>2, <3>2, <3>4, <3>5, <3>6, <3>7, <3>8 DEF Least
    <2>5. CASE loop = "client"
      <3>1. ClientIteration(usual)
        BY <2>3, <2>5 DEF Iteration, ServerIteration, NetworkIteration
      <3>2. Advance(remainingTime + usual, FixedTimestep, FALSE)
        BY <3>1 DEF ClientIteration
      <3>3. Behind <=> remainingTime >= FixedTimestep
        BY <2>5 DEF Behind, Nominal
      <3>4. Behind' <=> remainingTime' >= FixedTimestep
        BY <2>3, <2>5 DEF Behind, Nominal
      <3>5. Roomy <=> usual < FixedTimestep
        BY <2>5 DEF Roomy, Nominal
      <3>. QED
        BY <2>1, <2>2, <3>2, <3>3, <3>4, <3>5 DEF Advance, Least
    <2>. QED
      BY <1>1, <2>4, <2>5, LoopAssumption DEF TypeOK
  <1>2. TypeOK /\ PaceInv =>
          [Light /\ loop # "server" =>
             /\ Behind => (remainingTime' < remainingTime <=> Roomy)
             /\ ~Behind /\ Roomy => ~Behind']_vars
    BY <1>1
  <1>. QED
    BY <1>2, PaceInvariance, PTL DEF GainsGround

(* A client whose screens have no more than the timestep's rate (60 Hz)    *)
(* never makes up for a stall: once a step late it is so until the window  *)
(* is closed (client_instance.cpp:25-26, 57-74).                           *)
THEOREM SlowScreenStaysLate ==
  ASSUME \A work \in Frames \cup HeavyWork : work >= FixedTimestep
  PROVE  Spec => [][loop = "client" /\ Behind => Behind']_vars
  <1>1. ASSUME TypeOK, [Next]_vars, loop = "client", Behind PROVE Behind'
    <2>1. FixedTimestep \in Nat /\ MaxBacklog \in Nat /\ FixedTimestep <= MaxBacklog
      BY LoopAssumption
    <2>2. CASE UNCHANGED vars \/ ChangeScreen \/ Stop \/ Exit
      BY <1>1, <2>2 DEF Behind, Nominal, ChangeScreen, Stop, Exit, vars
    <2>3. CASE Light \/ Heavy
      <3>1. PICK work \in Frames \cup HeavyWork : Iteration(work)
        BY <1>1, <2>3 DEF Light, Heavy, TypeOK, Usual
      <3>2. ClientIteration(work) /\ loop' = loop
        BY <1>1, <3>1 DEF Iteration, ServerIteration, NetworkIteration
      <3>3. work \in Nat /\ work >= FixedTimestep /\ remainingTime \in 0 .. MaxBacklog
        BY <1>1, <3>1, LoopAssumption DEF TypeOK
      <3>4. Advance(remainingTime + work, FixedTimestep, FALSE)
        BY <3>2 DEF ClientIteration
      <3>5. remainingTime >= FixedTimestep
        BY <1>1 DEF Behind, Nominal
      <3>6. remainingTime' >= FixedTimestep
        BY <2>1, <3>3, <3>4, <3>5 DEF Advance, Least
      <3>. QED
        BY <1>1, <3>2, <3>6 DEF Behind, Nominal
    <2>. QED
      BY <1>1, <2>2, <2>3 DEF Next
  <1>2. TypeOK /\ [Next]_vars => [loop = "client" /\ Behind => Behind']_vars
    BY <1>1
  <1>. QED
    BY <1>2, TypeCorrect, PTL DEF Spec
-----------------------------------------------------------------------------
(* After its first iteration the network thread always has what a step     *)
(* takes, in the backlog and the sleep together.                           *)
Begun == loop = "network" /\ (stepped \/ sleepTime > 0)
DueInv == Begun => remainingTime + sleepTime >= TickPeriod

(* The safety half of KeepsStepping for the network thread: if one sleep   *)
(* may last as long as a tick, and a tick counts in full, every iteration  *)
(* after the first makes a step, under any load                            *)
(* (network_server.cpp:284-296: 0.1 s, against 1 s and 2 s).               *)
THEOREM NetworkStepsEachTime ==
  ASSUME TickPeriod <= MaxSleep, TickPeriod <= MaxElapsed, TickPeriod <= MaxBacklog
  PROVE  Spec => [][(Light \/ Heavy) /\ Begun => stepped']_vars
  <1>1. /\ TickPeriod \in Nat \ {0} /\ MaxElapsed \in Nat /\ MaxSleep \in Nat
        /\ MaxBacklog \in Nat
    BY LoopAssumption
  <1>2. ASSUME TypeOK, DueInv, NEW work \in Nat \ {0}, NetworkIteration(work)
        PROVE  (Begun => stepped') /\ remainingTime' + sleepTime' >= TickPeriod
    <2>. DEFINE elapsed == Least(MaxElapsed, sleepTime + work)
                due == remainingTime + elapsed
    <2>1. remainingTime \in Nat /\ sleepTime \in Nat
      BY <1>1, <1>2 DEF TypeOK
    <2>2. elapsed \in Nat /\ (elapsed >= sleepTime \/ elapsed >= TickPeriod)
      BY <1>1, <2>1 DEF Least
    <2>3. Advance(due, TickPeriod, TRUE)
      BY <1>2, Zenon DEF NetworkIteration
    <2>. HIDE DEF elapsed
    <2>4. Begun => due >= TickPeriod
      BY <1>1, <1>2, <2>1, <2>2 DEF DueInv
    <2>5. due >= TickPeriod => stepped'
      BY <2>3, Zenon DEF Advance
    <2>6. remainingTime' + sleepTime' >= TickPeriod
      BY <1>1, <2>1, <2>2, <2>3 DEF Advance, Least, Clamp
    <2>. QED
      BY <2>4, <2>5, <2>6
  <1>3. Init => DueInv
    BY DEF Init, DueInv, Begun
  <1>4. TypeOK /\ DueInv /\ [Next]_vars => DueInv'
    <2>. SUFFICES ASSUME TypeOK, DueInv, [Next]_vars PROVE DueInv'
      OBVIOUS
    <2>1. CASE UNCHANGED vars
      BY <2>1 DEF DueInv, Begun, vars
    <2>2. CASE ChangeScreen \/ Stop \/ Exit
      BY <2>2 DEF DueInv, Begun, ChangeScreen, Stop, Exit
    <2>3. ASSUME NEW work \in Nat \ {0}, Iteration(work) PROVE DueInv'
      <3>1. CASE NetworkIteration(work)
        BY <1>2, <3>1 DEF DueInv
      <3>2. CASE ~NetworkIteration(work)
        BY <2>3, <3>2 DEF Iteration, ServerIteration, ClientIteration, DueInv, Begun
      <3>. QED
        BY <3>1, <3>2
    <2>. QED
      BY <2>1, <2>2, <2>3, Steps
  <1>5. ASSUME TypeOK, DueInv, Light \/ Heavy, Begun PROVE stepped'
    <2>1. PICK work \in Nat \ {0} : Iteration(work)
      BY <1>5, LoopAssumption DEF Light, Heavy, TypeOK, Usual
    <2>2. NetworkIteration(work)
      BY <1>5, <2>1 DEF Begun, Iteration, ServerIteration, ClientIteration
    <2>. QED
      BY <1>2, <1>5, <2>2
  <1>6. TypeOK /\ DueInv => [(Light \/ Heavy) /\ Begun => stepped']_vars
    BY <1>5
  <1>. QED
    BY <1>3, <1>4, <1>6, TypeCorrect, PTL DEF Spec
-----------------------------------------------------------------------------
(* "go slower than the mean to catch up" (server_instance.cpp:55) does the *)
(* contrary, for all constants: a server four steps behind whose window    *)
(* holds no iteration longer than this one does not come closer to the     *)
(* present.  It gains only while its iterations get shorter.               *)
THEOREM SteadyServerStays ==
  ASSUME TypeOK, NEW work \in Nat \ {0}, ServerIteration(work),
         remainingTime >= 4 * FixedTimestep,
         stepDurationRecord \in Seq(1 .. Least(MaxElapsed, sleepTime + work))
  PROVE  remainingTime' >= remainingTime
  <1>. DEFINE elapsed == Least(MaxElapsed, sleepTime + work)
              due == remainingTime + elapsed
              all == Append(stepDurationRecord, elapsed)
              record == IF Len(all) > Window THEN Tail(all) ELSE all
              n == Len(record)
              T == Total(record)
              ramp == 3 * FixedTimestep
              step == CurrentTimestep(due, record)
  <1>1. elapsed \in 1 .. MaxElapsed /\ elapsed \in Nat
    BY LoopAssumption DEF TypeOK, Least
  <1>2. ramp \in Nat \ {0} /\ Window \in Nat \ {0} /\ MaxBacklog \in Nat
    BY LoopAssumption
  <1>3. remainingTime \in 0 .. MaxBacklog /\ remainingTime - FixedTimestep >= ramp
    BY LoopAssumption DEF TypeOK
  <1>4. Advance(due, step, TRUE)
    BY Zenon DEF ServerIteration
  <1>5. stepDurationRecord \in Seq(1 .. elapsed)
    OBVIOUS
  <1>. HIDE DEF elapsed
  <1>6. Clamp(due - FixedTimestep, 0, ramp) = ramp
    BY <1>1, <1>2, <1>3, LoopAssumption DEF Clamp, Least
  <1>7. record \in Seq(1 .. elapsed) /\ n \in Nat \ {0}
    <2>1. all \in Seq(1 .. elapsed) /\ Len(all) = Len(stepDurationRecord) + 1
      BY <1>1, <1>5
    <2>2. Len(stepDurationRecord) \in Nat
      BY <1>5
    <2>. HIDE DEF all
    <2>3. CASE Len(all) > Window
      <3>1. Tail(all) \in Seq(1 .. elapsed) /\ Len(Tail(all)) = Len(all) - 1
        BY <1>2, <2>1, <2>2, <2>3
      <3>. QED
        BY <1>2, <2>1, <2>2, <2>3, <3>1
    <2>4. CASE ~(Len(all) > Window)
      BY <2>1, <2>2, <2>4
    <2>. QED
      BY <2>3, <2>4
  <1>. HIDE DEF record
  <1>8. T \in Nat /\ T <= elapsed * n
    BY <1>1, <1>7, TotalBounds
  <1>9. step = RatioUp(9 * T * ramp + 10 * n * FixedTimestep * (ramp - ramp), 10 * n * ramp)
    BY <1>6 DEF CurrentTimestep
  <1>. HIDE DEF n, T, ramp
  <1>10. 10 * n * FixedTimestep * (ramp - ramp) = 0
    BY <1>2, <1>7, LoopAssumption
  <1>11. 9 * T * ramp \in Nat /\ 10 * n * ramp \in Nat \ {0}
    BY <1>2, <1>7, <1>8
  <1>12. 9 * T * ramp <= (10 * n * ramp) * elapsed
    <2>1. T * ramp <= (elapsed * n) * ramp
      BY <1>1, <1>2, <1>7, <1>8
    <2>. QED
      BY <1>1, <1>2, <1>7, <1>8, <2>1
  <1>13. step \in Nat /\ step <= elapsed
    <2>. DEFINE a == 9 * T * ramp
                b == 10 * n * ramp
    <2>1. a \in Nat /\ b \in Nat \ {0} /\ a <= b * elapsed
      BY <1>11, <1>12
    <2>2. step = RatioUp(a, b)
      BY <1>9, <1>10, <1>11
    <2>. HIDE DEF a, b, step
    <2>3. RatioUp(a, b) \in Nat /\ RatioUp(a, b) <= elapsed
      BY <1>1, <2>1, RatioUpBounds
    <2>. QED
      BY <2>2, <2>3
  <1>. HIDE DEF step
  <1>. QED
    BY <1>1, <1>2, <1>3, <1>4, <1>13 DEF Advance, Least
=============================================================================
