---------------------- MODULE DistillationBundles_proofs ----------------------
(***************************************************************************)
(* What is selected, published, deployed and hinted, for any hosts,        *)
(* benchmarks, objectives and number of processes.  The compiler first:    *)
(* its orders have minima on finite sets, so a surviving policy leads to a *)
(* selected one, and what it selects from a file of observations, flawed   *)
(* or not, is a function of what the policies did.  The argument then      *)
(* follows a profile from the compiler through the bundles and a           *)
(* qualification to the bridge.                                            *)
(***************************************************************************)
EXTENDS DistillationBundles, FiniteSetTheorems, SequenceTheorems, WellFoundedInduction, TLAPS

-----------------------------------------------------------------------------
(* Finite sets, sums and tuples.                                           *)

(* A strict order has a minimal element in every finite set.               *)
LEMMA Minimal ==
  ASSUME NEW S, IsFiniteSet(S), S # {}, NEW R,
         \A x \in S : <<x, x>> \notin R,
         \A x, y, z \in S : <<x, y>> \in R /\ <<y, z>> \in R => <<x, z>> \in R
  PROVE  \E x \in S : \A y \in S : <<y, x>> \notin R
<1> DEFINE Bad == {T \in SUBSET S : T # {} /\ \A x \in T : \E y \in T : <<y, x>> \in R}
<1> SUFFICES ASSUME Bad # {} PROVE FALSE
  <2>1. S \notin Bad
    OBVIOUS
  <2> QED
    BY <2>1
<1>1. IsWellFoundedOn(StrictSubsetOrdering(S), FiniteSubsetsOf(S)) /\ FiniteSubsetsOf(S) = SUBSET S
  BY FS_StrictSubsetOrderingWellFounded, FS_FiniteSubsetsOfFinite
<1>2. PICK T \in Bad : \A U \in Bad : <<U, T>> \notin StrictSubsetOrdering(S)
  <2>1. Bad \subseteq FiniteSubsetsOf(S)
    BY <1>1
  <2> HIDE DEF Bad
  <2> QED
    BY <1>1, <2>1, WFMin
<1>3. PICK x \in T : TRUE
  OBVIOUS
<1> DEFINE U == T \ {x}
<1>4. <<U, T>> \in StrictSubsetOrdering(S)
  BY <1>3 DEF StrictSubsetOrdering
<1>5. U \notin Bad
  BY <1>2, <1>4
<1>6. CASE U = {}
  BY <1>3, <1>6
<1>7. CASE U # {}
  <2>1. PICK m \in U : \A y \in U : <<y, m>> \notin R
    BY <1>5, <1>7
  <2>2. <<x, m>> \in R
    BY <1>3, <2>1
  <2>3. PICK y \in T : <<y, x>> \in R
    BY <1>3
  <2>4. y # x /\ <<y, m>> \in R
    BY <1>3, <2>1, <2>2, <2>3
  <2> QED
    BY <2>1, <2>3, <2>4
<1> QED
  BY <1>6, <1>7

(* A finite set of integers has the maximum that Max chooses.              *)
LEMMA MaxExists ==
  ASSUME NEW S \in SUBSET Int, IsFiniteSet(S), S # {}
  PROVE  Max(S) \in S /\ \A x \in S : x <= Max(S)
<1> DEFINE R == {e \in S \X S : e[1] > e[2]}
<1>1. \A x, y \in S : <<x, y>> \in R <=> x > y
  OBVIOUS
<1> HIDE DEF R
<1>2. /\ \A x \in S : <<x, x>> \notin R
      /\ \A x, y, z \in S : <<x, y>> \in R /\ <<y, z>> \in R => <<x, z>> \in R
  BY <1>1
<1>3. PICK x \in S : \A y \in S : <<y, x>> \notin R
  BY <1>2, Minimal
<1>4. ASSUME NEW y \in S PROVE x >= y
  <2>1. ~(y > x) /\ x \in Int /\ y \in Int
    BY <1>1, <1>3, <1>4
  <2> QED
    BY <2>1
<1>5. Max(S) \in S /\ \A y \in S : Max(S) >= y
  BY <1>4, Zenon DEF Max
<1> HIDE DEF Max
<1> QED
  BY <1>5

LEMMA IntervalFinite ==
  ASSUME NEW n \in Int
  PROVE  IsFiniteSet(1 .. n)
<1>1. 1 \in Int
  OBVIOUS
<1> QED
  BY <1>1, FS_Interval

(* The values of a function on a finite set are finitely many.             *)
LEMMA ImageFinite ==
  ASSUME NEW f, f = [x \in DOMAIN f |-> f[x]], IsFiniteSet(DOMAIN f)
  PROVE  IsFiniteSet({f[x] : x \in DOMAIN f})
<1> DEFINE T == {f[x] : x \in DOMAIN f}
<1>1. f \in Surjection(DOMAIN f, T)
  BY DEF Surjection
<1> QED
  BY <1>1, FS_Surjection

(* A finite sum of natural numbers is one: its units are finitely many.    *)
LEMMA TotalType ==
  ASSUME NEW f, f = [x \in DOMAIN f |-> f[x]], IsFiniteSet(DOMAIN f), \A x \in DOMAIN f : f[x] \in Nat
  PROVE  Total(f) \in Nat
<1> DEFINE units == UNION {{x} \X (1 .. f[x]) : x \in DOMAIN f}
           T == {f[x] : x \in DOMAIN f}
<1>1. CASE DOMAIN f = {}
  <2>1. units = {}
    BY <1>1
  <2> HIDE DEF units
  <2> QED
    BY <2>1, FS_EmptySet DEF Total, units
<1>2. CASE DOMAIN f # {}
  <2>1. IsFiniteSet(T) /\ T # {} /\ T \in SUBSET Int /\ \A x \in DOMAIN f : f[x] \in T
    BY <1>2, ImageFinite
  <2>2. Max(T) \in Int /\ \A x \in DOMAIN f : f[x] <= Max(T)
    <3> HIDE DEF T
    <3> QED
      BY <2>1, MaxExists
  <2> DEFINE M == Max(T)
  <2> HIDE DEF M, T
  <2>3. \A x \in DOMAIN f : 1 .. f[x] \subseteq 1 .. M
    BY <2>2 DEF M
  <2>4. units \subseteq (DOMAIN f) \X (1 .. M)
    BY <2>3
  <2>5. IsFiniteSet((DOMAIN f) \X (1 .. M))
    <3>1. M \in Int
      BY <2>2 DEF M
    <3>2. IsFiniteSet(1 .. M)
      BY <3>1, IntervalFinite
    <3> QED
      BY <3>2, FS_Product
  <2>6. IsFiniteSet(units)
    <3> HIDE DEF units
    <3> QED
      BY <2>4, <2>5, FS_Subset
  <2> HIDE DEF units
  <2> QED
    BY <2>6, FS_CardinalityType DEF Total, units
<1> QED
  BY <1>1, <1>2

LEMMA Least ==
  ASSUME NEW S \in SUBSET Nat, IsFiniteSet(S), S # {}
  PROVE  \E x \in S : \A y \in S : x <= y
<1> DEFINE R == {e \in S \X S : e[1] < e[2]}
<1>1. \A x, y \in S : <<x, y>> \in R <=> x < y
  OBVIOUS
<1> HIDE DEF R
<1>2. /\ \A x \in S : <<x, x>> \notin R
      /\ \A x, y, z \in S : <<x, y>> \in R /\ <<y, z>> \in R => <<x, z>> \in R
  BY <1>1
<1>3. PICK x \in S : \A y \in S : <<y, x>> \notin R
  BY <1>2, Minimal
<1>4. ASSUME NEW y \in S PROVE x <= y
  <2>1. x \in Nat /\ y \in Nat
    OBVIOUS
  <2>2. ~(y < x)
    BY <1>1, <1>3
  <2> QED
    BY <2>1, <2>2
<1> QED
  BY <1>4

(* The order of tuples is strict, and total on tuples that differ.         *)
LEMMA BeforeOrders ==
  ASSUME NEW s \in Seq(Int), NEW t \in Seq(Int), NEW u \in Seq(Int), Len(s) = Len(t), Len(t) = Len(u)
  PROVE  /\ ~Before(s, s)
         /\ Before(s, t) /\ Before(t, u) => Before(s, u)
<1> DEFINE L == Len(s)
<1>1. /\ L \in Nat /\ DOMAIN s = 1 .. L /\ DOMAIN t = 1 .. L /\ DOMAIN u = 1 .. L
      /\ \A n \in 1 .. L : s[n] \in Int /\ t[n] \in Int /\ u[n] \in Int
  OBVIOUS
<1> HIDE DEF L
<1>2. ~Before(s, s)
  BY <1>1 DEF Before
<1>3. ASSUME Before(s, t), Before(t, u) PROVE Before(s, u)
  <2>1. PICK n \in 1 .. L : s[n] < t[n] /\ \A m \in 1 .. n - 1 : s[m] = t[m]
    BY <1>1, <1>3 DEF Before
  <2>2. PICK k \in 1 .. L : t[k] < u[k] /\ \A m \in 1 .. k - 1 : t[m] = u[m]
    BY <1>1, <1>3 DEF Before
  <2>3. CASE n < k
    <3>1. s[n] < u[n] /\ \A m \in 1 .. n - 1 : s[m] = u[m]
      BY <1>1, <2>1, <2>2, <2>3
    <3> QED
      BY <1>1, <3>1 DEF Before
  <2>4. CASE n >= k
    <3>1. s[k] < u[k]
      BY <1>1, <2>1, <2>2, <2>4
    <3>2. \A m \in 1 .. k - 1 : s[m] = u[m]
      BY <1>1, <2>1, <2>2, <2>4
    <3> QED
      BY <1>1, <3>1, <3>2 DEF Before
  <2> QED
    BY <1>1, <2>3, <2>4
<1> QED
  BY <1>2, <1>3

LEMMA BeforeTotal ==
  ASSUME NEW s \in Seq(Int), NEW t \in Seq(Int), Len(s) = Len(t), NEW n \in 1 .. Len(s), s[n] # t[n]
  PROVE  Before(s, t) \/ Before(t, s)
<1> DEFINE L == Len(s)
           D == {k \in 1 .. L : s[k] # t[k]}
<1>1. /\ L \in Nat /\ DOMAIN s = 1 .. L /\ DOMAIN t = 1 .. L
      /\ \A k \in 1 .. L : s[k] \in Int /\ t[k] \in Int
  OBVIOUS
<1>2. n \in D /\ D \in SUBSET Nat
  OBVIOUS
<1>3. IsFiniteSet(D)
  <2>1. IsFiniteSet(1 .. L) /\ D \subseteq 1 .. L
    BY <1>1, IntervalFinite
  <2> HIDE DEF D, L
  <2> QED
    BY <2>1, FS_Subset
<1>4. PICK k \in D : \A m \in D : k <= m
  <2> HIDE DEF D, L
  <2> QED
    BY <1>2, <1>3, Least
<1> HIDE DEF L
<1>5. \A m \in 1 .. k - 1 : s[m] = t[m]
  BY <1>1, <1>4
<1>6. s[k] < t[k] \/ t[k] < s[k]
  BY <1>1, <1>4
<1> QED
  BY <1>1, <1>4, <1>5, <1>6 DEF Before

(* A policy's place in the order is its own.                               *)
LEMMA RankInjective ==
  ASSUME NEW p \in PolicyIds
  PROVE  Rank(p) \in Int /\ PolicyOrder[Rank(p)] = p
<1>1. \E n \in DOMAIN PolicyOrder : PolicyOrder[n] = p
  BY DEF PolicyIds
<1> DEFINE r == CHOOSE n \in DOMAIN PolicyOrder : PolicyOrder[n] = p
<1>2. r \in DOMAIN PolicyOrder /\ PolicyOrder[r] = p
  BY <1>1, Zenon
<1>3. DOMAIN PolicyOrder \subseteq Int
  BY DEF PolicyOrder
<1> QED
  BY <1>2, <1>3 DEF Rank

LEMMA Concat ==
  ASSUME NEW s \in Seq(Int), NEW t \in Seq(Int)
  PROVE  /\ s \o t \in Seq(Int) /\ Len(s \o t) = Len(s) + Len(t)
         /\ \A i \in 1 .. Len(s) + Len(t) : (s \o t)[i] = IF i <= Len(s) THEN s[i] ELSE t[i - Len(s)]
BY ConcatProperties

(* A selection key is a tuple of integers that ends with the rank of its   *)
(* policy.                                                                 *)
LEMMA KeyType ==
  ASSUME NEW a, a.calls \in Int, a.gain \in Int, \A m \in Meters : a.used[m] \in Int, NEW p \in PolicyIds
  PROVE  /\ SelectionKey(a, p) \in Seq(Int)
         /\ Len(SelectionKey(a, p)) = Len(SummedMeters) + Len(PeakMeters) + 3
         /\ Len(SummedMeters) + Len(PeakMeters) + 3 \in Nat
         /\ SelectionKey(a, p)[Len(SummedMeters) + Len(PeakMeters) + 3] = Rank(p)
<1> DEFINE first == <<a.calls>>
           summed == [n \in DOMAIN SummedMeters |-> a.used[SummedMeters[n]]]
           peaks == [n \in DOMAIN PeakMeters |-> a.used[PeakMeters[n]]]
           last == <<-a.gain, Rank(p)>>
<1>1. /\ Len(SummedMeters) \in Nat /\ DOMAIN SummedMeters = 1 .. Len(SummedMeters)
      /\ Len(PeakMeters) \in Nat /\ DOMAIN PeakMeters = 1 .. Len(PeakMeters)
  BY MetersAssumption
<1>2. first \in Seq(Int) /\ Len(first) = 1
  OBVIOUS
<1>3. summed \in Seq(Int) /\ Len(summed) = Len(SummedMeters)
  <2>1. \A n \in 1 .. Len(SummedMeters) : a.used[SummedMeters[n]] \in Int
    BY <1>1 DEF Meters
  <2> QED
    BY <1>1, <2>1
<1>4. peaks \in Seq(Int) /\ Len(peaks) = Len(PeakMeters)
  <2>1. \A n \in 1 .. Len(PeakMeters) : a.used[PeakMeters[n]] \in Int
    BY <1>1 DEF Meters
  <2> QED
    BY <1>1, <2>1
<1>5. last \in Seq(Int) /\ Len(last) = 2 /\ last[2] = Rank(p)
  BY RankInjective
<1>6. SelectionKey(a, p) = ((first \o summed) \o peaks) \o last
  BY DEF SelectionKey
<1> HIDE DEF first, summed, peaks, last
<1> DEFINE two == first \o summed
           three == two \o peaks
<1>7. two \in Seq(Int) /\ Len(two) = 1 + Len(SummedMeters)
  BY <1>2, <1>3, Concat
<1> HIDE DEF two
<1>8. three \in Seq(Int) /\ Len(three) = 1 + Len(SummedMeters) + Len(PeakMeters)
  BY <1>4, <1>7, Concat
<1>10. SelectionKey(a, p) = three \o last
  BY <1>6 DEF two
<1> HIDE DEF three
<1>9. /\ three \o last \in Seq(Int)
      /\ Len(three \o last) = Len(three) + Len(last)
      /\ \A i \in 1 .. Len(three) + Len(last) : (three \o last)[i] = IF i <= Len(three) THEN three[i] ELSE last[i - Len(three)]
  BY <1>5, <1>8, Concat
<1> DEFINE N == Len(SummedMeters) + Len(PeakMeters) + 3
<1>11. /\ Len(three) + Len(last) = N /\ N \in Nat
       /\ N \in 1 .. Len(three) + Len(last) /\ ~(N <= Len(three)) /\ N - Len(three) = 2
  BY <1>1, <1>5, <1>8
<1> HIDE DEF N
<1>12. (three \o last)[N] = Rank(p)
  BY <1>5, <1>9, <1>11
<1> QED
  BY <1>9, <1>10, <1>11, <1>12 DEF N

-----------------------------------------------------------------------------
(* Aggregates and the selection among them.                                *)

(* An aggregate of natural numbers.                                        *)
Typed(a) ==
  /\ a.success \in Nat /\ a.gain \in Nat /\ a.regression \in Nat /\ a.calls \in Nat
  /\ \A h \in Harms : a.newHarm[h] \in Nat
  /\ \A m \in Meters : a.used[m] \in Nat

(* What is aggregated from measurements are natural numbers.               *)
LEMMA AggregateType ==
  ASSUME NEW seen, NEW items, IsFiniteSet(items), items # {}, NEW p, NEW baseline,
         \A i \in items : seen[p][i].calls \in Nat /\ \A m \in Meters : seen[p][i].used[m] \in Nat
  PROVE  Typed(Aggregate(seen, items, p, baseline))
<1> DEFINE a == Aggregate(seen, items, p, baseline)
<1>1. \A T : T \subseteq items => Cardinality(T) \in Nat
  BY FS_Subset, FS_CardinalityType
<1>2. a.success \in Nat
  <2> DEFINE T == {i \in items : seen[p][i].success}
  <2>1. T \subseteq items
    OBVIOUS
  <2>2. a.success = Cardinality(T)
    BY DEF Aggregate
  <2> HIDE DEF T, a
  <2> QED
    BY <1>1, <2>1, <2>2
<1>3. a.gain \in Nat
  <2> DEFINE T == {i \in items : seen[p][i].success /\ ~seen[baseline][i].success}
  <2>1. T \subseteq items
    OBVIOUS
  <2>2. a.gain = Cardinality(T)
    BY DEF Aggregate
  <2> HIDE DEF T, a
  <2> QED
    BY <1>1, <2>1, <2>2
<1>4. a.regression \in Nat
  <2> DEFINE T == {i \in items : seen[baseline][i].success /\ ~seen[p][i].success}
  <2>1. T \subseteq items
    OBVIOUS
  <2>2. a.regression = Cardinality(T)
    BY DEF Aggregate
  <2> HIDE DEF T, a
  <2> QED
    BY <1>1, <2>1, <2>2
<1>5. ASSUME NEW h \in Harms PROVE a.newHarm[h] \in Nat
  <2> DEFINE T == {i \in items : h \in seen[p][i].harms \ seen[baseline][i].harms}
  <2>1. T \subseteq items
    OBVIOUS
  <2>2. a.newHarm[h] = Cardinality(T)
    BY DEF Aggregate
  <2> HIDE DEF T, a
  <2> QED
    BY <1>1, <2>1, <2>2
<1>6. a.calls \in Nat
  <2> DEFINE f == [i \in items |-> seen[p][i].calls]
  <2>1. f = [i \in DOMAIN f |-> f[i]] /\ DOMAIN f = items /\ \A i \in DOMAIN f : f[i] \in Nat
    OBVIOUS
  <2>2. a.calls = Total(f)
    BY DEF Aggregate
  <2> HIDE DEF f, a
  <2> QED
    BY <2>1, <2>2, TotalType
<1>7. ASSUME NEW m \in Meters PROVE a.used[m] \in Nat
  <2> DEFINE f == [i \in items |-> seen[p][i].used[m]]
             T == {f[i] : i \in DOMAIN f}
  <2>1. f = [i \in DOMAIN f |-> f[i]] /\ DOMAIN f = items /\ \A i \in DOMAIN f : f[i] \in Nat
    OBVIOUS
  <2>2. a.used[m] = Total(f) \/ a.used[m] = Max(T)
    <3>1. T = {seen[p][i].used[m] : i \in items}
      OBVIOUS
    <3> HIDE DEF T
    <3> QED
      BY <3>1 DEF Aggregate
  <2>3. Total(f) \in Nat
    <3> HIDE DEF f
    <3> QED
      BY <2>1, TotalType
  <2>4. IsFiniteSet(T) /\ T # {} /\ T \in SUBSET Int /\ T \subseteq Nat
    <3> HIDE DEF f
    <3> QED
      BY <2>1, ImageFinite
  <2>5. Max(T) \in T
    <3> HIDE DEF T
    <3> QED
      BY <2>4, MaxExists
  <2> HIDE DEF f, T, a
  <2> QED
    BY <2>2, <2>3, <2>4, <2>5
<1> HIDE DEF a
<1> QED
  BY <1>2, <1>3, <1>4, <1>5, <1>6, <1>7 DEF Typed, a

(* An aggregate depends on the measurements of its policy and of the       *)
(* baseline only.                                                          *)
LEMMA AggregateDepends ==
  ASSUME NEW seen, NEW other, NEW items, NEW p, NEW baseline,
         \A i \in items : seen[p][i] = other[p][i] /\ seen[baseline][i] = other[baseline][i]
  PROVE  Aggregate(seen, items, p, baseline) = Aggregate(other, items, p, baseline)
<1> DEFINE Harm(o, h) == {i \in items : h \in o[p][i].harms \ o[baseline][i].harms}
           Calls(o) == [i \in items |-> o[p][i].calls]
           Uses(o, m) == [i \in items |-> o[p][i].used[m]]
           Peaks(o, m) == {o[p][i].used[m] : i \in items}
           Used(o, m) == IF \E n \in DOMAIN SummedMeters : SummedMeters[n] = m THEN Total(Uses(o, m)) ELSE Max(Peaks(o, m))
           Won(o) == {i \in items : o[p][i].success}
           Gained(o) == {i \in items : o[p][i].success /\ ~o[baseline][i].success}
           Lost(o) == {i \in items : o[baseline][i].success /\ ~o[p][i].success}
           A(o) == [success |-> Cardinality(Won(o)), gain |-> Cardinality(Gained(o)),
                    regression |-> Cardinality(Lost(o)),
                    newHarm |-> [h \in Harms |-> Cardinality(Harm(o, h))],
                    calls |-> Total(Calls(o)), used |-> [m \in Meters |-> Used(o, m)]]
<1>6. Aggregate(seen, items, p, baseline) = A(seen) /\ Aggregate(other, items, p, baseline) = A(other)
  BY Zenon DEF Aggregate
<1>7. /\ Won(seen) = Won(other) /\ Gained(seen) = Gained(other) /\ Lost(seen) = Lost(other)
      /\ Calls(seen) = Calls(other) /\ \A h : Harm(seen, h) = Harm(other, h)
      /\ \A m : Uses(seen, m) = Uses(other, m) /\ Peaks(seen, m) = Peaks(other, m)
  <2>1. Won(seen) = Won(other) /\ Gained(seen) = Gained(other) /\ Lost(seen) = Lost(other)
    OBVIOUS
  <2>2. Calls(seen) = Calls(other) /\ \A h : Harm(seen, h) = Harm(other, h)
    OBVIOUS
  <2>3. \A m : Uses(seen, m) = Uses(other, m)
    OBVIOUS
  <2>4. \A m : Peaks(seen, m) = Peaks(other, m)
    OBVIOUS
  <2> HIDE DEF Won, Gained, Lost, Calls, Harm, Uses, Peaks
  <2> QED
    BY <2>1, <2>2, <2>3, <2>4
<1> HIDE DEF Won, Gained, Lost, Calls, Harm, Uses, Peaks
<1>8. \A m : Used(seen, m) = Used(other, m)
  BY <1>7
<1> HIDE DEF Used
<1>9. A(seen) = A(other)
  BY <1>7, <1>8
<1> HIDE DEF A
<1> QED
  BY <1>6, <1>9

(* Dominance is a strict order.                                            *)
LEMMA DominatesOrders ==
  ASSUME NEW a, NEW b, NEW c, Typed(a), Typed(b), Typed(c)
  PROVE  /\ ~Dominates(a, a)
         /\ Dominates(a, b) /\ Dominates(b, c) => Dominates(a, c)
<1>1. NoWorse(a, b) /\ NoWorse(b, c) => NoWorse(a, c)
  BY DEF NoWorse, Typed
<1>2. NoWorse(c, a) /\ NoWorse(a, b) => NoWorse(c, b)
  BY DEF NoWorse, Typed
<1> QED
  BY <1>1, <1>2 DEF Dominates

(* Some survivor is on the frontier, some of the frontier within the slack *)
(* of the best, and one of these is first by key.                          *)
LEMMA FrontierExists ==
  ASSUME NEW eligible, IsFiniteSet(eligible), eligible # {}, NEW aggregate,
         \A p \in eligible : Typed(aggregate[p])
  PROVE  Frontier(eligible, aggregate) # {} /\ Frontier(eligible, aggregate) \subseteq eligible
<1> DEFINE R == {e \in eligible \X eligible : Dominates(aggregate[e[1]], aggregate[e[2]])}
<1>1. \A x, y \in eligible : <<x, y>> \in R <=> Dominates(aggregate[x], aggregate[y])
  OBVIOUS
<1> HIDE DEF R
<1>2. /\ \A x \in eligible : <<x, x>> \notin R
      /\ \A x, y, z \in eligible : <<x, y>> \in R /\ <<y, z>> \in R => <<x, z>> \in R
  BY <1>1, DominatesOrders
<1>3. PICK x \in eligible : \A y \in eligible : <<y, x>> \notin R
  BY <1>2, Minimal
<1> QED
  BY <1>1, <1>3 DEF Frontier

LEMMA FinalistsExist ==
  ASSUME NEW frontier, IsFiniteSet(frontier), frontier # {}, NEW aggregate,
         \A p \in frontier : Typed(aggregate[p]), NEW slack \in Nat
  PROVE  Finalists(frontier, aggregate, slack) # {} /\ Finalists(frontier, aggregate, slack) \subseteq frontier
<1> DEFINE f == [q \in frontier |-> aggregate[q].success]
           T == {f[q] : q \in DOMAIN f}
<1>1. f = [q \in DOMAIN f |-> f[q]] /\ DOMAIN f = frontier /\ \A q \in frontier : f[q] = aggregate[q].success
  OBVIOUS
<1>2. \A q \in frontier : f[q] \in Nat
  BY <1>1 DEF Typed
<1>3. {aggregate[q].success : q \in frontier} = T
  OBVIOUS
<1>4. IsFiniteSet(T) /\ T # {} /\ T \in SUBSET Int
  <2> HIDE DEF f
  <2> QED
    BY <1>1, <1>2, ImageFinite
<1>5. Max(T) \in T
  <2> HIDE DEF T
  <2> QED
    BY <1>4, MaxExists
<1>6. PICK p \in frontier : f[p] = Max(T)
  BY <1>5
<1> HIDE DEF f, T
<1>7. aggregate[p].success >= Max(T) - slack
  BY <1>1, <1>2, <1>6
<1> QED
  BY <1>3, <1>7 DEF Finalists

LEMMA SelectedExists ==
  ASSUME NEW finalists, IsFiniteSet(finalists), finalists # {}, finalists \subseteq PolicyIds, NEW aggregate,
         \A p \in finalists : Typed(aggregate[p])
  PROVE  Selected(finalists, aggregate) \in finalists
<1> DEFINE key(p) == SelectionKey(aggregate[p], p)
           N == Len(SummedMeters) + Len(PeakMeters) + 3
<1>1. ASSUME NEW p \in finalists
      PROVE key(p) \in Seq(Int) /\ Len(key(p)) = N /\ N \in Nat /\ key(p)[N] = Rank(p)
  <2>1. p \in PolicyIds /\ aggregate[p].calls \in Int /\ aggregate[p].gain \in Int /\ \A m \in Meters : aggregate[p].used[m] \in Int
    BY DEF Typed
  <2> QED
    BY <2>1, KeyType
<1>2. N \in 1 .. N
  <2>1. Len(SummedMeters) \in Nat /\ Len(PeakMeters) \in Nat
    BY MetersAssumption
  <2> QED
    BY <2>1
<1> HIDE DEF N, key
<1> DEFINE R == {e \in finalists \X finalists : Before(key(e[1]), key(e[2]))}
<1>3. \A x, y \in finalists : <<x, y>> \in R <=> Before(key(x), key(y))
  OBVIOUS
<1> HIDE DEF R
<1>4. /\ \A x \in finalists : <<x, x>> \notin R
      /\ \A x, y, z \in finalists : <<x, y>> \in R /\ <<y, z>> \in R => <<x, z>> \in R
  <2>1. ASSUME NEW x \in finalists, NEW y \in finalists, NEW z \in finalists
        PROVE ~Before(key(x), key(x)) /\ (Before(key(x), key(y)) /\ Before(key(y), key(z)) => Before(key(x), key(z)))
    BY <1>1, BeforeOrders
  <2> QED
    BY <1>3, <2>1
<1>5. PICK x \in finalists : \A y \in finalists : <<y, x>> \notin R
  BY <1>4, Minimal
<1>6. ASSUME NEW y \in finalists \ {x} PROVE Before(key(x), key(y))
  <2>1. ~Before(key(y), key(x))
    BY <1>3, <1>5
  <2>2. Rank(x) # Rank(y)
    BY RankInjective
  <2>3. key(x)[N] # key(y)[N]
    BY <1>1, <2>2
  <2> QED
    BY <1>1, <1>2, <2>1, <2>3, BeforeTotal
<1>7. \E p \in finalists : \A q \in finalists \ {p} : Before(SelectionKey(aggregate[p], p), SelectionKey(aggregate[q], q))
  BY <1>6 DEF key
<1> QED
  BY <1>7, Zenon DEF Selected

-----------------------------------------------------------------------------
(* The catalog and the measurements.                                       *)

(* The catalog is finite.                                                  *)
LEMMA PolicyNames ==
  /\ IsFiniteSet(PolicyIds) /\ "Base" \in PolicyIds
  /\ \A p \in PolicyIds :
       \/ p = "A" \/ p = "A+B" \/ p = "A+B+D" \/ p = "A+B+D+I" \/ p = "A+D" \/ p = "B" \/ p = "B+D" \/ p = "Base"
       \/ p = "D" \/ p = "D+I" \/ p = "G" \/ p = "G+H" \/ p = "H" \/ p = "J" \/ p = "K-off" \/ p = "K-on"
       \/ p = "integrated" \/ p = "integrated-K-off" \/ p = "prompt_full+I" \/ p = "prompt_reduced" \/ p = "prompt_reduced+I"
<1>1. DOMAIN PolicyOrder = 1 .. 21 /\ PolicyOrder = [n \in DOMAIN PolicyOrder |-> PolicyOrder[n]]
  BY DEF PolicyOrder
<1>2. IsFiniteSet(PolicyIds)
  <2>1. IsFiniteSet(DOMAIN PolicyOrder)
    <3> DEFINE N == 21
    <3>1. N \in Int /\ DOMAIN PolicyOrder = 1 .. N
      BY <1>1
    <3> HIDE DEF N
    <3> QED
      BY <3>1, IntervalFinite
  <2>2. IsFiniteSet({PolicyOrder[n] : n \in DOMAIN PolicyOrder})
    <3> DEFINE f == PolicyOrder
    <3>1. f = [n \in DOMAIN f |-> f[n]] /\ IsFiniteSet(DOMAIN f)
      BY <1>1, <2>1
    <3> HIDE DEF f
    <3>2. IsFiniteSet({f[n] : n \in DOMAIN f})
      BY <3>1, ImageFinite
    <3> QED
      BY <3>2 DEF f
  <2> QED
    BY <2>2 DEF PolicyIds
<1>3. "Base" \in PolicyIds
  <2>1. PolicyOrder[8] = "Base"
    BY DEF PolicyOrder
  <2> QED
    BY <1>1, <2>1 DEF PolicyIds
<1>4. ASSUME NEW n \in 1 .. 21
      PROVE \/ n = 1 \/ n = 2 \/ n = 3 \/ n = 4 \/ n = 5 \/ n = 6 \/ n = 7 \/ n = 8 \/ n = 9 \/ n = 10 \/ n = 11
            \/ n = 12 \/ n = 13 \/ n = 14 \/ n = 15 \/ n = 16 \/ n = 17 \/ n = 18 \/ n = 19 \/ n = 20 \/ n = 21
  OBVIOUS
<1> QED
  BY <1>1, <1>2, <1>3, <1>4 DEF PolicyIds, PolicyOrder

(* What the catalog lets a policy carry.                                   *)
LEMMA CatalogFacts ==
  ASSUME NEW h, HostOK(h), NEW p \in PolicyIds, Catalog(h)[p].eligible
  PROVE  LET policy == Catalog(h)[p] IN
         /\ "I" \in policy.evidence => h.fit
         /\ {"G", "H"} \subseteq policy.model => h.gxh /\ h.surface
         /\ "K" \in policy.cost => h.cache # "off" /\ h.parity /\ p \in DOMAIN ParityPeer
<1>1. CASE p \in EvidenceCells
  BY <1>1 DEF Catalog, EvidenceCells, EvidenceBundle, Policy, ParityPeer
<1>2. CASE p \notin EvidenceCells
  BY <1>2, PolicyNames DEF Catalog, EvidenceCells, Policy, ParityPeer, HasGH
<1> QED
  BY <1>1, <1>2

(* The constructor accepts the profile of every eligible policy.           *)
LEMMA ProfileConsistent ==
  ASSUME NEW h, HostOK(h), NEW p \in PolicyIds, Catalog(h)[p].eligible, NEW split, NEW evidence
  PROVE  Consistent(ProfileOf(h, split, p, Catalog(h)[p], evidence))
<1> DEFINE policy == Catalog(h)[p]
<1>1. /\ "I" \in policy.evidence => h.fit
      /\ {"G", "H"} \subseteq policy.model => h.gxh /\ h.surface
      /\ "K" \in policy.cost => h.cache # "off" /\ h.parity
  BY CatalogFacts
<1> HIDE DEF policy
<1>2. Consistent(ProfileOf(h, split, p, policy, evidence))
  BY <1>1 DEF Consistent, ProfileOf
<1> QED
  BY <1>2 DEF policy

(* Every eligible policy is executed, and so is the peer of one that       *)
(* reuses prefixes.                                                        *)
LEMMA ExecutedFacts ==
  ASSUME NEW h
  PROVE  LET run == Executed(Catalog(h), "Base") IN
         /\ run \subseteq PolicyIds /\ IsFiniteSet(run) /\ "Base" \in run
         /\ \A p \in PolicyIds : Catalog(h)[p].eligible => p \in run
         /\ \A p \in DOMAIN ParityPeer :
               p \in PolicyIds /\ Catalog(h)[p].eligible /\ "K" \in Catalog(h)[p].cost => ParityPeer[p] \in run
<1> DEFINE run == Executed(Catalog(h), "Base")
<1>1. {"Base", "A", "B", "A+B", "D", "B+D", "prompt_reduced", "prompt_full+I", "prompt_reduced+I", "G", "H", "G+H",
       "K-off", "integrated-K-off"} \subseteq PolicyIds
  <2>1. /\ PolicyOrder[8] = "Base" /\ PolicyOrder[1] = "A" /\ PolicyOrder[6] = "B" /\ PolicyOrder[2] = "A+B"
        /\ PolicyOrder[9] = "D" /\ PolicyOrder[7] = "B+D" /\ PolicyOrder[20] = "prompt_reduced"
        /\ PolicyOrder[19] = "prompt_full+I" /\ PolicyOrder[21] = "prompt_reduced+I"
        /\ PolicyOrder[11] = "G" /\ PolicyOrder[13] = "H" /\ PolicyOrder[12] = "G+H"
        /\ PolicyOrder[15] = "K-off" /\ PolicyOrder[18] = "integrated-K-off"
        /\ DOMAIN PolicyOrder = 1 .. 21
    BY DEF PolicyOrder
  <2> QED
    BY <2>1 DEF PolicyIds
<1>2. \A p \in Combinations : InteractionCell(p) \subseteq PolicyIds
  BY <1>1 DEF Combinations, InteractionCell
<1>3. \A p \in DOMAIN ParityPeer : ParityPeer[p] \in PolicyIds
  BY <1>1 DEF ParityPeer
<1>4. run \subseteq PolicyIds
  <2> DEFINE eligible == {p \in PolicyIds : Catalog(h)[p].eligible}
             cells == UNION {InteractionCell(p) : p \in eligible \cap Combinations}
             peers == {ParityPeer[p] : p \in {q \in eligible \cap DOMAIN ParityPeer : "K" \in Catalog(h)[q].cost}}
  <2>1. run = {"Base"} \cup eligible \cup cells \cup peers
    BY Zenon DEF Executed
  <2>2. cells \subseteq PolicyIds
    BY <1>2
  <2>3. peers \subseteq PolicyIds
    BY <1>3
  <2>4. "Base" \in PolicyIds /\ eligible \subseteq PolicyIds
    BY PolicyNames
  <2> HIDE DEF eligible, cells, peers, run
  <2> QED
    BY <2>1, <2>2, <2>3, <2>4
<1>5. IsFiniteSet(run)
  BY <1>4, PolicyNames, FS_Subset
<1>6. "Base" \in run /\ \A p \in PolicyIds : Catalog(h)[p].eligible => p \in run
  BY DEF Executed
<1>7. \A p \in DOMAIN ParityPeer :
         p \in PolicyIds /\ Catalog(h)[p].eligible /\ "K" \in Catalog(h)[p].cost => ParityPeer[p] \in run
  <2> DEFINE eligible == {p \in PolicyIds : Catalog(h)[p].eligible}
             reusing == {q \in eligible \cap DOMAIN ParityPeer : "K" \in Catalog(h)[q].cost}
             peers == {ParityPeer[p] : p \in reusing}
  <2>1. peers \subseteq run
    BY Zenon DEF Executed
  <2>2. ASSUME NEW p \in DOMAIN ParityPeer, p \in PolicyIds, Catalog(h)[p].eligible, "K" \in Catalog(h)[p].cost
        PROVE  ParityPeer[p] \in peers
    <3>1. p \in reusing
      BY <2>2
    <3> HIDE DEF reusing
    <3> QED
      BY <3>1
  <2> HIDE DEF peers, run
  <2> QED
    BY <2>1, <2>2
<1> HIDE DEF run
<1> QED
  BY <1>4, <1>5, <1>6, <1>7 DEF run

(* What was measured, by policy and item, whatever is wrong with the rest of the file. *)
Measurements(w, policies, items) == [p \in policies |-> [i \in items |-> Outcome(w, p, i)]]

(* A row about these policies and items says what the policy did, whatever *)
(* else is wrong with the file.                                            *)
LEMMA MeasuredRows ==
  ASSUME NEW w, NEW policies, NEW items, NEW flaw \in Flaws \cup {"none"}, None \notin policies, None \notin items,
         NEW n \in DOMAIN Measured(w, policies, items, flaw),
         Measured(w, policies, items, flaw)[n].policy \in policies,
         Measured(w, policies, items, flaw)[n].item \in items
  PROVE  LET row == Measured(w, policies, items, flaw)[n] IN row.seen = Outcome(w, row.policy, row.item)
<1> DEFINE Row(p, i) == [policy |-> p, item |-> i, seen |-> Outcome(w, p, i)]
           rows == [cell \in policies \X items |-> Row(cell[1], cell[2])]
           one == CHOOSE cell \in policies \X items : TRUE
           With(row) == [cell \in DOMAIN rows \cup {None} |-> IF cell = None THEN row ELSE rows[cell]]
           measured == Measured(w, policies, items, flaw)
<1>0. \A cell \in policies \X items : rows[cell].seen = Outcome(w, rows[cell].policy, rows[cell].item)
  OBVIOUS
<1>1. CASE flaw = "none" \/ flaw = "missing"
  <2>1. measured[n] = rows[n] /\ n \in policies \X items
    BY <1>1 DEF Measured
  <2> QED
    BY <1>0, <2>1
<1>2. CASE flaw \in {"repeated", "foreign", "unknown"}
  <2>0. PICK row \in {rows[one], [rows[one] EXCEPT !.item = None], [rows[one] EXCEPT !.policy = None]} :
          measured = With(row)
    BY <1>2 DEF Measured
  <2>1. CASE n # None
    <3>1. measured[n] = rows[n] /\ n \in policies \X items
      BY <2>0, <2>1
    <3> QED
      BY <1>0, <3>1
  <2>2. CASE n = None
    <3>1. measured[n] = row
      BY <2>0, <2>2
    <3>2. CASE policies \X items = {}
      <4>1. <<measured[n].policy, measured[n].item>> \in policies \X items
        OBVIOUS
      <4> QED
        BY <3>2, <4>1
    <3>3. CASE policies \X items # {}
      <4>1. one \in policies \X items
        BY <3>3
      <4>2. rows[one] = Row(one[1], one[2])
        BY <4>1
      <4> HIDE DEF one, rows, With, measured
      <4>3. row = rows[one]
        BY <3>1, <4>2 DEF measured
      <4> QED
        BY <3>1, <4>2, <4>3 DEF measured
    <3> QED
      BY <3>2, <3>3
  <2> QED
    BY <2>1, <2>2
<1> QED
  BY <1>1, <1>2, FlawsAssumption

(* What is indexed is what the policies did.                               *)
LEMMA IndexedRows ==
  ASSUME NEW w, NEW policies, NEW items, NEW flaw \in Flaws \cup {"none"}, None \notin policies, None \notin items,
         Indexable(Measured(w, policies, items, flaw), policies, items)
  PROVE  Index(Measured(w, policies, items, flaw), policies, items) = Measurements(w, policies, items)
<1> DEFINE rows == Measured(w, policies, items, flaw)
<1>1. ASSUME NEW p \in policies, NEW i \in items
      PROVE  rows[CHOOSE n \in Of(rows, p, i) : TRUE].seen = Outcome(w, p, i)
  <2>1. Cardinality(Of(rows, p, i)) = 1
    BY DEF Indexable
  <2>2. Of(rows, p, i) # {}
    BY <2>1, FS_EmptySet
  <2>3. PICK n \in Of(rows, p, i) : n = CHOOSE m \in Of(rows, p, i) : TRUE
    BY <2>2
  <2>4. n \in DOMAIN rows /\ rows[n].policy = p /\ rows[n].item = i
    BY DEF Of
  <2> QED
    BY <2>3, <2>4, MeasuredRows
<1> HIDE DEF rows
<1>2. Index(rows, policies, items) = Measurements(w, policies, items)
  BY <1>1 DEF Index, Measurements
<1> QED
  BY <1>2 DEF rows

(* A file without a flaw is accepted.                                      *)
LEMMA SoundRows ==
  ASSUME NEW w, NEW policies, policies \subseteq PolicyIds, NEW items
  PROVE  LET rows == Measured(w, policies, items, "none") IN
         /\ Known(rows) /\ Indexable(rows, policies, items)
         /\ \A n \in DOMAIN rows : rows[n].item \in items
<1> DEFINE rows == [cell \in policies \X items |->
                      [policy |-> cell[1], item |-> cell[2], seen |-> Outcome(w, cell[1], cell[2])]]
<1>1. Measured(w, policies, items, "none") = rows
  BY DEF Measured
<1>2. Known(rows) /\ \A n \in DOMAIN rows : rows[n].item \in items /\ rows[n].policy \in policies
  BY DEF Known
<1>3. ASSUME NEW p \in policies, NEW i \in items PROVE Cardinality(Of(rows, p, i)) = 1
  <2>1. Of(rows, p, i) = {<<p, i>>}
    BY DEF Of
  <2> QED
    BY <2>1, FS_Singleton
<1>4. Indexable(rows, policies, items)
  BY <1>2, <1>3 DEF Indexable
<1> QED
  BY <1>1, <1>2, <1>4

-----------------------------------------------------------------------------
(* The compiler.                                                           *)

(* The requests of the commands, and the policies a calibration runs.      *)
WellFormed(request) ==
  /\ request.host \in Hosts /\ request.objective \in Objectives
  /\ request.calibration = CalibrationItems /\ request.heldOut = HeldOutItems
  /\ request.baseline = "Base" /\ request.fixedMax = FixedMax

Run(request) == Executed(Catalog(request.host), request.baseline)

(* A compilation that succeeds selects from the measurements, and selects  *)
(* what a file without a flaw would have selected.                         *)
LEMMA CompiledFromMeasurements ==
  ASSUME NEW w, NEW request, WellFormed(request), NEW flaw \in Flaws,
         CompileProfile(request, Measured(w, Run(request), request.calibration, flaw)) # None
  PROVE  LET seen == Measurements(w, Run(request), request.calibration) IN
         /\ CompileProfile(request, Measured(w, Run(request), request.calibration, flaw)) = Distill(request, seen)
         /\ Calibrated(w, request) = Distill(request, seen).profile
         /\ FixedMax \in Run(request)
<1> DEFINE items == request.calibration
           run == Run(request)
           rows == Measured(w, run, items, flaw)
           sound == Measured(w, run, items, "none")
<1>1. run \subseteq PolicyIds /\ None \notin run /\ None \notin items
  BY ExecutedFacts, SplitAssumption DEF WellFormed, Run
<1>2. /\ items \cap request.heldOut = {} /\ {request.baseline, request.fixedMax} \subseteq PolicyIds
      /\ Catalog(request.host)[request.fixedMax].eligible /\ Indexable(rows, run, items)
      /\ CompileProfile(request, rows) = Distill(request, Index(rows, run, items))
  <2> HIDE DEF rows
  <2> QED
    BY DEF CompileProfile, Run, rows
<1>3. Index(rows, run, items) = Measurements(w, run, items)
  BY <1>1, <1>2, IndexedRows
<1>4. Index(sound, run, items) = Measurements(w, run, items)
  BY <1>1, SoundRows, IndexedRows
<1>5. CompileProfile(request, sound) = Distill(request, Index(sound, run, items))
  <2>1. Known(sound) /\ Indexable(sound, run, items) /\ \A n \in DOMAIN sound : sound[n].item \in items
    BY <1>1, SoundRows
  <2> HIDE DEF sound
  <2> QED
    BY <1>2, <2>1 DEF CompileProfile, Run
<1>6. Calibrated(w, request) = CompileProfile(request, sound).profile
  BY DEF Calibrated, Run
<1>7. FixedMax \in run
  BY <1>2, ExecutedFacts DEF WellFormed, Run
<1> HIDE DEF rows, sound, run
<1> QED
  BY <1>2, <1>3, <1>4, <1>5, <1>6, <1>7 DEF rows, run

LEMMA MeasurementsTyped ==
  ASSUME NEW w \in Worlds, NEW run, run \subseteq PolicyIds, NEW p \in run
  PROVE  Typed(Aggregate(Measurements(w, run, CalibrationItems), CalibrationItems, p, "Base"))
<1> DEFINE seen == Measurements(w, run, CalibrationItems)
<1>1. \A i \in CalibrationItems : seen[p][i].calls \in Nat /\ \A m \in Meters : seen[p][i].used[m] \in Nat
  <2> SUFFICES ASSUME NEW i \in CalibrationItems
               PROVE  seen[p][i].calls \in Nat /\ \A m \in Meters : seen[p][i].used[m] \in Nat
    OBVIOUS
  <2>1. seen[p][i] = Outcome(w, p, i)
    BY DEF Measurements
  <2>2. Outcome(w, p, i).calls \in 0 .. 1 /\ \A m \in Meters : Outcome(w, p, i).used[m] \in Nat
    BY OutcomeAssumption
  <2> HIDE DEF seen
  <2> QED
    BY <2>1, <2>2
<1> HIDE DEF seen
<1>2. Typed(Aggregate(seen, CalibrationItems, p, "Base"))
  BY <1>1, AggregateType, SplitAssumption
<1> QED
  BY <1>2 DEF seen

(* The profile is consistent, and its policy undominated in the whole      *)
(* catalog: a policy that is not executed is not eligible.                 *)
LEMMA Distilled ==
  ASSUME NEW w \in Worlds, NEW request, WellFormed(request), FixedMax \in Run(request),
         Distill(request, Measurements(w, Run(request), request.calibration)) # None
  PROVE  LET profile == Distill(request, Measurements(w, Run(request), request.calibration)).profile IN
         Consistent(profile) /\ Undominated(w, request, profile.id)
<1> DEFINE items == request.calibration
           run == Run(request)
           catalog == Catalog(request.host)
           seen == Measurements(w, run, items)
           aggregate == [p \in DOMAIN seen |-> Aggregate(seen, items, p, request.baseline)]
           eligible == {p \in DOMAIN seen : Survives(catalog, seen, items, p, request, aggregate)}
           frontier == Frontier(eligible, aggregate)
           finalists == Finalists(frontier, aggregate, request.objective.slack)
           selected == Selected(finalists, aggregate)
           profile == Distill(request, seen).profile
<1>1. /\ run \subseteq PolicyIds /\ IsFiniteSet(run) /\ "Base" \in run
      /\ \A p \in PolicyIds : catalog[p].eligible => p \in run
      /\ \A p \in DOMAIN ParityPeer :
            p \in PolicyIds /\ catalog[p].eligible /\ "K" \in catalog[p].cost => ParityPeer[p] \in run
  BY ExecutedFacts DEF WellFormed, Run
<1>2. DOMAIN seen = run /\ \A p \in run, i \in items : seen[p][i] = Outcome(w, p, i)
  BY DEF Measurements
<1>3. items = CalibrationItems /\ request.baseline = "Base" /\ request.fixedMax = FixedMax
  BY DEF WellFormed
<1>4. \A p \in run : Typed(aggregate[p]) /\ aggregate[p] = Aggregate(seen, items, p, "Base")
  BY <1>1, <1>2, <1>3, MeasurementsTyped
<1>5. /\ eligible # {}
      /\ \E evidence : profile = ProfileOf(request.host, items, selected, catalog[selected], evidence)
  BY DEF Distill
<1>6. \A p : p \in eligible <=> p \in run /\ Survives(catalog, seen, items, p, request, aggregate)
  BY <1>2
<1> HIDE DEF aggregate, eligible
<1>7. IsFiniteSet(eligible) /\ eligible \subseteq run /\ \A p \in eligible : Typed(aggregate[p])
  BY <1>1, <1>4, <1>6, FS_Subset
<1>8. frontier # {} /\ frontier \subseteq eligible
  BY <1>5, <1>7, FrontierExists
<1> HIDE DEF frontier
<1>9. finalists # {} /\ finalists \subseteq frontier
  <2>1. request.objective.slack \in Nat
    BY ObjectiveAssumption DEF WellFormed
  <2>2. IsFiniteSet(frontier) /\ \A p \in frontier : Typed(aggregate[p])
    BY <1>7, <1>8, FS_Subset
  <2> QED
    BY <1>8, <2>1, <2>2, FinalistsExist
<1> HIDE DEF finalists
<1>10. selected \in finalists
  <2>1. IsFiniteSet(finalists) /\ finalists \subseteq PolicyIds /\ \A p \in finalists : Typed(aggregate[p])
    BY <1>1, <1>7, <1>8, <1>9, FS_Subset
  <2> QED
    BY <1>9, <2>1, SelectedExists
<1> HIDE DEF selected
<1>11. /\ selected \in run /\ Survives(catalog, seen, items, selected, request, aggregate)
       /\ \A q \in eligible : ~Dominates(aggregate[q], aggregate[selected])
  <2>1. selected \in eligible /\ selected \in frontier
    BY <1>8, <1>9, <1>10
  <2>2. ~Dominates(aggregate[selected], aggregate[selected])
    BY <1>7, <2>1, DominatesOrders
  <2>3. \A q \in eligible \ {selected} : ~Dominates(aggregate[q], aggregate[selected])
    BY <2>1 DEF Frontier, frontier
  <2> QED
    BY <1>6, <2>1, <2>2, <2>3
<1>12. HostOK(request.host)
  BY HostsAssumption DEF WellFormed
<1>13. Consistent(profile) /\ profile.id = selected
  <2>1. PICK evidence : profile = ProfileOf(request.host, items, selected, catalog[selected], evidence)
    BY <1>5
  <2>2. Consistent(profile)
    <3>1. selected \in PolicyIds /\ catalog[selected].eligible
      BY <1>1, <1>11 DEF Survives
    <3> QED
      BY <1>12, <2>1, <3>1, ProfileConsistent
  <2> HIDE DEF profile
  <2>3. profile.id = selected
    BY <2>1 DEF ProfileOf
  <2> QED
    BY <2>2, <2>3
<1> HIDE DEF profile
<1> DEFINE whole == Seen(w, items)
           totals == [p \in PolicyIds |-> Aggregate(whole, items, p, request.baseline)]
<1>14. \A p \in PolicyIds, i \in items : whole[p][i] = Outcome(w, p, i)
  BY DEF Seen
<1>15. \A p \in run : totals[p] = aggregate[p]
  <2> SUFFICES ASSUME NEW p \in run PROVE totals[p] = aggregate[p]
    OBVIOUS
  <2>1. \A i \in items : whole[p][i] = seen[p][i] /\ whole["Base"][i] = seen["Base"][i]
    BY <1>1, <1>2, <1>14
  <2>2. totals[p] = Aggregate(whole, items, p, "Base")
    BY <1>1, <1>3
  <2> HIDE DEF whole, seen, totals
  <2> QED
    BY <1>4, <2>1, <2>2, AggregateDepends
<1>16. \A p \in PolicyIds : catalog[p].eligible =>
          (Keeps(w, request, p) <=> /\ "K" \in catalog[p].cost => Parity(seen, items, p)
                                    /\ Preserves(seen, items, p, FixedMax))
  <2> SUFFICES ASSUME NEW p \in PolicyIds, catalog[p].eligible
               PROVE  Keeps(w, request, p) <=> /\ "K" \in catalog[p].cost => Parity(seen, items, p)
                                               /\ Preserves(seen, items, p, FixedMax)
    OBVIOUS
  <2>1. p \in run /\ FixedMax \in PolicyIds
    BY <1>1
  <2>2. Preserves(seen, items, p, FixedMax) <=> \A i \in items : whole[FixedMax][i].success => whole[p][i].success
    <3>1. \A i \in items : whole[p][i] = seen[p][i] /\ whole[FixedMax][i] = seen[FixedMax][i]
      BY <1>1, <1>2, <1>14, <2>1
    <3> HIDE DEF whole, seen
    <3> QED
      BY <3>1 DEF Preserves
  <2> DEFINE peer == IF p = "integrated" THEN "integrated-K-off" ELSE "K-off"
  <2>3. "K" \in catalog[p].cost =>
          (Parity(seen, items, p) <=>
              \A i \in items : whole[p][i].output # None /\ whole[p][i].output = whole[peer][i].output)
    <3> SUFFICES ASSUME "K" \in catalog[p].cost
                 PROVE  Parity(seen, items, p) <=>
                          \A i \in items : whole[p][i].output # None /\ whole[p][i].output = whole[peer][i].output
      OBVIOUS
    <3>1. p \in DOMAIN ParityPeer
      BY <1>12, CatalogFacts
    <3>2. ParityPeer[p] = peer /\ peer \in run
      BY <1>1, <3>1 DEF ParityPeer
    <3>3. \A i \in items : whole[p][i] = seen[p][i] /\ whole[peer][i] = seen[peer][i]
      BY <1>1, <1>2, <1>14, <2>1, <3>2
    <3>4. {p, ParityPeer[p]} \subseteq DOMAIN seen
      BY <1>2, <2>1, <3>2
    <3> HIDE DEF whole, seen, peer
    <3> QED
      BY <3>1, <3>2, <3>3, <3>4 DEF Parity
  <2> HIDE DEF seen, catalog
  <2> QED
    BY <1>3, <2>2, <2>3 DEF Keeps, catalog
<1> HIDE DEF seen, totals
<1>17. Keeps(w, request, selected)
  BY <1>1, <1>3, <1>11, <1>16 DEF Survives
<1>18. ASSUME NEW p \in PolicyIds, catalog[p].eligible, Keeps(w, request, p),
              HardGate(totals[p], totals["Base"], request.objective)
       PROVE  ~Dominates(totals[p], totals[selected])
  <2>1. p \in run /\ totals[p] = aggregate[p] /\ totals["Base"] = aggregate["Base"] /\ totals[selected] = aggregate[selected]
    BY <1>1, <1>11, <1>15, <1>18
  <2>2. Survives(catalog, seen, items, p, request, aggregate)
    BY <1>3, <1>16, <1>18, <2>1 DEF Survives
  <2> QED
    BY <1>6, <1>11, <2>1, <2>2
<1>19. Undominated(w, request, selected)
  BY <1>3, <1>17, <1>18 DEF Undominated, totals, catalog
<1> QED
  BY <1>13, <1>19 DEF profile, seen

-----------------------------------------------------------------------------
(* The invariant.                                                          *)

(* A profile the compiler made for a host: whatever it selected, it copies *)
(* only what the host was qualified for.                                   *)
Made(profile) ==
  \E h \in Hosts : \E split, selected, policy, evidence :
    profile = ProfileOf(h, split, selected, policy, evidence)

(* A bundle: it verifies, its profile is the one that calibration selects  *)
(* for its request, the candidate a qualification would take from it is    *)
(* that profile, and so is one it deploys, which transfers.                *)
SoundBundle(w, dir) ==
  LET manifest == dir[Manifest] IN
  /\ Verifies(dir)
  /\ WellFormed(dir[Context])
  /\ Made(manifest.profile)
  /\ manifest.profile = Calibrated(w, dir[Context])
  /\ Undominated(w, dir[Context], manifest.profile.id)
  /\ manifest.stage = "compile" => dir[Candidate] = manifest.profile
  /\ manifest.qualified => /\ dir[Qualified] = manifest.profile
                           /\ Transfers(w, dir[Context], manifest.profile.id)

WellFormedJob(w, j) ==
  \/ j = Idle
  \/ \E pc \in {"check", "stage", "publish", "verify"}, out \in Paths : \E payloads :
       j = [pc |-> pc, out |-> out, payloads |-> payloads] /\ SoundBundle(w, payloads)

(* A bound profile loads, is the bound host's, and lends its plan only     *)
(* what it carries.                                                        *)
Bound(s) ==
  \E profile, h, k, hints :
    /\ s = [profile |-> profile, host |-> h, topK |-> k, hints |-> hints]
    /\ Made(profile) /\ Consistent(profile) /\ profile.qualification = h
    /\ hints.cache # "off" => hints.cache = profile.cache
    /\ hints.surface => profile.surface

BundlesIInv ==
  /\ world \in Worlds
  /\ host \in Hosts
  /\ DOMAIN dirs = Paths /\ dirs = [path \in Paths |-> dirs[path]]
  /\ \A path \in Paths : dirs[path] # NoDir => SoundBundle(world, dirs[path])
  /\ job = [p \in Procs |-> job[p]]
  /\ \A p \in Procs : WellFormedJob(world, job[p])
  /\ service = None \/ Bound(service)

-----------------------------------------------------------------------------
(* Bundles.                                                                *)

(* A profile that compiles is made for the host of its request.            *)
LEMMA CompiledIsMade ==
  ASSUME NEW request, NEW rows, request.host \in Hosts, CompileProfile(request, rows) # None
  PROVE  Made(CompileProfile(request, rows).profile)
BY DEF CompileProfile, Distill, Made

(* The manifest of a bundle names one of its files, nothing it adds hides  *)
(* a file, and the bundle verifies.                                        *)
LEMMA FinishedBundle ==
  ASSUME NEW stage, NEW qualified \in BOOLEAN, NEW name, NEW files,
         Manifest \notin DOMAIN files, ManifestDigest \notin DOMAIN files, name \in DOMAIN files,
         Consistent(files[name]),
         stage = "compile" => ~qualified,
         stage = "qualification" => (qualified <=> name = Qualified)
  PROVE  LET dir == FinishBundle(stage, qualified, name, files) IN
         /\ dir[Manifest].profile = files[name]
         /\ dir[Manifest].stage = stage
         /\ dir[Manifest].qualified <=> qualified
         /\ \A file \in DOMAIN files : dir[file] = files[file]
         /\ Verifies(dir)
<1> DEFINE manifest == [stage |-> stage, qualified |-> qualified, profileFile |-> name,
                        profile |-> files[name], selected |-> files[name].id, files |-> files]
           dir == FinishBundle(stage, qualified, name, files)
<1>1. /\ DOMAIN dir = DOMAIN files \cup {Manifest, ManifestDigest}
      /\ dir[Manifest] = manifest /\ dir[ManifestDigest] = manifest
      /\ \A file \in DOMAIN files : dir[file] = files[file]
  BY DEF FinishBundle
<1>2. /\ manifest.stage = stage /\ manifest.profileFile = name
      /\ manifest.profile = files[name] /\ manifest.selected = files[name].id /\ manifest.files = files
  OBVIOUS
<1>3. manifest.qualified = qualified
  OBVIOUS
<1> HIDE DEF dir, manifest
<1>4. Verifies(dir)
  BY <1>1, <1>2, <1>3 DEF Verifies, Loads
<1>5. dir[Manifest].qualified <=> qualified
  BY <1>1, <1>3, Zenon
<1> QED
  BY <1>1, <1>2, <1>4, <1>5 DEF dir

LEMMA CompileBundleIsSound ==
  ASSUME NEW w \in Worlds, NEW request, WellFormed(request), NEW flaw \in Flaws,
         CompileProfile(request, Measured(w, Run(request), request.calibration, flaw)) # None
  PROVE  SoundBundle(w, CompileBundle(request, CompileProfile(request, Measured(w, Run(request), request.calibration, flaw))))
<1> DEFINE result == CompileProfile(request, Measured(w, Run(request), request.calibration, flaw))
           seen == Measurements(w, Run(request), request.calibration)
<1>1. /\ result = Distill(request, seen) /\ result # None
      /\ Calibrated(w, request) = Distill(request, seen).profile
      /\ FixedMax \in Run(request)
  BY CompiledFromMeasurements
<1>2. Consistent(result.profile) /\ Undominated(w, request, result.profile.id)
  <2>1. Distill(request, seen) # None
    BY <1>1
  <2> HIDE DEF result
  <2> QED
    BY <1>1, <2>1, Distilled
<1>3. Made(result.profile)
  BY CompiledIsMade DEF WellFormed
<1> HIDE DEF result, seen
<1> DEFINE files == [name \in {Candidate, CalibrationReport, Context} |->
            CASE name = Candidate -> result.profile [] name = CalibrationReport -> result.report [] OTHER -> request]
           qualified == FALSE
           dir == CompileBundle(request, result)
<1>4. /\ Manifest \notin DOMAIN files /\ ManifestDigest \notin DOMAIN files
      /\ Candidate \in DOMAIN files /\ Context \in DOMAIN files
      /\ files[Candidate] = result.profile /\ files[Context] = request
  BY DEF Manifest, ManifestDigest, Candidate, CalibrationReport, Context
<1>5. dir = FinishBundle("compile", qualified, Candidate, files)
  BY DEF CompileBundle
<1>6. qualified \in BOOLEAN /\ ~qualified
  OBVIOUS
<1> HIDE DEF files, qualified, dir
<1>7. /\ dir[Manifest].profile = result.profile /\ ~dir[Manifest].qualified
      /\ dir[Candidate] = result.profile /\ dir[Context] = request /\ Verifies(dir)
  BY <1>2, <1>4, <1>5, <1>6, FinishedBundle
<1>8. SoundBundle(w, dir)
  BY <1>1, <1>2, <1>3, <1>7 DEF SoundBundle
<1> QED
  BY <1>8 DEF dir, result

(* A transfer that passes keeps every held-out success of the fixed        *)
(* maximum, and the limits.                                                *)
LEMMA TransferPasses ==
  ASSUME NEW w, NEW context, WellFormed(context), NEW profile, NEW flaw \in Flaws,
         LET ids == {context.baseline, context.fixedMax, profile.id}
             transfer == TransferReport(context, profile, Measured(w, ids, HeldOutItems, flaw))
         IN transfer # None /\ transfer.passed
  PROVE  Transfers(w, context, profile.id)
<1> DEFINE ids == {context.baseline, context.fixedMax, profile.id}
           items == HeldOutItems
           rows == Measured(w, ids, items, flaw)
           seen == Index(rows, ids, items)
           aggregate == [p \in ids |-> Aggregate(seen, items, p, context.baseline)]
           whole == Seen(w, items)
<1>1. context.heldOut = items
  BY DEF WellFormed
<1>2. /\ ids \subseteq PolicyIds /\ Indexable(rows, ids, items)
      /\ HardGate(aggregate[profile.id], aggregate[context.baseline], context.objective)
      /\ Preserves(seen, items, profile.id, context.fixedMax)
  <2> HIDE DEF rows
  <2> QED
    BY <1>1 DEF TransferReport, rows
<1>3. seen = Measurements(w, ids, items)
  BY <1>2, SplitAssumption, IndexedRows
<1>4. \A p \in ids, i \in items : seen[p][i] = whole[p][i]
  <2> HIDE DEF seen
  <2> QED
    BY <1>2, <1>3 DEF Measurements, Seen
<1> HIDE DEF seen, rows, whole
<1>5. \A i \in items : whole[context.fixedMax][i].success => whole[profile.id][i].success
  BY <1>2, <1>4 DEF Preserves
<1>6. ASSUME NEW h \in Harms
      PROVE  Cardinality({i \in items : h \in whole[profile.id][i].harms \ whole[context.baseline][i].harms})
             <= context.objective.newHarm[h]
  <2>1. aggregate[profile.id].newHarm[h] <= context.objective.newHarm[h]
    BY <1>2 DEF HardGate
  <2>2. aggregate[profile.id].newHarm[h] =
          Cardinality({i \in items : h \in seen[profile.id][i].harms \ seen[context.baseline][i].harms})
    BY DEF Aggregate
  <2>3. {i \in items : h \in seen[profile.id][i].harms \ seen[context.baseline][i].harms}
        = {i \in items : h \in whole[profile.id][i].harms \ whole[context.baseline][i].harms}
    BY <1>4
  <2> HIDE DEF aggregate
  <2> QED
    BY <2>1, <2>2, <2>3
<1> QED
  BY <1>1, <1>5, <1>6 DEF Transfers, whole

LEMMA QualificationBundleIsSound ==
  ASSUME NEW w \in Worlds, NEW dir, SoundBundle(w, dir), dir[Manifest].stage = "compile", NEW flaw \in Flaws,
         LET ids == {dir[Context].baseline, dir[Context].fixedMax, dir[Candidate].id}
         IN TransferReport(dir[Context], dir[Candidate], Measured(w, ids, HeldOutItems, flaw)) # None,
         Consistent(dir[Candidate])
  PROVE  LET ids == {dir[Context].baseline, dir[Context].fixedMax, dir[Candidate].id}
         IN SoundBundle(w, QualificationBundle(dir,
                TransferReport(dir[Context], dir[Candidate], Measured(w, ids, HeldOutItems, flaw))))
<1> DEFINE ids == {dir[Context].baseline, dir[Context].fixedMax, dir[Candidate].id}
           transfer == TransferReport(dir[Context], dir[Candidate], Measured(w, ids, HeldOutItems, flaw))
           name == IF transfer.passed THEN Qualified ELSE Candidate
           files == QualifiedFiles(dir, name, transfer)
           new == QualificationBundle(dir, transfer)
<1>1. /\ WellFormed(dir[Context]) /\ Made(dir[Candidate]) /\ dir[Candidate] = Calibrated(w, dir[Context])
      /\ Undominated(w, dir[Context], dir[Candidate].id)
  BY DEF SoundBundle
<1>2. transfer.passed => Transfers(w, dir[Context], dir[Candidate].id)
  BY <1>1, TransferPasses
<1>3. transfer.passed \in BOOLEAN
  BY DEF TransferReport
<1> HIDE DEF transfer
<1>4. /\ Manifest \notin DOMAIN files /\ ManifestDigest \notin DOMAIN files
      /\ name \in DOMAIN files /\ Context \in DOMAIN files
      /\ files[name] = dir[Candidate] /\ files[Context] = dir[Context]
  BY DEF QualifiedFiles, Manifest, ManifestDigest, Candidate, Qualified, CalibrationReport, Context, HeldOutReport
<1>5. new = FinishBundle("qualification", transfer.passed, name, files)
  BY DEF QualificationBundle
<1>6. transfer.passed <=> name = Qualified
  BY DEF Qualified, Candidate
<1> HIDE DEF files, name, new
<1>7. /\ new[Manifest].profile = dir[Candidate] /\ new[Manifest].stage = "qualification"
      /\ new[Manifest].qualified <=> transfer.passed
      /\ new[name] = dir[Candidate] /\ new[Context] = dir[Context] /\ Verifies(new)
  BY <1>3, <1>4, <1>5, <1>6, FinishedBundle
<1>8. SoundBundle(w, new)
  BY <1>1, <1>2, <1>6, <1>7 DEF SoundBundle
<1> QED
  BY <1>8 DEF new, transfer

-----------------------------------------------------------------------------
(* The steps.                                                              *)

(* A command under way keeps its payloads until it ends.                   *)
LEMMA JobSteps ==
  ASSUME job = [p \in Procs |-> job[p]], \A p \in Procs : WellFormedJob(world, job[p]), NEW p \in Procs,
         \/ Exit(p)
         \/ job[p].pc # "idle" /\ \E pc \in {"check", "stage", "publish", "verify"} : Goto(p, pc)
         \/ \E out \in Paths : \E payloads : SoundBundle(world, payloads) /\ job' = [job EXCEPT ![p] = Writing(out, payloads)]
  PROVE  job' = [q \in Procs |-> job'[q]] /\ \A q \in Procs : WellFormedJob(world, job'[q])
<1>1. PICK j : job' = [job EXCEPT ![p] = j] /\ WellFormedJob(world, j)
  <2>1. CASE Exit(p)
    BY <2>1 DEF Exit, WellFormedJob
  <2>2. ASSUME job[p].pc # "idle", NEW pc \in {"check", "stage", "publish", "verify"}, Goto(p, pc)
        PROVE  \E j : job' = [job EXCEPT ![p] = j] /\ WellFormedJob(world, j)
    <3>0. PICK old \in {"check", "stage", "publish", "verify"}, out \in Paths : \E payloads :
            job[p] = [pc |-> old, out |-> out, payloads |-> payloads] /\ SoundBundle(world, payloads)
      BY <2>2 DEF WellFormedJob, Idle
    <3>1. PICK payloads : job[p] = [pc |-> old, out |-> out, payloads |-> payloads] /\ SoundBundle(world, payloads)
      BY <3>0
    <3>2. [job[p] EXCEPT !.pc = pc] = [pc |-> pc, out |-> out, payloads |-> payloads]
      BY <3>1
    <3>3. job' = [job EXCEPT ![p] = [job[p] EXCEPT !.pc = pc]]
      BY <2>2 DEF Goto
    <3>4. WellFormedJob(world, [pc |-> pc, out |-> out, payloads |-> payloads])
      BY <3>1 DEF WellFormedJob
    <3> QED
      BY <3>2, <3>3, <3>4
  <2>3. ASSUME NEW out \in Paths, NEW payloads, SoundBundle(world, payloads),
               job' = [job EXCEPT ![p] = Writing(out, payloads)]
        PROVE  \E j : job' = [job EXCEPT ![p] = j] /\ WellFormedJob(world, j)
    BY <2>3 DEF Writing, WellFormedJob
  <2> QED
    BY <2>1, <2>2, <2>3
<1> QED
  BY <1>1

(* Compiling and qualifying prepare sound bundles.                         *)
LEMMA CompileKeeps ==
  ASSUME BundlesIInv, NEW p \in Procs, NEW objective \in Objectives, NEW out \in CompilePaths,
         NEW flaw \in Flaws, Compile(p, objective, out, flaw)
  PROVE  BundlesIInv'
<1> DEFINE request == Request(objective)
           result == CompileProfile(request, Measured(world, Run(request), request.calibration, flaw))
<1>1. UNCHANGED <<world, host, dirs, service>>
  BY DEF Compile, Rest
<1>2. /\ WellFormed(request) /\ request.host = host /\ request.calibration = CalibrationItems
      /\ Run(request) = Executed(Catalog(host), request.baseline)
  BY DEF Request, WellFormed, Run, BundlesIInv
<1>3. Exit(p) \/ (result # None /\ job' = [job EXCEPT ![p] = Writing(out, CompileBundle(request, result))])
  <2> DEFINE made == CompileProfile(Request(objective), Measured(world, Executed(Catalog(host), Request(objective).baseline), CalibrationItems, flaw))
  <2>1. Exit(p) \/ (made # None /\ job' = [job EXCEPT ![p] = Writing(out, CompileBundle(Request(objective), made))])
    BY Zenon DEF Compile
  <2>2. result = made
    BY <1>2
  <2> HIDE DEF made, result
  <2> QED
    BY <2>1, <2>2
<1>4. result # None => SoundBundle(world, CompileBundle(request, result))
  <2> HIDE DEF request
  <2> QED
    BY <1>2, CompileBundleIsSound DEF BundlesIInv
<1> HIDE DEF request, result
<1>5. Exit(p) \/ \E payloads : SoundBundle(world, payloads) /\ job' = [job EXCEPT ![p] = Writing(out, payloads)]
  BY <1>3, <1>4
<1>6. job' = [q \in Procs |-> job'[q]] /\ \A q \in Procs : WellFormedJob(world, job'[q])
  BY <1>5, JobSteps DEF BundlesIInv, Paths
<1> QED
  BY <1>1, <1>6 DEF BundlesIInv

LEMMA QualifyKeeps ==
  ASSUME BundlesIInv, NEW p \in Procs, NEW from \in Paths, NEW out \in QualifyPaths,
         NEW flaw \in Flaws, Qualify(p, from, out, flaw)
  PROVE  BundlesIInv'
<1> DEFINE dir == dirs[from]
           ids == {dir[Context].baseline, dir[Context].fixedMax, dir[Candidate].id}
           transfer == TransferReport(dir[Context], dir[Candidate], Measured(world, ids, HeldOutItems, flaw))
<1>1. UNCHANGED <<world, host, dirs, service>> /\ dir # NoDir
  BY DEF Qualify, Rest
<1>2. \/ Exit(p)
      \/ /\ transfer # None /\ dir[Manifest].stage = "compile" /\ Consistent(dir[Candidate])
         /\ job' = [job EXCEPT ![p] = Writing(out, QualificationBundle(dir, transfer))]
  BY DEF Qualify, Loads
<1>3. SoundBundle(world, dir)
  BY <1>1 DEF BundlesIInv
<1>4. transfer # None /\ dir[Manifest].stage = "compile" /\ Consistent(dir[Candidate])
      => SoundBundle(world, QualificationBundle(dir, transfer))
  <2> HIDE DEF dir
  <2> QED
    BY <1>3, QualificationBundleIsSound DEF BundlesIInv
<1> HIDE DEF dir, transfer
<1>5. Exit(p) \/ \E payloads : SoundBundle(world, payloads) /\ job' = [job EXCEPT ![p] = Writing(out, payloads)]
  BY <1>2, <1>4
<1>6. job' = [q \in Procs |-> job'[q]] /\ \A q \in Procs : WellFormedJob(world, job'[q])
  BY <1>5, JobSteps DEF BundlesIInv, Paths
<1> QED
  BY <1>1, <1>6 DEF BundlesIInv

(* Writing publishes what was prepared.                                    *)
LEMMA WritingKeeps ==
  ASSUME BundlesIInv, NEW p \in Procs, Check(p) \/ Stage(p) \/ Publish(p) \/ Verify(p) \/ Crash(p)
  PROVE  BundlesIInv'
<1>1. UNCHANGED <<world, host, service>> /\ job[p].pc # "idle"
  BY DEF Check, Stage, Publish, Verify, Crash, Rest
<1>0. PICK pc \in {"check", "stage", "publish", "verify"}, out \in Paths : \E payloads :
        job[p] = [pc |-> pc, out |-> out, payloads |-> payloads] /\ SoundBundle(world, payloads)
  BY <1>1 DEF BundlesIInv, WellFormedJob, Idle
<1>2. PICK payloads : job[p] = [pc |-> pc, out |-> out, payloads |-> payloads] /\ SoundBundle(world, payloads)
  BY <1>0
<1>3. Exit(p) \/ \E to \in {"check", "stage", "publish", "verify"} : Goto(p, to)
  BY DEF Check, Stage, Publish, Verify, Crash
<1>4. dirs' = dirs \/ dirs' = [dirs EXCEPT ![out] = payloads]
  BY <1>2 DEF Check, Stage, Publish, Verify, Crash
<1>5. job' = [q \in Procs |-> job'[q]] /\ \A q \in Procs : WellFormedJob(world, job'[q])
  BY <1>1, <1>3, JobSteps DEF BundlesIInv
<1>6. /\ DOMAIN dirs' = Paths /\ dirs' = [path \in Paths |-> dirs'[path]]
      /\ \A path \in Paths : dirs'[path] # NoDir => SoundBundle(world, dirs'[path])
  BY <1>2, <1>4 DEF BundlesIInv
<1> QED
  BY <1>1, <1>5, <1>6 DEF BundlesIInv

(* Binding a profile checks it against the host; a plan hands on what the  *)
(* profile carries.                                                        *)
LEMMA PrepareKeeps ==
  ASSUME BundlesIInv, NEW path \in Paths, NEW contract \in BOOLEAN, NEW corpus \in BOOLEAN,
         Prepare(path, contract, corpus)
  PROVE  BundlesIInv'
<1> DEFINE profile == dirs[path][Manifest].profile
<1>1. /\ UNCHANGED <<world, host, dirs, job>>
      /\ Honors(profile)
      /\ dirs[path] # NoDir
      /\ \E k : service' = [profile |-> profile, host |-> host, topK |-> k, hints |-> NoHints]
  BY DEF Prepare
<1>2. Made(profile)
  BY <1>1 DEF BundlesIInv, SoundBundle
<1>3. Consistent(profile) /\ profile.qualification = host
  BY <1>1 DEF Honors, Loads
<1>4. NoHints.cache = "off" /\ ~NoHints.surface
  BY DEF NoHints
<1>5. Bound(service')
  BY <1>1, <1>2, <1>3, <1>4 DEF Bound
<1> QED
  BY <1>1, <1>5 DEF BundlesIInv

LEMMA PlanKeeps ==
  ASSUME BundlesIInv, NEW evidencePath \in BOOLEAN, NEW query \in BOOLEAN, NEW fit \in BOOLEAN,
         NEW generation \in BOOLEAN, NEW eligible \in BOOLEAN,
         Plan(evidencePath, query, fit, generation, eligible)
  PROVE  BundlesIInv'
<1>1. UNCHANGED <<world, host, dirs, job>> /\ service # None
  BY DEF Plan
<1>2. PICK profile, h, k, hints :
        /\ service = [profile |-> profile, host |-> h, topK |-> k, hints |-> hints]
        /\ Made(profile) /\ Consistent(profile) /\ profile.qualification = h
  BY <1>1 DEF BundlesIInv, Bound
<1> DEFINE gh == generation /\ {"G", "H"} \subseteq profile.policy.model
           cached == generation /\ eligible
           new == [typed |-> generation /\ "G" \in profile.policy.model,
                   surface |-> gh /\ profile.surface, gxh |-> gh /\ profile.gxh,
                   cache |-> IF cached THEN profile.cache ELSE "off", parity |-> cached /\ profile.parity]
<1>3. /\ service' = [service EXCEPT !.hints = new]
      /\ new.cache # "off" => new.cache = profile.cache
      /\ new.surface => profile.surface
  <2>1. service.profile = profile
    BY <1>2
  <2>2. service' = [service EXCEPT !.hints = new]
    BY <2>1, Zenon DEF Plan
  <2>3. new.cache = IF cached THEN profile.cache ELSE "off"
    OBVIOUS
  <2>4. new.surface => profile.surface
    OBVIOUS
  <2> QED
    BY <2>2, <2>3, <2>4
<1> HIDE DEF new
<1>4. service' = [profile |-> profile, host |-> h, topK |-> k, hints |-> new]
  BY <1>2, <1>3
<1>5. Bound(service')
  BY <1>2, <1>3, <1>4 DEF Bound
<1> QED
  BY <1>1, <1>5 DEF BundlesIInv

-----------------------------------------------------------------------------
(* The theorems.                                                           *)

(* What a bound profile carries, its host was qualified for.               *)
LEMMA BoundWithinQualification == BundlesIInv => HintsWithinQualification
<1> SUFFICES ASSUME BundlesIInv, service # None
             PROVE  /\ service.hints.cache # "off" => service.host.parity /\ service.host.cache = service.hints.cache
                    /\ service.hints.surface => HasGH(service.host)
                    /\ service.profile.fit => service.host.fit
  BY DEF HintsWithinQualification
<1>1. PICK profile, h, k, hints :
        /\ service = [profile |-> profile, host |-> h, topK |-> k, hints |-> hints]
        /\ Made(profile) /\ Consistent(profile) /\ profile.qualification = h
        /\ hints.cache # "off" => hints.cache = profile.cache
        /\ hints.surface => profile.surface
  BY DEF BundlesIInv, Bound
<1>2. service.profile = profile /\ service.host = h /\ service.hints = hints
  BY <1>1
<1>0. PICK g \in Hosts : \E split, selected, policy, evidence :
        profile = ProfileOf(g, split, selected, policy, evidence)
  BY <1>1 DEF Made
<1>3. PICK split, selected, policy, evidence : profile = ProfileOf(g, split, selected, policy, evidence)
  BY <1>0
<1>4. g = h /\ HostOK(h)
  BY <1>1, <1>3, HostsAssumption DEF ProfileOf
<1>5. profile.cache # "off" => profile.cache = h.cache /\ h.parity
  BY <1>1, <1>3, <1>4 DEF ProfileOf, Consistent
<1>6. profile.surface => HasGH(h)
  BY <1>1, <1>3, <1>4 DEF ProfileOf, Consistent, HostOK, HasGH
<1>7. profile.fit => h.fit
  BY <1>3, <1>4 DEF ProfileOf
<1> QED
  BY <1>1, <1>2, <1>5, <1>6, <1>7

(* With nothing published there is nothing to bind.                        *)
LEMMA InitBundles == Init => BundlesIInv
BY DEF Init, BundlesIInv, WellFormedJob

(* Every step keeps the invariant.                                         *)
LEMMA BundlesStep == BundlesIInv /\ [Next]_vars => BundlesIInv'
<1> SUFFICES ASSUME BundlesIInv, [Next]_vars PROVE BundlesIInv'
  OBVIOUS
<1>1. CASE Drift
  BY <1>1 DEF Drift, BundlesIInv
<1>2. CASE UNCHANGED vars
  BY <1>2 DEF vars, BundlesIInv
<1> QED
  BY <1>1, <1>2, CompileKeeps, QualifyKeeps, WritingKeeps, PrepareKeeps, PlanKeeps DEF Next

(* Whatever processes die or meet at one output, a bundle that exists is   *)
(* complete and verifies, and so does the one each command prepares.       *)
THEOREM BundlesVerify == Spec => []PublishedVerifies
<1>1. Init => BundlesIInv
  BY InitBundles
<1>2. BundlesIInv => PublishedVerifies
  BY DEF BundlesIInv, Published, PublishedVerifies, SoundBundle
<1> QED
  BY <1>1, <1>2, BundlesStep, PTL DEF Spec

(* The policy a published profile selects keeps every calibration success  *)
(* of the fixed maximum, answers with prefix reuse exactly as without it,  *)
(* and no policy of the whole catalog that is as good dominates it.        *)
THEOREM SelectsUndominated == Spec => []SelectionIsUndominated
<1>1. Init => BundlesIInv
  BY InitBundles
<1>2. BundlesIInv => SelectionIsUndominated
  BY DEF BundlesIInv, Published, SelectionIsUndominated, SoundBundle
<1> QED
  BY <1>1, <1>2, BundlesStep, PTL DEF Spec

(* A bundle marked for deployment carries the profile that calibration     *)
(* alone selects, and that profile keeps every held-out success of the     *)
(* fixed maximum within the safety limits.                                 *)
THEOREM DeploysWhatTransfers == Spec => []QualifiedProfileTransfers
<1>1. Init => BundlesIInv
  BY InitBundles
<1>2. BundlesIInv => QualifiedProfileTransfers
  <2> SUFFICES ASSUME BundlesIInv, NEW path \in Published, dirs[path][Manifest].qualified
               PROVE  /\ dirs[path][Qualified] = Calibrated(world, dirs[path][Context])
                      /\ Transfers(world, dirs[path][Context], dirs[path][Qualified].id)
    BY DEF QualifiedProfileTransfers
  <2>1. SoundBundle(world, dirs[path])
    BY DEF BundlesIInv, Published
  <2> QED
    BY <2>1 DEF SoundBundle
<1> QED
  BY <1>1, <1>2, BundlesStep, PTL DEF Spec

(* The hints a plan gives the host ask for a constrained surface or for    *)
(* prefix reuse only if the host, as it stood when the profile was bound,  *)
(* was qualified for them, whichever bundle the profile came from.         *)
THEOREM PlansStayWithinQualification == Spec => []HintsWithinQualification
<1>1. Init => BundlesIInv
  BY InitBundles
<1> QED
  BY <1>1, BundlesStep, BoundWithinQualification, PTL DEF Spec

(* No command writes a bundle that is published, by whichever of two       *)
(* commands meet at an output, retries or die; that a command reads a whole *)
(* bundle in one step rests on this.                                       *)
THEOREM BundlesAreFinal == Spec => PublishedNeverChanges
<1>1. BundlesIInv /\ [Next]_vars => [\A path \in Published : dirs'[path] = dirs[path]]_vars
  <2> SUFFICES ASSUME BundlesIInv, Next PROVE \A path \in Published : dirs'[path] = dirs[path]
    BY DEF Published, vars
  <2>1. ASSUME NEW p \in Procs, Publish(p) PROVE \A path \in Published : dirs'[path] = dirs[path]
    BY <2>1 DEF Publish, Published, BundlesIInv
  <2>2. CASE dirs' = dirs
    BY <2>2
  <2> QED
    BY <2>1, <2>2 DEF Next, Compile, Qualify, Check, Stage, Verify, Crash, Drift, Prepare, Plan
<1>2. Init => BundlesIInv
  BY InitBundles
<1> QED
  BY <1>1, <1>2, BundlesStep, PTL DEF Spec, PublishedNeverChanges
=============================================================================
