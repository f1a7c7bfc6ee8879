----------------------- MODULE PredictionService_proofs -----------------------
(***************************************************************************)
(* What the incremental reading of telemetry guarantees, for any workers,  *)
(* snapshots, capacity, freshness and horizon: the first part rests on the *)
(* order of the records, whatever a forecast is calculated to be, the part *)
(* about the forecast on the arithmetic of the projection.                 *)
(***************************************************************************)
EXTENDS PredictionService, FiniteSetTheorems, TLAPS

Increases(s) == \A i, j \in 1 .. Len(s) : i < j => s[i].time < s[j].time

\* Telemetry: the records are in the order of their times.
CollectingInv ==
    /\ collecting \in [time : Nat, snapshot : Snapshots \cup {NoSnapshot},
                       todo : SUBSET GPUs, worker : GPUs \cup {""}, left : Nat]
    /\ collecting.todo \subseteq DOMAIN collecting.snapshot
    /\ collecting.left > 0 => collecting.worker \in DOMAIN collecting.snapshot

RecordsInv ==
    /\ now \in Nat
    /\ CollectingInv
    /\ collecting.time <= now
    /\ records \in Seq(RecordType)
    /\ \A i, j \in 1 .. Len(records) : i < j => records[i].time <= records[j].time
    /\ \A i \in 1 .. Len(records) : records[i].time <= collecting.time

\* Histories: those of h are made from the first n records.
FromRecords(h, n) ==
    \A w \in DOMAIN h : \A i \in 1 .. Len(h[w]) :
        \E j \in 1 .. n : records[j] = h[w][i] /\ records[j].worker = w

\* The time t is in s, or forgotten.
Covers(s, t) ==
    \/ \E i \in 1 .. Len(s) : s[i].time = t
    \/ Len(s) = HistoryCapacity /\ \A i \in 1 .. Len(s) : t < s[i].time

CoversRecords(h, n) ==
    \A j \in 1 .. n :
        records[j].worker \in DOMAIN h /\ Covers(h[records[j].worker], records[j].time)

WellFormed(s) ==
    s \in Seq(RecordType) /\ s # <<>> /\ Len(s) <= HistoryCapacity /\ Increases(s)

HistoriesOf(h, n) ==
    /\ DOMAIN h \subseteq GPUs
    /\ \A w \in DOMAIN h : WellFormed(h[w])
    /\ FromRecords(h, n)
    /\ CoversRecords(h, n)

HistoryInv == processed \in 0 .. Len(records) /\ HistoriesOf(history, processed)

PassInv ==
    /\ predicting \in [at : {"idle", "adding", "forecasting"}, upto : Nat,
                       todo : SUBSET GPUs]
    /\ predicting.at = "adding" => predicting.upto \in processed .. Len(records)
    /\ predicting.todo \subseteq DOMAIN history

ResultsInv ==
    /\ DOMAIN results \subseteq DOMAIN history
    /\ \A w \in DOMAIN results :
          /\ results[w].basis \in Nat /\ results[w].basis <= Last(history[w]).time
          /\ results[w].generated \in Nat /\ results[w].generated <= now

DecisionInv ==
    \/ decision = NoDecision
    \/ /\ decision.worker \in DOMAIN results
       /\ decision.basis <= results[decision.worker].basis
       /\ decision.generated <= results[decision.worker].generated
       /\ decision.basis \in Nat /\ decision.generated \in Nat

PipelineInv == RecordsInv /\ HistoryInv /\ PassInv /\ ResultsInv /\ DecisionInv
-----------------------------------------------------------------------------
(***************************************************************************)
(* Sequences.                                                              *)
(***************************************************************************)
\* The last element of a history is its latest.
LEMMA LastIsLatest ==
    ASSUME NEW s, WellFormed(s)
    PROVE  /\ Len(s) \in Nat \ {0}
           /\ Last(s) = s[Len(s)]
           /\ Last(s).time \in Nat
           /\ \A i \in 1 .. Len(s) : s[i].time <= Last(s).time
<1>1. s \in Seq(RecordType) /\ s # <<>>
  BY DEF WellFormed
<1>2. Len(s) \in Nat \ {0}
  BY <1>1
<1>3. Last(s) = s[Len(s)]
  BY DEF Last
<1>4. \A i \in 1 .. Len(s) : s[i] \in RecordType
  BY <1>1
<1>5. \A i \in 1 .. Len(s) : s[i].time \in Nat
  BY <1>4 DEF RecordType
<1>6. ASSUME NEW i \in 1 .. Len(s)
      PROVE  s[i].time <= s[Len(s)].time
  <2>1. CASE i = Len(s)
    BY <2>1, <1>5, <1>2
  <2>2. CASE i < Len(s)
    BY <2>2, <1>5, <1>2 DEF WellFormed, Increases
  <2> QED
    BY <2>1, <2>2, <1>2
<1> QED
  BY <1>2, <1>3, <1>5, <1>6

\* Appending a later record and truncating keeps a history well formed, drops
\* only the oldest record of a full one, and brings in nothing else.
LEMMA TruncatedAppend ==
    ASSUME NEW s \in Seq(RecordType), Len(s) <= HistoryCapacity, Increases(s),
           NEW r \in RecordType, \A i \in 1 .. Len(s) : s[i].time < r.time,
           NEW new, new = Truncated(Append(s, r))
    PROVE  /\ WellFormed(new)
           /\ Last(new) = r
           /\ \A i \in 1 .. Len(new) : new[i] = r \/ \E j \in 1 .. Len(s) : new[i] = s[j]
           /\ \E i \in 1 .. Len(new) : new[i] = r
           /\ \A t \in Nat : Covers(s, t) => Covers(new, t)
<1> DEFINE n == Len(s)
           a == Append(s, r)
<1>1. n \in Nat /\ HistoryCapacity \in Nat /\ HistoryCapacity >= 3
  BY PredictionAssumption
<1>2. /\ a \in Seq(RecordType) /\ Len(a) = n + 1
      /\ a[n + 1] = r /\ \A i \in 1 .. n : a[i] = s[i]
  OBVIOUS
<1>3. /\ \A i \in 1 .. n : s[i].time \in Nat
      /\ r.time \in Nat
  <2>1. \A i \in 1 .. n : s[i] \in RecordType
    OBVIOUS
  <2>2. \A x \in RecordType : x.time \in Nat
    BY DEF RecordType
  <2>3. \A i \in 1 .. n : s[i].time \in Nat
    BY <2>1, <2>2
  <2>4. r.time \in Nat
    BY <2>2
  <2> QED
    BY <2>3, <2>4
<1>4. CASE n < HistoryCapacity
  <2>1. new = a
    BY <1>1, <1>2, <1>4 DEF Truncated
  <2> HIDE DEF a, n
  <2>2. Len(new) = n + 1 /\ \A i \in 1 .. n : new[i] = s[i]
    BY <2>1, <1>2
  <2>3. Increases(new)
    <3>1. SUFFICES ASSUME NEW i \in 1 .. n + 1, NEW j \in 1 .. n + 1, i < j
                   PROVE  new[i].time < new[j].time
      BY <2>2 DEF Increases
    <3>2. i \in 1 .. n /\ new[i] = s[i]
      BY <3>1, <2>2, <1>1
    <3>3. CASE j = n + 1
      BY <3>2, <3>3, <2>1, <1>2 DEF n
    <3>4. CASE j \in 1 .. n
      BY <3>1, <3>2, <3>4, <2>2 DEF Increases, n
    <3> QED
      BY <3>3, <3>4, <1>1
  <2>4. WellFormed(new)
    BY <2>1, <2>3, <1>1, <1>2, <1>4 DEF WellFormed
  <2>5. Last(new) = r
    BY <2>1, <1>2 DEF Last
  <2>6. \A i \in 1 .. Len(new) : new[i] = r \/ \E j \in 1 .. Len(s) : new[i] = s[j]
    BY <2>1, <1>1, <1>2 DEF n
  <2>7. \E i \in 1 .. Len(new) : new[i] = r
    BY <2>1, <1>1, <1>2
  <2>8. \A t \in Nat : Covers(s, t) => Covers(new, t)
    BY <2>2, <1>1, <1>4 DEF Covers, n
  <2> QED
    BY <2>4, <2>5, <2>6, <2>7, <2>8
<1>5. CASE n = HistoryCapacity
  <2>1. new = Tail(a)
    BY <1>1, <1>2, <1>5 DEF Truncated
  <2>2. /\ new \in Seq(RecordType) /\ Len(new) = n
        /\ \A i \in 1 .. n : new[i] = a[i + 1]
    BY <2>1, <1>1, <1>2
  <2> HIDE DEF a
  <2>3. new[n] = r /\ \A i \in 1 .. n - 1 : new[i] = s[i + 1]
    BY <2>2, <1>1, <1>2, <1>5
  <2>4. Increases(new)
    <3>1. SUFFICES ASSUME NEW i \in 1 .. n, NEW j \in 1 .. n, i < j
                   PROVE  new[i].time < new[j].time
      BY <2>2 DEF Increases
    <3>2. new[i] = s[i + 1] /\ i + 1 \in 1 .. n
      BY <3>1, <2>3, <1>1
    <3>3. CASE j = n
      BY <3>2, <3>3, <2>3
    <3>4. CASE j < n
      <4>1. new[j] = s[j + 1] /\ j + 1 \in 1 .. n /\ i + 1 < j + 1
        BY <3>1, <3>4, <2>3, <1>1
      <4> QED
        BY <4>1, <3>2 DEF Increases
    <3> QED
      BY <3>3, <3>4, <1>1
  <2>5. WellFormed(new)
    BY <2>2, <2>4, <1>1, <1>5 DEF WellFormed
  <2>6. Last(new) = r
    BY <2>2, <2>3 DEF Last
  <2>7. ASSUME NEW i \in 1 .. n
        PROVE  new[i] = r \/ \E j \in 1 .. n : new[i] = s[j]
    <3>1. CASE i = n
      BY <3>1, <2>3
    <3>2. CASE i < n
      <4>1. i \in 1 .. n - 1 /\ i + 1 \in 1 .. n
        BY <3>2, <1>1
      <4> QED
        BY <4>1, <2>3
    <3> QED
      BY <3>1, <3>2, <1>1
  <2>8. \E i \in 1 .. Len(new) : new[i] = r
    BY <2>2, <2>3, <1>1, <1>5
  <2>9. ASSUME NEW t \in Nat, Covers(s, t)
        PROVE  Covers(new, t)
    \* The first time of s is before every time of new.
    <3>1. \A i \in 1 .. n : s[1].time < new[i].time
      <4>1. TAKE i \in 1 .. n
      <4>2. CASE i = n
        BY <4>2, <2>3, <1>1, <1>5
      <4>3. CASE i < n
        <5>1. i \in 1 .. n - 1 /\ i + 1 \in 1 .. n /\ 1 \in 1 .. n /\ 1 < i + 1
          BY <4>3, <1>1
        <5> QED
          BY <5>1, <2>3 DEF Increases
      <4> QED
        BY <4>2, <4>3, <1>1
    <3>2. \A i \in 1 .. n : new[i].time \in Nat
      <4>1. \A i \in 1 .. n : new[i] \in RecordType
        BY <2>2
      <4> QED
        BY <4>1 DEF RecordType
    <3>3. s[1].time \in Nat
      BY <1>1, <1>3, <1>5
    <3>4. CASE \E i \in 1 .. n : s[i].time = t
      <4>1. PICK i \in 1 .. n : s[i].time = t
        BY <3>4
      <4>2. CASE i = 1
        BY <4>1, <4>2, <3>1, <2>2, <1>5 DEF Covers
      <4>3. CASE i > 1
        <5>1. i - 1 \in 1 .. n - 1 /\ i - 1 \in 1 .. n /\ (i - 1) + 1 = i
          BY <4>3, <1>1
        <5>2. new[i - 1] = s[i]
          BY <5>1, <2>3
        <5> QED
          BY <5>1, <5>2, <4>1, <2>2 DEF Covers
      <4> QED
        BY <4>2, <4>3, <1>1
    <3>5. CASE \A i \in 1 .. n : t < s[i].time
      <4>1. t < s[1].time
        BY <3>5, <1>1, <1>5
      <4>2. \A i \in 1 .. n : t < new[i].time
        BY <4>1, <3>1, <3>2, <3>3
      <4> QED
        BY <4>2, <2>2, <1>5 DEF Covers
    <3> QED
      BY <2>9, <3>4, <3>5 DEF Covers
  <2> QED
    BY <2>2, <2>5, <2>6, <2>7, <2>8, <2>9
<1> QED
  BY <1>1, <1>4, <1>5
-----------------------------------------------------------------------------
(***************************************************************************)
(* The forecast.  A quotient is rounded down, so that x \div k is the only *)
(* whole number whose multiple of k is within k below x.                   *)
(***************************************************************************)
LEMMA RoundedDown ==
    ASSUME NEW x \in Int, NEW k \in Nat \ {0}
    PROVE  /\ x \div k \in Int
           /\ (x \div k) * k <= x /\ x < (x \div k) * k + k
OBVIOUS

LEMMA AtMostQuotient ==
    ASSUME NEW x \in Int, NEW k \in Nat \ {0}, NEW q \in Int, q * k <= x
    PROVE  q <= x \div k
OBVIOUS

LEMMA AtLeastQuotient ==
    ASSUME NEW x \in Int, NEW k \in Nat \ {0}, NEW q \in Int, x < q * k + k
    PROVE  x \div k <= q
OBVIOUS

\* The mean of two rates, over the horizon, lies between the two.
LEMMA MeanRateBetween ==
    ASSUME NEW d1 \in Int, NEW d2 \in Int, NEW i1 \in Nat \ {0}, NEW i2 \in Nat \ {0},
           NEW a \in Int, a = (Horizon * d1) \div i1,
           NEW b \in Int, b = (Horizon * d2) \div i2,
           NEW q \in Int, q = (Horizon * (d1 * i2 + d2 * i1)) \div (2 * i1 * i2)
    PROVE  \/ a <= q /\ q <= b
           \/ b <= q /\ q <= a
<1> DEFINE x == Horizon * d1
           y == Horizon * d2
           k == i1 * i2
<1>1. Horizon \in Nat
  BY HorizonAssumption
<1>2. x \in Int /\ y \in Int
  BY <1>1
<1>3. k \in Nat \ {0}
  OBVIOUS
<1>4. Horizon * (d1 * i2 + d2 * i1) = x * i2 + y * i1
  BY <1>1
<1>5. a * i1 <= x /\ x < a * i1 + i1
  BY <1>2, RoundedDown
<1>6. b * i2 <= y /\ y < b * i2 + i2
  BY <1>2, RoundedDown
<1> HIDE DEF x, y
<1>7. a * k <= x * i2 /\ x * i2 < a * k + k
  BY <1>2, <1>5
<1>8. b * k <= y * i1 /\ y * i1 < b * k + k
  BY <1>2, <1>6
<1> HIDE DEF k
<1> DEFINE z == x * i2 + y * i1
<1>9. z \in Int /\ 2 * k \in Nat \ {0}
  BY <1>2, <1>3
<1>10. q = z \div (2 * k)
  <2>1. 2 * i1 * i2 = 2 * k
    BY DEF k
  <2> QED
    BY <1>4, <2>1
<1>11. /\ a * k + b * k <= z /\ z < a * k + b * k + 2 * k
  <2>1. x * i2 \in Int /\ y * i1 \in Int /\ a * k \in Int /\ b * k \in Int
    BY <1>2, <1>3
  <2> QED
    BY <1>3, <1>7, <1>8, <2>1
<1> HIDE DEF z
<1>12. CASE a <= b
  <2>1. a * k <= b * k
    BY <1>3, <1>12
  <2>2. a * (2 * k) <= z /\ z < b * (2 * k) + 2 * k
    BY <1>3, <1>9, <1>11, <2>1
  <2> QED
    BY <1>9, <1>10, <2>2, AtMostQuotient, AtLeastQuotient
<1>13. CASE b <= a
  <2>1. b * k <= a * k
    BY <1>3, <1>13
  <2>2. b * (2 * k) <= z /\ z < a * (2 * k) + 2 * k
    BY <1>3, <1>9, <1>11, <2>1
  <2> QED
    BY <1>9, <1>10, <2>2, AtMostQuotient, AtLeastQuotient
<1> QED
  BY <1>12, <1>13

LEMMA Clamping ==
    ASSUME NEW v \in Int
    PROVE  /\ Clamp(v) \in 0 .. 100
           /\ v \in 0 .. 100 => Clamp(v) = v
           /\ \A u \in Int : u <= v => Clamp(u) <= Clamp(v)
BY DEF Clamp

\* The load of a record is a percentage.
LEMMA LoadIsPercent ==
    ASSUME NEW s \in Seq(RecordType), NEW i \in 1 .. Len(s), NEW m \in Metrics
    PROVE  s[i].load[m] \in 0 .. 100 /\ s[i].time \in Nat
<1>1. s[i] \in RecordType
  OBVIOUS
<1>2. s[i].load \in LoadType /\ s[i].time \in Nat
  BY <1>1 DEF RecordType
<1> QED
  BY <1>2 DEF LoadType

\* A backtest is of a percentage, by a percentage.
LEMMA BacktestIsPercent ==
    ASSUME NEW s \in Seq(RecordType), NEW m \in Metrics, NEW i \in 4 .. Len(s)
    PROVE  Backtested(s, i, m) \in 0 .. 100 /\ BacktestError(s, i, m) \in 0 .. 100
<1>1. i \in 1 .. Len(s) /\ i - 1 \in 1 .. Len(s) /\ i - 3 \in 1 .. Len(s)
  OBVIOUS
<1>2. PICK v \in 0 .. 100 : v = s[i].load[m]
  BY <1>1, LoadIsPercent
<1>3. PICK latest \in 0 .. 100 : latest = s[i - 1].load[m]
  BY <1>1, LoadIsPercent
<1>4. PICK first \in 0 .. 100 : first = s[i - 3].load[m]
  BY <1>1, LoadIsPercent
<1>5. latest + (latest - first) \div 2 \in Int
  <2>1. latest - first \in Int
    OBVIOUS
  <2>2. (latest - first) \div 2 \in Int
    BY <2>1, RoundedDown
  <2> QED
    BY <2>2
<1>6. PICK b \in 0 .. 100 : b = Clamp(latest + (latest - first) \div 2)
  BY <1>5, Clamping
<1>7. Backtested(s, i, m) = b
  BY <1>3, <1>4, <1>6 DEF Backtested
<1>8. BacktestError(s, i, m) = Magnitude(v - b)
  BY <1>2, <1>7 DEF BacktestError
<1>9. Magnitude(v - b) \in 0 .. 100
  BY DEF Magnitude
<1> QED
  BY <1>7, <1>8, <1>9

\* What bounds every error bounds their mean.
LEMMA MeanErrorWithin ==
    ASSUME NEW s \in Seq(RecordType), NEW m \in Metrics, NEW bound \in Nat,
           \A i \in 4 .. Len(s) : BacktestError(s, i, m) \in 0 .. bound
    PROVE  MeanError(s, m) \in 0 .. bound
<1> DEFINE n == Len(s)
           e == BacktestErrors(s, m)
<1>1. n \in Nat
  OBVIOUS
<1>2. CASE n < 4
  BY <1>2 DEF MeanError
<1>3. CASE n >= 4
  <2>1. e \subseteq (4 .. n) \X (1 .. bound)
    <3>1. SUFFICES ASSUME NEW p \in e PROVE p \in (4 .. n) \X (1 .. bound)
      OBVIOUS
    <3>2. PICK i \in 4 .. n : p \in {i} \X (1 .. BacktestError(s, i, m))
      BY DEF BacktestErrors
    <3>3. PICK v \in 0 .. bound : v = BacktestError(s, i, m)
      OBVIOUS
    <3>4. p \in {i} \X (1 .. v)
      BY <3>2, <3>3
    <3>5. 1 .. v \subseteq 1 .. bound /\ {i} \subseteq 4 .. n
      OBVIOUS
    <3> QED
      BY <3>4, <3>5
  <2>2. /\ IsFiniteSet(4 .. n) /\ Cardinality(4 .. n) = n - 3
        /\ IsFiniteSet(1 .. bound) /\ Cardinality(1 .. bound) = bound
    <3>1. IsFiniteSet(4 .. n) /\ Cardinality(4 .. n) = n - 3
      <4>1. /\ IsFiniteSet(4 .. n)
            /\ Cardinality(4 .. n) = IF 4 > n THEN 0 ELSE n - 4 + 1
        BY <1>1, FS_Interval
      <4> QED
        BY <1>1, <1>3, <4>1
    <3>2. \A k \in Nat : IsFiniteSet(1 .. k) /\ Cardinality(1 .. k) = k
      <4>1. TAKE k \in Nat
      <4>2. /\ IsFiniteSet(1 .. k)
            /\ Cardinality(1 .. k) = IF 1 > k THEN 0 ELSE k - 1 + 1
        BY FS_Interval
      <4> QED
        BY <4>2
    <3> QED
      BY <3>1, <3>2, Zenon
  <2>3. /\ IsFiniteSet((4 .. n) \X (1 .. bound))
        /\ Cardinality((4 .. n) \X (1 .. bound)) = (n - 3) * bound
    <3>1. Cardinality((4 .. n) \X (1 .. bound)) = Cardinality(4 .. n) * Cardinality(1 .. bound)
      BY <2>2, FS_Product, Zenon
    <3>2. IsFiniteSet((4 .. n) \X (1 .. bound))
      BY <2>2, FS_Product, Zenon
    <3> QED
      BY <2>2, <3>1, <3>2, Zenon
  <2>4. IsFiniteSet(e) /\ Cardinality(e) <= (n - 3) * bound
    BY <2>1, <2>3, FS_Subset
  <2>5. Cardinality(e) \in Nat
    BY <2>4, FS_CardinalityType
  <2>6. MeanError(s, m) = Cardinality(e) \div (n - 3)
    BY <1>1, <1>3 DEF MeanError
  <2> HIDE DEF e
  <2>7. PICK c \in Nat : c = Cardinality(e)
    BY <2>5
  <2>8. PICK k \in Nat \ {0} : k = n - 3
    BY <1>1, <1>3
  <2>9. c <= k * bound
    BY <2>4, <2>7, <2>8
  <2>10. c \div k \in 0 .. bound
    <3>1. 0 * k <= c /\ c < bound * k + k
      BY <2>9
    <3>2. c \div k \in Int
      BY RoundedDown
    <3> QED
      BY <3>1, <3>2, AtMostQuotient, AtLeastQuotient
  <2> QED
    BY <2>6, <2>7, <2>8, <2>10
<1> QED
  BY <1>1, <1>2, <1>3

\* The mean error is a percentage, being that of errors which are.
LEMMA MeanErrorIsPercent ==
    ASSUME NEW s \in Seq(RecordType), NEW m \in Metrics
    PROVE  MeanError(s, m) \in 0 .. 100
<1>1. 100 \in Nat
  OBVIOUS
<1>2. \A i \in 4 .. Len(s) : BacktestError(s, i, m) \in 0 .. 100
  BY BacktestIsPercent
<1> QED
  BY <1>1, <1>2, MeanErrorWithin, Zenon

\* The last three records of a history, and what a projection takes from them.
LEMMA LatestThree ==
    ASSUME NEW s, WellFormed(s), Sufficient(s), NEW m \in Metrics,
           NEW n, n = Len(s)
    PROVE  /\ n \in Nat /\ n >= 3
           /\ s[n].load[m] \in 0 .. 100
           /\ s[n - 1].load[m] - s[n - 2].load[m] \in Int
           /\ s[n].load[m] - s[n - 1].load[m] \in Int
           /\ s[n - 1].time - s[n - 2].time \in Nat \ {0}
           /\ s[n].time - s[n - 1].time \in Nat \ {0}
<1>1. s \in Seq(RecordType) /\ Increases(s)
  BY DEF WellFormed
<1>2. n \in Nat /\ n >= 3
  BY <1>1 DEF Sufficient
<1>3. n - 2 \in 1 .. Len(s) /\ n - 1 \in 1 .. Len(s) /\ n \in 1 .. Len(s)
  BY <1>2
<1>4. PICK v1 \in 0 .. 100, v2 \in 0 .. 100, v3 \in 0 .. 100 :
          v1 = s[n - 2].load[m] /\ v2 = s[n - 1].load[m] /\ v3 = s[n].load[m]
  BY <1>1, <1>3, LoadIsPercent
<1>5. PICK t1 \in Nat, t2 \in Nat, t3 \in Nat :
          t1 = s[n - 2].time /\ t2 = s[n - 1].time /\ t3 = s[n].time
  BY <1>1, <1>3, LoadIsPercent
<1>6. t1 < t2 /\ t2 < t3
  <2>1. n - 2 < n - 1 /\ n - 1 < n
    BY <1>2
  <2> QED
    BY <1>1, <1>3, <1>5, <2>1 DEF Increases
<1>7. /\ v2 - v1 \in Int /\ v3 - v2 \in Int
      /\ t2 - t1 \in Nat \ {0} /\ t3 - t2 \in Nat \ {0}
  BY <1>6
<1> QED
  BY <1>2, <1>4, <1>5, <1>7

\* What is stored is a forecast of percentages, with errors in per cent.
LEMMA ForecastIsTyped ==
    ASSUME NEW s, WellFormed(s), Sufficient(s)
    PROVE  Forecast(s) \in ForecastType
<1>1. ASSUME NEW m \in Metrics PROVE Projected(s, m) \in 0 .. 100
  <2> DEFINE n == Len(s)
             d1 == s[n - 1].load[m] - s[n - 2].load[m]
             d2 == s[n].load[m] - s[n - 1].load[m]
             i1 == s[n - 1].time - s[n - 2].time
             i2 == s[n].time - s[n - 1].time
             x == Horizon * (d1 * i2 + d2 * i1)
             k == 2 * i1 * i2
  <2>1. /\ s[n].load[m] \in 0 .. 100
        /\ d1 \in Int /\ d2 \in Int /\ i1 \in Nat \ {0} /\ i2 \in Nat \ {0}
    BY LatestThree
  <2>2. Projected(s, m) = Clamp(s[n].load[m] + x \div k)
    BY DEF Projected
  <2> HIDE DEF n, d1, d2, i1, i2
  <2>3. x \in Int /\ k \in Nat \ {0}
    BY <2>1, HorizonAssumption
  <2> HIDE DEF x, k
  <2>4. PICK v \in 0 .. 100 : v = s[n].load[m]
    BY <2>1
  <2>5. v + x \div k \in Int
    <3>1. x \div k \in Int
      BY <2>3, RoundedDown
    <3> QED
      BY <3>1
  <2> QED
    BY <2>2, <2>4, <2>5, Clamping
<1>2. \A m \in Metrics : MeanError(s, m) \in 0 .. 100
  BY MeanErrorIsPercent DEF WellFormed
<1>3. /\ [m \in Metrics |-> Projected(s, m)] \in LoadType
      /\ [m \in Metrics |-> MeanError(s, m)] \in LoadType
  BY <1>1, <1>2 DEF LoadType
<1> QED
  BY <1>3 DEF Forecast, ForecastType

\* A projection lies between what each of the latest two rates would give.
LEMMA ProjectedBetween ==
    ASSUME NEW s, WellFormed(s), Sufficient(s), NEW m \in Metrics,
           NEW n, n = Len(s)
    PROVE  LET ahead1 == Clamp(s[n].load[m] +
                   (Horizon * (s[n - 1].load[m] - s[n - 2].load[m]))
                       \div (s[n - 1].time - s[n - 2].time))
               ahead2 == Clamp(s[n].load[m] +
                   (Horizon * (s[n].load[m] - s[n - 1].load[m]))
                       \div (s[n].time - s[n - 1].time))
           IN  \/ Projected(s, m) \in ahead1 .. ahead2
               \/ Projected(s, m) \in ahead2 .. ahead1
<1> DEFINE ahead1 == Clamp(s[n].load[m] +
               (Horizon * (s[n - 1].load[m] - s[n - 2].load[m]))
                   \div (s[n - 1].time - s[n - 2].time))
           ahead2 == Clamp(s[n].load[m] +
               (Horizon * (s[n].load[m] - s[n - 1].load[m]))
                   \div (s[n].time - s[n - 1].time))
           load == s[n].load[m]
           d1 == s[n - 1].load[m] - s[n - 2].load[m]
           d2 == s[n].load[m] - s[n - 1].load[m]
           i1 == s[n - 1].time - s[n - 2].time
           i2 == s[n].time - s[n - 1].time
           a == (Horizon * d1) \div i1
           b == (Horizon * d2) \div i2
           q == (Horizon * (d1 * i2 + d2 * i1)) \div (2 * i1 * i2)
<1>1. /\ load \in 0 .. 100 /\ d1 \in Int /\ d2 \in Int
      /\ i1 \in Nat \ {0} /\ i2 \in Nat \ {0}
  BY LatestThree
<1>2. /\ ahead1 = Clamp(load + a) /\ ahead2 = Clamp(load + b)
      /\ Projected(s, m) = Clamp(load + q)
  BY DEF Projected
<1> SUFFICES Projected(s, m) \in ahead1 .. ahead2 \/ Projected(s, m) \in ahead2 .. ahead1
  OBVIOUS
<1> HIDE DEF ahead1, ahead2, load, d1, d2, i1, i2
<1>3. a \in Int /\ b \in Int /\ q \in Int
  <2>1. /\ Horizon * d1 \in Int /\ Horizon * d2 \in Int
        /\ Horizon * (d1 * i2 + d2 * i1) \in Int /\ 2 * i1 * i2 \in Nat \ {0}
    BY <1>1, HorizonAssumption
  <2> QED
    BY <1>1, <2>1, RoundedDown
<1>4. \/ a <= q /\ q <= b
      \/ b <= q /\ q <= a
  BY <1>1, <1>3, MeanRateBetween
<1> HIDE DEF a, b, q
<1>5. /\ load + a \in Int /\ load + b \in Int /\ load + q \in Int
      /\ \/ load + a <= load + q /\ load + q <= load + b
         \/ load + b <= load + q /\ load + q <= load + a
  BY <1>1, <1>3, <1>4
<1>6. /\ Clamp(load + a) \in 0 .. 100 /\ Clamp(load + b) \in 0 .. 100
      /\ Clamp(load + q) \in 0 .. 100
      /\ \/ Clamp(load + a) <= Clamp(load + q) /\ Clamp(load + q) <= Clamp(load + b)
         \/ Clamp(load + b) <= Clamp(load + q) /\ Clamp(load + q) <= Clamp(load + a)
  BY <1>5, Clamping
<1>7. PICK u1 \in 0 .. 100, u2 \in 0 .. 100, p \in 0 .. 100 :
          u1 = Clamp(load + a) /\ u2 = Clamp(load + b) /\ p = Clamp(load + q)
  BY <1>6
<1>8. \/ p \in u1 .. u2
      \/ p \in u2 .. u1
  BY <1>6, <1>7
<1> QED
  BY <1>2, <1>7, <1>8

\* What changes at the rate r changes by |r| * d within the time d.
LEMMA ProductWithin ==
    ASSUME NEW r \in Int, NEW d \in Nat, NEW g \in Int, -d <= g, g <= d
    PROVE  /\ Magnitude(r) * d \in Nat
           /\ -(Magnitude(r) * d) <= r * g /\ r * g <= Magnitude(r) * d
<1>1. CASE r >= 0
  BY <1>1 DEF Magnitude
<1>2. CASE r < 0
  <2>1. PICK k \in Nat : k = -r
    BY <1>2
  <2>2. Magnitude(r) = k /\ r * g = -(k * g)
    BY <1>2, <2>1 DEF Magnitude
  <2>3. k * d \in Nat /\ -(k * d) <= k * g /\ k * g <= k * d
    OBVIOUS
  <2> QED
    BY <2>2, <2>3
<1> QED
  BY <1>1, <1>2

\* The mean of what it changes by over two intervals, rounded down, is within
\* that of what it changes by over a third, when the three differ by d.
LEMMA HalfWithin ==
    ASSUME NEW r \in Int, NEW d \in Nat,
           NEW g1 \in Nat, NEW g2 \in Nat, NEW g3 \in Nat,
           g1 - g3 <= d, g3 - g1 <= d, g2 - g3 <= d, g3 - g2 <= d,
           NEW x \in Int, x = r * g1 + r * g2
    PROVE  /\ x \div 2 \in Int /\ r * g3 \in Int
           /\ r * g3 - Magnitude(r) * d <= x \div 2
           /\ x \div 2 <= r * g3 + Magnitude(r) * d
<1>1. PICK b \in Nat : b = Magnitude(r) * d
  BY ProductWithin
<1>2. -b <= r * (g1 - g3) /\ r * (g1 - g3) <= b
  <2>1. g1 - g3 \in Int /\ -d <= g1 - g3 /\ g1 - g3 <= d
    OBVIOUS
  <2> QED
    BY <1>1, <2>1, ProductWithin
<1>3. -b <= r * (g2 - g3) /\ r * (g2 - g3) <= b
  <2>1. g2 - g3 \in Int /\ -d <= g2 - g3 /\ g2 - g3 <= d
    OBVIOUS
  <2> QED
    BY <1>1, <2>1, ProductWithin
<1>4. PICK p1 \in Int, p2 \in Int, p3 \in Int :
          p1 = r * g1 /\ p2 = r * g2 /\ p3 = r * g3
  OBVIOUS
<1>5. r * (g1 - g3) = p1 - p3 /\ r * (g2 - g3) = p2 - p3
  BY <1>4
<1>6. x = p1 + p2
  BY <1>4
<1>7. /\ p3 - b \in Int /\ p3 + b \in Int
      /\ (p3 - b) * 2 <= x /\ x < (p3 + b) * 2 + 2
  BY <1>2, <1>3, <1>5, <1>6
<1>8. 2 \in Nat \ {0}
  OBVIOUS
<1>9. x \div 2 \in Int
  OBVIOUS
<1>10. p3 - b <= x \div 2 /\ x \div 2 <= p3 + b
  BY <1>7, <1>8, AtMostQuotient, AtLeastQuotient
<1> QED
  BY <1>1, <1>4, <1>9, <1>10

\* Clamping brings no value further away from a percentage.
LEMMA ClampNearer ==
    ASSUME NEW v \in 0 .. 100, NEW u \in Int, NEW b \in Nat,
           v - b <= u, u <= v + b
    PROVE  Magnitude(v - Clamp(u)) \in 0 .. b
BY DEF Clamp, Magnitude

\* Of a load that changes at the same rate over all intervals, the backtests
\* err by what it changes in the time by which the intervals differ.
LEMMA SteadyWithin ==
    ASSUME NEW s \in Seq(RecordType), Increases(s), NEW m \in Metrics,
           NEW r \in Int, NEW d \in Nat,
           \A i \in 2 .. Len(s) : s[i].load[m] - s[i - 1].load[m]
                                = r * (s[i].time - s[i - 1].time),
           \A i, j \in 2 .. Len(s) : (s[i].time - s[i - 1].time)
                                    - (s[j].time - s[j - 1].time) <= d
    PROVE  MeanError(s, m) <= Magnitude(r) * d
<1> DEFINE n == Len(s)
           load(i) == s[i].load[m]
           gap(i) == s[i].time - s[i - 1].time
<1>1. n \in Nat
  OBVIOUS
<1>2. PICK b \in Nat : b = Magnitude(r) * d
  <2>1. 0 \in Int /\ -d <= 0 /\ 0 <= d
    OBVIOUS
  <2> QED
    BY <2>1, ProductWithin
<1>3. ASSUME NEW i \in 2 .. n PROVE gap(i) \in Nat
  <2>1. i \in 1 .. n /\ i - 1 \in 1 .. n /\ i - 1 < i
    BY <1>1
  <2>2. s[i].time \in Nat /\ s[i - 1].time \in Nat
    BY <2>1, LoadIsPercent
  <2>3. s[i - 1].time < s[i].time
    BY <2>1 DEF Increases
  <2> QED
    BY <2>2, <2>3
<1>4. \A i \in 2 .. n : load(i) - load(i - 1) = r * gap(i)
  OBVIOUS
<1>5. \A i, j \in 2 .. n : gap(i) - gap(j) <= d
  OBVIOUS
<1>6. \A i \in 1 .. n : load(i) \in 0 .. 100
  BY LoadIsPercent
<1>7. ASSUME NEW i \in 4 .. n PROVE BacktestError(s, i, m) \in 0 .. b
  <2>1. BacktestError(s, i, m)
          = Magnitude(load(i) - Clamp(load(i - 1) + (load(i - 1) - load(i - 3)) \div 2))
    BY DEF BacktestError, Backtested
  <2>2. /\ i - 2 \in 2 .. n /\ i - 1 \in 2 .. n /\ i \in 2 .. n
        /\ (i - 2) - 1 = i - 3 /\ (i - 1) - 1 = i - 2
    BY <1>1
  <2>3. PICK g1 \in Nat, g2 \in Nat, g3 \in Nat :
            g1 = gap(i - 2) /\ g2 = gap(i - 1) /\ g3 = gap(i)
    BY <1>3, <2>2
  <2>4. PICK v0 \in 0 .. 100, v1 \in 0 .. 100, v2 \in 0 .. 100, v3 \in 0 .. 100 :
            /\ v0 = load(i) /\ v1 = load(i - 1)
            /\ v2 = load(i - 2) /\ v3 = load(i - 3)
    <3>1. i \in 1 .. n /\ i - 1 \in 1 .. n /\ i - 2 \in 1 .. n /\ i - 3 \in 1 .. n
      BY <1>1
    <3>2. /\ load(i) \in 0 .. 100 /\ load(i - 1) \in 0 .. 100
          /\ load(i - 2) \in 0 .. 100 /\ load(i - 3) \in 0 .. 100
      BY <1>6, <3>1, Zenon
    <3> QED
      BY <3>2, Zenon
  <2>5. v0 - v1 = r * g3 /\ v1 - v2 = r * g2 /\ v2 - v3 = r * g1
    BY <1>4, <2>2, <2>3, <2>4
  <2>6. g1 - g3 <= d /\ g3 - g1 <= d /\ g2 - g3 <= d /\ g3 - g2 <= d
    BY <1>5, <2>2, <2>3
  <2> HIDE DEF load, gap
  <2>7. PICK x \in Int : x = v1 - v3
    OBVIOUS
  <2>8. x = r * g1 + r * g2
    BY <2>5, <2>7
  <2>9. /\ x \div 2 \in Int /\ r * g3 \in Int
        /\ r * g3 - b <= x \div 2 /\ x \div 2 <= r * g3 + b
    BY <1>2, <2>6, <2>8, HalfWithin
  <2>10. PICK u \in Int : u = v1 + x \div 2
    BY <2>9
  <2>11. v0 - b <= u /\ u <= v0 + b
    BY <2>5, <2>9, <2>10
  <2>12. Magnitude(v0 - Clamp(u)) \in 0 .. b
    BY <2>11, ClampNearer
  <2> QED
    BY <2>1, <2>4, <2>7, <2>10, <2>12
<1>8. MeanError(s, m) \in 0 .. b
  BY <1>7, MeanErrorWithin
<1> QED
  BY <1>2, <1>8
-----------------------------------------------------------------------------
(***************************************************************************)
(* Telemetry.                                                              *)
(***************************************************************************)
\* Nothing recorded is ever changed.
Grows ==
    /\ Len(records) \in Nat /\ Len(records') \in Nat
    /\ Len(records) <= Len(records')
    /\ \A i \in 1 .. Len(records) : records'[i] = records[i]

\* What the snapshot under way has seen of a worker can be recorded.
LEMMA SeenIsRecordable ==
    ASSUME CollectingInv, NEW w \in DOMAIN collecting.snapshot
    PROVE  /\ w \in GPUs
           /\ collecting.snapshot[w].load \in LoadType
           /\ RecordsOf(collecting.snapshot[w]) \in Nat \ {0}
<1>1. collecting.snapshot \in Snapshots
  <2>1. collecting.snapshot # NoSnapshot
    BY DEF NoSnapshot
  <2> QED
    BY <2>1 DEF CollectingInv
<1>2. collecting.snapshot[w] \in ObservationType /\ w \in GPUs
  BY <1>1, SnapshotsAssumption
<1>3. collecting.snapshot[w].load \in LoadType /\ collecting.snapshot[w].jobs \in Nat
  BY <1>2 DEF ObservationType
<1> QED
  BY <1>2, <1>3 DEF RecordsOf

LEMMA TelemetryInitial == TelemetryInit => RecordsInv
<1> SUFFICES ASSUME TelemetryInit PROVE RecordsInv
  OBVIOUS
<1>1. collecting = [time |-> 0, snapshot |-> NoSnapshot, todo |-> {},
                    worker |-> "", left |-> 0]
  BY DEF TelemetryInit
<1>2. collecting \in [time : Nat, snapshot : Snapshots \cup {NoSnapshot},
                     todo : SUBSET GPUs, worker : GPUs \cup {""}, left : Nat]
  BY <1>1
<1>3. collecting.todo = {} /\ collecting.left = 0 /\ collecting.time = 0
  BY <1>1, Zenon
<1>4. now = 1 /\ records = <<>>
  BY DEF TelemetryInit
<1>5. Len(records) = 0 /\ records \in Seq(RecordType)
  BY <1>4
<1>6. CollectingInv
  <2>1. ~ (0 > 0)
    OBVIOUS
  <2> QED
    BY <1>2, <1>3, <2>1, Zenon DEF CollectingInv
<1> QED
  BY <1>3, <1>4, <1>5, <1>6 DEF RecordsInv

\* Each step of telemetry keeps the records in order and only adds to them.
LEMMA TelemetryStep ==
    ASSUME RecordsInv, Tick \/ CollectAt \/ AppendRecord
    PROVE  RecordsInv' /\ Grows /\ now' \in Nat /\ now <= now'
<1> USE DEF RecordsInv
<1>1. CASE Tick
  <2>1. now' = now + 1 /\ UNCHANGED <<records, collecting>>
    BY <1>1 DEF Tick
  <2>2. CollectingInv'
    BY <2>1 DEF CollectingInv
  <2>3. collecting.time \in Nat
    BY DEF CollectingInv
  <2> QED
    BY <2>1, <2>2, <2>3 DEF Grows
<1>2. CASE CollectAt
  <2>1. PICK s \in Snapshots, t \in collecting.time + 1 .. now :
            collecting' = [collecting EXCEPT !.time = t, !.snapshot = s,
                                             !.todo = DOMAIN s]
    BY <1>2 DEF CollectAt
  <2>2. UNCHANGED <<now, records>> /\ collecting.snapshot = NoSnapshot
    BY <1>2 DEF CollectAt
  <2>3. collecting.left = 0 /\ collecting.time \in Nat /\ t \in Nat
    <3>1. DOMAIN NoSnapshot = {}
      BY DEF NoSnapshot
    <3>2. collecting.left \in Nat /\ collecting.time \in Nat
      BY DEF CollectingInv
    <3>3. ~ (collecting.left > 0)
      BY <2>2, <3>1 DEF CollectingInv
    <3> QED
      BY <3>2, <3>3
  <2>4. /\ collecting'.time = t /\ collecting'.left = 0
        /\ collecting'.snapshot = s /\ collecting'.todo = DOMAIN s
    BY <2>1, <2>3 DEF CollectingInv
  <2>5. DOMAIN s \subseteq GPUs
    BY SnapshotsAssumption
  <2>6. collecting' \in [time : Nat, snapshot : Snapshots \cup {NoSnapshot},
                         todo : SUBSET GPUs, worker : GPUs \cup {""}, left : Nat]
    BY <2>1, <2>3, <2>5 DEF CollectingInv
  <2>7. CollectingInv'
    <3>1. collecting'.todo \subseteq DOMAIN collecting'.snapshot
      BY <2>4
    <3>2. ~ (collecting'.left > 0)
      BY <2>4
    <3> QED
      BY <2>6, <3>1, <3>2 DEF CollectingInv
  <2>8. \A i \in 1 .. Len(records) : records[i].time <= collecting'.time
    <3>1. \A i \in 1 .. Len(records) : records[i] \in RecordType
      OBVIOUS
    <3>2. \A x \in RecordType : x.time \in Nat
      BY DEF RecordType
    <3> QED
      BY <3>1, <3>2, <2>3, <2>4
  <2>9. collecting'.time <= now'
    BY <2>2, <2>3, <2>4
  <2> QED
    BY <2>2, <2>7, <2>8, <2>9 DEF Grows
<1>3. CASE AppendRecord
  <2>1. PICK w \in IF collecting.left > 0 THEN {collecting.worker} ELSE collecting.todo :
            LET seen == collecting.snapshot[w]
                todo == collecting.todo \ {w}
                left == (IF collecting.left > 0 THEN collecting.left ELSE RecordsOf(seen)) - 1
            IN  /\ records' = Append(records, [worker |-> w, time |-> collecting.time,
                                               load |-> seen.load])
                /\ collecting' =
                      IF left = 0 /\ todo = {}
                      THEN [collecting EXCEPT !.snapshot = NoSnapshot, !.todo = {},
                                              !.worker = "", !.left = 0]
                      ELSE [collecting EXCEPT !.todo = todo, !.worker = w, !.left = left]
                /\ UNCHANGED <<now, fleet>>
    BY <1>3 DEF AppendRecord
  <2> DEFINE todo == collecting.todo \ {w}
             left == (IF collecting.left > 0 THEN collecting.left
                      ELSE RecordsOf(collecting.snapshot[w])) - 1
             r == [worker |-> w, time |-> collecting.time,
                   load |-> collecting.snapshot[w].load]
  <2>2. w \in DOMAIN collecting.snapshot
    BY DEF CollectingInv
  <2>3. /\ w \in GPUs /\ collecting.snapshot[w].load \in LoadType
        /\ RecordsOf(collecting.snapshot[w]) \in Nat \ {0}
    BY <2>2, SeenIsRecordable
  <2>4. collecting.time \in Nat /\ collecting.left \in Nat
    BY DEF CollectingInv
  <2>5. left \in Nat
    BY <2>3, <2>4
  <2>6. todo \subseteq DOMAIN collecting.snapshot /\ todo \subseteq GPUs
    BY DEF CollectingInv
  <2>7. r \in RecordType
    BY <2>3, <2>4 DEF RecordType
  <2>8. records' = Append(records, r) /\ now' = now
    BY <2>1
  <2>9. \/ collecting' = [collecting EXCEPT !.snapshot = NoSnapshot, !.todo = {},
                                            !.worker = "", !.left = 0]
        \/ collecting' = [collecting EXCEPT !.todo = todo, !.worker = w, !.left = left]
    BY <2>1
  <2> HIDE DEF todo, left, r
  <2>10. CollectingInv' /\ collecting'.time = collecting.time
    <3>1. collecting \in [time : Nat, snapshot : Snapshots \cup {NoSnapshot},
                          todo : SUBSET GPUs, worker : GPUs \cup {""}, left : Nat]
      BY DEF CollectingInv
    <3>2. CASE collecting' = [collecting EXCEPT !.snapshot = NoSnapshot, !.todo = {},
                                                !.worker = "", !.left = 0]
      <4>1. /\ collecting'.todo = {} /\ collecting'.left = 0
            /\ collecting'.time = collecting.time
        BY <3>1, <3>2
      <4>2. collecting' \in [time : Nat, snapshot : Snapshots \cup {NoSnapshot},
                             todo : SUBSET GPUs, worker : GPUs \cup {""}, left : Nat]
        BY <3>1, <3>2
      <4>3. ~ (collecting'.left > 0)
        BY <4>1
      <4> QED
        BY <4>1, <4>2, <4>3 DEF CollectingInv
    <3>3. CASE collecting' = [collecting EXCEPT !.todo = todo, !.worker = w, !.left = left]
      <4>1. /\ collecting'.todo = todo /\ collecting'.worker = w
            /\ collecting'.snapshot = collecting.snapshot
            /\ collecting'.time = collecting.time
        BY <3>1, <3>3
      <4>2. collecting' \in [time : Nat, snapshot : Snapshots \cup {NoSnapshot},
                             todo : SUBSET GPUs, worker : GPUs \cup {""}, left : Nat]
        BY <3>1, <3>3, <2>3, <2>5, <2>6
      <4> QED
        BY <4>1, <4>2, <2>2, <2>6 DEF CollectingInv
    <3> QED
      BY <2>9, <3>2, <3>3
  <2>11. r.time = collecting.time
    BY DEF r
  <2>12. /\ Len(records) \in Nat /\ Len(records') = Len(records) + 1
         /\ records'[Len(records) + 1] = r
         /\ \A i \in 1 .. Len(records) : records'[i] = records[i]
         /\ records' \in Seq(RecordType)
    BY <2>7, <2>8
  <2>13. Grows
    BY <2>12 DEF Grows
  <2>14. \A i \in 1 .. Len(records') : records'[i].time <= collecting.time
    BY <2>4, <2>11, <2>12
  <2>15. \A i, j \in 1 .. Len(records') : i < j => records'[i].time <= records'[j].time
    <3>1. TAKE i, j \in 1 .. Len(records')
    <3>2. HAVE i < j
    <3>3. i \in 1 .. Len(records)
      BY <3>2, <2>12
    <3>4. CASE j = Len(records) + 1
      BY <3>3, <3>4, <2>11, <2>12
    <3>5. CASE j \in 1 .. Len(records)
      BY <3>2, <3>3, <3>5, <2>12
    <3> QED
      BY <3>4, <3>5, <2>12
  <2> QED
    BY <2>8, <2>10, <2>12, <2>13, <2>14, <2>15
<1> QED
  BY <1>1, <1>2, <1>3
-----------------------------------------------------------------------------
(***************************************************************************)
(* Histories.                                                              *)
(***************************************************************************)
LEMMA RecordTimes ==
    ASSUME RecordsInv
    PROVE  /\ Len(records) \in Nat
           /\ \A i \in 1 .. Len(records) :
                 /\ records[i] \in RecordType
                 /\ records[i].time \in Nat
                 /\ records[i].worker \in GPUs
<1>1. records \in Seq(RecordType)
  BY DEF RecordsInv
<1>2. \A x \in RecordType : x.time \in Nat /\ x.worker \in GPUs
  BY DEF RecordType
<1>3. Len(records) \in Nat /\ \A i \in 1 .. Len(records) : records[i] \in RecordType
  BY <1>1
<1> QED
  BY <1>2, <1>3

\* Adding the next record to the histories of those before it.
LEMMA AddedIsHistory ==
    ASSUME RecordsInv, NEW n \in Nat, n + 1 <= Len(records),
           NEW h, HistoriesOf(h, n), NEW h1, h1 = Added(h, records[n + 1])
    PROVE  /\ HistoriesOf(h1, n + 1)
           /\ DOMAIN h \subseteq DOMAIN h1
           /\ \A w \in DOMAIN h : Last(h[w]).time <= Last(h1[w]).time
<1> DEFINE r == records[n + 1]
           w == r.worker
           old == IF w \in DOMAIN h THEN h[w] ELSE <<>>
           new == Truncated(Append(old, r))
<1>1. r \in RecordType /\ r.time \in Nat /\ w \in GPUs
  BY RecordTimes
<1>2. \A j \in 1 .. n : /\ records[j].time \in Nat
                        /\ records[j].time <= r.time
  BY RecordTimes DEF RecordsInv
<1>3. \A v \in DOMAIN h : WellFormed(h[v])
  BY DEF HistoriesOf
<1>4. /\ old \in Seq(RecordType) /\ Len(old) <= HistoryCapacity
      /\ Increases(old) /\ Len(old) \in Nat
  <2>1. CASE w \in DOMAIN h
    BY <2>1, <1>3 DEF WellFormed
  <2>2. CASE w \notin DOMAIN h
    <3>1. old = <<>> /\ Len(old) = 0
      BY <2>2
    <3> HIDE DEF old
    <3>2. old \in Seq(RecordType) /\ Len(old) <= HistoryCapacity
      BY <3>1, PredictionAssumption
    <3>3. Increases(old)
      BY <3>1 DEF Increases
    <3> QED
      BY <3>1, <3>2, <3>3
  <2> QED
    BY <2>1, <2>2
<1>5. old # <<>> => w \in DOMAIN h /\ WellFormed(old)
  BY <1>3
<1>6. \A i \in 1 .. Len(old) :
          /\ \E j \in 1 .. n : records[j] = old[i] /\ records[j].worker = w
          /\ old[i].time <= r.time
  <2>1. TAKE i \in 1 .. Len(old)
  <2>2. w \in DOMAIN h
    BY <2>1, <1>4, <1>5
  <2>3. PICK j \in 1 .. n : records[j] = old[i] /\ records[j].worker = w
    BY <2>2 DEF HistoriesOf, FromRecords
  <2> QED
    BY <2>3, <1>2
<1> HIDE DEF new, old
<1>7. CASE old # <<>> /\ Last(old).time = r.time
  <2>1. h1 = h
    BY <1>7 DEF Added, old
  <2>2. w \in DOMAIN h /\ old = h[w] /\ WellFormed(old)
    BY <1>5, <1>7 DEF old
  <2>3. FromRecords(h, n + 1)
    BY DEF HistoriesOf, FromRecords
  <2>4. Covers(old, r.time)
    <3>1. Last(old) = old[Len(old)] /\ Len(old) \in 1 .. Len(old)
      BY <2>2, LastIsLatest
    <3> QED
      BY <3>1, <1>7 DEF Covers
  <2>5. CoversRecords(h, n + 1)
    <3>1. SUFFICES ASSUME NEW j \in 1 .. n + 1
                   PROVE  /\ records[j].worker \in DOMAIN h
                          /\ Covers(h[records[j].worker], records[j].time)
      BY DEF CoversRecords
    <3>2. CASE j = n + 1
      BY <3>2, <2>2, <2>4
    <3>3. CASE j \in 1 .. n
      BY <3>3 DEF HistoriesOf, CoversRecords
    <3> QED
      BY <3>2, <3>3
  <2>6. \A v \in DOMAIN h : Last(h[v]).time \in Nat
    BY <1>3, LastIsLatest
  <2> QED
    BY <2>1, <2>3, <2>5, <2>6 DEF HistoriesOf
<1>8. CASE ~ (old # <<>> /\ Last(old).time = r.time)
  <2>1. h1 = Assign(h, w, new)
    BY <1>8 DEF Added, old, new
  <2>2. /\ DOMAIN h1 = DOMAIN h \cup {w} /\ h1[w] = new
        /\ \A v \in DOMAIN h : v # w => h1[v] = h[v]
    BY <2>1 DEF Assign
  <2>3. \A i \in 1 .. Len(old) : old[i].time < r.time
    <3>1. TAKE i \in 1 .. Len(old)
    <3>2. old # <<>>
      BY <3>1, <1>4
    <3>3. Last(old).time # r.time /\ WellFormed(old)
      BY <3>2, <1>5, <1>8
    <3>4. /\ Len(old) \in 1 .. Len(old) /\ Last(old) = old[Len(old)]
          /\ old[i].time <= Last(old).time /\ Last(old).time \in Nat
      BY <3>3, LastIsLatest
    <3>5. Last(old).time <= r.time
      BY <3>4, <1>6
    <3>6. old[i].time \in Nat
      BY <1>2, <1>6
    <3> QED
      BY <3>3, <3>4, <3>5, <3>6, <1>1
  <2>4. /\ WellFormed(new) /\ Last(new) = r
        /\ \A i \in 1 .. Len(new) : new[i] = r \/ \E j \in 1 .. Len(old) : new[i] = old[j]
        /\ \E i \in 1 .. Len(new) : new[i] = r
        /\ \A t \in Nat : Covers(old, t) => Covers(new, t)
    BY <2>3, <1>1, <1>4, TruncatedAppend DEF new
  <2>5. DOMAIN h1 \subseteq GPUs
    BY <2>2, <1>1 DEF HistoriesOf
  <2>6. \A v \in DOMAIN h1 : WellFormed(h1[v])
    BY <2>2, <2>4, <1>3
  <2>7. FromRecords(h1, n + 1)
    <3>1. SUFFICES ASSUME NEW v \in DOMAIN h1, NEW i \in 1 .. Len(h1[v])
                   PROVE  \E j \in 1 .. n + 1 :
                              records[j] = h1[v][i] /\ records[j].worker = v
      BY DEF FromRecords
    <3>2. CASE v # w
      BY <3>2, <2>2 DEF HistoriesOf, FromRecords
    <3>3. CASE v = w /\ new[i] = r
      BY <3>3, <2>2
    <3>4. CASE v = w /\ new[i] # r
      <4>1. PICK j \in 1 .. Len(old) : new[i] = old[j]
        BY <3>4, <2>2, <2>4
      <4>2. PICK k \in 1 .. n : records[k] = old[j] /\ records[k].worker = w
        BY <1>6
      <4> QED
        BY <4>1, <4>2, <3>4, <2>2
    <3> QED
      BY <3>2, <3>3, <3>4
  <2>8. CoversRecords(h1, n + 1)
    <3>1. SUFFICES ASSUME NEW j \in 1 .. n + 1
                   PROVE  /\ records[j].worker \in DOMAIN h1
                          /\ Covers(h1[records[j].worker], records[j].time)
      BY DEF CoversRecords
    <3>2. CASE j = n + 1
      BY <3>2, <2>2, <2>4 DEF Covers
    <3>3. CASE j \in 1 .. n
      <4>1. /\ records[j].worker \in DOMAIN h
            /\ Covers(h[records[j].worker], records[j].time)
        BY <3>3 DEF HistoriesOf, CoversRecords
      <4>2. CASE records[j].worker # w
        BY <4>1, <4>2, <2>2
      <4>3. CASE records[j].worker = w
        <5>1. old = h[w]
          BY <4>1, <4>3 DEF old
        <5> QED
          BY <5>1, <4>1, <4>3, <3>3, <2>2, <2>4, <1>2
      <4> QED
        BY <4>2, <4>3
    <3> QED
      BY <3>2, <3>3
  <2>9. ASSUME NEW v \in DOMAIN h
        PROVE  Last(h[v]).time <= Last(h1[v]).time
    <3>1. /\ Last(h[v]).time \in Nat /\ Last(h[v]) = h[v][Len(h[v])]
          /\ Len(h[v]) \in 1 .. Len(h[v])
      BY <1>3, LastIsLatest
    <3>2. CASE v # w
      BY <3>1, <3>2, <2>2
    <3>3. CASE v = w
      <4>1. old = h[v]
        BY <3>3 DEF old
      <4>2. Last(h[v]).time <= r.time
        BY <4>1, <3>1, <1>6
      <4> QED
        BY <4>2, <3>3, <2>2, <2>4
    <3> QED
      BY <3>2, <3>3
  <2> QED
    BY <2>2, <2>5, <2>6, <2>7, <2>8, <2>9 DEF HistoriesOf
<1> QED
  BY <1>7, <1>8
-----------------------------------------------------------------------------
(***************************************************************************)
(* Steps.                                                                  *)
(***************************************************************************)
Advances ==
    \A w \in DOMAIN results :
        /\ w \in DOMAIN results'
        /\ results'[w].basis >= results[w].basis
        /\ results'[w].generated >= results[w].generated

LEMMA ResultsKept ==
    ASSUME PipelineInv, UNCHANGED results
    PROVE  Advances
BY DEF PipelineInv, ResultsInv, Advances

\* Histories do not depend on the records that were not read yet.
LEMMA HistoryKept ==
    ASSUME RecordsInv, HistoryInv, Grows, UNCHANGED <<processed, history>>
    PROVE  HistoryInv'
<1>1. /\ processed \in Nat /\ processed <= Len(records)
      /\ \A j \in 1 .. processed : records'[j] = records[j]
      /\ processed' \in 0 .. Len(records')
  BY RecordTimes DEF HistoryInv, Grows
<1>2. DOMAIN history' \subseteq GPUs /\ \A w \in DOMAIN history' : WellFormed(history'[w])
  BY DEF HistoryInv, HistoriesOf
<1>3. FromRecords(history, processed)'
  BY <1>1 DEF HistoryInv, HistoriesOf, FromRecords
<1>4. CoversRecords(history, processed)'
  BY <1>1 DEF HistoryInv, HistoriesOf, CoversRecords
<1> QED
  BY <1>1, <1>2, <1>3, <1>4 DEF HistoryInv, HistoriesOf, WellFormed

\* A decision stays with its worker's results as they advance.
LEMMA DecisionKept ==
    ASSUME PipelineInv, Advances, UNCHANGED decision, ResultsInv'
    PROVE  DecisionInv'
<1>1. CASE decision = NoDecision
  BY <1>1 DEF DecisionInv
<1>2. CASE decision # NoDecision
  <2> DEFINE w == decision.worker
  <2>1. /\ w \in DOMAIN results /\ decision.basis \in Nat /\ decision.generated \in Nat
        /\ decision.basis <= results[w].basis
        /\ decision.generated <= results[w].generated
    BY <1>2 DEF PipelineInv, DecisionInv
  <2>2. results[w].basis \in Nat /\ results[w].generated \in Nat
    BY <2>1 DEF PipelineInv, ResultsInv
  <2>3. /\ w \in DOMAIN results'
        /\ results[w].basis <= results'[w].basis
        /\ results[w].generated <= results'[w].generated
    BY <2>1 DEF Advances
  <2>4. results'[w].basis \in Nat /\ results'[w].generated \in Nat
    BY <2>3 DEF ResultsInv
  <2>5. /\ decision.basis <= results'[w].basis
        /\ decision.generated <= results'[w].generated
    BY <2>1, <2>2, <2>3, <2>4
  <2> QED
    BY <2>1, <2>3, <2>5 DEF DecisionInv
<1> QED
  BY <1>1, <1>2

LEMMA ObserveStep ==
    ASSUME PipelineInv, Observe
    PROVE  PipelineInv' /\ Advances
<1>1. RecordsInv /\ HistoryInv /\ PassInv /\ ResultsInv /\ DecisionInv
  BY DEF PipelineInv
<1>2. UNCHANGED <<processed, history, predicting, results, decision>>
  BY DEF Observe, predictionVars
<1>3. RecordsInv' /\ Grows /\ now' \in Nat /\ now <= now' /\ now \in Nat
  <2>1. Tick \/ CollectAt \/ AppendRecord
    BY DEF Observe
  <2> QED
    BY <1>1, <2>1, TelemetryStep DEF RecordsInv
<1>4. HistoryInv'
  BY <1>1, <1>2, <1>3, HistoryKept
<1>5. PassInv'
  <2>1. predicting.at = "adding" => predicting.upto \in processed .. Len(records')
    BY <1>1, <1>3 DEF PassInv, Grows, HistoryInv
  <2> QED
    BY <1>1, <1>2, <2>1 DEF PassInv
<1>6. ResultsInv'
  BY <1>1, <1>2, <1>3 DEF ResultsInv
<1>7. Advances
  BY <1>2, ResultsKept
<1>8. DecisionInv'
  BY <1>2, <1>6, <1>7, DecisionKept
<1> QED
  BY <1>3, <1>4, <1>5, <1>6, <1>7, <1>8 DEF PipelineInv

LEMMA ScheduleStep ==
    ASSUME PipelineInv, Schedule
    PROVE  PipelineInv' /\ Advances
<1>1. RecordsInv /\ HistoryInv /\ PassInv /\ ResultsInv /\ DecisionInv
  BY DEF PipelineInv
<1>2. UNCHANGED <<now, records, collecting, processed, history, predicting, results>>
  BY DEF Schedule, telemetryVars, Decide, Report
<1>3. RecordsInv' /\ HistoryInv' /\ PassInv' /\ ResultsInv'
  <2>1. RecordsInv'
    BY <1>1, <1>2 DEF RecordsInv, CollectingInv
  <2>2. HistoryInv'
    BY <1>1, <1>2, RecordTimes, HistoryKept DEF Grows
  <2>3. PassInv' /\ ResultsInv'
    BY <1>1, <1>2 DEF PassInv, ResultsInv
  <2> QED
    BY <2>1, <2>2, <2>3
<1>4. DecisionInv'
  <2>1. CASE Report
    BY <2>1 DEF Report, DecisionInv
  <2>2. CASE \E w \in fleet : Decide(w)
    <3>1. PICK w \in fleet : Decide(w)
      BY <2>2
    <3>2. /\ w \in DOMAIN results /\ UNCHANGED results
          /\ decision' = [worker |-> w, basis |-> results[w].basis,
                          generated |-> results[w].generated]
      BY <3>1 DEF Decide, Assessable
    <3>3. /\ decision'.worker = w /\ decision'.basis = results[w].basis
          /\ decision'.generated = results[w].generated
      BY <3>2
    <3>4. results[w].basis \in Nat /\ results[w].generated \in Nat
      BY <1>1, <3>2 DEF ResultsInv
    <3> QED
      BY <3>2, <3>3, <3>4 DEF DecisionInv
  <2> QED
    BY <2>1, <2>2 DEF Schedule
<1>5. Advances
  BY <1>2, ResultsKept
<1> QED
  BY <1>3, <1>4, <1>5 DEF PipelineInv

LEMMA PredictStep ==
    ASSUME PipelineInv, Predict
    PROVE  PipelineInv' /\ Advances
<1>1. RecordsInv /\ HistoryInv /\ PassInv /\ ResultsInv /\ DecisionInv
  BY DEF PipelineInv
<1>2. UNCHANGED <<now, records, collecting>>
  BY DEF Predict, telemetryVars
<1>3. RecordsInv' /\ Grows
  <2>1. RecordsInv'
    BY <1>1, <1>2 DEF RecordsInv, CollectingInv
  <2> QED
    BY <1>1, <1>2, <2>1, RecordTimes DEF Grows
<1>4. /\ Len(records) \in Nat /\ processed \in Nat /\ processed <= Len(records)
      /\ HistoriesOf(history, processed) /\ now \in Nat
  BY <1>1, RecordTimes DEF HistoryInv, RecordsInv
<1>5. UNCHANGED decision
  BY DEF Predict, StartPass, AddRecord, StartForecasts, ForecastWorker, SkipWorker,
         StoreForecast, EndPass
<1>6. CASE StartPass
  <2>1. ~ (Len(records) < processed)
    BY <1>4
  <2>2. /\ UNCHANGED <<processed, history, results>>
        /\ predicting' = [at |-> "adding", upto |-> Len(records), todo |-> {}]
    BY <1>6, <2>1 DEF StartPass
  <2>3. HistoryInv' /\ ResultsInv'
    BY <1>1, <1>2, <1>3, <2>2, HistoryKept DEF ResultsInv
  <2>4. PassInv'
    BY <1>2, <1>4, <2>2 DEF PassInv
  <2>5. Advances
    BY <2>2, ResultsKept
  <2> QED
    BY <1>3, <1>5, <2>3, <2>4, <2>5, DecisionKept DEF PipelineInv
<1>7. CASE AddRecord
  <2>1. /\ predicting.at = "adding" /\ processed < predicting.upto
        /\ history' = Added(history, records[processed + 1])
        /\ processed' = processed + 1
        /\ UNCHANGED <<predicting, results>>
    BY <1>7 DEF AddRecord
  <2>2. predicting.upto \in processed + 1 .. Len(records)
    BY <1>1, <1>4, <2>1 DEF PassInv
  <2>3. processed + 1 <= Len(records)
    BY <1>4, <2>2
  <2>4. /\ HistoriesOf(history', processed + 1)
        /\ DOMAIN history \subseteq DOMAIN history'
        /\ \A w \in DOMAIN history : Last(history[w]).time <= Last(history'[w]).time
    BY <1>1, <1>4, <2>1, <2>3, AddedIsHistory
  <2>5. HistoryInv'
    <3>1. DOMAIN history' \subseteq GPUs /\ \A w \in DOMAIN history' : WellFormed(history'[w])
      BY <2>4 DEF HistoriesOf
    <3>2. FromRecords(history, processed)'
      BY <1>2, <2>1, <2>4 DEF HistoriesOf, FromRecords
    <3>3. CoversRecords(history, processed)'
      BY <1>2, <2>1, <2>4 DEF HistoriesOf, CoversRecords
    <3>4. processed' \in 0 .. Len(records')
      BY <1>2, <1>4, <2>1, <2>3
    <3> QED
      BY <3>1, <3>2, <3>3, <3>4 DEF HistoryInv, HistoriesOf, WellFormed
  <2>6. PassInv'
    <3>1. predicting'.upto \in processed' .. Len(records')
      BY <1>2, <2>1, <2>2
    <3>2. predicting'.todo \subseteq DOMAIN history'
      BY <1>1, <2>1, <2>4 DEF PassInv
    <3> QED
      BY <1>1, <2>1, <3>1, <3>2 DEF PassInv
  <2>7. ResultsInv'
    <3>1. DOMAIN results' \subseteq DOMAIN history'
      BY <1>1, <2>1, <2>4 DEF ResultsInv
    <3>2. ASSUME NEW w \in DOMAIN results
          PROVE  results[w].basis <= Last(history'[w]).time
      <4>1. w \in DOMAIN history /\ results[w].basis <= Last(history[w]).time
        BY <1>1 DEF ResultsInv
      <4>2. Last(history[w]).time \in Nat /\ Last(history'[w]).time \in Nat
        BY <1>4, <2>4, <4>1, LastIsLatest DEF HistoriesOf
      <4>3. results[w].basis \in Nat
        BY <1>1 DEF ResultsInv
      <4> QED
        BY <2>4, <4>1, <4>2, <4>3
    <3> QED
      BY <1>1, <1>2, <2>1, <3>1, <3>2 DEF ResultsInv
  <2>8. Advances
    BY <2>1, ResultsKept
  <2> QED
    BY <1>3, <1>5, <2>5, <2>6, <2>7, <2>8, DecisionKept DEF PipelineInv
<1>8. CASE StartForecasts
  <2>1. /\ UNCHANGED <<processed, history, results>>
        /\ predicting' = [at |-> "forecasting", upto |-> 0, todo |-> DOMAIN history]
    BY <1>8 DEF StartForecasts
  <2>2. HistoryInv' /\ ResultsInv'
    BY <1>1, <1>2, <1>3, <2>1, HistoryKept DEF ResultsInv
  <2>3. PassInv'
    BY <1>4, <2>1 DEF PassInv, HistoriesOf
  <2>4. Advances
    BY <2>1, ResultsKept
  <2> QED
    BY <1>3, <1>5, <2>2, <2>3, <2>4, DecisionKept DEF PipelineInv
<1>9. CASE EndPass
  <2>1. UNCHANGED <<processed, history, results>> /\ predicting' = NoPass
    BY <1>9 DEF EndPass
  <2>2. HistoryInv' /\ ResultsInv'
    BY <1>1, <1>2, <1>3, <2>1, HistoryKept DEF ResultsInv
  <2>3. PassInv'
    BY <2>1 DEF PassInv, NoPass
  <2>4. Advances
    BY <2>1, ResultsKept
  <2> QED
    BY <1>3, <1>5, <2>2, <2>3, <2>4, DecisionKept DEF PipelineInv
<1>10. CASE ForecastWorker
  <2>1. PICK w \in GPUs : /\ predicting.at = "forecasting"
                          /\ SkipWorker(w) \/ StoreForecast(w)
    BY <1>10 DEF ForecastWorker
  <2>2. /\ UNCHANGED <<processed, history>> /\ w \in predicting.todo
        /\ w \in DOMAIN history
    BY <1>1, <2>1 DEF SkipWorker, StoreForecast, PassInv
  <2>3. HistoryInv'
    BY <1>1, <1>3, <2>2, HistoryKept
  <2>4. WellFormed(history[w])
    BY <1>4, <2>2 DEF HistoriesOf
  <2>5. CASE SkipWorker(w)
    <3>1. UNCHANGED results /\ predicting' = Visited(w)
      BY <2>5 DEF SkipWorker
    <3>2. PassInv'
      BY <1>1, <2>1, <2>2, <3>1 DEF PassInv, Visited
    <3>3. ResultsInv' /\ Advances
      BY <1>1, <1>2, <2>2, <3>1, ResultsKept DEF ResultsInv
    <3> QED
      BY <1>3, <1>5, <2>3, <3>2, <3>3, DecisionKept DEF PipelineInv
  <2>6. CASE StoreForecast(w)
    \* The history is strictly increasing: Forecast does not fail.
    <3>1. Increasing(history[w])
      <4> DEFINE s == history[w]
                 n == Len(s)
      <4>1. n \in Nat /\ n >= 3
        <5>1. n \in Nat
          BY <2>4, LastIsLatest
        <5> QED
          BY <5>1, <2>6 DEF StoreForecast, Sufficient
      <4>2. /\ n - 2 \in 1 .. n /\ n - 1 \in 1 .. n /\ n \in 1 .. n
            /\ n - 2 < n - 1 /\ n - 1 < n
        BY <4>1
      <4>3. Increases(s)
        BY <2>4 DEF WellFormed
      <4> HIDE DEF n
      <4>4. s[n - 2].time < s[n - 1].time /\ s[n - 1].time < s[n].time
        BY <4>2, <4>3 DEF Increases, n
      <4> QED
        BY <4>4 DEF Increasing, n
    <3>2. results' = Assign(results, w, ResultFor(w)) /\ predicting' = Visited(w)
      BY <2>6, <3>1 DEF StoreForecast, StoppedOr
    <3>3. PassInv'
      BY <1>1, <2>1, <2>2, <3>2 DEF PassInv, Visited
    <3>4. /\ DOMAIN results' = DOMAIN results \cup {w} /\ results'[w] = ResultFor(w)
          /\ \A v \in DOMAIN results : v # w => results'[v] = results[v]
      BY <3>2 DEF Assign
    <3>5. results'[w].basis = Last(history[w]).time /\ results'[w].generated = now
      BY <3>4 DEF ResultFor
    <3>6. Last(history[w]).time \in Nat
      BY <2>4, LastIsLatest
    <3>7. ResultsInv'
      <4>1. DOMAIN results' \subseteq DOMAIN history'
        BY <1>1, <2>2, <3>4 DEF ResultsInv
      <4>2. SUFFICES ASSUME NEW v \in DOMAIN results'
                     PROVE  /\ results'[v].basis \in Nat
                            /\ results'[v].basis <= Last(history'[v]).time
                            /\ results'[v].generated \in Nat
                            /\ results'[v].generated <= now'
        BY <4>1 DEF ResultsInv
      <4>3. CASE v = w
        BY <4>3, <1>2, <1>4, <2>2, <3>5, <3>6
      <4>4. CASE v # w
        BY <4>4, <1>1, <1>2, <2>2, <3>4 DEF ResultsInv
      <4> QED
        BY <4>3, <4>4
    <3>8. Advances
      <4>1. SUFFICES ASSUME NEW v \in DOMAIN results
                     PROVE  /\ v \in DOMAIN results'
                            /\ results'[v].basis >= results[v].basis
                            /\ results'[v].generated >= results[v].generated
        BY DEF Advances
      <4>2. /\ results[v].basis \in Nat /\ results[v].basis <= Last(history[v]).time
            /\ results[v].generated \in Nat /\ results[v].generated <= now
        BY <1>1 DEF ResultsInv
      <4>3. CASE v = w
        BY <4>2, <4>3, <1>4, <3>4, <3>5, <3>6
      <4>4. CASE v # w
        BY <4>2, <4>4, <3>4
      <4> QED
        BY <4>3, <4>4
    <3> QED
      BY <1>3, <1>5, <2>3, <3>3, <3>7, <3>8, DecisionKept DEF PipelineInv
  <2> QED
    BY <2>1, <2>5, <2>6
<1> QED
  BY <1>6, <1>7, <1>8, <1>9, <1>10 DEF Predict
-----------------------------------------------------------------------------
(***************************************************************************)
(* Theorems.                                                               *)
(***************************************************************************)
LEMMA PipelineInitial == PipelineInit => PipelineInv
<1> SUFFICES ASSUME PipelineInit PROVE PipelineInv
  OBVIOUS
<1>1. RecordsInv /\ records = <<>>
  BY TelemetryInitial DEF PipelineInit, TelemetryInit
<1>2. /\ processed = 0 /\ history = <<>> /\ results = <<>>
      /\ predicting = NoPass /\ decision = NoDecision
  BY DEF PipelineInit
<1>3. DOMAIN history = {} /\ DOMAIN results = {}
  BY <1>2
<1>4. HistoryInv
  <2>1. HistoriesOf(history, 0)
    BY <1>3 DEF HistoriesOf, FromRecords, CoversRecords
  <2>2. Len(records) = 0
    BY <1>1
  <2> QED
    BY <1>2, <2>1, <2>2 DEF HistoryInv
<1>5. PassInv
  BY <1>2 DEF PassInv, NoPass
<1>6. ResultsInv /\ DecisionInv
  BY <1>2, <1>3 DEF ResultsInv, DecisionInv
<1> QED
  BY <1>1, <1>4, <1>5, <1>6 DEF PipelineInv

LEMMA PipelineStep ==
    ASSUME PipelineInv, [PipelineNext]_pipelineVars
    PROVE  /\ PipelineInv'
           /\ Advances
<1>1. CASE PipelineNext
  BY <1>1, ObserveStep, PredictStep, ScheduleStep DEF PipelineNext
<1>2. CASE UNCHANGED pipelineVars
  <2>1. UNCHANGED <<now, records, collecting, processed, history, predicting,
                    results, decision>>
    BY <1>2 DEF pipelineVars, telemetryVars, predictionVars
  <2>2. RecordsInv' /\ PassInv' /\ ResultsInv' /\ DecisionInv'
    BY <2>1 DEF PipelineInv, RecordsInv, CollectingInv, PassInv, ResultsInv, DecisionInv
  <2>3. HistoryInv'
    BY <2>1, RecordTimes, HistoryKept DEF Grows, PipelineInv
  <2> QED
    BY <2>1, <2>2, <2>3, ResultsKept DEF PipelineInv
<1> QED
  BY <1>1, <1>2

THEOREM PipelineInvariant == PipelineSpec => []PipelineInv
<1>1. PipelineInit => PipelineInv
  BY PipelineInitial
<1>2. PipelineInv /\ [PipelineNext]_pipelineVars => PipelineInv'
  BY PipelineStep
<1> QED
  BY <1>1, <1>2, PTL DEF PipelineSpec

\* Service.Run never ends by ErrInvalidTelemetryInterval: the history of a
\* worker is strictly increasing in time, for whatever is recorded and
\* wherever the passes cut it.
THEOREM PredictorNeverStops == PipelineSpec => []PredictorKeepsRunning
<1>1. PipelineInv => PredictorKeepsRunning
  BY DEF PipelineInv, PassInv, PredictorKeepsRunning
<1> QED
  BY <1>1, PipelineInvariant, PTL

\* The incremental reading of the records leaves each worker with the last
\* HistoryCapacity ticks it was seen at, whatever the capacity.
THEOREM HistoriesAreFaithful == PipelineSpec => []HistoryFaithful
<1>1. ASSUME PipelineInv PROVE HistoryFaithful
  <2>1. RecordsInv /\ HistoriesOf(history, processed) /\ processed \in 0 .. Len(records)
    BY <1>1 DEF PipelineInv, HistoryInv
  <2>2. processed \in Nat /\ processed <= Len(records) /\ Len(records) \in Nat
    BY <2>1, RecordTimes
  <2> SUFFICES ASSUME NEW w \in GPUs
               PROVE  LET recent == IF w \in DOMAIN history THEN history[w] ELSE <<>>
                          times  == {recent[i].time : i \in 1 .. Len(recent)}
                      IN  /\ times \subseteq Ticks(w, processed)
                          /\ \A t \in Ticks(w, processed) \ times :
                                Len(recent) = HistoryCapacity /\ \A u \in times : t < u
                          /\ \A i \in 2 .. Len(recent) :
                                recent[i - 1].time < recent[i].time
                          /\ \A i \in 1 .. Len(recent) :
                                \E j \in 1 .. processed : records[j] = recent[i]
    BY DEF HistoryFaithful
  <2> DEFINE recent == IF w \in DOMAIN history THEN history[w] ELSE <<>>
             times == {recent[i].time : i \in 1 .. Len(recent)}
  <2>3. /\ recent = IF w \in DOMAIN history THEN history[w] ELSE <<>>
        /\ times = {recent[i].time : i \in 1 .. Len(recent)}
    OBVIOUS
  <2> HIDE DEF recent, times
  <2>4. Len(recent) \in Nat /\ (w \notin DOMAIN history => Len(recent) = 0)
    BY <2>1, <2>3, LastIsLatest DEF HistoriesOf
  <2>5. \A i \in 1 .. Len(recent) :
            \E j \in 1 .. processed : records[j] = recent[i] /\ records[j].worker = w
    <3>1. CASE w \in DOMAIN history
      BY <3>1, <2>1, <2>3 DEF HistoriesOf, FromRecords
    <3>2. CASE w \notin DOMAIN history
      BY <3>2, <2>4
    <3> QED
      BY <3>1, <3>2
  <2>6. times \subseteq Ticks(w, processed)
    BY <2>3, <2>5 DEF Ticks
  <2>7. ASSUME NEW t \in Ticks(w, processed), t \notin times
        PROVE  Len(recent) = HistoryCapacity /\ \A u \in times : t < u
    <3>1. PICK j \in 1 .. processed : records[j].worker = w /\ records[j].time = t
      BY DEF Ticks
    <3>2. w \in DOMAIN history /\ Covers(recent, t)
      BY <2>1, <2>3, <3>1 DEF HistoriesOf, CoversRecords
    <3> QED
      BY <2>3, <2>7, <3>2 DEF Covers
  <2>8. \A i \in 2 .. Len(recent) : recent[i - 1].time < recent[i].time
    <3>1. SUFFICES ASSUME NEW i \in 2 .. Len(recent)
                   PROVE  recent[i - 1].time < recent[i].time
      OBVIOUS
    <3>2. w \in DOMAIN history /\ recent = history[w]
      BY <2>3, <2>4
    <3>3. Increases(recent)
      BY <2>1, <3>2 DEF HistoriesOf, WellFormed
    <3>4. i - 1 \in 1 .. Len(recent) /\ i \in 1 .. Len(recent) /\ i - 1 < i
      BY <2>4
    <3> QED
      BY <3>3, <3>4 DEF Increases
  <2> QED
    BY <2>5, <2>6, <2>7, <2>8 DEF recent, times
<1> QED
  BY <1>1, PipelineInvariant, PTL

\* A pass replaces forecasts by newer ones made from telemetry that is not
\* older, and takes none away, whatever happens around it.
THEOREM ForecastsAdvance == PipelineSpec => ResultsAdvance
<1>1. PipelineInv /\ [PipelineNext]_pipelineVars
        => [\A w \in DOMAIN results :
              /\ w \in DOMAIN results'
              /\ results'[w].basis >= results[w].basis
              /\ results'[w].generated >= results[w].generated]_pipelineVars
  BY PipelineStep DEF Advances
<1> QED
  BY <1>1, PipelineInvariant, PTL DEF PipelineSpec, ResultsAdvance

\* The score reported with a placement is never of an older forecast than the
\* one the worker was chosen by.
THEOREM ReportsAreNotOlder == PipelineSpec => []ReportNotOlder
<1>1. ASSUME PipelineInv PROVE ReportNotOlder
  <2>1. SUFFICES ASSUME decision # NoDecision
                 PROVE  IF Assessable(decision.worker)
                        THEN results[decision.worker].basis >= decision.basis
                        ELSE now - decision.generated > FreshFor
    BY DEF ReportNotOlder
  <2> DEFINE w == decision.worker
  <2>2. /\ w \in DOMAIN results /\ decision.basis \in Nat /\ decision.generated \in Nat
        /\ decision.basis <= results[w].basis
        /\ decision.generated <= results[w].generated
    BY <1>1, <2>1 DEF PipelineInv, DecisionInv
  <2>3. /\ results[w].basis \in Nat /\ results[w].generated \in Nat /\ now \in Nat
    BY <1>1, <2>2 DEF PipelineInv, ResultsInv, RecordsInv
  <2>4. CASE Assessable(w)
    BY <2>2, <2>3, <2>4
  <2>5. CASE ~ Assessable(w)
    <3>1. ~ (now - results[w].generated <= FreshFor)
      BY <2>2, <2>5 DEF Assessable
    <3> QED
      BY <2>2, <2>3, <2>5, <3>1, PredictionAssumption
  <2> QED
    BY <2>4, <2>5
<1> QED
  BY <1>1, PipelineInvariant, PTL

\* What the invariant does not say of types: the bound of the clock, the
\* workers known, and that every stored result is one of percentages.
Typed ==
    /\ now \in 1 .. MaxTime
    /\ fleet \subseteq GPUs
    /\ \A w \in DOMAIN results : results[w] \in ResultType

\* Each step keeps the types, whatever forecast it stores.
LEMMA TypedStep ==
    ASSUME PipelineInv, Typed, [PipelineNext]_pipelineVars
    PROVE  Typed'
<1> SUFFICES /\ now' \in 1 .. MaxTime
             /\ fleet' \subseteq GPUs
             /\ \A w \in DOMAIN results' : results'[w] \in ResultType
  BY DEF Typed
<1>1. MaxTime \in Nat
  BY SnapshotsAssumption
<1>2. CASE UNCHANGED <<now, fleet, results>>
  BY <1>2 DEF Typed
<1>3. CASE Tick /\ UNCHANGED predictionVars
  <2>1. now < MaxTime /\ now' = now + 1 /\ UNCHANGED <<fleet, results>>
    BY <1>3 DEF Tick, predictionVars
  <2>2. now' \in 1 .. MaxTime
    BY <1>1, <2>1 DEF Typed
  <2> QED
    BY <2>1, <2>2 DEF Typed
<1>4. CASE CollectAt /\ UNCHANGED predictionVars
  <2>1. PICK s \in Snapshots : fleet' = DOMAIN s
    BY <1>4 DEF CollectAt
  <2>2. UNCHANGED <<now, results>>
    BY <1>4 DEF CollectAt, predictionVars
  <2>3. fleet' \subseteq GPUs
    BY <2>1, SnapshotsAssumption
  <2> QED
    BY <2>2, <2>3 DEF Typed
<1>5. CASE AppendRecord /\ UNCHANGED predictionVars
  <2>1. UNCHANGED <<now, fleet, results>>
    BY <1>5 DEF AppendRecord, predictionVars
  <2> QED
    BY <1>2, <2>1
<1>6. CASE Predict
  <2>1. UNCHANGED <<now, fleet>>
    BY <1>6 DEF Predict, telemetryVars
  <2>2. CASE UNCHANGED results
    BY <1>2, <2>1, <2>2
  <2>3. CASE \E w \in GPUs : StoreForecast(w)
    <3>1. PICK w \in GPUs : StoreForecast(w)
      BY <2>3
    <3>2. CASE ~ Increasing(history[w])
      <4>1. UNCHANGED results
        BY <3>1, <3>2 DEF StoreForecast
      <4> QED
        BY <2>2, <4>1
    <3>3. CASE Increasing(history[w])
      <4>1. results' = Assign(results, w, ResultFor(w))
        BY <3>1, <3>3 DEF StoreForecast
      <4>2. WellFormed(history[w]) /\ Sufficient(history[w])
        BY <3>1 DEF StoreForecast, PipelineInv, PassInv, HistoryInv, HistoriesOf
      <4>3. Forecast(history[w]) \in ForecastType /\ Last(history[w]).time \in Nat
        BY <4>2, ForecastIsTyped, LastIsLatest
      <4>4. now \in Nat
        BY DEF PipelineInv, RecordsInv
      <4>5. ResultFor(w) \in ResultType
        BY <4>3, <4>4 DEF ResultFor, ResultType
      <4> QED
        BY <2>1, <4>1, <4>5 DEF Assign, Typed
    <3> QED
      BY <3>2, <3>3
  <2> QED
    BY <1>6, <2>2, <2>3
       DEF Predict, StartPass, AddRecord, StartForecasts, ForecastWorker, EndPass, SkipWorker
<1>7. CASE Schedule
  <2>1. UNCHANGED <<now, fleet, results>>
    BY <1>7 DEF Schedule, Decide, Report, telemetryVars
  <2> QED
    BY <1>2, <2>1
<1>8. CASE UNCHANGED pipelineVars
  BY <1>2, <1>8 DEF pipelineVars, telemetryVars, predictionVars
<1> QED
  BY <1>3, <1>4, <1>5, <1>6, <1>7, <1>8 DEF PipelineNext, Observe

\* Every forecast the scheduler can read is one of percentages, with errors
\* that are: for whatever telemetry of percentages, horizon and capacity, and
\* together with the types of the stores and of the passes under way.
THEOREM PipelineTypes == PipelineSpec => []PipelineTypeOK
<1>1. PipelineInit => Typed
  <2>1. SUFFICES ASSUME PipelineInit PROVE Typed
    OBVIOUS
  <2>2. now = 1 /\ fleet = {} /\ results = <<>>
    BY <2>1 DEF PipelineInit, TelemetryInit
  <2>3. DOMAIN results = {}
    BY <2>2
  <2> QED
    BY <2>2, <2>3, SnapshotsAssumption DEF Typed
<1>2. PipelineInv /\ Typed /\ [PipelineNext]_pipelineVars => Typed'
  BY TypedStep
<1>3. ASSUME PipelineInv, Typed PROVE PipelineTypeOK
  <2>1. TelemetryTypeOK
    <3>1. collecting.time \in 0 .. now
      <4>1. collecting.time \in Nat /\ collecting.time <= now /\ now \in Nat
        BY <1>3 DEF PipelineInv, RecordsInv, CollectingInv
      <4> QED
        BY <4>1
    <3> QED
      BY <1>3, <3>1 DEF PipelineInv, RecordsInv, CollectingInv, Typed, TelemetryTypeOK
  <2>2. /\ processed \in 0 .. Len(records) /\ DOMAIN history \subseteq GPUs
        /\ \A w \in DOMAIN history : history[w] \in Seq(RecordType)
    BY <1>3 DEF PipelineInv, HistoryInv, HistoriesOf, WellFormed
  <2>3. /\ predicting.at \in {"idle", "adding", "forecasting", "stopped"}
        /\ predicting.todo \subseteq DOMAIN history
        /\ predicting.at = "adding" => predicting.upto \in processed .. Len(records)
    BY <1>3 DEF PipelineInv, PassInv
  <2>4. /\ DOMAIN results \subseteq DOMAIN history
        /\ \A w \in DOMAIN results : results[w] \in ResultType
    BY <1>3 DEF PipelineInv, ResultsInv, Typed
  <2> QED
    BY <2>1, <2>2, <2>3, <2>4 DEF PipelineTypeOK
<1> QED
  BY <1>1, <1>2, <1>3, PipelineInvariant, PTL DEF PipelineSpec

\* Whatever the horizon, the loads and the gaps between ticks, a projection
\* lies between those of the two latest intervals.
THEOREM TrendsAreFollowed == PipelineSpec => []ForecastFollowsTrend
<1>1. ASSUME PipelineInv PROVE ForecastFollowsTrend
  <2>1. SUFFICES ASSUME NEW w \in DOMAIN history, Sufficient(history[w]),
                        NEW m \in Metrics, NEW s, s = history[w], NEW n, n = Len(s)
                 PROVE  LET ahead(i) ==
                              Clamp(s[n].load[m] +
                                  (Horizon * (s[i].load[m] - s[i - 1].load[m]))
                                      \div (s[i].time - s[i - 1].time))
                        IN  \/ Projected(s, m) \in ahead(n - 1) .. ahead(n)
                            \/ Projected(s, m) \in ahead(n) .. ahead(n - 1)
    BY DEF ForecastFollowsTrend
  <2>2. WellFormed(s) /\ Sufficient(s) /\ s \in Seq(RecordType)
    BY <1>1, <2>1 DEF PipelineInv, HistoryInv, HistoriesOf, WellFormed
  <2>3. (n - 1) - 1 = n - 2
    BY <2>1, <2>2
  <2>4. LET ahead1 == Clamp(s[n].load[m] +
                (Horizon * (s[n - 1].load[m] - s[n - 2].load[m]))
                    \div (s[n - 1].time - s[n - 2].time))
            ahead2 == Clamp(s[n].load[m] +
                (Horizon * (s[n].load[m] - s[n - 1].load[m]))
                    \div (s[n].time - s[n - 1].time))
        IN  \/ Projected(s, m) \in ahead1 .. ahead2
            \/ Projected(s, m) \in ahead2 .. ahead1
    BY <2>1, <2>2, ProjectedBetween
  <2> QED
    BY <2>3, <2>4
<1> QED
  BY <1>1, PipelineInvariant, PTL

\* Whatever the rate and the gaps between ticks, the error estimated for a load
\* that changes at one rate all along is at most what it changes by in the time
\* by which the gaps differ.
THEOREM SteadyErrorsBounded == PipelineSpec => []SteadyErrorBounded
<1>1. ASSUME PipelineInv PROVE SteadyErrorBounded
  <2>1. SUFFICES ASSUME NEW w \in DOMAIN history, Sufficient(history[w]),
                        NEW m \in Metrics, NEW spread \in 0 .. MaxTime,
                        NEW s, s = history[w],
                        NEW r, r = (s[2].load[m] - s[1].load[m])
                                       \div (s[2].time - s[1].time),
                        \A i \in 2 .. Len(s) : s[i].load[m] - s[i - 1].load[m]
                                             = r * (s[i].time - s[i - 1].time),
                        \A i, j \in 2 .. Len(s) :
                            (s[i].time - s[i - 1].time)
                                - (s[j].time - s[j - 1].time) <= spread
                 PROVE  MeanError(s, m) <= Magnitude(r) * spread
    BY DEF SteadyErrorBounded
  <2>2. WellFormed(s) /\ Sufficient(s) /\ s \in Seq(RecordType) /\ Increases(s)
    BY <1>1, <2>1 DEF PipelineInv, HistoryInv, HistoriesOf, WellFormed
  <2>3. 1 \in 1 .. Len(s) /\ 2 \in 1 .. Len(s) /\ 1 < 2
    BY <2>2 DEF Sufficient
  <2>4. PICK v1 \in 0 .. 100, v2 \in 0 .. 100, t1 \in Nat, t2 \in Nat :
            /\ v1 = s[1].load[m] /\ v2 = s[2].load[m]
            /\ t1 = s[1].time /\ t2 = s[2].time
    BY <2>2, <2>3, LoadIsPercent
  <2>5. t1 < t2
    BY <2>2, <2>3, <2>4 DEF Increases
  <2>6. r \in Int
    <3>1. v2 - v1 \in Int /\ t2 - t1 \in Nat \ {0}
      BY <2>5
    <3>2. (v2 - v1) \div (t2 - t1) \in Int
      BY <3>1, RoundedDown
    <3> QED
      BY <2>1, <2>4, <3>2
  <2>7. spread \in Nat
    OBVIOUS
  <2> QED
    BY <2>1, <2>2, <2>6, <2>7, SteadyWithin
<1> QED
  BY <1>1, PipelineInvariant, PTL
=============================================================================
