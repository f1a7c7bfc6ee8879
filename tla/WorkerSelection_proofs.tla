----------------------- MODULE WorkerSelection_proofs -----------------------
(***************************************************************************)
(* What the three policies return, for every set of workers, every score   *)
(* and every order of visits; and that the scores and risks of the code    *)
(* are among those assumed.                                                *)
(***************************************************************************)
EXTENDS WorkerSelection, WorkerScoring, TLAPS

\* Levels follow scores, so a comparison by level first and score second is a
\* comparison by score.
LEMMA LevelMonotone ==
    ASSUME NEW r \in Nat, NEW s \in Nat, r <= s
    PROVE  RiskLevel(r) <= RiskLevel(s)
BY DEF RiskLevel

\* Breakdowns are typed, and one without a fresh forecast is the baseline's.
LEMMA BreakdownFields ==
    ASSUME NEW offer \in OfferType, NEW estimate \in EstimateType
    PROVE  /\ Breakdown(offer, estimate) \in BreakdownType
           /\ Breakdown(offer, estimate).base = offer.base
           /\ ~ Breakdown(offer, estimate).used =>
                 Breakdown(offer, estimate).total = offer.base
<1>1. /\ Breakdown(offer, estimate).base = offer.base
      /\ Breakdown(offer, estimate).used = estimate.fresh
      /\ Breakdown(offer, estimate).total =
            offer.base - (IF estimate.fresh THEN estimate.penalty ELSE 0)
      /\ Breakdown(offer, estimate).risk = IF estimate.fresh THEN estimate.risk ELSE 0
    BY Zenon DEF Breakdown
<1>2. /\ offer.base \in Int /\ estimate.fresh \in BOOLEAN
      /\ estimate.penalty \in Nat /\ estimate.risk \in Nat
    BY DEF OfferType, EstimateType
<1>3. offer.base - (IF estimate.fresh THEN estimate.penalty ELSE 0) \in Int
    BY <1>2
<1>4. (IF estimate.fresh THEN estimate.risk ELSE 0) \in Nat
    BY <1>2
<1>5. Breakdown(offer, estimate) \in BreakdownType
    BY <1>2, <1>3, <1>4, Zenon DEF Breakdown, BreakdownType
<1>6. ~ estimate.fresh => offer.base -
          (IF estimate.fresh THEN estimate.penalty ELSE 0) = offer.base
    BY <1>2
<1> QED
    BY <1>1, <1>5, <1>6, Zenon

\* What a visit that weighs a worker does to the records of the loop.
LEMMA WeighFields ==
    ASSUME SelectionTypeOK,
           NEW w \in todo, NEW estimate \in Estimates, Weigh(w, estimate)
    PROVE  LET b == Breakdown(offers[w], estimate) IN
           /\ w \in Candidates /\ w \notin DOMAIN seen
           /\ b \in BreakdownType /\ b.base = offers[w].base
           /\ ~ b.used => b.total = b.base
           /\ DOMAIN seen' = DOMAIN seen \cup {w}
           /\ seen'[w] = b
           /\ \A v \in DOMAIN seen : seen'[v] = seen[v]
           /\ selected' = IF Preferred(w, b) THEN w ELSE selected
<1> DEFINE b == Breakdown(offers[w], estimate)
<1>1. /\ w \in Candidates /\ w \notin DOMAIN seen
      /\ offers[w] \in OfferType /\ estimate \in EstimateType
    BY SelectionAssumption DEF SelectionTypeOK
<1>2. b \in BreakdownType /\ b.base = offers[w].base /\ (~ b.used => b.total = b.base)
    BY <1>1, BreakdownFields, Zenon
<1>3. /\ seen' = [v \in DOMAIN seen \cup {w} |-> IF v = w THEN b ELSE seen[v]]
      /\ selected' = IF Preferred(w, b) THEN w ELSE selected
    BY Zenon DEF Weigh
<1> HIDE DEF b
<1>4. /\ DOMAIN seen' = DOMAIN seen \cup {w}
      /\ seen'[w] = b
      /\ \A v \in DOMAIN seen : seen'[v] = seen[v]
    BY <1>1, <1>3
<1> QED
    BY <1>1, <1>2, <1>3, <1>4, Zenon DEF b

\* The state is typed and the candidates weighed are those visited and eligible.
THEOREM SelectionTypes == SelectionSpec => []SelectionTypeOK
<1>1. SelectionInit => SelectionTypeOK
  <2> SUFFICES ASSUME SelectionInit
               PROVE  SelectionTypeOK
      OBVIOUS
  <2>1. DOMAIN <<>> = {} /\ <<>> \in [{} -> BreakdownType]
      OBVIOUS
  <2>2. /\ DOMAIN offers \subseteq Candidates
        /\ offers \in [DOMAIN offers -> OfferType]
        /\ todo = DOMAIN offers
      BY SelectionAssumption DEF SelectionInit
  <2>3. EligibleCandidates \ todo = {}
      BY <2>2 DEF EligibleCandidates
  <2> QED
      BY <2>1, <2>2, <2>3 DEF SelectionInit, SelectionTypeOK
<1>2. SelectionTypeOK /\ [SelectionNext]_selectionVars => SelectionTypeOK'
  <2> SUFFICES ASSUME SelectionTypeOK, [SelectionNext]_selectionVars
               PROVE  SelectionTypeOK'
      OBVIOUS
  <2>1. CASE UNCHANGED selectionVars
      BY <2>1 DEF SelectionTypeOK, selectionVars, EligibleCandidates
  <2>2. CASE SelectionNext
    <3>1. PICK w \in Candidates : Visit(w)
        BY <2>2 DEF SelectionNext
    <3>2. /\ w \in todo /\ todo' = todo \ {w}
          /\ policy' = policy /\ offers' = offers
          /\ EligibleCandidates' = EligibleCandidates
        BY <3>1 DEF Visit, EligibleCandidates
    <3>3. CASE Skip(w)
        BY <3>2, <3>3 DEF Skip, SelectionTypeOK, EligibleCandidates
    <3>4. CASE \E estimate \in Estimates : Weigh(w, estimate)
      <4>1. PICK estimate \in Estimates : Weigh(w, estimate)
          BY <3>4
      <4> DEFINE b == Breakdown(offers[w], estimate)
      <4>2. /\ w \notin DOMAIN seen /\ b \in BreakdownType
            /\ DOMAIN seen' = DOMAIN seen \cup {w}
            /\ seen'[w] = b
            /\ \A v \in DOMAIN seen : seen'[v] = seen[v]
            /\ selected' = IF Preferred(w, b) THEN w ELSE selected
          BY <3>2, <4>1, WeighFields
      <4>3. w \in EligibleCandidates /\ w # 0
          BY <3>2, <4>1, SelectionAssumption DEF Weigh, EligibleCandidates, SelectionTypeOK
      <4>4. selected = 0 => Preferred(w, b)
          BY DEF Preferred
      <4>8. seen' = [v \in DOMAIN seen \cup {w} |-> IF v = w THEN b ELSE seen[v]]
          BY <4>1, Zenon DEF Weigh
      <4> HIDE DEF b
      <4>5. DOMAIN seen' = EligibleCandidates' \ todo'
          BY <3>2, <4>2, <4>3 DEF SelectionTypeOK
      <4>6. seen' \in [DOMAIN seen' -> BreakdownType]
          BY <4>2, <4>8 DEF SelectionTypeOK
      <4>7. /\ selected' \in DOMAIN seen' \cup {0}
            /\ (selected' = 0 <=> DOMAIN seen' = {})
          BY <4>2, <4>3, <4>4 DEF SelectionTypeOK
      <4> QED
          BY <3>2, <4>5, <4>6, <4>7 DEF SelectionTypeOK
    <3> QED
        BY <3>1, <3>3, <3>4 DEF Visit
  <2> QED
      BY <2>1, <2>2
<1> QED
    BY <1>1, <1>2, PTL DEF SelectionSpec

-----------------------------------------------------------------------------
(***************************************************************************)
(* The loop's invariant: what is returned at the end holds of the workers  *)
(* visited so far.                                                         *)
(***************************************************************************)
SeenSound ==
    \A v \in DOMAIN seen :
        /\ seen[v].base = offers[v].base
        /\ ~ seen[v].used => seen[v].total = seen[v].base

BaselineBestSeen ==
    policy = "baseline" =>
        \A v \in DOMAIN seen \ {selected} :
            \/ seen[selected].base > seen[v].base
            \/ seen[selected].base = seen[v].base /\ selected < v

PredictiveBestSeen ==
    policy = "predictive" =>
        \A v \in DOMAIN seen : seen[selected].total >= seen[v].total

RiskBestSeen ==
    policy = "riskaware" /\ (\A v \in DOMAIN seen : seen[v].used) =>
        \A v \in DOMAIN seen :
            \/ seen[selected].risk < seen[v].risk
            \/ /\ seen[selected].risk = seen[v].risk
               /\ seen[selected].base >= seen[v].base

StaleBestSeen ==
    (\A v \in DOMAIN seen : ~ seen[v].used) =>
        \A v \in DOMAIN seen : seen[selected].base >= seen[v].base

BestSeen ==
    /\ SeenSound
    /\ BaselineBestSeen
    /\ PredictiveBestSeen
    /\ RiskBestSeen
    /\ StaleBestSeen

\* One visit of a candidate keeps each part of the invariant.
LEMMA WeighKeepsBest ==
    ASSUME SelectionTypeOK, BestSeen, UNCHANGED <<policy, offers>>,
           NEW w \in todo, NEW estimate \in Estimates, Weigh(w, estimate)
    PROVE  BestSeen'
<1>1. PICK b : b = Breakdown(offers[w], estimate)
    OBVIOUS
<1>2. /\ w \in Candidates /\ w \notin DOMAIN seen
      /\ b \in BreakdownType /\ b.base = offers[w].base
      /\ ~ b.used => b.total = b.base
      /\ DOMAIN seen' = DOMAIN seen \cup {w}
      /\ seen'[w] = b
      /\ \A v \in DOMAIN seen : seen'[v] = seen[v]
      /\ selected' = IF Preferred(w, b) THEN w ELSE selected
    BY <1>1, WeighFields
<1>3. b.base \in Int /\ b.total \in Int /\ b.risk \in Nat
    BY <1>2 DEF BreakdownType
<1>4. \A v \in DOMAIN seen :
          seen[v].base \in Int /\ seen[v].total \in Int /\ seen[v].risk \in Nat
    BY DEF SelectionTypeOK, BreakdownType
<1>5. /\ \A v \in DOMAIN seen : v \in Nat
      /\ w \in Nat
      /\ selected = 0 => DOMAIN seen = {}
      /\ selected # 0 => selected \in DOMAIN seen
    BY <1>2, SelectionAssumption DEF SelectionTypeOK, EligibleCandidates
<1>6. SeenSound'
    BY <1>2 DEF BestSeen, SeenSound
<1>7. BaselineBestSeen'
  <2> SUFFICES ASSUME policy = "baseline"
               PROVE  \A v \in DOMAIN seen' \ {selected'} :
                         \/ seen'[selected'].base > seen'[v].base
                         \/ seen'[selected'].base = seen'[v].base /\ selected' < v
      BY DEF BaselineBestSeen
  <2>1. selected # 0 =>
            (Preferred(w, b) <=> \/ b.base > seen[selected].base
                                 \/ b.base = seen[selected].base /\ w < selected)
      BY DEF Preferred, PreferBaseline
  <2>2. selected = 0 => Preferred(w, b)
      BY DEF Preferred
  <2> QED
      BY <1>2, <1>3, <1>4, <1>5, <2>1, <2>2 DEF BestSeen, BaselineBestSeen
<1>8. PredictiveBestSeen'
  <2> SUFFICES ASSUME policy = "predictive"
               PROVE  \A v \in DOMAIN seen' : seen'[selected'].total >= seen'[v].total
      BY DEF PredictiveBestSeen
  <2>1. selected # 0 => (Preferred(w, b) <=> b.total > seen[selected].total)
      BY DEF Preferred, PreferPredictive
  <2>2. selected = 0 => Preferred(w, b)
      BY DEF Preferred
  <2> QED
      BY <1>2, <1>3, <1>4, <1>5, <2>1, <2>2 DEF BestSeen, PredictiveBestSeen
<1>9. RiskBestSeen'
  <2> SUFFICES ASSUME policy = "riskaware", \A v \in DOMAIN seen' : seen'[v].used
               PROVE  \A v \in DOMAIN seen' :
                         \/ seen'[selected'].risk < seen'[v].risk
                         \/ /\ seen'[selected'].risk = seen'[v].risk
                            /\ seen'[selected'].base >= seen'[v].base
      BY DEF RiskBestSeen
  <2>1. b.used /\ \A v \in DOMAIN seen : seen[v].used
      BY <1>2
  <2>2. selected # 0 =>
            (Preferred(w, b) <=>
                IF RiskLevel(b.risk) # RiskLevel(seen[selected].risk)
                THEN RiskLevel(b.risk) < RiskLevel(seen[selected].risk)
                ELSE IF b.risk # seen[selected].risk
                THEN b.risk < seen[selected].risk
                ELSE b.base > seen[selected].base)
      BY <1>5, <2>1 DEF Preferred, PreferRiskAware
  <2>3. selected # 0 =>
            (Preferred(w, b) <=> \/ b.risk < seen[selected].risk
                                 \/ /\ b.risk = seen[selected].risk
                                    /\ b.base > seen[selected].base)
    <3> SUFFICES ASSUME selected # 0
                 PROVE  Preferred(w, b) <=> \/ b.risk < seen[selected].risk
                                            \/ /\ b.risk = seen[selected].risk
                                               /\ b.base > seen[selected].base
        OBVIOUS
    <3>1. seen[selected].risk \in Nat
        BY <1>4, <1>5
    <3>2. /\ RiskLevel(b.risk) \in Int /\ RiskLevel(seen[selected].risk) \in Int
          /\ b.risk <= seen[selected].risk =>
                RiskLevel(b.risk) <= RiskLevel(seen[selected].risk)
          /\ seen[selected].risk <= b.risk =>
                RiskLevel(seen[selected].risk) <= RiskLevel(b.risk)
        BY <1>3, <3>1, LevelMonotone DEF RiskLevel
    <3> DEFINE r == b.risk
               s == seen[selected].risk
               rl == RiskLevel(b.risk)
               sl == RiskLevel(seen[selected].risk)
               higher == b.base > seen[selected].base
    <3>3. Preferred(w, b) <=> IF rl # sl THEN rl < sl
                              ELSE IF r # s THEN r < s ELSE higher
        BY <2>2
    <3>4. /\ r \in Int /\ s \in Int /\ rl \in Int /\ sl \in Int
          /\ (r <= s => rl <= sl) /\ (s <= r => sl <= rl)
        BY <1>3, <3>1, <3>2
    <3> HIDE DEF r, s, rl, sl, higher
    <3>5. Preferred(w, b) <=> r < s \/ (r = s /\ higher)
        BY <3>3, <3>4
    <3> QED
        BY <3>5 DEF r, s, higher
  <2>4. selected = 0 => Preferred(w, b)
      BY DEF Preferred
  <2>5. \A v \in DOMAIN seen :
            \/ seen[selected].risk < seen[v].risk
            \/ /\ seen[selected].risk = seen[v].risk
               /\ seen[selected].base >= seen[v].base
      BY <2>1 DEF BestSeen, RiskBestSeen
  <2>6. CASE selected = 0
    <3>1. DOMAIN seen' = {w} /\ selected' = w /\ seen'[w] = b
        BY <1>2, <1>5, <2>4, <2>6
    <3> QED
        BY <1>3, <3>1
  <2>7. CASE selected # 0 /\ Preferred(w, b)
    <3>1. selected' = w /\ seen'[selected'] = b
        BY <1>2, <2>7
    <3>2. \/ b.risk < seen[selected].risk
          \/ b.risk = seen[selected].risk /\ b.base > seen[selected].base
        BY <2>3, <2>7
    <3>3. \A v \in DOMAIN seen :
              \/ b.risk < seen[v].risk
              \/ b.risk = seen[v].risk /\ b.base >= seen[v].base
        BY <1>3, <1>4, <1>5, <2>5, <2>7, <3>2
    <3>4. ASSUME NEW v \in DOMAIN seen'
          PROVE  \/ b.risk < seen'[v].risk
                 \/ b.risk = seen'[v].risk /\ b.base >= seen'[v].base
      <4>1. CASE v = w
          BY <1>2, <1>3, <4>1
      <4>2. CASE v # w
        <5>1. v \in DOMAIN seen /\ seen'[v] = seen[v]
            BY <1>2, <4>2
        <5> QED
            BY <3>3, <5>1
      <4> QED
          BY <4>1, <4>2
    <3> QED
        BY <3>1, <3>4
  <2>8. CASE selected # 0 /\ ~ Preferred(w, b)
    <3>1. selected' = selected /\ seen'[selected'] = seen[selected]
        BY <1>2, <1>5, <2>8
    <3>2. \/ seen[selected].risk < b.risk
          \/ seen[selected].risk = b.risk /\ seen[selected].base >= b.base
        BY <1>3, <1>4, <1>5, <2>3, <2>8
    <3> QED
        BY <1>2, <2>5, <3>1, <3>2
  <2> QED
      BY <2>6, <2>7, <2>8
<1>10. StaleBestSeen'
  <2> SUFFICES ASSUME \A v \in DOMAIN seen' : ~ seen'[v].used
               PROVE  \A v \in DOMAIN seen' : seen'[selected'].base >= seen'[v].base
      BY DEF StaleBestSeen
  <2>1. ~ b.used /\ \A v \in DOMAIN seen : ~ seen[v].used
      BY <1>2
  <2>2. b.total = b.base /\ \A v \in DOMAIN seen : seen[v].total = seen[v].base
      BY <1>2, <2>1 DEF BestSeen, SeenSound
  <2>3. selected # 0 =>
            /\ b.base > seen[selected].base => Preferred(w, b)
            /\ Preferred(w, b) => b.base >= seen[selected].base
    <3>1. policy = "baseline" \/ policy = "predictive" \/ policy = "riskaware"
        BY DEF SelectionTypeOK, Policies
    <3>2. policy = "riskaware" /\ selected # 0 =>
              (Preferred(w, b) <=> b.base > seen[selected].base)
        BY <2>1 DEF Preferred, PreferRiskAware
    <3> QED
        BY <1>3, <1>4, <1>5, <2>2, <3>1, <3>2
        DEF Preferred, PreferBaseline, PreferPredictive
  <2>4. selected = 0 => Preferred(w, b)
      BY DEF Preferred
  <2>5. \A v \in DOMAIN seen : seen[selected].base >= seen[v].base
      BY <2>1 DEF BestSeen, StaleBestSeen
  <2> QED
      BY <1>2, <1>3, <1>4, <1>5, <2>3, <2>4, <2>5
<1> QED
    BY <1>6, <1>7, <1>8, <1>9, <1>10 DEF BestSeen

LEMMA BestSeenAlways == SelectionSpec => [](SelectionTypeOK /\ BestSeen)
<1>1. SelectionInit => BestSeen
    BY DEF SelectionInit, BestSeen, SeenSound, BaselineBestSeen,
           PredictiveBestSeen, RiskBestSeen, StaleBestSeen
<1>2. SelectionTypeOK /\ BestSeen /\ [SelectionNext]_selectionVars => BestSeen'
  <2> SUFFICES ASSUME SelectionTypeOK, BestSeen, [SelectionNext]_selectionVars
               PROVE  BestSeen'
      OBVIOUS
  <2>1. ASSUME UNCHANGED <<policy, offers, seen, selected>>
        PROVE  BestSeen'
      BY <2>1 DEF BestSeen, SeenSound, BaselineBestSeen, PredictiveBestSeen,
                  RiskBestSeen, StaleBestSeen
  <2>2. CASE UNCHANGED selectionVars
      BY <2>1, <2>2 DEF selectionVars
  <2>3. CASE SelectionNext
    <3>1. PICK w \in Candidates : Visit(w)
        BY <2>3 DEF SelectionNext
    <3>2. w \in todo /\ UNCHANGED <<policy, offers>>
        BY <3>1 DEF Visit
    <3>3. CASE Skip(w)
        BY <2>1, <3>2, <3>3 DEF Skip
    <3>4. CASE \E estimate \in Estimates : Weigh(w, estimate)
        BY <3>2, <3>4, WeighKeepsBest
    <3> QED
        BY <3>1, <3>3, <3>4 DEF Visit
  <2> QED
      BY <2>2, <2>3
<1> QED
    BY <1>1, <1>2, SelectionTypes, PTL DEF SelectionSpec

\* When the loop is over, all eligible workers have been seen.
LEMMA AllSeen ==
    ASSUME SelectionTypeOK, Returned
    PROVE  /\ DOMAIN seen = EligibleCandidates
           /\ EligibleCandidates # {} => selected \in EligibleCandidates
BY DEF SelectionTypeOK, Returned

\* SelectWorker returns the one worker of highest score and, among equals, of
\* smallest ID, in whatever order the snapshot's workers come.
THEOREM BaselineDeterministic == SelectionSpec => []BaselineChoosesBest
<1>1. SelectionTypeOK /\ BestSeen => BaselineChoosesBest
  <2> SUFFICES ASSUME SelectionTypeOK, BestSeen, policy = "baseline", Returned,
                      EligibleCandidates # {}
               PROVE  IsBaselineChoice(selected)
      BY DEF BaselineChoosesBest
  <2> QED
      BY AllSeen DEF IsBaselineChoice, BestSeen, SeenSound, BaselineBestSeen
<1> QED
    BY <1>1, BestSeenAlways, PTL

\* SelectWorkerPredictive returns a worker of the highest penalised score it
\* saw, whatever the predictor stores while it looks.
THEOREM PredictiveMaximal == SelectionSpec => []PredictiveChoosesBest
<1>1. SelectionTypeOK /\ BestSeen => PredictiveChoosesBest
    BY AllSeen DEF PredictiveChoosesBest, BestSeen, PredictiveBestSeen
<1> QED
    BY <1>1, BestSeenAlways, PTL

\* SelectWorkerRiskAware returns a worker of lowest risk if it could assess
\* all of them.
THEOREM AssessedMinimal == SelectionSpec => []AssessedLowestRisk
<1>1. SelectionTypeOK /\ BestSeen => AssessedLowestRisk
    BY AllSeen DEF AssessedLowestRisk, BestSeen, RiskBestSeen
<1> QED
    BY <1>1, BestSeenAlways, PTL

\* With no fresh forecast, all policies return a worker of the highest score.
THEOREM StaleForecastsIgnored == SelectionSpec => []StaleFallsBack
<1>1. SelectionTypeOK /\ BestSeen => StaleFallsBack
  <2> SUFFICES ASSUME SelectionTypeOK, BestSeen, Returned,
                      \A v \in EligibleCandidates : ~ seen[v].used
               PROVE  \A v \in EligibleCandidates :
                         offers[selected].base >= offers[v].base
      BY DEF StaleFallsBack
  <2> QED
      BY AllSeen DEF BestSeen, SeenSound, StaleBestSeen
<1> QED
    BY <1>1, BestSeenAlways, PTL

-----------------------------------------------------------------------------
(***************************************************************************)
(* The scores and risks the policies weigh (WorkerScoring).                *)
(***************************************************************************)
\* A stored forecast with its errors, in per cents, and the contention it
\* predicts.
ForecastType == [memory : 0 .. 100, compute : 0 .. 100, contention : BOOLEAN,
                 memoryError : 0 .. 100, computeError : 0 .. 100]

\* Cutting off at 0 and 100 keeps the order.
LEMMA PercentBetween ==
    ASSUME NEW u \in Int, NEW v \in Int, u <= v
    PROVE  Percent(u) \in 0 .. 100 /\ Percent(u) <= Percent(v)
BY DEF Percent

\* A larger workload has no smaller share of a worker, rounded down.
LEMMA ShareMonotone ==
    ASSUME NEW r \in Nat, NEW s \in Nat, r <= s, NEW total \in Nat \ {0}
    PROVE  /\ (r * 100) \div total \in Nat
           /\ (r * 100) \div total <= (s * 100) \div total
<1>1. PICK p, q : p = (r * 100) \div total /\ q = (s * 100) \div total
    OBVIOUS
<1>2. p \in Nat /\ p * total <= r * 100 /\ r * 100 < (p + 1) * total
    BY <1>1
<1>3. q \in Nat /\ q * total <= s * 100 /\ s * 100 < (q + 1) * total
    BY <1>1
<1>4. p * total < (q + 1) * total
    BY <1>2, <1>3
<1>5. p < q + 1
    BY <1>2, <1>3, <1>4
<1> QED
    BY <1>1, <1>2, <1>3, <1>5

\* Both pressures are percentages, also on a worker without memory.
LEMMA PressuresArePercents ==
    ASSUME NEW gpu \in GPUType, NEW required \in Nat, NEW forecast \in ForecastType
    PROVE  /\ ComputePressure(forecast) \in 0 .. 100
           /\ MemoryPressure(required, gpu, forecast) \in 0 .. 100
<1>1. /\ gpu.total \in Nat
      /\ forecast.memory \in Int /\ forecast.memoryError \in Int
      /\ forecast.compute \in Int /\ forecast.computeError \in Int
    BY DEF GPUType, ForecastType
<1>2. ComputePressure(forecast) \in 0 .. 100
    BY <1>1, PercentBetween DEF ComputePressure
<1>3. CASE gpu.total = 0
    BY <1>2, <1>3 DEF MemoryPressure
<1>4. CASE gpu.total # 0
    <2>1. PICK share \in Nat : share = (required * 100) \div gpu.total
        BY <1>1, <1>4, ShareMonotone
    <2>2. PICK sum \in Int : sum = forecast.memory + forecast.memoryError + share
        BY <1>1, <2>1
    <2>3. MemoryPressure(required, gpu, forecast) = Percent(sum)
        BY <1>4, <2>1, <2>2 DEF MemoryPressure
    <2> QED
        BY <1>2, <2>2, <2>3, PercentBetween
<1> QED
    BY <1>3, <1>4

(***************************************************************************)
(* What is proved of the selection loops for any scores and risks holds of *)
(* those the code computes: for every worker that validates, every         *)
(* workload and every stored forecast, they are an offer and an estimate   *)
(* of the types assumed there, the risk a percentage.                      *)
(***************************************************************************)
THEOREM ScoresAreAdmissible ==
    ASSUME NEW gpu \in GPUType, NEW required \in Nat, NEW forecast \in ForecastType,
           NEW eligible \in BOOLEAN, NEW fresh \in BOOLEAN
    PROVE  /\ [eligible |-> eligible, base |-> BaseScore(gpu)] \in OfferType
           /\ [fresh |-> fresh, penalty |-> PredictionPenalty(forecast),
               risk |-> PlacementRisk(required, gpu, forecast)] \in EstimateType
           /\ PlacementRisk(required, gpu, forecast) \in 0 .. 100
<1>1. /\ gpu.avail \in Nat /\ gpu.total \in Nat /\ gpu.active \in Nat
      /\ gpu.memory \in Nat /\ gpu.compute \in Nat
    BY DEF GPUType
<1>2. forecast.memory \in Nat /\ forecast.compute \in Nat
    BY DEF ForecastType
<1>3. BaseScore(gpu) \in Int
    <2>1. PICK gigabytes \in Int : gigabytes = (gpu.avail * Point) \div 1024
        BY <1>1 DEF Point
    <2>2. PICK bonus \in Int : bonus = IF gpu.cached THEN 100 ELSE 0
        OBVIOUS
    <2>3. PICK rest \in Int : rest = bonus - gpu.compute - gpu.memory - 10 * gpu.active
        BY <1>1, <2>2
    <2>4. BaseScore(gpu) = gigabytes + Point * rest
        BY <2>1, <2>2, <2>3 DEF BaseScore
    <2> QED
        BY <2>1, <2>3, <2>4 DEF Point
<1>4. PredictionPenalty(forecast) \in Nat
    <2>1. PICK contention \in Nat : contention = IF forecast.contention THEN 100 ELSE 0
        OBVIOUS
    <2>2. PICK load \in Nat : load = forecast.memory + forecast.compute + contention
        BY <1>2, <2>1
    <2>3. PredictionPenalty(forecast) = Point * load
        BY <2>1, <2>2 DEF PredictionPenalty
    <2> QED
        BY <2>2, <2>3 DEF Point
<1>5. PlacementRisk(required, gpu, forecast) \in 0 .. 100
    BY PressuresArePercents DEF PlacementRisk, Larger
<1> QED
    BY <1>3, <1>4, <1>5 DEF OfferType, EstimateType

(***************************************************************************)
(* Risk is aware of uncertainty (evaluator.go): whatever the worker, a     *)
(* larger workload or a forecast that is higher, or may be wrong by more,  *)
(* never makes a placement less risky, in score or in level, although the  *)
(* workload's share is rounded and both pressures are cut off at 100.      *)
(***************************************************************************)
THEOREM RiskMonotone ==
    ASSUME NEW gpu \in GPUType,
           NEW required \in Nat, NEW more \in Nat, required <= more,
           NEW forecast \in ForecastType, NEW worse \in ForecastType,
           forecast.memory <= worse.memory, forecast.compute <= worse.compute,
           forecast.memoryError <= worse.memoryError,
           forecast.computeError <= worse.computeError
    PROVE  LET risk == PlacementRisk(required, gpu, forecast)
               greater == PlacementRisk(more, gpu, worse)
           IN  risk <= greater /\ RiskLevel(risk) <= RiskLevel(greater)
<1>1. /\ forecast.memory \in Int /\ forecast.compute \in Int
      /\ forecast.memoryError \in Int /\ forecast.computeError \in Int
      /\ worse.memory \in Int /\ worse.compute \in Int
      /\ worse.memoryError \in Int /\ worse.computeError \in Int
    BY DEF ForecastType
<1>2. ComputePressure(forecast) <= ComputePressure(worse)
    BY <1>1, PercentBetween DEF ComputePressure
<1>3. MemoryPressure(required, gpu, forecast) <= MemoryPressure(more, gpu, worse)
    <2>1. CASE gpu.total = 0
        BY <2>1 DEF MemoryPressure
    <2>2. CASE gpu.total # 0
        <3>1. PICK total \in Nat \ {0} : total = gpu.total
            BY <2>2 DEF GPUType
        <3>2. PICK p \in Nat, q \in Nat :
                  /\ p = (required * 100) \div gpu.total
                  /\ q = (more * 100) \div gpu.total
                  /\ p <= q
            BY <3>1, ShareMonotone
        <3>3. forecast.memory + forecast.memoryError + p
                  <= worse.memory + worse.memoryError + q
            BY <1>1, <3>2
        <3>4. Percent(forecast.memory + forecast.memoryError + p)
                  <= Percent(worse.memory + worse.memoryError + q)
            BY <1>1, <3>2, <3>3, PercentBetween
        <3> QED
            BY <2>2, <3>2, <3>4 DEF MemoryPressure
    <2> QED
        BY <2>1, <2>2
<1>4. /\ ComputePressure(forecast) \in Nat
      /\ MemoryPressure(required, gpu, forecast) \in Nat
    BY PressuresArePercents
<1>5. /\ ComputePressure(worse) \in Nat
      /\ MemoryPressure(more, gpu, worse) \in Nat
    BY PressuresArePercents
<1>6. /\ PlacementRisk(required, gpu, forecast) \in Nat
      /\ PlacementRisk(more, gpu, worse) \in Nat
      /\ PlacementRisk(required, gpu, forecast) <= PlacementRisk(more, gpu, worse)
    BY <1>2, <1>3, <1>4, <1>5 DEF PlacementRisk, Larger
<1> QED
    BY <1>6, LevelMonotone
=============================================================================
