-------------------------- MODULE WorkerSelection ---------------------------
(***************************************************************************)
(* SelectWorker, SelectWorkerPredictive and SelectWorkerRiskAware          *)
(* (internal/scheduler): the loop that picks a worker for one workload.    *)
(*                                                                         *)
(* The workers come from a snapshot of the store, hence in the random      *)
(* order of a Go map.  The forecasts do not: each is read from the result  *)
(* store, and its age compared with the clock, when its worker is visited, *)
(* while the predictor goes on storing new ones.  A visit may find any     *)
(* estimate.                                                               *)
(***************************************************************************)
EXTENDS Integers

CONSTANTS
    Candidates,   \* worker IDs, of which only the order matters
    Offers,       \* what a worker may be to the workload
    Estimates     \* what a visit may find in the result store

\* eligible: healthy, with the memory and the topology; base: its score.
OfferType == [eligible : BOOLEAN, base : Int]

\* fresh: there is a forecast, 15 seconds old at most; penalty: what it takes
\* from the score; risk: the score the evaluator derives from it.
EstimateType == [fresh : BOOLEAN, penalty : Nat, risk : Nat]

ASSUME SelectionAssumption ==
    /\ Candidates \subseteq Nat \ {0}
    /\ Offers \subseteq OfferType
    /\ Estimates \subseteq EstimateType

VARIABLES
    policy,     \* which of the three functions runs
    offers,     \* the workers of the snapshot
    todo,       \* workers not visited yet
    seen,       \* score breakdown of each candidate visited; the code keeps
                \* the selected one's only
    selected    \* the best so far, 0 before the first

selectionVars == <<policy, offers, todo, seen, selected>>

Policies == {"baseline", "predictive", "riskaware"}

\* riskLevelRank of levelForScore.
RiskLevel(risk) ==
    IF risk >= 85 THEN 3 ELSE IF risk >= 70 THEN 2 ELSE IF risk >= 50 THEN 1 ELSE 0

\* Mutated form of Breakdown: the age of the forecast is not compared.
BreakdownAgeless(offer, estimate) ==
    [base  |-> offer.base,
     used  |-> estimate.fresh,
     total |-> offer.base - estimate.penalty,
     risk  |-> IF estimate.fresh THEN estimate.risk ELSE 0]

\* The three Explain functions: a stale or missing forecast counts for nothing.
Breakdown(offer, estimate) ==
    [base  |-> offer.base,
     used  |-> estimate.fresh,
     total |-> offer.base - (IF estimate.fresh THEN estimate.penalty ELSE 0),
     risk  |-> IF estimate.fresh THEN estimate.risk ELSE 0]

BreakdownType == [base : Int, used : BOOLEAN, total : Int, risk : Nat]

SelectionInit ==
    /\ policy \in Policies
    /\ \E snapshot \in SUBSET Candidates : offers \in [snapshot -> Offers]
    /\ todo = DOMAIN offers
    /\ seen = <<>>
    /\ selected = 0
-----------------------------------------------------------------------------
PreferBaseline(w, b, v, c) == b.base > c.base \/ (b.base = c.base /\ w < v)

PreferPredictive(b, c) == b.total > c.total

\* Mutated form of PreferRiskAware: a lower score at a higher level wins.
PreferRiskAwareByBase(b, c) ==
    IF b.used /\ c.used /\ RiskLevel(b.risk) # RiskLevel(c.risk)
    THEN RiskLevel(b.risk) < RiskLevel(c.risk)
    ELSE b.base > c.base

\* Two assessed candidates are compared by risk; if it does not tell them
\* apart, or one of them is not assessed, by their scores.
PreferRiskAware(b, c) ==
    IF b.used /\ c.used /\ RiskLevel(b.risk) # RiskLevel(c.risk)
    THEN RiskLevel(b.risk) < RiskLevel(c.risk)
    ELSE IF b.used /\ c.used /\ b.risk # c.risk
    THEN b.risk < c.risk
    ELSE b.base > c.base

\* Mutated form of Preferred: equal scores go to the worker visited last.
PreferredLast(w, b) ==
    \/ selected = 0
    \/ policy = "baseline" /\ b.base >= seen[selected].base
    \/ policy = "predictive" /\ PreferPredictive(b, seen[selected])
    \/ policy = "riskaware" /\ PreferRiskAware(b, seen[selected])

\* Mutated form of Preferred: the best score is compared with the base of
\* the selected worker.
PreferredOverBase(w, b) ==
    \/ selected = 0
    \/ policy = "baseline" /\ PreferBaseline(w, b, selected, seen[selected])
    \/ policy = "predictive" /\ b.total > seen[selected].base
    \/ policy = "riskaware" /\ PreferRiskAware(b, seen[selected])

\* Whether w, with breakdown b, replaces the selected worker.
Preferred(w, b) ==
    \/ selected = 0
    \/ policy = "baseline" /\ PreferBaseline(w, b, selected, seen[selected])
    \/ policy = "predictive" /\ PreferPredictive(b, seen[selected])
    \/ policy = "riskaware" /\ PreferRiskAware(b, seen[selected])

Skip(w) ==
    /\ ~ offers[w].eligible
    /\ UNCHANGED <<seen, selected>>

\* Mutated form of Weigh: workers that are not eligible are weighed too.
WeighAny(w, estimate) ==
    LET b == Breakdown(offers[w], estimate) IN
    /\ seen' = [v \in DOMAIN seen \cup {w} |-> IF v = w THEN b ELSE seen[v]]
    /\ selected' = IF Preferred(w, b) THEN w ELSE selected

Weigh(w, estimate) ==
    LET b == Breakdown(offers[w], estimate) IN
    /\ offers[w].eligible
    /\ seen' = [v \in DOMAIN seen \cup {w} |-> IF v = w THEN b ELSE seen[v]]
    /\ selected' = IF Preferred(w, b) THEN w ELSE selected

Visit(w) ==
    /\ w \in todo
    /\ todo' = todo \ {w}
    /\ Skip(w) \/ \E estimate \in Estimates : Weigh(w, estimate)
    /\ UNCHANGED <<policy, offers>>

SelectionNext == \E w \in Candidates : Visit(w)

SelectionSpec == SelectionInit /\ [][SelectionNext]_selectionVars
-----------------------------------------------------------------------------
(***************************************************************************)
(* Properties, of what is returned when all workers have been visited.     *)
(***************************************************************************)
Returned == todo = {}

EligibleCandidates == {w \in DOMAIN offers : offers[w].eligible}

\* The state is typed, and what was visited is what is not left.
SelectionTypeOK ==
    /\ policy \in Policies
    /\ DOMAIN offers \subseteq Candidates
    /\ offers \in [DOMAIN offers -> OfferType]
    /\ todo \subseteq DOMAIN offers
    /\ DOMAIN seen = EligibleCandidates \ todo
    /\ seen \in [DOMAIN seen -> BreakdownType]
    /\ selected \in DOMAIN seen \cup {0}
    /\ selected = 0 <=> DOMAIN seen = {}

\* The worker SelectWorker promises: the highest score, and among equals the
\* smallest ID.  At most one worker is that.
IsBaselineChoice(w) ==
    /\ w \in EligibleCandidates
    /\ \A v \in EligibleCandidates \ {w} :
          \/ offers[w].base > offers[v].base
          \/ offers[w].base = offers[v].base /\ w < v

\* "Deterministic tie-breaking": the baseline policy returns that worker, in
\* whatever order the map was iterated, and none only if none is eligible.
BaselineChoosesBest ==
    policy = "baseline" /\ Returned /\ EligibleCandidates # {}
        => IsBaselineChoice(selected)

\* Whatever the predictor stored during the loop, the predictive policy
\* returns a worker none of the others beats by the scores it was shown.
PredictiveChoosesBest ==
    policy = "predictive" /\ Returned =>
        \A v \in EligibleCandidates : seen[selected].total >= seen[v].total

\* If all candidates were assessed, the risk-aware policy returns one of
\* lowest risk, and the best scored of these: comparing levels before scores
\* does not change the order.
AssessedLowestRisk ==
    /\ policy = "riskaware" /\ Returned
    /\ \A v \in EligibleCandidates : seen[v].used
    => \A v \in EligibleCandidates :
          \/ seen[selected].risk < seen[v].risk
          \/ /\ seen[selected].risk = seen[v].risk
             /\ seen[selected].base >= seen[v].base

\* Without any fresh forecast, every policy returns a worker of the highest
\* baseline score ("falls back to current-state baseline scheduling", README).
StaleFallsBack ==
    /\ Returned
    /\ \A v \in EligibleCandidates : ~ seen[v].used
    => \A v \in EligibleCandidates : offers[selected].base >= offers[v].base

\* "Among eligible workers, the scheduler selects the candidate with the
\* lowest placement risk" (README): at least, it never returns an assessed
\* worker when it assessed another one at a lower risk.
LowestRiskSelected ==
    policy = "riskaware" /\ Returned =>
        \A v \in EligibleCandidates :
            seen[selected].used /\ seen[v].used =>
                seen[selected].risk <= seen[v].risk
=============================================================================
