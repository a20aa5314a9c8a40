----------------------------- MODULE Readiness -----------------------------
(***************************************************************************)
(* From the evidence in a repository to a readiness score (score.py), the  *)
(* counterfactual advice that comes with it, a rollout blueprint           *)
(* (blueprint.py) and a scaling decision (scale.py).  All of it is         *)
(* arithmetic on one inventory and one rubric; what changes is the         *)
(* repository, when its owner does what the score advised and has it       *)
(* assessed again.                                                         *)
(*                                                                         *)
(* Weights, confidences and rates are in percent.  Evidence locations,     *)
(* control clauses, drivers and signatures are not in this module.         *)
(***************************************************************************)
EXTENDS Integers, Sequences, FiniteSets, FiniteSetsExt, Functions

CONSTANTS Rubrics,       \* versions of the rubric
          Dimensions,    \* ids of the score's dimensions
          Position,      \* Position[d]: where d stands in the rubric
          Rank,          \* Rank[d]: where d stands in the order of strings
          Categories,    \* of evidence, those discovery looks for
          CategoriesOf,  \* CategoriesOf[d]: the ones dimension d is judged by
          Weight,        \* Weight[r][d], in percent
          Cost,          \* Cost[d]: what bringing d to 100 costs
          Rollback,      \* the dimension and the category of evidence about
          RollbackPlan,  \* rolling back
          Budget,        \* the default token budget of the policy pack
          Overrides      \* sequences of budgets a pack may override it with

\* What rubrics.load demands, of the rubrics in the manifest.
ASSUME RubricAssumption ==
    /\ IsFiniteSet(Dimensions) /\ Rollback \in Dimensions
    /\ Cost \in [Dimensions -> Nat]
    /\ Weight \in [Rubrics -> [Dimensions -> Nat]]
    /\ \A r \in Rubrics : SumFunctionOnSet(Weight[r], Dimensions) = 100

\* Ids are unique, and strings can be compared.
ASSUME OrderAssumption ==
    /\ Position \in [Dimensions -> Nat] /\ IsInjective(Position)
    /\ Rank \in [Dimensions -> Nat] /\ IsInjective(Rank)

\* Raw scores are integers, as one or two categories have an integer mean; and
\* there is a dimension for which discovery looks for nothing.
ASSUME CategoriesAssumption ==
    /\ RollbackPlan \in Categories /\ CategoriesOf[Rollback] = {RollbackPlan}
    /\ \A d \in Dimensions : \E c, e \in Categories : CategoriesOf[d] \in {{}, {c, e}}
    /\ \E d \in Dimensions : CategoriesOf[d] = {}

ASSUME BudgetAssumption ==
    /\ Budget \in Nat
    /\ \A overrides \in Overrides : overrides \in Seq(Nat)

VARIABLES evidence,  \* evidence[c]: what a scan finds for category c
          score,     \* the last score artifact
          todo       \* the advice in it that has not been carried out yet

scoreVars == <<evidence, score, todo>>

Quality == {"absent", "low_quality", "present"}

\* Before the first assessment.
NoScore == [rubric |-> "none"]

Score == [rubric : Rubrics, inputs : [Categories -> Quality],
          raw : [Dimensions -> 0..100], value : 0..1000, confidence : 0..100, low : 0..1000, high : 0..1000,
          advice : SUBSET Dimensions]

TypeOK ==
    /\ evidence \in [Categories -> Quality]
    /\ score \in Score \cup {NoScore}
    /\ todo \subseteq Dimensions

-----------------------------------------------------------------------------
(* Rounding                                                                *)

\* The integers nearest to n / m.  The code rounds floating-point sums whose
\* error decides a tie one way or the other.
Nearest(n, m) == {i \in {n \div m, n \div m + 1} : 2 * (i * m - n) \in (-m)..m}

\* round(), half to even.
Round(n, m) ==
    CHOOSE i \in Nearest(n, m) : Cardinality(Nearest(n, m)) = 1 \/ i % 2 = 0

-----------------------------------------------------------------------------
(* The score                                                               *)

\* The categories of d for which the inventory has a fact.
Facts(inputs, d) == {c \in CategoriesOf[d] : inputs[c] # "absent"}

\* Mutant: evidence that did not pass its check counts for half.
HalfPoints(quality) == IF quality = "present" THEN 85 ELSE 50

\* Mutant: evidence that passed its check makes a dimension complete.
FullPoints(quality) == IF quality = "present" THEN 100 ELSE 15

Points(quality) == IF quality = "present" THEN 85 ELSE 15

Raw(inputs, d) ==
    LET facts == Facts(inputs, d)
    IN  IF facts = {} THEN 0
        ELSE SumFunction([c \in facts |-> Points(inputs[c])]) \div Cardinality(facts)

\* Mutant: where there are no facts there is none to doubt.
Undoubted(inputs, d) ==
    IF Facts(inputs, d) = {} THEN {100}
    ELSE {IF inputs[c] = "present" THEN 85 ELSE 15 : c \in Facts(inputs, d)}

\* The confidences of d's facts, or that of having none.
Confidences(inputs, d) ==
    IF Facts(inputs, d) = {} THEN {20}
    ELSE {IF inputs[c] = "present" THEN 85 ELSE 15 : c \in Facts(inputs, d)}

\* Mutant: the confidences of the dimensions are added and not averaged.
AddedUp(inputs) ==
    MapThenSumSet(LAMBDA d : Min(Confidences(inputs, d)), Dimensions)

\* A score is as good as the worst of its facts.
Confidence(inputs) == Min(UNION {Confidences(inputs, d) : d \in Dimensions})

\* Ten times the score before it is rounded.
Weighted(r, raw) == SumFunction([d \in Dimensions |-> raw[d] * Weight[r][d]])

\* The best score without checked evidence of a rollback plan rounds to less than
\* 600: a condition on weights.
RollbackWeighs ==
    \A r \in Rubrics :
        Weighted(r, [d \in Dimensions |-> IF CategoriesOf[d] = {} THEN 0
                                         ELSE IF d = Rollback THEN 15 ELSE 85]) < 5995

\* The best score there is rounds to less than 800: another such condition.
UnjudgedWeighs ==
    \A r \in Rubrics :
        Weighted(r, [d \in Dimensions |-> IF CategoriesOf[d] = {} THEN 0 ELSE 85]) < 7995

\* interval_high.
High(value, confidence) == Min({1000, value + 1000 - confidence * 10})

Thresholds == {400, 600, 800}

Band(value) ==
    CASE value < 400                 -> "BLOCKED"
      [] 400 <= value /\ value < 600 -> "CONDITIONAL"
      [] 600 <= value /\ value < 800 -> "READY"
      [] 800 <= value                -> "SCALE"

-----------------------------------------------------------------------------
(* The counterfactual                                                      *)

\* Ten times what d adds to the score when it is brought to 100.
Gain(r, raw, d) == (100 - raw[d]) * Weight[r][d]

TotalCost(group) == SumFunctionOnSet(Cost, group)

Projected(r, raw, value, group) ==
    Round(10 * value + SumFunction([d \in group |-> Gain(r, raw, d)]), 10)

\* Mutant: a score on a threshold is taken to be below it.
TargetAt(value) == Min({t \in Thresholds : value <= t})

\* The threshold above a score that is not in the last band.
Target(value) == Min({t \in Thresholds : value < t})

\* The groups of actions that would reach the next band.
Candidates(r, raw, value) ==
    {group \in SUBSET {d \in Dimensions : raw[d] < 100} :
        group # {} /\ Projected(r, raw, value, group) >= Target(value)}

\* The names of two groups compared as tuples, in the order of the rubric: the
\* first name that differs, behind the same names in both, decides.
NamesBefore(a, b) ==
    LET Before(d, group) == {e \in group : Position[e] < Position[d]}
    IN  \E d \in a, e \in b : Before(d, a) = Before(e, b) /\ Rank[d] < Rank[e]

\* Mutant: the fewest actions, whatever they cost.
Fewer(a, b) ==
    \/ Cardinality(a) < Cardinality(b)
    \/ Cardinality(a) = Cardinality(b) /\ NamesBefore(a, b)

\* The order of candidates: by cost, size and names.
Better(a, b) ==
    \/ TotalCost(a) < TotalCost(b)
    \/ /\ TotalCost(a) = TotalCost(b)
       /\ \/ Cardinality(a) < Cardinality(b)
          \/ Cardinality(a) = Cardinality(b) /\ NamesBefore(a, b)

\* The best candidate, if there is one.
Advice(r, raw, value) ==
    LET candidates == IF Band(value) = "SCALE" THEN {}
                      ELSE Candidates(r, raw, value)
    IN  IF candidates = {} THEN {}
        ELSE CHOOSE a \in candidates : \A b \in candidates \ {a} : Better(a, b)

-----------------------------------------------------------------------------
(* The blueprint and the scaling decision, as functions of a score         *)

Levels == <<"OBSERVE", "SUPERVISED", "BOUNDED", "AUTONOMOUS">>

\* AUTONOMY_BY_BAND, as a position in Levels.
Permitted(value) ==
    CASE Band(value) = "BLOCKED"     -> 1
      [] Band(value) = "CONDITIONAL" -> 2
      [] Band(value) = "READY"       -> 3
      [] OTHER                       -> 4

\* The metrics a Pilot's scorecard may carry: on both sides of each condition.
Metrics == [silent_rollbacks : {0, 1}, evidence_coverage : {59, 60},
            samples : {19, 20}, error_rate : {2, 3}]

\* Mutant: each override is held against the default only.
BelowDefault(overrides) == \A i \in DOMAIN overrides : overrides[i] <= Budget

\* _policy accepts the overrides: each tightens what the ones before it left.
Tightens(overrides) ==
    \A i \in DOMAIN overrides :
        overrides[i] <= IF i = 1 THEN Budget ELSE overrides[i - 1]

\* Mutant: only what has no evidence at all is low.
Unseen(raw) == {d \in Dimensions : raw[d] = 0}

\* The dimensions below LOW_SCORE.
Low(raw) == {d \in Dimensions : raw[d] < 40}

\* compile_blueprint of a score, a level asked for (0: none) and overrides.
Blueprint(s, requested, overrides) ==
    LET low == Low(s.raw)
    IN  [autonomy  |-> IF requested = 0 THEN Permitted(s.value)
                       ELSE Min({requested, Permitted(s.value)}),
         denied    |-> low \cap {Rollback},
         human     |-> low \ {Rollback},
         paused    |-> low = {},
         approvals |-> IF low # {} THEN low
                       ELSE IF Band(s.value) = "SCALE" THEN {} ELSE {"rollout"},
         budget    |-> IF overrides = <<>> THEN Budget
                       ELSE overrides[Len(overrides)]]

\* recommend, of a score and the metrics a Pilot reported.
Recommend(s, metrics) ==
    IF metrics.silent_rollbacks # 0 THEN "NO_GO"
    ELSE IF /\ metrics.evidence_coverage >= 60
            /\ metrics.samples >= 20
            /\ s.value >= 600
            /\ metrics.error_rate <= 2
         THEN "GO" ELSE "HOLD"

-----------------------------------------------------------------------------
ScoreInit ==
    /\ evidence \in [Categories -> Quality]
    /\ score = NoScore
    /\ todo = {}

\* Discovery scans the repository and score_inventory scores what it found.
Assess(r) ==
    LET raw == [d \in Dimensions |-> Raw(evidence, d)]
        confidence == Confidence(evidence)
    IN  \E value \in Nearest(Weighted(r, raw), 10) :
            LET advice == Advice(r, raw, value)
            IN  /\ score' = [rubric |-> r, inputs |-> evidence, raw |-> raw,
                             value |-> value, confidence |-> confidence,
                             low |-> Round(value * confidence, 100),
                             high |-> High(value, confidence),
                             advice |-> advice]
                /\ todo' = advice
                /\ UNCHANGED evidence

\* The owner carries out the action advised for d, and leaves evidence of it
\* wherever discovery looks for any.
CarryOut(d) ==
    /\ d \in todo
    /\ evidence' = [c \in Categories |->
                       IF c \in CategoriesOf[d] THEN "present" ELSE evidence[c]]
    /\ todo' = todo \ {d}
    /\ UNCHANGED score

ScoreNext == (\E r \in Rubrics : Assess(r)) \/ (\E d \in Dimensions : CarryOut(d))

ScoreSpec == ScoreInit /\ [][ScoreNext]_scoreVars

-----------------------------------------------------------------------------
Scored == score # NoScore

\* The validator of contracts.py, which every score passes before it is
\* returned, never refuses one: its numbers are in their ranges, and rounding
\* keeps the score inside its interval.
NeverRefused ==
    /\ TypeOK
    /\ Scored => score.low <= score.value /\ score.value <= score.high

\* There is advice below the last band, and it is the cheapest there is: all of it
\* would reach the next band, but no set of dimensions that costs less, and no part
\* of the advice.
CheapestAdvice ==
    Scored =>
        LET Reaches(group) ==
                Projected(score.rubric, score.raw, score.value, group)
                    >= Target(score.value)
        IN  /\ Band(score.value) # "SCALE" => score.advice # {} /\ Reaches(score.advice)
            /\ \A group \in SUBSET Dimensions :
                   TotalCost(group) < TotalCost(score.advice)
                     \/ (group \subseteq score.advice /\ group # score.advice)
                       => ~Reaches(group)

\* The score once the advice has been carried out, by the deltas printed with
\* it, each of which is rounded on its own.
Promised ==
    score.value + SumFunction(
        [d \in score.advice |-> Round(Gain(score.rubric, score.raw, d), 10)])

\* What is printed adds up: the deltas of the advice lead out of the band, and
\* no score below the last band comes without advice.
DeltasLeaveBand ==
    Scored /\ Band(score.value) # "SCALE" => Band(Promised) # Band(score.value)

\* Following the advice never hurts: at any point of carrying it out, an assessment
\* would find no dimension lower than the last one did, and be no less confident.
\* (A fact that failed its check does lower both, where there was none before.)
AdviceNeverHurts ==
    Scored =>
        /\ \A d \in Dimensions : score.raw[d] <= Raw(evidence, d)
        /\ score.confidence <= Confidence(evidence)

\* What the repository shows no checked evidence for is gated: its dimension is
\* denied or left to a human, with an approval, at any autonomy asked for; and
\* no blueprint at all goes without an approval.
UnprovenIsGated ==
    Scored => \A requested \in 0..Len(Levels) :
        LET b == Blueprint(score, requested, <<>>)
        IN  /\ b.approvals # {}
            /\ \A d \in Dimensions :
                   (\A c \in CategoriesOf[d] : score.inputs[c] # "present")
                       => d \in (b.denied \cup b.human) \cap b.approvals

\* Nobody loosens the policy: whatever is asked for, a blueprint stays within
\* the autonomy of its band, the default budget and every accepted override.
PolicyHolds ==
    Scored => \A requested \in 0..Len(Levels) : \A overrides \in Overrides :
        Tightens(overrides) =>
            LET b == Blueprint(score, requested, overrides)
            IN  /\ Levels[b.autonomy] = "BOUNDED" => score.value >= 600
                /\ Levels[b.autonomy] = "AUTONOMOUS" => score.value >= 800
                /\ b.budget <= Budget
                /\ \A i \in DOMAIN overrides : b.budget <= overrides[i]

\* The last level is not to be had from discovery alone: whatever the evidence, and
\* however much of the advice has been followed, no blueprint is AUTONOMOUS.
NeverAutonomous ==
    Scored => Levels[Blueprint(score, Len(Levels), <<>>).autonomy] # "AUTONOMOUS"

\* No rollout without a way back: whatever else a repository shows, without
\* checked evidence of a rollback plan no blueprint is BOUNDED and no Pilot's
\* metrics make a GO, under any of the rubrics.
RollbackFirst ==
    Scored /\ score.inputs[RollbackPlan] # "present" =>
        /\ Blueprint(score, Len(Levels), <<>>).autonomy < 3
        /\ \A metrics \in Metrics : Recommend(score, metrics) # "GO"
=============================================================================
