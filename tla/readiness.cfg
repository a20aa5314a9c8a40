\* Every inventory discovery can produce, under the three rubrics, and every way
\* of following the advice.
SPECIFICATION ScoreSpec
CONSTANTS
    Rubrics = {"2026.07.0", "2026.07.1", "2026.07.2"}
    Dimensions <- Dims
    Position <- InRubric
    Rank <- InAlphabet
    Categories <- Evidence
    CategoriesOf <- JudgedBy
    Weight <- Weights
    Cost <- Costs
    Rollback = "rollback_recovery"
    RollbackPlan = "rollback"
    Budget = 3
    Overrides <- Packs
INVARIANTS NeverRefused CheapestAdvice DeltasLeaveBand AdviceNeverHurts UnprovenIsGated PolicyHolds RollbackFirst
           NeverAutonomous
