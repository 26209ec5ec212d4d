SPECIFICATION ScoringSpec
CONSTANT Answers <- MCAnswers
INVARIANTS
    LabelsAreSound
    RewardIsForDecisions
    NearMissIsWorse
