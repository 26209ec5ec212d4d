SPECIFICATION Spec
CONSTANTS
    Absent = Absent
    NumIds = 3
    Concurrency = 2
    MaxRetries = 2
    Budget = 3
    PlanningCost = 1
    MaxCalls = 5
    MaxStops = 2
    Answers <- MCAnswers
    Similar <- MCSimilar
    Contaminated <- MCContaminated
INVARIANTS
    AnsweredOnce
    CallsBounded
    CostCapped
    ManifestReplays
    CorporaSound
PROPERTIES
    ImplementsJob
