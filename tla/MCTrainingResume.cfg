SPECIFICATION ESpec
CONSTANTS
    Absent = Absent
    Jobs <- MCJobs
    RunId <- MCRunId
    Parent <- MCParent
    Guarded = {"r4", "r4_unsloth"}
    Unsloth = {"r1_unsloth", "r4_unsloth"}
    Reference = "r1"
    Candidate = "r1_unsloth"
    Exporter = "export"
    Exported = "r1"
    Steps = 3
    SaveSteps = 2
    OpeningSteps = 2
    Hours = {1}
    Projected = 1
    Ceiling = 3
    MaxAttempts <- MCMaxAttempts
    MaxCommits = 1
INVARIANT ResumedRunAccepted
CHECK_DEADLOCK FALSE
