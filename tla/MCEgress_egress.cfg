SPECIFICATION EgressSpec
CONSTANTS
    None = None
    Refusal = Refusal
    Requests = {r1, r2, r3}
    MaxConcurrent = 2
    PromptSeq <- MCPromptSeq
    Secrets = {"key", "pin"}
    CoreLength <- MCCoreLength
    MinCore = 8
    Texts <- MCTexts
INVARIANTS EgressTypeOK ServedWasExamined CacheIsWhole
PROPERTIES MissesOnlyWhileBuilding
SYMMETRY Interchangeable
