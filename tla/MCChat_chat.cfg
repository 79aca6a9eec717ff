SPECIFICATION FairSpec
CONSTANTS
    ann = ann  bob = bob
    Users = {ann, bob}
    Requests = {"r1", "r2"}
    NoOne = NoOne
    MaxTurns = 2
    MaxSessions = 2
    MaxQuestions = 5
INVARIANTS TypeOK OwnTurns LatestTurnsKept ReplayIsFaithful NewestSessionsSurvive
PROPERTIES RequestsEnd
