SPECIFICATION FairSpec
CONSTANTS
    policy = policy  salaries = salaries  note = note  trap = trap  stray = stray
    Requests = {"r1"}
    Docs = {policy, salaries, note, trap, stray}
    CuratedDocs = {policy, salaries, stray}
    Readable = {policy, note, trap, stray}
    Hostile = {trap}
    OffTopic = {stray}
    Invented = Invented
    TopK = 1
    MaxIters = 2
    MaxCalls = 2
    RoundCalls = 2
    MaxChanges = 2
INVARIANTS TypeOK CostIsBounded
PROPERTIES AnswersRestOnTrust QuestionsEnd
