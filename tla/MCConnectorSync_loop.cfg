SPECIFICATION FairSpec
CONSTANTS
    short = short  long = long
    None = None
    Texts = {short, long}
    Sources = {t1, t2}
    NumChunks <- MCNumChunks
    TierSeq <- MCTierSeq
    Syncs = {loop}
    Loop = loop
    Legacy = {t1}
    Words = {prose, posing}
    LookAlikes = {posing}
    Flags = {flag}
    Keys = {title, reviewed, source}
    Cleartext = {reviewed, source}
    Raised = Raised
    MaxEvents = 3
INVARIANTS TypeOK TierInherited
PROPERTIES Converges EverythingSealed LeavesBeforeItArrives ApprovalSurvivesSync UndisturbedSyncReconciles GateRefined
