SPECIFICATION FairSpec
CONSTANTS
    short = short  long = long
    None = None
    Texts = {short, long}
    Sources = {t1}
    NumChunks <- MCNumChunks
    TierSeq <- MCTierSeq
    Syncs = {loop, manual}
    Loop = loop
    Legacy = {}
    Words = {prose, posing}
    LookAlikes = {posing}
    Flags = {flag}
    Keys = {title, reviewed, source}
    Cleartext = {reviewed, source}
    Raised = Raised
    MaxEvents = 3
PROPERTIES OverlappingSyncsConverge
