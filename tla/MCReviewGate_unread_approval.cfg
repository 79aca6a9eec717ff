SPECIFICATION Spec
CONSTANTS
    short = short  long = long  blank = blank
    None = None
    Texts = {short, long}
    Curated = {}
    Uploads = {doc}
    Sources <- MCSources
    NumChunks <- MCNumChunks
    Uploaders = {u1}
    Sweepers = {}
    Approvers = {a1}
    MaxFindings = 3
    MaxWrites = 2
INVARIANT SignedWhatWasShown
