SPECIFICATION Spec
CONSTANTS
    short = short  long = long  blank = blank
    None = None
    Texts = {short, long, blank}
    Curated = {policy}
    Uploads = {doc}
    Sources <- MCSources
    NumChunks <- MCNumChunks
    Uploaders = {u1}
    Sweepers = {w1}
    Approvers = {a1, a2}
    MaxFindings = 3
    MaxWrites = 2
CONSTRAINT MCCrowd
SYMMETRY MCSymmetry
INVARIANTS TypeOK TrustRestsOnOneSignoff AgreementMeansComplete SecondRejectionKeepsFirst
PROPERTIES GateRefinedUnlessOvertaken SweepsKeepToTheirOrigin UndisturbedSweepReconciles
