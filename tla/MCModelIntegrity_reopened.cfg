SPECIFICATION Spec
CONSTANTS
    None = None
    FileSeq <- MCFileSeq
    Large <- MCLarge
    Metas <- MCMetas
    Calls = {c1}
    MaxChanges = 1
PROPERTY FailsClosed
