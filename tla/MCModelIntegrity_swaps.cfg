SPECIFICATION Spec
CONSTANTS
    None = None
    FileSeq <- MCFileSeq
    Large <- MCLarge
    Metas <- MCMetas
    Calls = {c1, c2}
    MaxChanges = 2
INVARIANTS TypeOK SwapIsNoticed
