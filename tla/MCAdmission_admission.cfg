SPECIFICATION Spec
CONSTANTS
    None = None
    TierSeq <- MCTierSeq
    Roles = {"reader", "uploader"}
    DefaultRole = "reader"
    Users = {ann}
    Entries <- MCEntries
    Peers = {home}
    SigningKeys = {k1, k2}
    RoleOf <- MCRoleOf
    Limit <- MCLimit
    Window = 2
    TTL = 1
    MaxKeys = 2
    MaxTokens = 1
INVARIANTS TypeOK BurstIsBounded AuthorityIsRecent LockoutIsShort
