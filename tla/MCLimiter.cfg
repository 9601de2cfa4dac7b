SPECIFICATION LimiterFairSpec
CONSTANTS
    Uploads = {u1, u2, u3, u4}
    Limit = 2
    RemembersTimeout = TRUE
INVARIANT TokensExact
INVARIANT BackupsLimited
PROPERTY UploadsReturn
