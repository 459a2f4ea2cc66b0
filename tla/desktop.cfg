\* One click in hand beside the refresh; a follower that comes and goes.
CONSTANTS
    c1 = c1
    Followers = {"down", "synced"}
    Fundings = {TRUE}
    Clicks = {c1}
    Unknown = Unknown
SPECIFICATION FairSpec
INVARIANTS BoxTellsTruth
PROPERTIES PageCatchesUp
