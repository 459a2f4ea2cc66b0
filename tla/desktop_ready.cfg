\* One relay that stays funded beside one synchronized follower.
CONSTANTS
    c1 = c1
    Followers = {"synced"}
    Fundings = {TRUE}
    Clicks = {c1}
    Unknown = Unknown
SPECIFICATION DesktopSpec
INVARIANT HealthyShownHealthy
