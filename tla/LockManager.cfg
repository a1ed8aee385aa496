CONSTANTS
    Managers = {m1}
    Resources = {r1}
    Owners = {o1, o2}
    TTLs = {1, 2}
    Retries = {0, 2}
    RetryDelay = 1
    ExternalStore = FALSE
    Unverified = {"release"}
    MaxTime = 4
    MaxCount = 2
    Nothing = Nothing
SPECIFICATION LockLiveSpec
INVARIANTS GrantsAgree MutualExclusion
PROPERTIES ExpireCallbackIsTrue ExpiredLockIsFreed
