\* Whether a session whose key lives can be traded for.
SPECIFICATION KeysSpec
CONSTANTS
    Owners = {"alice", "bob"}
    Builds = {"v1"}
    MaxKeys = 2
    MaxSessions = 2
INVARIANT LivingKeysSign
CHECK_DEADLOCK FALSE
