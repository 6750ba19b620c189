SPECIFICATION Spec
CONSTANTS
  Kinds = {"cas", "jsonl", "sqlite", "memory"}
  Clients = {c1}
  None = None
  Replay = 2
  Buffer = 1
  SettledLoads = TRUE
  MaxWrites = 2
  MaxFaults = 1
  MaxCuts = 1
INVARIANT FollowersAgree
PROPERTY CatchesUp
CHECK_DEADLOCK FALSE
