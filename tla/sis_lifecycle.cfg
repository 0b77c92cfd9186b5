CONSTANTS
  Pings = {p1, p2}
SPECIFICATION FairSpec
CHECK_DEADLOCK FALSE
INVARIANTS TypeOK CleanExit OpenPluginsReported ServesUntilTold TruthfulPing
PROPERTIES StopsWhenTold StopsWithoutStatus
