SPECIFICATION FairSpec
CONSTANTS
  s1 = s1 s2 = s2 s3 = s3 w1 = w1
  Queries = {s1, s2, s3, w1}
  Writes = {w1}
  Matching = {s1, s2}
  Configured = TRUE
  PoolSize = 1
  MaxAttempts = 2
  NoEngine = NoEngine
INVARIANTS TypeOK NoConnectionLeak
PROPERTIES MissingIsExplained EveryQueryAnswered
CHECK_DEADLOCK FALSE
