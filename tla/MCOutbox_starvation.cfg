SPECIFICATION FairSpec
CONSTANTS
  Events = {1, 2}
  Workers = {w1}
  Users = {u1}
  Recipients <- AllUsers
  Handled = {1, 2}
  Poison = {1}
  BatchSize = 1
  MaxAttempts = 2
  AttemptCap = 3
  BackoffBase = 1
  BackoffCap = 2
  LockTTL = 1
  RedisConfigured = TRUE
  MaxFaults = 0
  None = None
PROPERTIES
  HealthyDelivered
