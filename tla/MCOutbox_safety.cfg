SPECIFICATION FairSpec
CONSTANTS
  Events = {1, 2}
  Workers = {w1, w2}
  Users = {u1, u2}
  Recipients <- AllUsers
  Handled = {2}
  Poison = {}
  BatchSize = 2
  MaxAttempts = 2
  AttemptCap = 3
  BackoffBase = 1
  BackoffCap = 2
  LockTTL = 1
  RedisConfigured = TRUE
  MaxFaults = 2
  None = None
INVARIANTS
  AtMostOneNotification
  NotificationsAreRecorded
PROPERTIES
  ImplementsDelivery
  NothingUndone
  HealthyDelivered
