CONSTANTS
  Domains = {d1}
  MaxRetries = 2
  MaxEvents = 3
SPECIFICATION WatchFairSpec
PROPERTIES HealTerminates StopReturns
