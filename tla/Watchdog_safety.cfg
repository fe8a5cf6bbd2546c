CONSTANTS
  Domains = {d1, d2}
  MaxRetries = 2
  MaxEvents = 1
SPECIFICATION WatchSpec
SYMMETRY Symm
INVARIANTS EscalatingHasHealer NoOrphanSearch
PROPERTIES HealthyIsRepaired NoHealInCooldown
