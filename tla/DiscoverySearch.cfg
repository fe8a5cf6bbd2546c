CONSTANTS
  d1 = d1
  d2 = d2
  Domains = {d1, d2}
  Primary = d1
  Families <- Families2
  CachedPresets <- Cache
  Phase1Presets <- Strategy
  Phase2Presets <- Variants
  ExtendedPresets <- Wide
  CombinationPresets <- Combos
  FamilyOf <- FamilyMap
  Searched = {"fake"}
  FallsBack = {"fake"}
  Reorderings <- Orders
  MaxSpeed = 2
  MaxSuccesses = 2
SPECIFICATION Spec
INVARIANTS BestIsFastest NoBypassChecked GroupsCover
