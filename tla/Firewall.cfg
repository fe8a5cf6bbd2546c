SPECIFICATION Spec
CONSTANTS
    Settings <- MCSettings
    Saves <- MCSaves
    Events = {"wipe", "crash", "fail", "save"}
    MaxEvents = 2
    MaxSwitches = 1
INVARIANTS RestoredExactly ClearLeavesNothing SysctlReverted
PROPERTY WipedRulesReturn
CHECK_DEADLOCK FALSE
