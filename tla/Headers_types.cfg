SPECIFICATION Spec
CONSTANTS
    Targets <- MCTargets
    Upgrades <- MCUpgrades
    Longest = 3
    Limit = 16
INVARIANT PrimitivesDiffer
CHECK_DEADLOCK FALSE
