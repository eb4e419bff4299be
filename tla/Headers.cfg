SPECIFICATION Spec
CONSTANTS
    Targets <- MCTargets
    Upgrades <- MCUpgrades
    Longest = 3
    Limit = 16
INVARIANTS
    TypeOK
    IncludeOrderFree
    WidthsFit
    SpellingsUnderstood
    TypesClassifiedOnce
    OverflowChecksExact
PROPERTY UpgradeKeepsFeatures
CHECK_DEADLOCK FALSE
