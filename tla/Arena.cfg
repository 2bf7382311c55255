SPECIFICATION Spec
CONSTANTS
    MaxSlots = 4
    MaxGen = 2
    MaxRoot = 6
    MaxDepth = 3
CHECK_DEADLOCK FALSE
INVARIANTS ArenaIsSound GuardsMatchSlots PendingIsRootedOrGone
PROPERTIES HandlesNameOneState PublishedStatesStay
