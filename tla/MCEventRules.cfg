SPECIFICATION RulesSpec
CONSTANTS
    Resources = {r1, r2}
    Letters = {"a", "b"}
    ListedNames = {"Put", "Created*", "Removed*"}
    Values <- MCValues
    ObjectNames <- MCObjectNames
    MaxSize = 5
INVARIANTS
    DeliveriesAreAsked
SYMMETRY Symmetry
CHECK_DEADLOCK FALSE
