SPECIFICATION Spec
CONSTANTS
    NumPorts = 2
    NumSlots = 2
    WordBits = 2
    Vids = {1, 2, 3}
    Scenarios <- MCScenarios
INVARIANTS TypeOK TableConsistent HwFollowsCache
PROPERTIES NewVlanIsEmpty
