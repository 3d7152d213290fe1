SPECIFICATION Spec
CONSTANTS
    NumPorts = 2
    NumSlots = 3
    WordBits = 2
    Vids = {1, 2, 3}
    Scenarios <- MCWholeTable
PROPERTIES NoVlanRemoves
