SPECIFICATION Spec
CONSTANTS
    Activations = {a1, a2}
    Recoveries = {v1}
    Checks = {c1}
    Leftovers = {}
    None = None
PROPERTIES
    ActivationBlocks
CHECK_DEADLOCK FALSE
