SPECIFICATION Spec
CONSTANTS
    N = 3
    Values = {1, 2, 3, 4}
    Dequeuers = {d1}
INVARIANTS PriorityOrder
