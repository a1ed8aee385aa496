CONSTANTS
    Ids = {a, b, c, d, e, f}
    Priorities = {0, 1}
    MaxSize = 6
    MaxSequence = 7
    None = None
SYMMETRY Symmetry
SPECIFICATION Spec
INVARIANTS TypeOK HeapOrdered IndexAndMapAgree ToArraySorted
PROPERTIES ImplementsPriorityQueue
