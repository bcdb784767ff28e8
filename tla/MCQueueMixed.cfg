SPECIFICATION Spec
CONSTANTS
    p1 = p1
    p2 = p2
    c1 = c1
    c2 = c2
    a = a
    b = b
    Torn = Torn
    Free = Free
    Policies = {"mpsc"}
    MpscUses = {"mixed"}
    Producers = {p1, p2}
    Consumers = {c1, c2}
    Value = {a, b}
    Capacity = 2
    Word = 16
    Batches = {2}
    PopSizes = {2}
    Sizes = {1, 2, 3}
    LateAttach = FALSE
    MaxTickets = 5
INVARIANTS
    NoOverwrite
SYMMETRY Symmetry
CHECK_DEADLOCK FALSE
