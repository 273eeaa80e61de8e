\* Two functions at a time over the lists of a selection, two writes, one fault.
SPECIFICATION Spec
CONSTANTS
    Slots = {s1, s2}
    Selections <- MCSelections
    Queries = {q1, q2}
    Default = q1
    MaxWrites = 2
    MaxFaults = 1
SYMMETRY Symmetry
INVARIANTS SpinnersHonest ListsCurrent
