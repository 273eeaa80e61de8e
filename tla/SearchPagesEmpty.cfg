\* ContainerDetailPage without a search or a failure: one deletion, two requests in flight.
SPECIFICATION PagesSpec
CONSTANTS
    Pages = {"detail"}
    Slots = {s1, s2}
    Values = {""}
    Trimmed <- MCTrimmed
    Blank = ""
    Picks = {1, 2}
    LastPage <- MCLastPage
    Edits = {"delete"}
    MaxWrites = 1
    MaxFaults = 0
SYMMETRY Symmetry
INVARIANTS EmptyMeansNoItems
CHECK_DEADLOCK FALSE
