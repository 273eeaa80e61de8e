\* Each page; two requests in flight, one change, one failure.
SPECIFICATION PagesSpec
CONSTANTS
    Pages = {"containers", "items", "detail"}
    Slots = {s1, s2}
    Values = {"", "a", "a ", "b"}
    Trimmed <- MCTrimmed
    Blank = ""
    Picks = {1, 2}
    LastPage <- MCLastPage
    Edits = {"delete", "edit"}
    MaxWrites = 1
    MaxFaults = 1
SYMMETRY Symmetry
INVARIANTS SpinnerMeansSearch ShowsWhatIsAsked PageExists
