\* Volumes finer than the hundredth containers are rounded to; two overlapping item requests.
SPECIFICATION Spec
CONSTANTS
    RepairCalled = TRUE
    Scale = 5
    Containers = {c1, c2}
    Items = {i1, i2}
    Workers = {w1, w2}
    NoContainer = NoContainer
    NoRef = NoRef
    TotalVolumes = {5, 10}
    ItemVolumes = {1, 2, 5}
SYMMETRY Symmetry
INVARIANTS DeletionProtocol UsedVolumeDriftBounded CapacityWithinHalf
PROPERTIES IndividuallyDeletedComesBackAlone ImplementsStorage
CHECK_DEADLOCK FALSE
