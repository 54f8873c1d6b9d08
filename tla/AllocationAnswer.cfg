SPECIFICATION Spec
CONSTANTS
    a = a
    b = b
    c = c
    island = island
    nowhere = nowhere
    Nowhere = nowhere
    Place <- MCPlace
    Position <- MCPosition
    Region <- MCRegion
    Request <- RoundTrips
    Emergency = 10
    Threshold = 1
    NearLimit = 5
    AgeFloor <- MCAgeFloor
    Longest = 300
    Inf = 1000000
    MaxDenied = 1
INVARIANTS NamedOnce
CHECK_DEADLOCK FALSE
