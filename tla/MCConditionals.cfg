SPECIFICATION ProjectionSpec
CONSTANTS
    Question = {"PKG-002", "PKG-005", "PKG-006", "AUT-001", "AUT-004", "HAR-001"}
    Text = {"text"}
INVARIANTS
    LatestWordStands
    LoadSettled
    DiscoveryGrantsNothing
    ShownAsSaved
    ReadyIsServed
