CONSTANT Builds <- SomeBuilds
SPECIFICATION FairSpec
INVARIANTS TypeOK DepsFirst NothingMissing NotWhileBuilt FailsForAReason KeepsGoing
PROPERTIES Ends
