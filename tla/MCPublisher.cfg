SPECIFICATION FairSpec
INVARIANT TypeOK
PROPERTIES ImplementsListing GhostVanishes HeartbeatEnds
