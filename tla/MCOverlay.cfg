SPECIFICATION FairSpec
CONSTANT Inputs <- MCInputs
INVARIANTS TypeOK RightData HostWaits AllReleased
PROPERTIES OverlaySpec OverlayEnds
