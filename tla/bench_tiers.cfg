CONSTANTS
  Profiles <- MCProfiles
  BufferSize = 2
  MaxFrames = 4
  MaxRestarts = 2
SPECIFICATION Spec
INVARIANTS TypeOK DropsAreExact NoPhantomDrops SummaryIsOfItsRun IntactFramesPass FramesInOneWindow
CHECK_DEADLOCK FALSE
