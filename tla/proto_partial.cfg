\* Latest on the native track
CONSTANTS
  Policies = {"Latest"}
  Tracks = {TRUE}
  Depth = 2
  Bodies = {"valid", "malformed"}
  MaxSamples = 6
SPECIFICATION Spec
INVARIANT ReturnsParsed
