\* every policy on both tracks, samples that parse and samples that do not
CONSTANTS
  Policies = {"Latest", "Newest", "All"}
  Tracks = {TRUE, FALSE}
  Depth = 2
  Bodies = {"valid", "malformed"}
  MaxSamples = 6
SPECIFICATION Spec
INVARIANTS TypeOK StampMatches
PROPERTIES DrainsToNewest NeverOlder
