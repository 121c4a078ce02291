CONSTANTS
  Pairs <- VlanPairs
  Frames <- MCFrames
SPECIFICATION Spec
PROPERTY TaggedAsTesting
