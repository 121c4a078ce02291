CONSTANTS
  Pairs <- MCPairs
  Frames <- MCFrames
SPECIFICATION Spec
INVARIANT EmitsOwnAsParsed
PROPERTIES UntaggedAsProduction TaggedAsTesting
