SPECIFICATION FairSpec
CONSTANTS
  Nodes = {1, 2, 3, 4, 5, 6, 7, 8}
  Children <- Graph
  T <- Values
  AtomValue <- Lengths
  Combine <- Saturating
  NoToken = NoToken
  Tokens <- Anything
INVARIANT CacheIsSound
PROPERTIES UnfinishedHasNoValue CallsReturn
