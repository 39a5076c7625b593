SPECIFICATION FairSpec
CONSTANTS
  Bits = 3
  K = 2
  Alpha = 2
  Local <- MCLocal
  Nodes <- MCNodes
  Senders <- MCSenders
  Targets <- MCTargets
INVARIANTS
  KademliaTypeOK
  BucketsHoldMostRecent
  SearchIsComplete
PROPERTY
  SearchEnds
