SPECIFICATION FairSpec
CONSTANTS
  Client = client
  Loops = {l1, l2}
  Nodes = {n1}
  Me = me
  Others = {other}
  HostOf <- MCHostOf
  MaxLeaves = 1
  MaxExits = 1
INVARIANTS
  SwarmTypeOK
  JoinedStaysAnnounced
  OneReannouncer
PROPERTY
  JoinedGetsListed
