SPECIFICATION FairSpec
CONSTANTS
  ga = ga  gb = gb  ca = ca  sa = sa  sb = sb  rb = rb
  hello = hello  reply = reply
  Gateways = {ga, gb}
  Keys = {ga, gb}
  Clients = {ca}
  Sessions = {sa, sb}
  Replies = {rb}
  HomeOf <- MCHomeOf
  RemoteOf <- MCRemoteOf
  PeerOf <- MCPeerOf
  Payloads = {hello, reply}
  Chats = {hello, reply}
  AgentChats = {reply}
  RepoGateways = {gb}
  RepoFaults = FALSE
  ClientSigs <- MCClientSigs
  PeerSigs <- MCPeerSigs
  MaxBlocks = 3
  Announces = FALSE
  WireCap = 2
  MaxDials = 0
INVARIANTS
  StoredBlocksExist
  ToldBlocksExist
  ReplicationTypeOK
PROPERTY
  OwnBlockRejectedMeansFork
  FeedSpec
  OfferIsFetched
