SPECIFICATION Spec
CONSTANTS
  ga = ga  gb = gb  ca = ca  sa = sa  sb = sb  rb = rb
  hello = hello  reply = reply
  Gateways = {ga, gb}
  Keys = {ga, gb}
  Clients = {ca}
  Sessions = {sa, sb}
  Replies = {}
  HomeOf <- MCHomeOf
  RemoteOf <- MCRemoteOf
  PeerOf <- MCPeerOf
  Payloads = {hello, reply}
  Chats = {hello, reply}
  AgentChats = {reply}
  RepoGateways = {ga, gb}
  RepoFaults = TRUE
  ClientSigs <- MCClientSigs
  PeerSigs <- MCPeerSigs
  MaxBlocks = 2
  Announces = TRUE
  WireCap = 2
  MaxDials = 1
INVARIANT
  ReplicaPrefix
  RepoMatchesLog
  StoredSignaturesVerify
PROPERTY
  OwnBlockRejectedMeansFork
