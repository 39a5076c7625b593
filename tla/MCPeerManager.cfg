SPECIFICATION FairSpec
CONSTANTS
  in1 = in1  out1 = out1  out2 = out2  p = p  q = q
  Incoming = {in1}
  Outgoing = {out1, out2}
  Peers = {p, q}
  PeerOf <- MCPeerOf
INVARIANTS
  PeerTypeOK
  EntriesAreLive
PROPERTIES
  HaveReachesSessions
  CloseCleansUp
  CloseReturns
