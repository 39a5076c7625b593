SPECIFICATION FairSpec
CONSTANTS
  k1 = k1
  ClosingEnds = {}
  Writers = {"dialer"}
  Readers = {"acceptor"}
  Closers <- MCClosers
  Duplicates = FALSE
  Deadlines = FALSE
  MayStop = {}
  AcceptSeqs = {6}
  SeqMod = 8
  BufCap = 1
  QueueCap = 1
  MaxWrite = 2
  MaxChunks = 2
  MaxReads = 1
CHECK_DEADLOCK FALSE
PROPERTY
  WriteReturns
