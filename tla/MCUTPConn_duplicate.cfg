SPECIFICATION Spec
CONSTANTS
  k1 = k1
  ClosingEnds = {}
  Writers = {"dialer"}
  Readers = {"acceptor"}
  Closers <- MCClosers
  Duplicates = FALSE
  Deadlines = FALSE
  MayStop = {}
  AcceptSeqs = {6}
  SeqMod = 8
  BufCap = 1
  QueueCap = 2
  MaxWrite = 2
  MaxChunks = 2
  MaxReads = 2
CHECK_DEADLOCK FALSE
INVARIANT
  StreamInOrder
