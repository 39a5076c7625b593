SPECIFICATION Spec
CONSTANTS
  k1 = k1
  ClosingEnds = {"dialer", "acceptor"}
  Writers = {"acceptor"}
  Readers = {"dialer"}
  Closers <- MCClosers
  Duplicates = FALSE
  Deadlines = TRUE
  MayStop = {"dialer"}
  AcceptSeqs = {6}
  SeqMod = 8
  BufCap = 1
  QueueCap = 1
  MaxWrite = 1
  MaxChunks = 1
  MaxReads = 1
CHECK_DEADLOCK FALSE
INVARIANTS
  UTPTypeOK
  ReleasedWhenClosed
  AckedWasHandled
  PanicNeedsTwoCloses
PROPERTY
  ClosedIsFinal
