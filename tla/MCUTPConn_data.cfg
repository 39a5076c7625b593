SPECIFICATION Spec
CONSTANTS
  k1 = k1
  ClosingEnds = {"dialer"}
  Writers = {"dialer"}
  Readers = {}
  Closers <- MCClosers
  Duplicates = TRUE
  Deadlines = FALSE
  MayStop = {}
  AcceptSeqs = {6}
  SeqMod = 8
  BufCap = 1
  QueueCap = 1
  MaxWrite = 2
  MaxChunks = 2
  MaxReads = 1
CHECK_DEADLOCK FALSE
INVARIANTS
  AckedWasHandled
  HandledWithoutGaps
