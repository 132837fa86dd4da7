\* Two writers that insert one at a time, a read of one line at a time, a page
\* that reconnects, and a listener that comes and goes.
SPECIFICATION FairSpec
CONSTANTS
  Writers = {w1, w2}
  Streams = {s1}
  NoStream = NoStream
  MaxStreams = 1
  PageLimit = 1
  MaxLines = 3
  MaxChanges = 1
  SerialWriters = TRUE
INVARIANTS
  StreamTypeOK
  ResumesExactly
  WakesAreAnswered
PROPERTIES
  ImplementsFeed
  WakesAreServed
