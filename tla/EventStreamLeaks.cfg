\* A browser that leaves before its stream has subscribed.
SPECIFICATION Spec
CONSTANTS
  Writers = {w1, w2}
  Streams = {s1, s2}
  NoStream = NoStream
  MaxStreams = 2
  PageLimit = 2
  MaxLines = 2
  MaxChanges = 0
  SerialWriters = TRUE
SYMMETRY StreamSymmetry
INVARIANT ClosedStreamsAreForgotten
