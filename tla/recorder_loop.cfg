\* Three datagrams, two signals, two runs; a length of two bytes.
SPECIFICATION FairSpec
CONSTANTS
  Datagrams <- MCDatagrams
  HeaderSize = 2
  MaxDatagrams = 3
  MaxSignals = 2
  MaxRuns = 2
INVARIANTS TypeOK FileReadsAsPrefix CleanStopKeepsAll
PROPERTY StopsWhenSignalled
CHECK_DEADLOCK FALSE
