SPECIFICATION Spec
CONSTANTS
  GROUP_BITS = 2
  WIDTH = 5
  SEQUENCE_BYTES = 2
  COUNT_BYTES = 1
  LONG = 16
  INT = 4
  Heaps <- MCHeaps
  Words <- MCWords
  Batches <- MCBatches
  SequenceNumbers <- MCSequenceNumbers
  Streams <- MCStreams
  Files <- MCFiles
  Numbers <- MCNumbers
  Default = 1000
INVARIANT FindsSmallest
INVARIANT ReadsWhatWasPut
INVARIANT SlicesOrdered
INVARIANT BatchesFormatted
INVARIANT SectionsAsWritten
INVARIANT NumbersFit
CHECK_DEADLOCK FALSE
