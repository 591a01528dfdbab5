\* Four blocks, the last one padded; the sequence number wraps.
CONSTANTS
  File <- Bytes
  DataLen = 2
  LongLen = 4
  SeqCount = 3
  Timeouts = 1
  Max32 = 1073741824
  MaxFaults = 3
SPECIFICATION FairSpec
CHECK_DEADLOCK FALSE
INVARIANT TypeOK
INVARIANT PurgeMode
INVARIANT NeverOutOfSync
INVARIANT BothComplete
PROPERTY ImplementsTransfer
PROPERTY Recovers
