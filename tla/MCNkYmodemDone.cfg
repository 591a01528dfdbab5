\* The same transfer, two faults.
CONSTANTS
  File <- Bytes
  DataLen = 2
  LongLen = 4
  SeqCount = 3
  Timeouts = 1
  Max32 = 1073741824
  MaxFaults = 2
SPECIFICATION Spec
CHECK_DEADLOCK FALSE
INVARIANT DoneMeansComplete
