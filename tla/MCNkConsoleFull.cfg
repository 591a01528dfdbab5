\* A sender that does not wait for the reader.
CONSTANTS
  RxSize = 2
  IndexMod = 4
  CharMod = 4
  Periodic <- Watchdog
  Wait = 1
  TicksPerMs = 1
  Half = 3
  QueueSize = 4
  MaxLate = 1
SPECIFICATION FairSpec
PROPERTY ReceiverEmptied
