\* A buffer of two characters, indices that wrap, a sender that overruns it.
CONSTANTS
  RxSize = 2
  IndexMod = 4
  CharMod = 4
  Periodic <- Watchdog
  Wait = 1
  TicksPerMs = 1
  Half = 3
  QueueSize = 4
  MaxLate = 1
SPECIFICATION FairSpec
INVARIANT TypeOK
INVARIANT InOrder
INVARIANT OneListener
INVARIANT NoLostWakeup
INVARIANT SessionTimed
PROPERTY EveryCharRead
