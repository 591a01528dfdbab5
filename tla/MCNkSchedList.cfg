\* Three task ids, two items to allocate: submissions find the free list empty.
CONSTANTS
  MaxTid = 3
  Job = {f}
  Delay <- Delays
  TicksPerMs = 1
  Half = 3
  QueueSize = 3
  MaxLate = 1
SPECIFICATION FairSpec
INVARIANT RingAndFreeList
PROPERTY ImplementsNkSched
PROPERTY EveryTaskCalled
