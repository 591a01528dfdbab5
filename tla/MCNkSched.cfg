\* Enough items for every task id; two functions; a timer that wraps.
CONSTANTS
  MaxTid = 3
  Job = {f, g}
  Delay <- Delays
  TicksPerMs = 2
  Half = 4
  QueueSize = 4
  MaxLate = 1
SYMMETRY Symmetry
SPECIFICATION LogSpec
INVARIANT TypeOK
INVARIANT ItemsAccounted
INVARIANT UniqueTids
INVARIANT TimesAgree
INVARIANT Sorted
INVARIANT FirstComeFirstServed
PROPERTY NeverEarly
PROPERTY NeverDropped
