\* Storing a line evicts none, one, several or all of the others.
CONSTANTS
  Typed <- Keys
  Commands <- Names
  LineSize = 4
  HistSize = 6
SPECIFICATION Spec
INVARIANT TypeOK
INVARIANT WholeLines
INVARIANT RecalledIsStored
INVARIANT EvictIsLoop
PROPERTY ImplementsHistory
PROPERTY CompletionEnds
