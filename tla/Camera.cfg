SPECIFICATION Spec
INVARIANTS
  CopyWhole
  BusyEnds
  AcceptedStarts
