SPECIFICATION FairSpec
CONSTANTS
  top = top
  sub = sub
  f = f
  g = g
  h = h
  Dir = {top, sub}
  Root = top
  File = {f, g, h}
  In <- Places
  MaxEdits = 2
  MaxFrames = 12
  MaxBytes = 102500
  PathBytes <- Paths
  DataBytes <- Lengths
  InputBytes <- InputLengths
INVARIANTS TypeOK DirectoryAtOneInstant AllOrNothing NoOrphan RefusedBeforeOutput
PROPERTY Settles
CHECK_DEADLOCK FALSE
