\* Three frames: one imported, one of another client, and a namesake.
SPECIFICATION Spec
CONSTANTS
  f1 = f1
  f2 = f2
  f3 = f3
  frame_0 = frame_0
  frame_1 = frame_1
  other = other
  Frame = {f1, f2, f3}
  Nil = Nil
  Name = {frame_0, frame_1, other}
  AutoNames <- MCAutoNames
  None = None
  Namesakes = TRUE
SYMMETRY Symmetry
INVARIANTS
  TypeOK
  DeadMeansGone
  AutoNamedStays
PROPERTIES
  SyncShowsAnswer
  BindingsAreFinal
