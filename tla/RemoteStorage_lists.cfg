\* The server keeps names apart: a second frame takes a name that is free again.
SPECIFICATION Spec
CONSTANTS
  f1 = f1
  f2 = f2
  f3 = f3
  frame_0 = frame_0
  frame_1 = frame_1
  other = other
  Frame = {f1, f2}
  Nil = None
  Name = {frame_0, frame_1, other}
  AutoNames <- MCAutoNames
  None = None
  Namesakes = FALSE
PROPERTIES
  ListsRemoteFrames
