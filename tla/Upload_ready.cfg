\* One broken stream is enough.
SPECIFICATION Spec
CONSTANTS
  f1 = f1
  f2 = f2
  k1 = k1
  Task = {f1, f2, k1}
  Frame = {f1, f2}
  Size <- MCSize
  BlockSize = 2
  MaxRunning = 2
  Width = 3
INVARIANTS
  ReadyMeansUploaded
