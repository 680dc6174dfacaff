\* Two pool threads, so that two uploads run while one is queued.
SPECIFICATION FairSpec
CONSTANTS
  f1 = f1
  f2 = f2
  k1 = k1
  Task = {f1, f2, k1}
  Frame = {f1, f2}
  Size <- MCSize
  BlockSize = 2
  MaxRunning = 2
  Width = 3
INVARIANTS
  TypeOK
  ServerHoldsPrefix
  ServerSeesOutcome
  ProgressIsHonest
PROPERTIES
  BarNeverGoesBack
  UploadEnds
