\* Three jobs, any number of calls and failures.
SPECIFICATION ExecutorSpec
CONSTANTS
  j1 = j1
  j2 = j2
  j3 = j3
  Job = {j1, j2, j3}
  Absent = Absent
SYMMETRY Symmetry
INVARIANTS
  ExecutorTypeOK
  NeverAhead
  ListingIsComplete
PROPERTIES
  NeverBack
