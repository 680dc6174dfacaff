\* A parameter with two fields.
SPECIFICATION Spec
CONSTANTS
  InputFields <- MCTwoFields
  OutputFields <- MCOneResult
  Reversed = TRUE
  MaxOps = 1
INVARIANTS
  CircuitComputesSource
