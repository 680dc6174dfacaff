\* Every program of up to two logical statements.
SPECIFICATION Spec
CONSTANTS
  InputFields <- MCOneFieldEach
  OutputFields <- MCTwoResults
  Reversed = TRUE
  MaxOps = 2
INVARIANTS
  TypeOK
  NodesComputeStatements
  CircuitComputesSource
