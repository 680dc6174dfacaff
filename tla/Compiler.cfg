SPECIFICATION Spec
CONSTANTS
  Sources <- MCSources
  SampleStatements <- MCStatements
  MaxStatements = 2
INVARIANTS
  TypeOK
  MetadataMatchesHeader
  ParsedIsWritten
  WholeRunsNeverFault
