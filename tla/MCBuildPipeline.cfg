\* Every command of the build script, with failures.
SPECIFICATION Spec
CONSTANT MaxFailures = 3
INVARIANTS
  TypeOK
  SkippedIsRight
  ResultsAreRight
  InputsAreRight
PROPERTY CommandsComplete
