CONSTANTS
  LineChoices <- MC_WellFormed
  MaxLines = 3
  total_threads = 4
  NoDeclaration = NoDeclaration
  Missing = NoDeclaration

SPECIFICATION Spec

INVARIANT ExtractsFirstDeclaration
