CONSTANTS
  LineChoices <- MC_Loose
  MaxLines = 2
  total_threads = 4
  NoDeclaration = NoDeclaration
  Missing = NoDeclaration

SPECIFICATION Spec

INVARIANT ExtractsFirstDeclaration
