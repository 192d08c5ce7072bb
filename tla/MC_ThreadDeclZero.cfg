CONSTANTS
  LineChoices <- MC_Zero
  MaxLines = 2
  total_threads = 4
  NoDeclaration = NoDeclaration
  Missing = NoDeclaration

SPECIFICATION Spec

INVARIANT AcceptedJobIsValid
