SPECIFICATION Spec
CONSTANTS
  MaxText = 7
  Texts <- EndedTexts
  MaxLine = 3
  Stdins = {TRUE, FALSE}
  Pipes = {TRUE, FALSE}
  Failing = TRUE
INVARIANTS
  Prefix
  AllRun
  TerminalRuns
PROPERTY Returns
CHECK_DEADLOCK FALSE
