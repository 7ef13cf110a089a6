SPECIFICATION Spec
CONSTANTS
  MaxText = 4
  Texts <- AllTexts
  MaxLine = 3
  Stdins = {FALSE}
  Pipes = {FALSE}
  Failing = FALSE
PROPERTY Returns
CHECK_DEADLOCK FALSE
