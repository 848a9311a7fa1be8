SPECIFICATION FairSpec
CONSTANTS
  MaxInput = 4
  StreamLimit = 2
  MaxText = 2
  Lengths = {0, 2, 5}
  MaxLiterals = 2
  MaxCommands = 2
INVARIANTS ReaderTypeOK WholeCommands FitsFrame
PROPERTY Answered
CHECK_DEADLOCK FALSE
