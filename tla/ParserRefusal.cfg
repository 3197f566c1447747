SPECIFICATION ParserSpec
CONSTANTS
  Commands <- MCCommands
  Optional <- MCOptional
  MaxLength = 3
INVARIANTS RefusalAnswered
CHECK_DEADLOCK FALSE
