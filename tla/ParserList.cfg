SPECIFICATION ParserSpec
CONSTANTS
  Commands <- MCCommands
  Optional <- MCOptional
  MaxLength = 4
INVARIANTS ExecutesWholeList
CHECK_DEADLOCK FALSE
