SPECIFICATION ParserSpec
CONSTANTS
  Commands <- MCCommands
  Optional <- MCOptional
  MaxLength = 6
INVARIANTS ParserTypeOK CurrentArgDeclared ExecutesInOrder ExecutesFullCommands
CHECK_DEADLOCK FALSE
