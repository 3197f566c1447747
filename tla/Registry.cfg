\* Two contract names, six ABIs, lines of two commands
SPECIFICATION Spec
CONSTANTS
  Messages <- MCMessages
  Fields <- MCFields
  ABIs <- MCABIs
  BuiltIns <- MCBuiltIns
  ContractNames = {"koin", "pob"}
  Hidden = {"lock"}
  NoABI = NoABI
  Half32 = 2
  Half64 = 8
  MaxDepth = 3
  MaxLine = 2
INVARIANTS RegistryTypeOK RegistryAgrees QueueCurrent GeneratedCommandsResolve SuggestionsFollow MessageCarriesArguments
PROPERTY NothingRedefined
CHECK_DEADLOCK FALSE
