CONSTANTS
  MaxSafe = 9
  U64Max = 20
  MaxLoads = 2
  FiniteKeys <- MCFiniteKeys
  IntRange <- MCIntRange
  Upper <- MCUpper
  Capital <- MCCapital
  Declared <- MCDeclared
  Types <- MCTypes
  Pascal <- MCPascal
  Offers <- MCOffers
  NameOrder <- MCNameOrder
  Policies <- MCPolicies
  Arguments <- MCArguments
  Answers <- MCAnswers
  Failed <- Fail
  SnapshotOf <- Snapshot
  FitsSchema <- TypeAccepts
  Reads <- TypeReads
  Writes <- TypeWrites
  SchemaDiffers <- TypeDiffers
  ReadsMore <- TypeReadsMore
SPECIFICATION CallsSpec
INVARIANTS
  EveryCallIsChecked
  ImportsInstalled
  DeclarationsClosed
  SdkBindsItsOwn
  OwnReplyPasses
  RoundTrip
  AcceptsWhatDecodes
  SdkAcceptsReply
CHECK_DEADLOCK FALSE
