SPECIFICATION Spec
CONSTANTS
  Word <- MCWord
  PrefixesOf <- MCPrefixesOf
  Length <- MCLength
  Joined <- MCJoined
  Root = "root"
  Kind <- MCKind
  Children <- MCChildren
  OtherCase <- MCOtherCase
  Key <- MCKey
  Value = {"x", "dummyValue"}
  Number <- MCNumber
  Revision = {"5"}
  Instance = {"ri"}
  User = {"text"}
  Feature = {"config-mgmt", "routing-instance", "loadkey"}
  FirstWord <- MCFirstWord
  Vocabulary <- MCVocabulary
  MaxWords = 4
  File <- MCFile
  OtherPath <- MCOtherPath
INVARIANTS
  TypeOK
  LevelIsEditable
  RunsAsMeant
  OfferedIsAccepted
  MidWordAsCut
PROPERTIES
  EditsStayBelow
  CompletionTakesDummyBack
CHECK_DEADLOCK FALSE
