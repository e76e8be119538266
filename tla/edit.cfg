SPECIFICATION Spec
CONSTANTS
  Node <- MCNode
  Kind <- MCKind
  Above <- MCAbove
  OtherValue <- MCOtherValue
  OtherCase <- MCOtherCase
  Objections <- MCObjections
  Requests <- MCRequests
INVARIANTS
  TypeOK
  HasMeaning
  ErrorsReported
  TestOnlyIsPure
  RollbackIfIndependent
