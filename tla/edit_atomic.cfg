SPECIFICATION Spec
CONSTANTS
  Node <- MCNode
  Kind <- MCKind
  Above <- MCAbove
  OtherValue <- MCOtherValue
  OtherCase <- MCOtherCase
  Objections = {}
  Requests <- MCTwiceRequests
INVARIANTS
  RollbackIsAtomic
