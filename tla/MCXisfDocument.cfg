SPECIFICATION Spec
CONSTANTS
  Tags <- MCTags
  Limits = {2, 3}
  Room = 6
  MaxElements = 3
  MaxParts = 5
INVARIANTS
  VisitIsRight
  TreeIsTheDocument
  BudgetCoversTheDocument
  ConsumersAgree
CHECK_DEADLOCK FALSE
