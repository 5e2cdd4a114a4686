SPECIFICATION Spec
CONSTANTS
  Documents <- AllDocuments
  Uninitialized <- AnyMean
  HostIds <- AllHostIds
  GroupIds <- AllGroupIds
  TaskIds <- AllTaskIds
  MaxCommands = 1
  MaxEdits = 2
INVARIANTS ReferencesHold DiagramsAreFaithful
PROPERTY WrittenIsReadBack
