SPECIFICATION ConversationSpec
CONSTANTS
  MaxAnswers = 2
  MaxItems = 3
INVARIANTS
  ConversationKept
  CallsPaired
CHECK_DEADLOCK FALSE
