SPECIFICATION OpenAISpec
CONSTANTS
  NumItems = 1
  ItemKinds = {"reasoning", "message", "tool"}
  MaxPieces = 2
  BlankPieces = {1}
INVARIANTS
  CleanEndHasFinishReason
