SPECIFICATION ClaudeSpec
CONSTANTS
  NumItems = 2
  ItemKinds = {"reasoning", "message", "tool"}
  MaxPieces = 2
  BlankPieces = {1}
INVARIANTS
  MalformedArgumentsFail
