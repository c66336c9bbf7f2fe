SPECIFICATION OpenAISpec
CONSTANTS
  NumItems = 2
  ItemKinds = {"reasoning", "message", "tool"}
  MaxPieces = 2
  BlankPieces = {1}
INVARIANTS
  OpenAITypeOK
  LegalChatStream
  AnswerOnce
  StreamedAsWhole
  FailureIsNoSuccess
