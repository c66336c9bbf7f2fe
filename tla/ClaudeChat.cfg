SPECIFICATION ChatSpec
CONSTANTS
  LF = LF  CR = CR
  Byte <- Bytes
  NumBlocks = 2
  BlockKinds = {"text", "thinking", "tool_use"}
  MaxPieces = 2
  StopReasons = {"end_turn", "max_tokens"}
  LineEnds = {"mixed"}
  MaxLag = 1
INVARIANTS
  ChatTypeOK
  CutsOfTheWhole
  LegalChatStream
  StreamedAsWhole
  EndNotLost
  FailureIsNoSuccess
