-------------------------- MODULE ResponsesToClaude --------------------------
(***************************************************************************)
(* responsesStreamToClaude of internal/translate/claude_responses_stream.go: *)
(* the bridge that turns the frames of a Responses stream into the content *)
(* blocks of Claude's Messages stream.  It keeps one block for each        *)
(* reasoning item, tool call and content part it has met.                  *)
(***************************************************************************)
EXTENDS ResponsesStream

VARIABLES late,            \* the messages whose text began after a later item
          started,         \* Started: message_start has been made
          stopped,         \* Stopped: message_stop has been made
          nextBlock,       \* NextBlock
          blocks           \* Blocks; NoBlock where the map has no key

bridgeVars == <<started, stopped, nextBlock, blocks>>
claudeVars == <<streamVars, late, bridgeVars>>

(* itemKey and contentKey: of an item and of its only content part.        *)
Keys == {"item", "content"} \X Items
ItemKey == <<"item", frame.item>>
ContentKey == <<"content", frame.item>>

NoBlock == [kind |-> "none", open |-> FALSE]
Block(index, kind, open, sawDelta, encrypted) ==
  [index |-> index, kind |-> kind, open |-> open, sawDelta |-> sawDelta,
   encrypted |-> encrypted]

(* The frames of Claude's protocol; the item of a block that starts is that *)
(* of its first frame.                                                     *)
MessageStart == [type |-> "message_start"]
BlockStart(b) ==
  [type |-> "content_block_start", index |-> b.index, kind |-> b.kind, item |-> frame.item]
BlockStop(b) == [type |-> "content_block_stop", index |-> b.index]
BlockDelta(b, kind, piece) ==
  [type |-> "delta", index |-> b.index, kind |-> kind, content |-> piece]
MessageDelta(reason) == [type |-> "message_delta", reason |-> reason]
MessageStop == [type |-> "message_stop"]

-----------------------------------------------------------------------------
(* Variants of the definitions below, each with a seeded fault. *)

DeltasUnseen(b, pieces) == b.sawDelta
StopKeepsOpen(b) == Block(b.index, b.kind, b.open, b.sawDelta, b.encrypted)
DoneIsNoFrame == frame.type = "[DONE]" /\ Emits(<<>>) /\ UNCHANGED bridgeVars
ToolStillOpen == \E key \in Keys : blocks[key].kind = "tool_use" /\ blocks[key].open
CountedEveryFrame(key) == nextBlock + 1

-----------------------------------------------------------------------------
ClaudeInit ==
  /\ StreamInit
  /\ late = {}
  /\ started = FALSE /\ stopped = FALSE
  /\ nextBlock = 0
  /\ blocks = [key \in Keys |-> NoBlock]

(* The first frame of a response opens the message.                        *)
Start == IF started THEN <<>> ELSE <<MessageStart>>

(* block: the one under key, or a new one with the next index.             *)
BlockAt(key, kind) ==
  IF blocks[key] # NoBlock THEN blocks[key]
  ELSE Block(nextBlock, kind, FALSE, FALSE, FALSE)
Counted(key) == IF blocks[key] # NoBlock THEN nextBlock ELSE nextBlock + 1

(* openText, openThinking, openTool.                                       *)
Opening(b) == IF b.open THEN <<>> ELSE <<BlockStart(b)>>
(* delta, once for each piece, in one frame or several.                    *)
Deltas(b, kind, pieces) ==
  [n \in 1..Len(pieces) |-> BlockDelta(b, kind, pieces[n])]
SawDelta(b, pieces) == b.sawDelta \/ pieces # <<>>

(* closeBlock *)
Closed(b) == Block(b.index, b.kind, FALSE, b.sawDelta, b.encrypted)
Closing(b) == IF b.open THEN <<BlockStop(b)>> ELSE <<>>

(* The block under key is opened if need be and takes the frame's pieces.  *)
Fills(key, kind, encrypted) ==
  LET b == BlockAt(key, kind)
  IN  /\ blocks' = [blocks EXCEPT ![key] =
           Block(b.index, b.kind, TRUE, SawDelta(b, frame.pieces), encrypted)]
      /\ nextBlock' = Counted(key)
      /\ started' = TRUE
      /\ Emits(Start \o Opening(b) \o Deltas(b, kind, frame.pieces))
      /\ UNCHANGED stopped

Unmoved(out) == Emits(Start \o out) /\ started' = TRUE /\ UNCHANGED <<stopped, nextBlock>>

(* response.created, and the frames the bridge makes nothing of: a message *)
(* item that is added or done.                                             *)
OnOther ==
  /\ \/ frame.type = "response.created"
     \/ /\ frame.type \in {"output_item.added", "output_item.done"}
        /\ frame.kind = "message"
  /\ Unmoved(<<>>)
  /\ UNCHANGED blocks

OnItemAdded ==
  /\ frame.type = "output_item.added"
  /\ \/ frame.kind = "reasoning" /\ Fills(ItemKey, "thinking", frame.encrypted)
     \/ frame.kind = "tool" /\ Fills(ItemKey, "tool_use", FALSE)

OnPartAdded ==
  /\ frame.type = "content_part.added"
  /\ Fills(ContentKey, "text", FALSE)

OnDelta ==
  /\ frame.type = "delta"
  /\ \/ frame.kind = "message" /\ Fills(ContentKey, "text", FALSE)
     \/ /\ frame.kind = "reasoning"
        /\ Fills(ItemKey, "thinking", BlockAt(ItemKey, "thinking").encrypted)
     \/ frame.kind = "tool" /\ Fills(ItemKey, "tool_use", FALSE)

OnPartDone ==
  LET b == blocks[ContentKey]
  IN  /\ frame.type = "content_part.done"
      /\ IF b.open
         THEN blocks' = [blocks EXCEPT ![ContentKey] = Closed(b)]
         ELSE UNCHANGED blocks
      /\ Unmoved(Closing(b))

(* The block of a finished item takes the whole content unless it has had  *)
(* deltas, then the signature of encrypted reasoning, and is closed.  The  *)
(* text of reasoning is trimmed when it comes whole.                       *)
OnItemDone ==
  LET known == blocks[ItemKey] # NoBlock
      kind  == IF frame.kind = "tool" THEN "tool_use" ELSE "thinking"
      b     == BlockAt(ItemKey, kind)
      opened == Block(b.index, b.kind, known => b.open, b.sawDelta, b.encrypted)
      pieces == IF b.sawDelta THEN <<>>
                ELSE IF kind = "thinking" THEN Trimmed(frame.pieces) ELSE frame.pieces
      encrypted == frame.encrypted \/ b.encrypted
      signature == IF kind = "thinking" /\ encrypted
                   THEN <<[type |-> "signature_delta", index |-> b.index]>> ELSE <<>>
  IN  /\ frame.type = "output_item.done"
      /\ frame.kind # "message"
      /\ blocks' = [blocks EXCEPT ![ItemKey] =
           Closed(Block(b.index, b.kind, FALSE,
                        SawDelta(b, pieces \o signature), encrypted))]
      /\ nextBlock' = Counted(ItemKey)
      /\ started' = TRUE
      /\ UNCHANGED stopped
      /\ Emits(Start \o (IF known THEN <<>> ELSE Opening(b))
                 \o Deltas(b, kind, pieces) \o signature \o Closing(opened))

(* responsesStopReason *)
StopReason(reason, hasToolUse) ==
  IF reason = "max_output_tokens" THEN "max_tokens"
  ELSE IF reason = "content_filter" THEN "refusal"
  ELSE IF hasToolUse THEN "tool_use" ELSE "end_turn"

HasToolUse == \E key \in Keys : blocks[key].kind = "tool_use"

(* finish: the open blocks are closed in the order the map yields them.    *)
OnTerminal ==
  LET open == {key \in Keys : blocks[key].open}
  IN  /\ frame.type \in {"response.completed", "response.incomplete"}
      /\ \E order \in SetToAllKPermutations(open) :
           /\ Len(order) = Cardinality(open)
           /\ Emits(Start \o [n \in 1..Len(order) |-> BlockStop(blocks[order[n]])]
                      \o <<MessageDelta(StopReason(frame.reason, HasToolUse)), MessageStop>>)
      /\ blocks' = [key \in Keys |-> IF key \in open THEN Closed(blocks[key]) ELSE blocks[key]]
      /\ started' = TRUE /\ stopped' = TRUE
      /\ UNCHANGED nextBlock

OnFailure ==
  /\ frame.type \in {"response.failed", "response.completed.failed", "invalid"}
  /\ TranslationFails
  /\ UNCHANGED bridgeVars

OnDone ==
  /\ frame.type = "[DONE]"
  /\ IF stopped THEN Emits(<<>>) ELSE TranslationFails
  /\ UNCHANGED bridgeVars

Translates ==
  /\ \/ OnOther \/ OnItemAdded \/ OnPartAdded \/ OnDelta \/ OnPartDone
     \/ OnItemDone \/ OnTerminal \/ OnFailure \/ OnDone
  /\ UNCHANGED <<upstream, items, late>>

(* The texts that the endpoint begins in this step, after a later item has *)
(* begun: late remembers them, for what the properties say of order.       *)
BeginsText(i) == items[i].phase # "part" /\ items'[i].phase = "part"
RemembersLate ==
  late' = late \cup {i \in Items : BeginsText(i) /\ \E j \in Items : i < j /\ items[j] # NoItem}

(* The pump has returned. *)
Returned == output # "open" /\ UNCHANGED claudeVars

ClaudeNext ==
  \/ Translates
  \/ UpstreamNext /\ RemembersLate /\ UNCHANGED bridgeVars
  \/ (UpstreamEnds \/ ReadFails) /\ UNCHANGED <<late, bridgeVars>>
  \/ Returned

ClaudeSpec == ClaudeInit /\ [][ClaudeNext]_claudeVars

-----------------------------------------------------------------------------
(* responsesResponseToClaude of internal/translate/claude_responses.go: the *)
(* same answer when it is not streamed.  An item with content yields one   *)
(* block, whose text is trimmed; a tool call yields one in any case, in    *)
(* the order of the items.                                                 *)

BlockKind(kind) ==
  CASE kind = "message" -> "text"
    [] kind = "reasoning" -> "thinking"
    [] kind = "tool" -> "tool_use"

WholeBlocks ==
  {[kind |-> BlockKind(items[i].kind), content |-> Inner(Content(i))] :
     i \in {j \in Items : items[j] # NoItem}}
WholeToolCalls == {i \in Items : items[i].kind = "tool"}
WholeStopReason == StopReason(ReasonTold, WholeToolCalls # {})

(* The arguments of a function call are a JSON object once the call is     *)
(* done or the answer complete; those of a call that an incomplete answer  *)
(* breaks off need not be, and the answer is then an error as a whole      *)
(* (claude_responses.go:219-225).  No arguments are an empty object.  The  *)
(* input of a custom tool, which need not be JSON at all, is left out.     *)
BrokenOff(i) ==
  /\ items[i].kind = "tool" /\ items[i].phase # "done"
  /\ Inner(Content(i)) # {}
WholeRefused == upstream # "completed" /\ \E i \in Items : BrokenOff(i)

-----------------------------------------------------------------------------
(* Properties. *)

ClaudeTypeOK ==
  /\ StreamTypeOK
  /\ started \in BOOLEAN /\ stopped \in BOOLEAN
  /\ nextBlock \in 0..(2 * NumItems)
  /\ blocks \in [Keys -> {NoBlock} \cup
       [index : 0..(2 * NumItems), kind : {"text", "thinking", "tool_use"},
        open : BOOLEAN, sawDelta : BOOLEAN, encrypted : BOOLEAN]]

OpenAt(n, index) ==
  \E m \in 1..(n-1) :
    /\ At(m, "content_block_start") /\ sent[m].index = index
    /\ \A k \in m..(n-1) : ~(At(k, "content_block_stop") /\ sent[k].index = index)
Starts(n) == {m \in 1..n : At(m, "content_block_start")}

(* Frame n of the output is one that Claude's protocol allows after the    *)
(* frames before it.                                                       *)
Legal(n) ==
  CASE At(n, "message_start") -> n = 1
    [] At(n, "content_block_start") ->
         n > 1 /\ sent[n].index = Cardinality(Starts(n-1))
    [] At(n, "delta") ->
         /\ OpenAt(n, sent[n].index)
         /\ \E m \in Starts(n) :
              sent[m].index = sent[n].index
                /\ sent[m].kind = sent[n].kind
    [] At(n, "signature_delta") -> OpenAt(n, sent[n].index)
    [] At(n, "content_block_stop") -> OpenAt(n, sent[n].index)
    [] At(n, "message_delta") ->
         n > 1 /\ \A m \in Starts(n) : ~OpenAt(n, sent[m].index)
    [] At(n, "message_stop") -> At(n-1, "message_delta")
    [] OTHER -> FALSE

(* The client sees a legal Messages stream (claude_responses_stream.go:    *)
(* 180-314): blocks are numbered in the order they open, a delta or a stop *)
(* names a block that is open and of its kind, every block is closed       *)
(* before the message ends, and nothing follows its end - for items that   *)
(* overlap, that are not announced and that an incomplete answer cuts off. *)
LegalMessagesStream ==
  /\ \A n \in 1..Len(sent) : Legal(n)
  /\ \A n \in 1..(Len(sent) - 1) : ~At(n, "message_stop")
  /\ \A n \in 1..(Len(sent) - 1) : At(n, "message_delta") => At(n+1, "message_stop")

(* The client receives every piece of every item once and in order,        *)
(* whether it was streamed or came with the done frame (claude_responses_  *)
(* stream.go:108-131, 153-165) - reasoning that comes whole without the    *)
(* white space at its ends - and pieces of different items never share a   *)
(* block.                                                                  *)
EveryPieceOnce ==
  /\ \A i \in Items : \E pieces \in Contents(i) :
       /\ \A n \in 1..Len(sent) : Carries(n, i) => InTurn(n, i, pieces)
       /\ Settled => AllReceived(i, pieces, Len(sent))
  /\ \A m, n \in 1..Len(sent) :
       At(m, "delta") /\ At(n, "delta") /\ sent[m].index = sent[n].index =>
         sent[m].content.item = sent[n].content.item

(* A message is ended only when the endpoint has ended the response, and   *)
(* an answer that failed or was cut off by [DONE] never ends as a success  *)
(* (claude_responses_stream.go:45-50, 62-72, 170-174).                     *)
FailureIsNoSuccess ==
  /\ stopped => Terminated
  /\ upstream \in {"failed", "cut"} => output # "ended"

(* Streamed or not, the client gets the same message (claude_responses.go: *)
(* 176-254), unless the whole answer is refused for arguments that were    *)
(* cut short: when it ends, its blocks that have content are those that    *)
(* responsesResponseToClaude makes of the whole answer, up to white space  *)
(* at the ends of their text, it holds as many tool calls, and its stop    *)
(* reason tells the client to run them exactly when the whole answer       *)
(* would.  Its blocks come in the order of the items, but for a text that  *)
(* the endpoint began after a later item.                                  *)
DeltasOf(index) == {n \in 1..Len(sent) : At(n, "delta") /\ sent[n].index = index}
ContentOf(index) == {sent[n].content : n \in DeltasOf(index)}
StreamedBlocks ==
  {[kind |-> sent[m].kind, content |-> Inner(ContentOf(sent[m].index))] :
     m \in Starts(Len(sent))}
NotEmpty(set) == {b \in set : b.content # {}}
InItemOrder(starts) ==
  \A m, n \in starts :
    m < n => sent[m].item < sent[n].item \/ sent[n].item \in late
StreamedAsWhole ==
  \A n \in 1..Len(sent) :
    At(n, "message_delta") /\ n < Len(sent) /\ ~WholeRefused =>
      /\ NotEmpty(StreamedBlocks) = NotEmpty(WholeBlocks)
      /\ InItemOrder(Starts(n))
      /\ \A m \in Starts(n) : InDocumentOrder(DeltasOf(sent[m].index))
      /\ Cardinality({m \in Starts(n) : sent[m].kind = "tool_use"})
           = Cardinality(WholeToolCalls)
      /\ sent[n].reason = WholeStopReason

(* README.md:351-353: "Malformed tool arguments and failed upstream        *)
(* Responses objects return errors rather than success-shaped fallbacks."  *)
(* A message would end only when the arguments of its calls are complete,  *)
(* as claude_responses.go:219-225 has it for a whole answer.               *)
MalformedArgumentsFail == stopped => ~WholeRefused
=============================================================================
