-------------------------- MODULE ResponsesToOpenAI --------------------------
(***************************************************************************)
(* responsesStreamToOpenAI of internal/translate/openai_responses_stream.go: *)
(* the bridge that turns the frames of a Responses stream into OpenAI chat *)
(* chunks.  Text and reasoning need no state; each tool call has an item   *)
(* with its index.                                                         *)
(***************************************************************************)
EXTENDS ResponsesStream

VARIABLES started,         \* Started: the role chunk has been made
          stopped,         \* Stopped: the finish chunk has been made
          nextToolIndex,   \* NextToolIndex
          hasToolCalls,    \* HasToolCalls
          toolItems        \* Items; NoTool where the map has no key

bridgeVars == <<started, stopped, nextToolIndex, hasToolCalls, toolItems>>
openAIVars == <<streamVars, bridgeVars>>

NoTool == [announced |-> FALSE, sawDelta |-> FALSE]
Tool(index, announced, sawDelta) ==
  [index |-> index, announced |-> announced, sawDelta |-> sawDelta]

(* The chunks: the role, a piece of content in a field of the delta, the   *)
(* head of a tool call, and the finish reason.                             *)
RoleChunk == [type |-> "role"]
ToolChunk(index, i) == [type |-> "tool", index |-> index, item |-> i]
PieceChunk(field, index, piece) ==
  [type |-> "delta", field |-> field, index |-> index, content |-> piece]
FinishChunk(reason) == [type |-> "finish", reason |-> reason]

-----------------------------------------------------------------------------
(* Variants of the definitions below, each with a seeded fault. *)

ToolDeltasUnseen(tool, pieces) == tool.sawDelta
CutIsEnd == frame.type = "[DONE]" /\ Emits(<<>>) /\ UNCHANGED bridgeVars
IndexOfEveryFrame(i) == nextToolIndex + 1
AnnouncedAgain(tool, i) == <<ToolChunk(tool.index, i)>>
AnnouncedWithArguments(tool, i) ==
  IF tool.announced \/ frame.pieces = <<>> THEN <<>> ELSE <<ToolChunk(tool.index, i)>>

-----------------------------------------------------------------------------
OpenAIInit ==
  /\ StreamInit
  /\ started = FALSE /\ stopped = FALSE
  /\ nextToolIndex = 0
  /\ hasToolCalls = FALSE
  /\ toolItems = [i \in Items |-> NoTool]

(* start: the first frame of a response yields the role chunk.             *)
Start == IF started THEN <<>> ELSE <<RoleChunk>>

(* A frame that does not concern a tool call.                              *)
Passes(out) ==
  /\ Emits(Start \o out)
  /\ started' = TRUE
  /\ UNCHANGED <<stopped, nextToolIndex, hasToolCalls, toolItems>>

PieceChunks(field, index, pieces) ==
  [n \in 1..Len(pieces) |-> PieceChunk(field, index, pieces[n])]

(* item and announceTool: the tool call of the frame, with the next index  *)
(* when it is new, is announced once and takes the pieces.                 *)
ToolAt(i) == IF toolItems[i] # NoTool THEN toolItems[i] ELSE Tool(nextToolIndex, FALSE, FALSE)
NextIndex(i) == IF toolItems[i] # NoTool THEN nextToolIndex ELSE nextToolIndex + 1
Announcement(tool, i) == IF tool.announced THEN <<>> ELSE <<ToolChunk(tool.index, i)>>
SawDelta(tool, pieces) == tool.sawDelta \/ pieces # <<>>

TakesArguments(pieces) ==
  LET tool == ToolAt(frame.item)
  IN  /\ toolItems' = [toolItems EXCEPT ![frame.item] =
           Tool(tool.index, TRUE, SawDelta(tool, pieces))]
      /\ nextToolIndex' = NextIndex(frame.item)
      /\ hasToolCalls' = TRUE
      /\ started' = TRUE
      /\ Emits(Start \o Announcement(tool, frame.item)
                 \o PieceChunks("arguments", tool.index, pieces))
      /\ UNCHANGED stopped

(* response.created, and the frames that yield no chunk of their own.      *)
OnOther ==
  /\ \/ frame.type \in {"response.created", "content_part.done"}
     \/ frame.type = "output_item.added" /\ frame.kind # "tool"
     \/ frame.type = "output_item.done" /\ frame.kind = "message"
  /\ Passes(<<>>)

(* The endpoint announces each call with its name: one without is only     *)
(* announced by a later frame of it, which is left out here.               *)
OnToolAdded ==
  /\ frame.type = "output_item.added"
  /\ frame.kind = "tool"
  /\ TakesArguments(<<>>)

OnPartAdded ==
  /\ frame.type = "content_part.added"
  /\ Passes(PieceChunks("content", 0, frame.pieces))

OnText ==
  /\ frame.type = "delta"
  /\ frame.kind = "message"
  /\ Passes(PieceChunks("content", 0, frame.pieces))

OnReasoning ==
  /\ frame.type = "delta"
  /\ frame.kind = "reasoning"
  /\ Passes(PieceChunks("reasoning_content", 0, frame.pieces))

OnArguments ==
  /\ frame.type = "delta"
  /\ frame.kind = "tool"
  /\ TakesArguments(frame.pieces)

(* Items holds no reasoning item: the whole text is always sent, trimmed.  *)
OnReasoningDone ==
  /\ frame.type = "output_item.done"
  /\ frame.kind = "reasoning"
  /\ Passes(IF ~toolItems[frame.item].sawDelta
            THEN PieceChunks("reasoning_content", 0, Trimmed(frame.pieces)) ELSE <<>>)

OnToolDone ==
  /\ frame.type = "output_item.done"
  /\ frame.kind = "tool"
  /\ TakesArguments(IF ToolAt(frame.item).sawDelta THEN <<>> ELSE frame.pieces)

(* responsesFinishReason *)
FinishReason(reason, toolCalls) ==
  IF reason = "max_output_tokens" THEN "length"
  ELSE IF reason = "content_filter" THEN "content_filter"
  ELSE IF toolCalls THEN "tool_calls" ELSE "stop"

(* finish *)
OnTerminal ==
  /\ frame.type \in {"response.completed", "response.incomplete"}
  /\ Emits(Start \o <<FinishChunk(FinishReason(frame.reason, hasToolCalls))>>)
  /\ started' = TRUE /\ stopped' = TRUE
  /\ UNCHANGED <<nextToolIndex, hasToolCalls, toolItems>>

OnFailure ==
  /\ frame.type \in {"response.failed", "response.completed.failed", "invalid"}
  /\ TranslationFails
  /\ UNCHANGED bridgeVars

OnDone ==
  /\ frame.type = "[DONE]"
  /\ IF stopped THEN Emits(<<>>) ELSE TranslationFails
  /\ UNCHANGED bridgeVars

Translates ==
  /\ \/ OnOther \/ OnToolAdded \/ OnPartAdded \/ OnText \/ OnReasoning
     \/ OnArguments \/ OnReasoningDone \/ OnToolDone \/ OnTerminal
     \/ OnFailure \/ OnDone
  /\ UNCHANGED <<upstream, items>>

(* The pump has returned. *)
Returned == output # "open" /\ UNCHANGED openAIVars

OpenAINext ==
  \/ Translates
  \/ (UpstreamNext \/ UpstreamEnds \/ ReadFails) /\ UNCHANGED bridgeVars
  \/ Returned

OpenAISpec == OpenAIInit /\ [][OpenAINext]_openAIVars

-----------------------------------------------------------------------------
(* responsesResponseToOpenAI of internal/translate/openai_responses.go: the *)
(* same answer when it is not streamed.                                    *)

(* Its pieces and calls, which it holds item by item.                      *)
WholeText == UNION {Content(i) : i \in {i \in Items : items[i].kind = "message"}}
WholeToolCalls == {i \in Items : items[i].kind = "tool"}
WholeFinishReason == FinishReason(ReasonTold, WholeToolCalls # {})

-----------------------------------------------------------------------------
(* Properties. *)

OpenAITypeOK ==
  /\ StreamTypeOK
  /\ started \in BOOLEAN /\ stopped \in BOOLEAN /\ hasToolCalls \in BOOLEAN
  /\ nextToolIndex \in 0..NumItems
  /\ toolItems \in [Items -> {NoTool} \cup
       [index : 0..(NumItems - 1), announced : BOOLEAN, sawDelta : BOOLEAN]]

Announced(n) == {m \in 1..n : At(m, "tool")}
Kind(i) == items[i].kind

(* The client sees a legal chat stream (openai_responses_stream.go:162-    *)
(* 210): the role first and once, tool calls numbered without gaps and     *)
(* each announced once before its arguments, the finish reason last.       *)
LegalChatStream ==
  \A n \in 1..Len(sent) :
    /\ At(n, "role") <=> n = 1
    /\ At(n, "tool") =>
         /\ sent[n].index = Cardinality(Announced(n-1))
         /\ \A m \in Announced(n-1) : sent[m].item # sent[n].item
    /\ At(n, "delta") /\ sent[n].field = "arguments" =>
         \E m \in Announced(n) :
           sent[m].index = sent[n].index /\ sent[m].item = sent[n].content.item
    /\ At(n, "finish") => n = Len(sent)

(* Text and arguments reach the client piece by piece, once and in order,  *)
(* whether streamed or given with the done frame (openai_responses_        *)
(* stream.go:104-111, 116-127, 138-149); reasoning text does so at first,  *)
(* and some of it may come again when it is done (112-115, 128-137).       *)
AnswerOnce ==
  \A i \in Items : \E pieces \in Contents(i) :
    /\ \A n \in 1..Len(sent) : Carries(n, i) =>
         \/ InTurn(n, i, pieces)
         \/ /\ Kind(i) = "reasoning" /\ pieces = WholePieces(i)
            /\ AllReceived(i, pieces, n - 1)
    /\ Settled => AllReceived(i, pieces, Len(sent))

(* Streamed or not, the client gets the same answer (openai_responses.go:  *)
(* 54-126): when the finish chunk comes, the tool calls, their arguments   *)
(* and the finish reason are those that responsesResponseToOpenAI makes of *)
(* the whole, and so is the text, in its order unless two messages         *)
(* overlapped.                                                             *)
Deltas(field, index) ==
  {n \in 1..Len(sent) : At(n, "delta") /\ sent[n].field = field /\ sent[n].index = index}
InItemOrder(where) ==
  \A m, n \in where : m < n => sent[m].content.item <= sent[n].content.item
StreamedAsWhole ==
  LET last  == Len(sent)
      calls == Announced(last)
      text  == Deltas("content", 0)
  IN  last > 0 /\ At(last, "finish") =>
        /\ {sent[m].item : m \in calls} = WholeToolCalls
        /\ \A m, n \in calls : m < n => sent[m].item < sent[n].item
        /\ \A m \in calls :
             LET arguments == Deltas("arguments", sent[m].index)
             IN  Gives(arguments, Content(sent[m].item)) /\ InDocumentOrder(arguments)
        /\ sent[last].reason = WholeFinishReason
        /\ Gives(text, WholeText)
        /\ InItemOrder(text) => InDocumentOrder(text)

(* The finish reason is made only of the endpoint's own end, and an answer *)
(* that failed or was cut off by [DONE] never ends as a success (README.md: *)
(* 351-353; openai_responses_stream.go:45-50, 62-72, 152-156).             *)
FailureIsNoSuccess ==
  /\ stopped => Terminated
  /\ upstream \in {"failed", "cut"} => output # "ended"

(* README.md:345-347: reasoning blocks are mapped.  The client would       *)
(* receive the reasoning text once.                                        *)
ReasoningOnce ==
  \A i \in Items : Kind(i) = "reasoning" =>
    \A n \in 1..Len(sent) : Carries(n, i) => InTurn(n, i, WholePieces(i))

(* docs/validate-client-formats.md:64-66: the last frame carries a         *)
(* finish_reason.  An answer that ended without an error would have one.   *)
CleanEndHasFinishReason ==
  output = "ended" /\ Len(sent) > 0 => At(Len(sent), "finish")
=============================================================================
