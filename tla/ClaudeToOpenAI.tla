--------------------------- MODULE ClaudeToOpenAI ---------------------------
(***************************************************************************)
(* claudeStreamToOpenAI of internal/translate/claude_openai_stream.go: the *)
(* bridge from Copilot's /v1/messages stream to OpenAI chat chunks, behind *)
(* the SSE decoder and inside pumpStream.  The endpoint writes the bytes   *)
(* of its events to the body; the pump reads chunks of any length, and     *)
(* each frame the decoder cuts out is parsed and translated.               *)
(*                                                                         *)
(* The endpoint's side is what its protocol allows: content blocks one     *)
(* after the other, each a number of distinct pieces.  The body may end    *)
(* anywhere, also within an event or its blank line.                       *)
(***************************************************************************)
EXTENDS StreamPump, SSEDecoder

CONSTANTS NumBlocks,       \* content blocks of the answer
          BlockKinds,      \* what they may be
          MaxPieces,       \* the longest content of a block
          StopReasons,     \* how the answer may end
          LineEnds,        \* the line ends of the body: "lf", "crlf", "mixed"
          MaxLag           \* the endpoint waits when so many bytes are unread

ASSUME ClaudeAssumption ==
  /\ {NumBlocks, MaxPieces, MaxLag} \subseteq Nat
  /\ BlockKinds \subseteq {"text", "thinking", "tool_use"}

VARIABLES upstream,        \* the answer, as far as the endpoint has told it
          content,         \* its blocks: [kind, told, open]
          stopReason,      \* its stop_reason
          lineEnds,        \* which of LineEnds the endpoint uses
          started,         \* Started: the role chunk has been made
          stopped,         \* Stopped: the finish chunk has been made
          nextToolIndex,   \* NextToolIndex
          hasToolCalls,    \* HasToolCalls
          blocks           \* Blocks; NoBlock where the map has no key

endpointVars == <<upstream, content, stopReason, lineEnds>>
bridgeVars == <<started, stopped, nextToolIndex, hasToolCalls, blocks>>
chatVars == <<pumpVars, decoderVars, endpointVars, bridgeVars>>

BlockIndexes == 1..NumBlocks
Piece(i, k) == [item |-> i, piece |-> k]
Pieces(i, from, to) == [n \in 1..(to - from + 1) |-> Piece(i, from + n - 1)]

(* The events.  Their lines in the body are one element of it, and a        *)
(* fragment of them is another: its data line is not whole.                *)
Event(type, i, kind, pieces, reason) ==
  [type |-> type, index |-> i, kind |-> kind, pieces |-> pieces, reason |-> reason]
PlainEvent(type) == Event(type, 0, "none", <<>>, "")
Fragment == PlainEvent("fragment")

PlainTypes ==
  {"message_start", "ping", "message_stop", "error", "invalid", "[DONE]", "fragment"}
BlockTypes == {"content_block_start", "content_block_delta", "content_block_stop"}
BlockEvents ==
  [type : BlockTypes, index : BlockIndexes, kind : BlockKinds,
   pieces : {<<>>} \cup {<<Piece(i, k)>> : i \in BlockIndexes, k \in 1..MaxPieces},
   reason : {""}]
Events ==
  {PlainEvent(t) : t \in PlainTypes} \cup BlockEvents
    \cup {Event("message_delta", 0, "none", <<>>, r) : r \in StopReasons}
Bytes == {LF, CR} \cup Events

ASSUME BytesAssumption == Bytes \subseteq Byte /\ {LF, CR} \cap Events = {}

NoBlock == [kind |-> "none"]

(* The chunks: the role, a piece of content in a field of the delta, the   *)
(* head of a tool call, and the finish reason.                             *)
RoleChunk == [type |-> "role"]
ToolChunk(index, i) == [type |-> "tool", index |-> index, item |-> i]
PieceChunk(field, index, piece) ==
  [type |-> "delta", field |-> field, index |-> index, content |-> piece]
FinishChunk(reason) == [type |-> "finish", reason |-> reason]

-----------------------------------------------------------------------------
(* Variants of the definitions below, each with a seeded fault. *)

StartTextIgnored == <<>>
FailureIgnored ==
  /\ frame.type \in {"error", "invalid"}
  /\ Emits(<<>>)
  /\ UNCHANGED bridgeVars
CountedEveryBlock(i, kind) == nextToolIndex + 1
FinishReasonAsTold(reason, toolCalls) ==
  IF reason = "max_tokens" THEN "length"
  ELSE IF reason = "refusal" THEN "content_filter"
  ELSE "stop"

-----------------------------------------------------------------------------
ChatInit ==
  /\ PumpInit /\ DecoderInit
  /\ upstream = "opened"
  /\ content = <<>>
  /\ stopReason = ""
  /\ lineEnds \in LineEnds
  /\ started = FALSE /\ stopped = FALSE
  /\ nextToolIndex = 0
  /\ hasToolCalls = FALSE
  /\ blocks = [i \in BlockIndexes |-> NoBlock]

(* The endpoint.                                                           *)

(* The blank line after an event; a mixed body has both kinds, as when a   *)
(* proxy adds events of its own.                                           *)
EndOfEvent(event) ==
  IF lineEnds = "lf" \/ (lineEnds = "mixed" /\ event.index # 0)
  THEN BlankLine ELSE BlankLineCR

(* The pump is in ReadStream: there is no frame in its hands or the buffer. *)
Waiting == Reading /\ FrameEnd(buffer) = 0

(* An event is written as a whole, or the body ends within its blank line. *)
(* That the endpoint writes only while the pump waits leaves nothing out:  *)
(* no other step of the pump looks at what is not read.                    *)
Writes(event) ==
  LET bytes == <<event>> \o EndOfEvent(event)
  IN  /\ Len(text) - read <= MaxLag
      /\ Waiting
      /\ \E n \in 1..Len(bytes) : Write(SubSeq(bytes, 1, n), n < Len(bytes))
      /\ UNCHANGED <<pumpVars, lineEnds, bridgeVars>>

Running == upstream \in {"started", "pinged"}
Begun == Len(content)
Between == Running /\ \A i \in 1..Begun : ~content[i].open

MessageStarts ==
  /\ upstream = "opened" /\ upstream' = "started"
  /\ Writes(PlainEvent("message_start"))
  /\ UNCHANGED <<content, stopReason>>

Pings ==
  /\ upstream = "started" /\ upstream' = "pinged"
  /\ Writes(PlainEvent("ping"))
  /\ UNCHANGED <<content, stopReason>>

(* A text or a thinking block may begin with content.                      *)
BlockStarts(kind, n) ==
  /\ Between /\ Begun < NumBlocks
  /\ kind = "tool_use" => n = 0
  /\ n <= MaxPieces
  /\ Writes(Event("content_block_start", Begun + 1, kind, Pieces(Begun + 1, 1, n), ""))
  /\ content' = Append(content, [kind |-> kind, told |-> n, open |-> TRUE])
  /\ UNCHANGED <<upstream, stopReason>>

BlockGoesOn ==
  /\ Running /\ Begun > 0 /\ content[Begun].open
  /\ content[Begun].told < MaxPieces
  /\ LET k == content[Begun].told + 1
     IN  /\ Writes(Event("content_block_delta", Begun, content[Begun].kind,
                         Pieces(Begun, k, k), ""))
         /\ content' = [content EXCEPT ![Begun].told = k]
  /\ UNCHANGED <<upstream, stopReason>>

BlockStops ==
  /\ Running /\ Begun > 0 /\ content[Begun].open
  /\ Writes(Event("content_block_stop", Begun, content[Begun].kind, <<>>, ""))
  /\ content' = [content EXCEPT ![Begun].open = FALSE]
  /\ UNCHANGED <<upstream, stopReason>>

MessageEnds(reason) ==
  /\ Between
  /\ reason = "tool_use" => \E i \in 1..Begun : content[i].kind = "tool_use"
  /\ Writes(Event("message_delta", 0, "none", <<>>, reason))
  /\ upstream' = "ended" /\ stopReason' = reason
  /\ UNCHANGED content

MessageStops ==
  /\ upstream = "ended" /\ upstream' = "stopped"
  /\ Writes(PlainEvent("message_stop"))
  /\ UNCHANGED <<content, stopReason>>

(* Not of this protocol, but the parser knows it.                          *)
SendsDone ==
  /\ upstream = "stopped" /\ upstream' = "done"
  /\ Writes(PlainEvent("[DONE]"))
  /\ UNCHANGED <<content, stopReason>>

(* An error event, or data that is not JSON.                               *)
Fails ==
  /\ Running \/ upstream = "opened"
  /\ upstream' = "failed"
  /\ \E type \in {"error", "invalid"} : Writes(PlainEvent(type))
  /\ UNCHANGED <<content, stopReason>>

(* The body ends between two events, or within one.                        *)
BodyEnds ==
  /\ Waiting
  /\ \/ Write(<<>>, TRUE) /\ upstream' = upstream
     \/ Running /\ Write(<<Fragment>>, TRUE) /\ upstream' = "broken"
  /\ UNCHANGED <<pumpVars, content, stopReason, lineEnds, bridgeVars>>

EndpointNext ==
  \/ MessageStarts \/ Pings
  \/ \E kind \in BlockKinds, n \in 0..1 : BlockStarts(kind, n)
  \/ BlockGoesOn \/ BlockStops
  \/ \E reason \in StopReasons : MessageEnds(reason)
  \/ MessageStops \/ SendsDone \/ Fails \/ BodyEnds

-----------------------------------------------------------------------------
(* The pump and the decoder.                                               *)

(* parseSSEFrame: the one event of a frame.  A fragment has no data line,  *)
(* or one that is not JSON, and the joined data lines of several events    *)
(* are not JSON either.                                                    *)
Parses(raw) ==
  LET told == {n \in 1..Len(raw) : raw[n] \notin {LF, CR}}
  IN  IF told = {} THEN {PlainEvent("nodata")}
      ELSE IF \E m, n \in told : m # n THEN {PlainEvent("invalid")}
      ELSE UNION {IF raw[n] = Fragment THEN {PlainEvent("nodata"), PlainEvent("invalid")}
                  ELSE {raw[n]} : n \in told}

Reads ==
  /\ Reading
  /\ \E n \in 1..(Len(text) - read) : Feed(n)
  /\ UNCHANGED <<pumpVars, endpointVars, bridgeVars>>

TakesFrame ==
  /\ Reading
  /\ Cut
  /\ frame' \in Parses(FirstFrame)
  /\ UNCHANGED <<sent, output, endpointVars, bridgeVars>>

(* chunk.Done: the frame without a blank line that may be left is translated *)
(* as well.                                                                *)
TakesTrailing ==
  /\ Reading
  /\ Flush
  /\ IF Trailing = <<>> THEN frame' = NoFrame ELSE frame' \in Parses(Trailing)
  /\ UNCHANGED <<sent, output, endpointVars, bridgeVars>>

Ends ==
  /\ flushed /\ PumpEnds
  /\ UNCHANGED <<decoderVars, endpointVars, bridgeVars>>

ReadFails ==
  /\ Waiting /\ ~flushed /\ PumpFails
  /\ UNCHANGED <<decoderVars, endpointVars, bridgeVars>>

-----------------------------------------------------------------------------
(* claudeStreamToOpenAI.                                                   *)

(* start: the first event that is not a ping yields the role chunk.        *)
Start == IF started THEN <<>> ELSE <<RoleChunk>>

(* block: the one under the index, or a new one; a tool call gets the next *)
(* index of its own.                                                       *)
Block(i, kind) ==
  IF blocks[i] # NoBlock THEN blocks[i]
  ELSE IF kind = "tool_use" THEN [kind |-> kind, toolIndex |-> nextToolIndex]
  ELSE [kind |-> kind]
NextToolIndex(i, kind) ==
  IF blocks[i] # NoBlock \/ kind # "tool_use" THEN nextToolIndex ELSE nextToolIndex + 1

(* The field of the delta that content of the kind goes into.              *)
Field(kind) ==
  CASE kind = "text" -> "content"
    [] kind = "thinking" -> "reasoning_content"
    [] kind = "tool_use" -> "arguments"

Chunks(field, index, pieces) ==
  [n \in 1..Len(pieces) |-> PieceChunk(field, index, pieces[n])]

StartContent == Chunks(Field(frame.kind), 0, frame.pieces)

OnMessageStart ==
  /\ frame.type = "message_start"
  /\ Emits(Start)
  /\ started' = TRUE
  /\ UNCHANGED <<stopped, nextToolIndex, hasToolCalls, blocks>>

OnBlockStart ==
  LET block == Block(frame.index, frame.kind)
  IN  /\ frame.type = "content_block_start"
      /\ blocks' = [blocks EXCEPT ![frame.index] = block]
      /\ nextToolIndex' = NextToolIndex(frame.index, frame.kind)
      /\ hasToolCalls' = (hasToolCalls \/ frame.kind = "tool_use")
      /\ Emits(Start \o IF frame.kind = "tool_use"
                        THEN <<ToolChunk(block.toolIndex, frame.index)>>
                        ELSE StartContent)
      /\ started' = TRUE
      /\ UNCHANGED stopped

OnBlockDelta ==
  LET block == Block(frame.index, frame.kind)
      ofTool == frame.kind = "tool_use"
  IN  /\ frame.type = "content_block_delta"
      /\ Emits(Start \o Chunks(Field(frame.kind),
                               IF ofTool THEN block.toolIndex ELSE 0, frame.pieces))
      /\ IF ofTool
         THEN /\ blocks' = [blocks EXCEPT ![frame.index] = block]
              /\ nextToolIndex' = NextToolIndex(frame.index, frame.kind)
              /\ hasToolCalls' = TRUE
         ELSE UNCHANGED <<blocks, nextToolIndex, hasToolCalls>>
      /\ started' = TRUE
      /\ UNCHANGED stopped

(* claudeFinishReason *)
FinishReason(reason, toolCalls) ==
  IF reason = "max_tokens" THEN "length"
  ELSE IF reason = "refusal" THEN "content_filter"
  ELSE IF reason = "tool_use" \/ toolCalls THEN "tool_calls"
  ELSE "stop"

FinishEachTime(reason) == <<FinishChunk(FinishReason(reason, hasToolCalls))>>

(* finish: message_delta ends the chat; message_stop only if there was none. *)
Finishing(reason) ==
  IF stopped THEN <<>> ELSE <<FinishChunk(FinishReason(reason, hasToolCalls))>>

OnMessageEnd ==
  /\ frame.type \in {"message_delta", "message_stop"}
  /\ Emits(Start \o Finishing(frame.reason))
  /\ started' = TRUE /\ stopped' = TRUE
  /\ UNCHANGED <<nextToolIndex, hasToolCalls, blocks>>

OnNothing ==
  /\ frame.type \in {"content_block_stop", "ping", "nodata", "[DONE]"}
  /\ Emits(<<>>)
  /\ UNCHANGED bridgeVars

OnFailure ==
  /\ frame.type \in {"error", "invalid"}
  /\ TranslationFails
  /\ UNCHANGED bridgeVars

Translates ==
  /\ OnMessageStart \/ OnBlockStart \/ OnBlockDelta \/ OnMessageEnd
     \/ OnNothing \/ OnFailure
  /\ UNCHANGED <<decoderVars, endpointVars>>

(* The pump has returned. *)
Returned == output # "open" /\ UNCHANGED chatVars

ChatNext ==
  \/ EndpointNext
  \/ Reads \/ TakesFrame \/ TakesTrailing \/ Ends \/ ReadFails
  \/ Translates
  \/ Returned

ChatSpec == ChatInit /\ [][ChatNext]_chatVars

-----------------------------------------------------------------------------
(* claudeResponseToOpenAI of internal/translate/openai_responses.go: the   *)
(* same answer when it is not streamed.                                    *)

(* The content of the blocks of a kind goes into one string builder, in    *)
(* the order of the blocks, and the calls into one list.                   *)
Content(i) == {Piece(i, k) : k \in 1..content[i].told}
WholeContent(kind) == UNION {Content(i) : i \in {i \in 1..Begun : content[i].kind = kind}}
WholeToolCalls == {i \in 1..Begun : content[i].kind = "tool_use"}

(* json.Marshal(objectValue(block["input"])): the text of a call's input,  *)
(* which is never empty: a call without arguments has {}.  For any other   *)
(* call it is the object that the endpoint's pieces spell out, given here  *)
(* by those pieces: the white space and the order of its keys are not told *)
(* apart.                                                                  *)
EmptyObject == Piece(0, 0)
WholeArguments(i) == IF content[i].told = 0 THEN {EmptyObject} ELSE Content(i)
WholeFinishReason == FinishReason(stopReason, WholeToolCalls # {})

-----------------------------------------------------------------------------
(* Properties. *)

ChatTypeOK ==
  /\ PumpTypeOK /\ DecoderTypeOK
  /\ upstream \in {"opened", "started", "pinged", "ended", "stopped", "done",
                   "failed", "broken"}
  /\ nextToolIndex \in 0..NumBlocks
  /\ blocks \in [BlockIndexes -> {NoBlock} \cup [kind : {"text", "thinking"}]
       \cup [kind : {"tool_use"}, toolIndex : 0..(NumBlocks - 1)]]

Announced(n) == {m \in 1..n : At(m, "tool")}

(* The client sees a legal chat stream (claude_openai_stream.go:138-177):  *)
(* the role first and once, tool calls numbered without gaps and each      *)
(* announced once before its arguments, the finish reason once and last,   *)
(* although message_delta and message_stop both end the chat.              *)
LegalChatStream ==
  \A n \in 1..Len(sent) :
    /\ At(n, "role") <=> n = 1
    /\ At(n, "tool") =>
         /\ sent[n].index = Cardinality(Announced(n-1))
         /\ \A m \in Announced(n-1) : sent[m].item # sent[n].item
    /\ At(n, "delta") /\ sent[n].field = "arguments" =>
         \E m \in Announced(n) :
           sent[m].index = sent[n].index /\ sent[m].item = sent[n].content.item
    /\ At(n, "finish") => n = Len(sent)

(* The places of the deltas of a field, under an index.                    *)
Deltas(field, index) ==
  {n \in 1..Len(sent) : At(n, "delta") /\ sent[n].field = field /\ sent[n].index = index}
ReceivedInOrder(where, pieces) == Gives(where, pieces) /\ InDocumentOrder(where)
ArgumentsAsWhole(index, i) ==
  \/ ReceivedInOrder(Deltas("arguments", index), WholeArguments(i))
  \/ content[i].told = 0 /\ Deltas("arguments", index) = {}

(* Streamed or not, the client gets the same answer: when the finish chunk *)
(* comes, text, reasoning, tool calls, arguments and finish reason are what *)
(* claudeResponseToOpenAI (openai_responses.go:128-192) makes of the whole, *)
(* each piece once and all in their order, with one exception: the whole   *)
(* answer says {} for a call without arguments (openai_responses.go:146),  *)
(* and the stream says nothing after the empty text of the call's head     *)
(* (claude_openai_stream.go:96, 113-117).                                  *)
StreamedAsWhole ==
  LET last  == Len(sent)
      calls == Announced(last)
  IN  last > 0 /\ At(last, "finish") =>
        /\ ReceivedInOrder(Deltas("content", 0), WholeContent("text"))
        /\ ReceivedInOrder(Deltas("reasoning_content", 0), WholeContent("thinking"))
        /\ {sent[m].item : m \in calls} = WholeToolCalls
        /\ \A m, n \in calls : m < n => sent[m].item < sent[n].item
        /\ \A m \in calls : ArgumentsAsWhole(sent[m].index, sent[m].item)
        /\ sent[last].reason = WholeFinishReason

(* An answer the endpoint has ended reaches the client with its end, also  *)
(* when the body stops right after the data of its last event, within the  *)
(* blank line (sse/decoder.go:27-35, executor.go:233-238).                 *)
EndNotLost ==
  output = "ended" /\ upstream \in {"ended", "stopped", "done"} =>
    Len(sent) > 0 /\ At(Len(sent), "finish")

(* The finish reason is made only of the endpoint's own end, and an answer *)
(* that failed never ends as a success (claude_openai_stream.go:58-62).    *)
FailureIsNoSuccess ==
  /\ stopped => upstream \in {"ended", "stopped", "done"}
  /\ upstream = "failed" => output # "ended"
=============================================================================
