-------------------------- MODULE ClaudeConversation --------------------------
(***************************************************************************)
(* claudeRequestToResponses and responsesResponseToClaude of               *)
(* internal/translate/claude_responses.go, composed: a Claude client talks *)
(* to a model that is served by /responses.  Neither side keeps the        *)
(* conversation in the plugin; the client sends all of it with each        *)
(* request, with the earlier answers as the plugin gave them to it, so     *)
(* what the model is told of its own answers has been translated twice.    *)
(*                                                                         *)
(* Answers come whole here.  Streamed ones give the client the same blocks *)
(* with the same text and arguments as far as ResponsesToClaude compares   *)
(* the two (its StreamedAsWhole names the exceptions); it leaves out       *)
(* signatures and ids, which are in this module alone.  A text, an image,  *)
(* a signature, an id is a number and 0 is a blank one; what an unknown    *)
(* field holds is left out.                                                *)
(***************************************************************************)
EXTENDS Naturals, Sequences, SequencesExt

CONSTANTS MaxAnswers,      \* answers of the model
          MaxItems         \* their items, taken together

ASSUME ConversationAssumption == MaxAnswers \in Nat /\ MaxItems \in 0..3

VARIABLES history,         \* the client's messages, which it always sends
          request,         \* input of the request the model works on
          waiting,         \* the model works on a request
          answers,         \* how often the model has answered
          items,           \* with how many items
          said             \* the items said so far, by client and model

conversationVars == <<history, request, waiting, answers, items, said>>

Blank == 0

(* The parts of a Claude message, with the fields the handlers read.       *)
Text(text) == [type |-> "text", text |-> text]
Image(source, data) == [type |-> "image", source |-> source, data |-> data]
Document(source, data) == [type |-> "document", source |-> source, data |-> data]
Thinking(thinking, signature) ==
  [type |-> "thinking", thinking |-> thinking, signature |-> signature]
RedactedThinking(data) == [type |-> "redacted_thinking", data |-> data]
ToolUse(type, id, arguments) == [type |-> type, id |-> id, input |-> arguments]
ToolResult(id, content) == [type |-> "tool_result", id |-> id, content |-> content]
SearchResult(data) == [type |-> "search_result", data |-> data]
ServerToolResult(id, data) ==
  [type |-> "web_search_tool_result", id |-> id, data |-> data]
ClaudeMessage(role, content) == [role |-> role, content |-> content]

(* The items of Responses.  Encrypted content is the plugin's own when it  *)
(* has the prefix claude-redacted-thinking.                                *)
Content(type, data) == [type |-> type, data |-> data]
Encrypted(redacted, data) == [redacted |-> redacted, data |-> data]
Message(role, content) == [type |-> "message", role |-> role, content |-> content]
Reasoning(summary, encrypted) ==
  [type |-> "reasoning", summary |-> summary, encrypted |-> encrypted]
ToolCall(type, callId, id, arguments) ==
  [type |-> type, callId |-> callId, id |-> id, arguments |-> arguments]
FunctionCall(callId, id, arguments) == ToolCall("function_call", callId, id, arguments)
CallOutput(callId, output) ==
  [type |-> "function_call_output", callId |-> callId, output |-> output]

-----------------------------------------------------------------------------
(* A variant of FlushMessage below, with a seeded fault.                   *)

PendingNotReset(state, role) ==
  IF state.pending = <<>> THEN state
  ELSE [state EXCEPT !.input = Append(@, Message(role, state.pending))]

-----------------------------------------------------------------------------
(* claudeRequestToResponses.                                               *)

(* A source of another type, or none, is an error.                         *)
Sources == {"base64", "url"}
SourceKnown(part) ==
  /\ part.type = "image" => part.source \in Sources
  /\ part.type = "document" => part.source \in Sources \cup {"text"}

(* claudeToolResultOutput: of parts only texts and images are kept, and a  *)
(* result without any has a blank output.                                  *)
ToolResultOutput(content) ==
  FlattenSeq([i \in DOMAIN content |->
    CASE content[i].type = "text"   -> <<Content("input_text", content[i].text)>>
      [] content[i].type = "image"  -> <<Content("input_image", content[i].data)>>
      [] content[i].type = "string" -> <<content[i]>>
      [] OTHER                      -> <<>>])

(* The loop's state: the items so far, and the parts of a message that is  *)
(* still open.                                                             *)
FlushMessage(state, role) ==
  IF state.pending = <<>> THEN state
  ELSE [input |-> Append(state.input, Message(role, state.pending)), pending |-> <<>>]

Pends(state, content) == [state EXCEPT !.pending = Append(@, content)]
Puts(state, item) == [state EXCEPT !.input = Append(@, item)]

(* A variant of the next definition, with a seeded fault.                  *)
EmptyOutputDropped(state, part) ==
  LET output == ToolResultOutput(part.content)
  IN  IF output = <<>> THEN state ELSE Puts(state, CallOutput(part.id, output))

PutsOutput(state, part) == Puts(state, CallOutput(part.id, ToolResultOutput(part.content)))

PartToResponses(state, role, part) ==
  LET flushed == FlushMessage(state, role)
  IN  CASE part.type = "text" ->
             Pends(state, Content(IF role = "assistant" THEN "output_text" ELSE "input_text",
                                  part.text))
        [] part.type = "image" -> Pends(state, Content("input_image", part.data))
        [] part.type = "document" -> Pends(state, Content("input_file", part.data))
        [] part.type = "thinking" ->
             Puts(flushed, Reasoning(part.thinking, Encrypted(FALSE, part.signature)))
        [] part.type = "redacted_thinking" ->
             IF part.data = Blank THEN flushed
             ELSE Puts(flushed, Reasoning(Blank, Encrypted(TRUE, part.data)))
        [] part.type \in {"tool_use", "server_tool_use"} ->
             Puts(flushed, FunctionCall(part.id, Blank, part.input))
        [] part.type = "tool_result" -> PutsOutput(flushed, part)
        [] OTHER -> state

(* A message of another role is passed over.                               *)
MessageToResponses(input, message) ==
  LET parts == message.content
      state[i \in 0..Len(parts)] ==
        IF i = 0 THEN [input |-> input, pending |-> <<>>]
        ELSE PartToResponses(state[i - 1], message.role, parts[i])
  IN  IF message.role \notin {"user", "assistant"} THEN input
      ELSE FlushMessage(state[Len(parts)], message.role).input

ClaudeRequestToResponses(messages) ==
  LET input[i \in 0..Len(messages)] ==
        IF i = 0 THEN <<>> ELSE MessageToResponses(input[i - 1], messages[i])
  IN  input[Len(messages)]

(* Images in a tool result are converted as others are, documents are not. *)
Converts(message) ==
  \A i \in DOMAIN message.content :
    LET part == message.content[i]
    IN  /\ SourceKnown(part)
        /\ part.type = "tool_result" =>
             \A j \in DOMAIN part.content :
               part.content[j].type = "image" => SourceKnown(part.content[j])

-----------------------------------------------------------------------------
(* responsesResponseToClaude.                                              *)

(* The arguments, or the input of a custom tool's call; blank ones are an  *)
(* empty object.                                                           *)
CallTypes == {"function_call", "custom_tool_call"}
ToolInput(arguments) == IF arguments = "" THEN "{}" ELSE arguments

ItemToClaude(item) ==
  CASE item.type = "message" -> [i \in DOMAIN item.content |-> Text(item.content[i].data)]
    [] item.type = "reasoning" ->
         IF item.encrypted.redacted THEN <<RedactedThinking(item.encrypted.data)>>
         ELSE IF item.summary = Blank /\ item.encrypted.data = Blank THEN <<>>
         ELSE <<Thinking(item.summary, item.encrypted.data)>>
    [] item.type \in CallTypes ->
         <<ToolUse("tool_use", IF item.callId # Blank THEN item.callId ELSE item.id,
                   ToolInput(item.arguments))>>

(* The response as a whole fails, or the arguments of one call are no      *)
(* JSON object.                                                            *)
AnswerFails(status, output) ==
  \/ status \in {"failed", "cancelled"}
  \/ \E i \in DOMAIN output : output[i].type \in CallTypes /\ output[i].arguments = "broken"

ResponsesToClaude(output) ==
  ClaudeMessage("assistant", FlattenSeq([i \in DOMAIN output |-> ItemToClaude(output[i])]))

-----------------------------------------------------------------------------
(* The client. *)

ToolUses(message) == SelectSeq(message.content, LAMBDA part : part.type = "tool_use")

(* What is new in a turn: nothing said twice has the same number.          *)
Fresh(i) == 10 * (Len(history) + 1) + i

(* The client answers every call of the last message that is its own to    *)
(* answer; the result of a server tool came with the call.                 *)
Results(content) ==
  IF history = <<>> THEN <<>>
  ELSE [i \in DOMAIN ToolUses(Last(history)) |->
          ToolResult(ToolUses(Last(history))[i].id, content)]

(* The results are a string, parts, or nothing that is told; what the user *)
(* adds to them comes before or after.  The last message has images the    *)
(* plugin does not take.                                                   *)
UserMessages ==
  {ClaudeMessage("user", content) : content \in
     {Results(<<[type |-> "string", data |-> Fresh(1)]>>) \o <<Text(Fresh(2)), Text(Fresh(3))>>,
      <<Text(Fresh(1))>>
        \o Results(<<Text(Fresh(2)), Document("url", Fresh(3)), Image("base64", Fresh(4)),
                     SearchResult(Fresh(5))>>)
        \o <<Image("url", Fresh(6))>>,
      Results(<<Document("file", Fresh(1))>>)
        \o <<Document("text", Fresh(2)), SearchResult(Fresh(3))>>,
      Results(<<Image("file", Fresh(1))>>) \o <<Image("file", Fresh(2))>>}}

(* A conversation may have begun with a Claude model, or with a note of a  *)
(* role that is passed over.                                               *)
Begun ==
  {<<>>,
   <<ClaudeMessage("system", <<Text(1)>>), ClaudeMessage("user", <<Text(2)>>),
     ClaudeMessage("assistant",
                   <<Thinking(3, 4), RedactedThinking(5), RedactedThinking(Blank), Text(6),
                     ToolUse("server_tool_use", 7, "{}"), ServerToolResult(7, 8), Text(8),
                     ToolUse("tool_use", 9, "object")>>)>>}

(* What is said with a part, all of it and in the words of Responses where *)
(* they have one; a part of another type is said as it is.                 *)
ResultSays(content) ==
  [i \in DOMAIN content |->
     CASE content[i].type = "text"  -> Content("input_text", content[i].text)
       [] content[i].type = "image" -> Content("input_image", content[i].data)
       [] OTHER                     -> content[i]]
PartSays(role, part) ==
  CASE part.type = "text" ->
         Message(role, <<Content(IF role = "user" THEN "input_text" ELSE "output_text",
                                 part.text)>>)
    [] part.type = "image" -> Message(role, <<Content("input_image", part.data)>>)
    [] part.type = "document" -> Message(role, <<Content("input_file", part.data)>>)
    [] part.type = "thinking" -> Reasoning(part.thinking, Encrypted(FALSE, part.signature))
    [] part.type = "redacted_thinking" /\ part.data # Blank ->
         Reasoning(Blank, Encrypted(TRUE, part.data))
    [] part.type \in {"tool_use", "server_tool_use"} ->
         FunctionCall(part.id, Blank, part.input)
    [] part.type = "tool_result" -> CallOutput(part.id, ResultSays(part.content))
    [] OTHER -> part
Says(message) ==
  IF message.role = "system" THEN <<>>
  ELSE [i \in DOMAIN message.content |-> PartSays(message.role, message.content[i])]

-----------------------------------------------------------------------------
ConversationInit ==
  /\ history \in Begun
  /\ request = <<>> /\ waiting = FALSE /\ answers = 0 /\ items = 0
  /\ said = FlattenSeq([i \in DOMAIN history |-> Says(history[i])])

Sends ==
  \E message \in UserMessages :
    /\ ~waiting
    /\ Converts(message)
    /\ history' = Append(history, message)
    /\ request' = ClaudeRequestToResponses(history')
    /\ waiting' = TRUE
    /\ said' = said \o Says(message)
    /\ UNCHANGED <<answers, items>>

(* The client gets an error and takes its message back.                    *)
Refused ==
  \E message \in UserMessages :
    /\ ~waiting
    /\ ~Converts(message)
    /\ request' = <<>>
    /\ UNCHANGED <<history, waiting, answers, items, said>>

(* The items a model answers with: texts in one or two parts, reasoning    *)
(* with or without a text and encrypted content, calls with or without a   *)
(* call_id.                                                                *)
AnswerItems(i) ==
  {Message("assistant", content) :
     content \in {<<Content("output_text", Fresh(i))>>,
                  <<Content("output_text", Fresh(i)), Content("refusal", Fresh(i + 5))>>}}
  \cup {Reasoning(summary, encrypted) :
          summary \in {Blank, Fresh(i)},
          encrypted \in {Encrypted(FALSE, Blank), Encrypted(FALSE, Fresh(i))}}
  \cup {Reasoning(Blank, Encrypted(TRUE, Fresh(i)))}
  \cup {ToolCall(type, callId, Fresh(i), arguments) :
          type \in CallTypes, callId \in {Blank, Fresh(i + 5)}, arguments \in {"", "object"}}

Outputs(n) ==
  CASE n = 0 -> {<<>>}
    [] n = 1 -> {<<a>> : a \in AnswerItems(1)}
    [] n = 2 -> {<<a, b>> : a \in AnswerItems(1), b \in AnswerItems(2)}
    [] n = 3 -> {<<a, b, c>> : a \in AnswerItems(1), b \in AnswerItems(2),
                               c \in AnswerItems(3)}

(* Among them the free text of a custom tool.                              *)
BrokenCalls == {ToolCall(type, Fresh(1), Blank, "broken") : type \in CallTypes}

(* An answer, with what it leaves out and other names for the same put     *)
(* right: a blank reasoning item says nothing, a call goes by one id, a    *)
(* custom tool is called like a function.                                  *)
ItemSays(item) ==
  CASE item.type = "message" ->
         [i \in DOMAIN item.content |->
            Message("assistant", <<Content("output_text", item.content[i].data)>>)]
    [] item.type = "reasoning" ->
         IF item = Reasoning(Blank, Encrypted(FALSE, Blank)) THEN <<>> ELSE <<item>>
    [] item.type \in CallTypes ->
         <<FunctionCall(IF item.callId = Blank THEN item.id ELSE item.callId, Blank,
                        IF item.arguments = "" THEN "{}" ELSE item.arguments)>>

Answers ==
  /\ waiting
  /\ answers < MaxAnswers
  /\ \E n \in 0..(MaxItems - items) : \E output \in Outputs(n) :
       /\ ~AnswerFails("completed", output)
       /\ history' = Append(history, ResponsesToClaude(output))
       /\ items' = items + Len(output)
       /\ said' = said \o FlattenSeq([i \in DOMAIN output |-> ItemSays(output[i])])
  /\ waiting' = FALSE
  /\ answers' = answers + 1
  /\ UNCHANGED request

(* The client gets an error, takes its message back and tries another.     *)
FailsToAnswer ==
  /\ waiting
  /\ \E status \in {"completed", "failed", "cancelled"}, 
        output \in {<<>>} \cup {<<call>> : call \in BrokenCalls} :
       AnswerFails(status, output)
  /\ history' = Front(history)
  /\ waiting' = FALSE
  /\ said' = SubSeq(said, 1, Len(said) - Len(Says(Last(history))))
  /\ request' = <<>>
  /\ UNCHANGED <<answers, items>>

ConversationNext == Sends \/ Refused \/ Answers \/ FailsToAnswer
ConversationSpec == ConversationInit /\ [][ConversationNext]_conversationVars

-----------------------------------------------------------------------------
(* Properties. *)

(* One item for each content of a message.                                 *)
Split(item) ==
  IF item.type # "message" THEN <<item>>
  ELSE [i \in DOMAIN item.content |-> Message(item.role, <<item.content[i]>>)]

(* What of a conversation never reaches the model: parts of the types that *)
(* the loop has no case for - search results, what a server tool found -   *)
(* and redacted thinking without data; and in the result of a tool all but *)
(* texts and images (claude_responses.go:107-168, 357-366).                *)
Untold == {"search_result", "web_search_tool_result", "redacted_thinking"}
UntoldInResults == {"search_result", "document"}
Told(item) ==
  IF item.type # "function_call_output" THEN item
  ELSE [item EXCEPT !.output = SelectSeq(@, LAMBDA part : part.type \notin UntoldInResults)]

(* The model is told the conversation as it was (claude_responses.go:      *)
(* 81-233): but for what is Untold, the input of a request is everything   *)
(* both sides have said, in the order they said it - the texts of a        *)
(* message cut in two by a call or by reasoning where it was, the results  *)
(* of tools with their texts and images, the reasoning with the encrypted  *)
(* content it came with.  The signature of a model that is not served by   *)
(* /responses goes along as encrypted content like any other.              *)
ConversationKept ==
  LET told == SelectSeq(said, LAMBDA item : item.type \notin Untold)
  IN  waiting =>
        FlattenSeq([i \in DOMAIN request |-> Split(request[i])])
          = [i \in DOMAIN told |-> Told(told[i])]

(* The calls of tools that the server ran itself: their results are Untold. *)
ServerCalls ==
  {part.id : part \in {part \in UNION {Range(history[i].content) : i \in DOMAIN history} :
                         part.type = "server_tool_use"}}

(* A call and its result find each other (claude_responses.go:145-170,     *)
(* 218-231): in every request each call is followed by exactly one output  *)
(* with its id, whichever of the two ids the model gave it and whatever    *)
(* the tool returned, and no output is without a call.  The exception is a *)
(* call of a server tool, which is told without any output.                *)
CallsPaired ==
  LET Of(type) == {i \in DOMAIN request : request[i].type = type}
      calls == {c \in Of("function_call") : request[c].callId \notin ServerCalls}
      outputs == Of("function_call_output")
  IN  waiting =>
        /\ \A c \in calls : \E o \in outputs :
             /\ o > c /\ request[o].callId = request[c].callId
             /\ \A other \in outputs :
                  request[other].callId = request[c].callId => other = o
        /\ \A o \in outputs : \E c \in calls : request[c].callId = request[o].callId
=============================================================================
