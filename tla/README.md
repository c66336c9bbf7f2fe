# Verification of cliproxyapi-copilot-plugin

TLA+ models of the plugin's stateful core, the TLC runs that check them on small
instances, and TLAPS proofs about the token cache, the requests above it, the device
login, the credential refresh, the SSE decoder and the stream bridges for every instance.
Source references are to `src/` of the repository.

## The system

The plugin is a shared library that CLIProxyAPI (the host) loads. The host calls
it from any number of goroutines (`cmd/cliproxyapi-copilot/dispatch.go`), and
every network request of the plugin goes back through the host
(`cmd/cliproxyapi-copilot/host.go`). One `provider.Service` holds all state:

| State | Guarded by | Written by |
|---|---|---|
| `config` | `configMu` | `Configure` |
| `oauthSession`: device logins by state | `oauthMu` | `StartLogin`, `PollLogin`, `finishPoll`, `Shutdown` |
| `tokenEntries`, `tokenInflight`: Copilot tokens and running exchanges by auth id | `tokenMu` | `copilotToken`, `invalidateAuth`, `Shutdown` |
| `modelEntries`: model catalogs by auth id | `modelMu` | `models`, `invalidateAuth`, `Configure`, `Shutdown` |
| one translator state per streamed answer | owned by its `pumpStream` goroutine | the stream bridges |

No lock is held during a host call. One place holds two: `models` reads the TTL with
`s.Config()`, which takes `configMu`, while it holds `modelMu` (`models.go:149-153`);
nothing takes them the other way round, so the two cannot block each other. What can
go wrong is therefore between the critical sections: what was read before a
host call is used after it.

### Components and what makes each correct

* **Token cache and exchange** (`provider/token.go`). A request needs a
  short-lived Copilot token, got with the GitHub token of the credential.
  Concurrent callers of one key share one exchange. Correct when there is never
  more than one exchange per key, every waiter is woken, what is cached is what
  was fetched last, and a rejected token is not used again.
* **Device login** (`provider/oauth.go`). `StartLogin` asks GitHub for a code and
  stores a session; the host polls with `PollLogin`, which polls GitHub at most
  at the interval it asks for. Correct when one poll at a time talks to GitHub,
  never too early, never for a code that was redeemed, and no session is stuck.
* **Model discovery** (`provider/models.go`). A filtered catalog per key, cached
  for a TTL; two special models do not depend on it.
* **Execution** (`provider/executor.go`). Finds the endpoint, translates, sends,
  and after a 401 drops the token and tries once more. A stream is pumped by a
  goroutine of its own, which closes upstream and output exactly once.
* **Stream bridges** (`translate/*_stream.go`). Turn the events of one protocol
  into another's, frame by frame. Correct when the output is legal for its
  protocol, holds every piece of the answer once and in order, and a failed
  answer never looks complete.
* **SSE decoder** (`sse/decoder.go`). Cuts the chunks of a body into frames at
  blank lines. Correct when the frames are those of the whole body, wherever the
  chunks are cut and whichever line ends are used, and the last bytes are not lost.
* **Credential refresh** (`oauth.go` `RefreshAuth`, `storage.go`). No state in the
  plugin, but a refresh token that GitHub may replace with each answer, and a copy
  of it in the host's storage. Correct when calls that overlap do not lose the
  login and the access token is replaced before it expires.
* **Conversations** (`translate/claude_responses.go`). A client sends the whole
  conversation with each request, and the model's own answers in it have been
  translated to Claude blocks and back. Correct when the model is told what was
  said, in order, with every call and its result paired.
* **Stateless parts**: endpoint selection, request parameters, configuration
  parsing, token counting, redaction, the C ABI.

## Modules

| Module | Models | State and actions |
|---|---|---|
| `SharedExchange` | the promise of `copilotToken`: an atomic broadcast of each exchange's outcome | abstract, no code of its own |
| `CopilotToken` | `token.go`, and what `Configure`, `Shutdown` and `invalidateAuth` do to it | `tokenEntries`, `tokenInflight` are the maps; `flights` numbers the `tokenFlight`s in the order they start; `tokenCall[c]` is the stack frame of goroutine `c`. `Begin` reads configuration and clock; `Hit`, `Join`, `Lead` are the three ways out of the first critical section; `Send`, `Answer`, `AnswerError` the exchange; `Publish` the second critical section; `Wake` the select |
| `CopilotTokenProofs` | proofs about `CopilotToken`, also that it implements `SharedExchange` | |
| `Execution` (extends `CopilotToken`) | `models()`, `endpointForModel`, `doModelRequest`, `openModelStream`, `HTTP`, `Configure`, `Shutdown` | `request[c]` is the frame above `copilotToken`, `modelEntries` the catalogs; each call of `copilotToken` is `CallToken` ... `TokenArrives`, each host call a state of its own |
| `ExecutionProofs` | proofs about `Execution`, on those about `CopilotToken` | |
| `DeviceLogin` | `StartLogin`, `PollLogin`, `finishPoll`, `classifyDeviceToken`, `fetchGitHubUser` | `oauthSession` is the map, `poll[p]` the frame of a polling goroutine, `github` what GitHub knows of a code; the `Lookup...` actions are the branches of the first critical section, `FinishPoll` the last |
| `DeviceLoginProofs` | proofs about `DeviceLogin` | |
| `StreamPump` | `pumpStream` | `frame` is what the pump holds, `sent` what `host.Emit` took, `output` how the output was closed; reading, a failing read, emitting, a client that goes away |
| `ResponsesStream` (extends `StreamPump`) | a Responses answer (external) | `items` is how far the endpoint has told each output item |
| `ResponsesToClaude`, `ResponsesToOpenAI` (extend `ResponsesStream`) | the two bridges, and the conversions of a whole answer they are compared with | the fields of `responsesClaudeStreamState` and `responsesOpenAIStreamState`; one `On...` action per case of the event switch; the `Whole...` operators are `responsesResponseToClaude` and `responsesResponseToOpenAI` |
| `ResponsesStreamProofs` | what the proofs about the two bridges share: the frames of an answer, the pump | |
| `ResponsesToClaudeProofs`, `ResponsesToOpenAIProofs` | proofs about the two bridges | |
| `SSEDecoder` | `decoder.go` | `buffer` is the field; the body is a sequence of content, CR and LF elements, of which an event's text is one; `Feed` and `Flush` are the calls |
| `ClaudeToOpenAI` (extends `StreamPump`, `SSEDecoder`) | `claude_openai_stream.go`, and `claudeResponseToOpenAI` as its reference | the endpoint writes the events of a Claude answer to a body; the pump reads it in chunks of any length through the decoder; the fields of the bridge's state |
| `ClaudeToOpenAIProofs` | proofs about `SSEDecoder` and, on them, about `ClaudeToOpenAI` | |
| `CredentialRefresh` | `RefreshAuth`, `nextGitHubRefresh`, the schedule of `ParseAuth`, the expiry `PollLogin` stores | `stored` is the host's `authStorage`, `worker[w]` the frame of a goroutine of the host with its copy, `issued` and `refreshUntil` what GitHub knows; `Asks` ... `Returns` are the parts of `RefreshAuth` around its request, `Restart` the host starting again |
| `CredentialRefreshProofs` | proofs about `CredentialRefresh` | |
| `ClaudeConversation` | `claudeRequestToResponses` (its messages), `responsesResponseToClaude` | `history` is what the client keeps, `request` the input of the last request, `said` all that both sides have said so far, also what the conversion has no case for; a turn is `Sends`, then `Answers` or `FailsToAnswer` |
| `MCCopilotToken`, `MCExecution`, `MCDeviceLogin`, `MCCredentialRefresh` | small instances | |

Conventions. A mutex-protected section is one action; everything between two of
them is a state in which any other goroutine may run. Every host call may fail.
A token is named by the number of the exchange that fetched it. Request contexts
are `context.Background()` throughout the plugin, so no action cancels a call.
Definitions in the section *Variants* of a module are faulty versions of its
definitions; nothing uses them. They document which mistakes the properties
notice.

Abstractions. Strings are model values or members of small sets. In `Execution` a
request body is not modelled, only that it may fail to translate. A content is a
sequence of distinct pieces, so a lost, repeated or misplaced piece is visible
without text; a piece in `BlankPieces` is white space, which the conversions of
whole answers trim and the streams do not. `RefreshAuth` ends by `invalidateAuth`,
which is an action of `CopilotToken`; `CredentialRefresh` leaves it out.
Message items have one content part. Tool calls are announced by
`output_item.added` or come whole in `output_item.done`, as the endpoint does, and have
their name from the first frame on: `announceTool` waits for the name of a call that has
none yet (`openai_responses_stream.go:88`), which is left out. A tool call in the streams
is one of a function, whose arguments are a JSON object once they are complete; the
input of a custom tool, which need not be JSON, is in `ClaudeConversation` alone.

## Runs

| Run | Checks | Instance |
|---|---|---|
| `token_safety` | `TypeOK`, `SingleFlight`, `WaitersHaveLeader`, `NewestCached`, `ForeignOnlyByJoin`, `ImplementsSharedExchange` | 3 goroutines, 1 auth id and the blank one, 2 credentials, 3 exchanges, one configuration, clock to 1, shutdown and 401s at any time |
| `device_login` | `TypeOK`, `OnePollPerState`, `PollingFlagOwned`, `PollSpacing`, `TokenAskedOnce`, `KnownSessionEnds` | 2 goroutines, 1 login, 3 kinds of device reply, answers that get lost, clock to 5 ticks of 5 s |
| `execution` | `ExecTypeOK`, `RetryWithFreshToken`, `SpecialModelsTried`, `EveryRequestEnds` | 2 goroutines, 2 requests of any of the three kinds, with and without auth id, for a special and an ordinary model, 2 revoked tokens |
| `execution_reconfigure` | violates `ExcludedModelsNotCached` | one discovery and one `Configure` |
| `claude_stream` | `ClaudeTypeOK`, `LegalMessagesStream`, `EveryPieceOnce`, `FailureIsNoSuccess`, `StreamedAsWhole` | 2 output items of any kinds, 2 pieces each, the first of them white space |
| `claude_cut_call` | violates `MalformedArgumentsFail` | the same |
| `openai_stream` | `OpenAITypeOK`, `LegalChatStream`, `AnswerOnce`, `StreamedAsWhole`, `FailureIsNoSuccess` | the same |
| `openai_reasoning` | violates `ReasoningOnce` | the same |
| `openai_truncated` | violates `CleanEndHasFinishReason` | 1 output item |
| `claude_chat` | `ChatTypeOK`, `CutsOfTheWhole`, `LegalChatStream`, `StreamedAsWhole`, `EndNotLost`, `FailureIsNoSuccess` | 2 blocks of any kinds, 2 pieces, 2 stop reasons, mixed line ends, every cut of the body |
| `credential_refresh` | `RefreshTypeOK`, `LoginKept`, `TokenLive` | 2 goroutines, rotating or fixed refresh token, lifetimes of 4 and 11 minutes or none, of the refresh token 7 or none, a login that took up to 1 minute, 3 access tokens, 1 restart that puts a refresh off, 11 minutes |
| `claude_conversation` | `ConversationKept`, `CallsPaired` | 3 requests, 2 answers with 3 items between them, a conversation that is new or was begun with a Claude model and a server tool; function and custom tool calls |

Why the bounds are enough. Three goroutines are a leader, a waiter and one that
comes after either; three exchanges of one key allow a token to be dropped and
fetched twice, the least in which an old one could come back. `WithinBudget`
lets a call begin only if it may still lead an exchange, so `MaxFlights` never
holds up a call that has begun, and liveness is not won by it. `MCBounds` lets
two requests of `execution` be under way at once only where they meet in one auth id's
entries: model requests for the special model and passthrough requests. A `models`
request, one for an ordinary model and one with a blank auth id - for which the retry
repeats the rejected token - go alone; all begin before or after another. A second token
is revoked only while one request is still to come, so that one 401 can meet another.
The bounds hold up the beginning of a request and a revocation, never a step of a request. The login clock
lets a session expire in mid-poll and, with a `slow_down`, two spaced polls
happen before that. Two items of two pieces give every overlap of two blocks and
an order within each; the bridges treat a third block like a second. In
`claude_chat` the endpoint is at most `MaxLag` bytes ahead of the pump and writes
only while the pump waits: the pump sees nothing of the body but the bytes it
reads, so what lies further ahead makes no difference to it. `credential_refresh`
has a lifetime below the ten minutes' buffer and one above it, and three tokens: the
one at login, and two refreshes that overlap or follow each other. Time ends with
the longest lifetime. A restart puts a refresh that is due, or will be within a minute,
off by up to a minute; only those restarts are counted, anew after each refresh. So
`MaxRestarts` is a bound that matters: a host that restarts every minute would let a
token expire, which `TokenLive` does not speak about. So is `MaxLogin`: GitHub counts a
lifetime from its grant, `PollLogin` from after the answer's way back and the look-up of
the user. In `claude_conversation` three
items are the least in which a message is interrupted and goes on.

Fairness. `execution` assumes weak fairness of each goroutine's steps:
the Go scheduler runs every goroutine, a mutex starves no one, and a host call
ends, because the host's transport answers or gives up. It covers the callers of
the token cache too. Nobody is assumed to begin a request, shut down, or revoke a
token. `device_login` assumes in addition that time passes and that the host polls a state it was
given again and again (README.md, *GitHub Copilot device login*); strongly,
because the host comes back after each answer. The streams have safety
properties only: how long an endpoint takes is not in the plugin's hands.
`credential_refresh` puts the punctuality of the host into its clock, which waits
for a refresh that is due and for a call that has taken `MaxCall`; `TokenLive` is a
safety property under that assumption, and its comment says so.

`CHECK_DEADLOCK FALSE` is nowhere needed for the streams: a stream that is over
stutters in `Returned`, so a frame the bridge has no action for shows as a
deadlock. `credential_refresh` and `claude_conversation` stop at the bounds of their
clock and of their answers.

## What the runs show

Everything listed as checked holds. Four statements of the documentation do not:

* **Excluded models in the catalog.** `models()` filters with the configuration
  it reads at `models.go:140` and stores at `models.go:149`. A `Configure` between
  the two clears the catalogs first and the stale list is stored after, for a whole
  TTL. README.md:73-75 promises that excluded ids stay with their native provider.
* **Reasoning twice.** `openai_responses_stream.go:128-137` means to send the text
  of a finished reasoning item only when no delta was sent, but reasoning deltas
  record nothing, so the client receives it twice.
* **A truncated answer looks complete.** When the body ends without a terminal
  event, `pumpStream` closes the output without an error
  (`executor.go:233-240`); the bridges treat the same end as an error only when
  `[DONE]` announces it.
* **A call cut short looks complete.** When an incomplete answer breaks off within the
  arguments of a call, `responsesResponseToClaude` returns an error for arguments that
  do not parse (`claude_responses.go:219-225`), as README.md:351-353 says of malformed
  tool arguments. Streamed, the same answer is a `tool_use` block that is closed and a
  message that ends (`claude_responses_stream.go:290-314`).

Limits the properties state openly: `ForeignOnlyByJoin` allows a caller to get
the token of another credential by joining a flight of the same auth id (the
code does not compare fingerprints there), and `RetryWithFreshToken` excepts the
blank auth id, for which `invalidateAuth` does nothing. It is about the one retry, not
about what comes after: the token of a second 401 in discovery stays cached, and the
request for a special model may be sent with it (`models.go:118`, `167-171`).
`PollSpacing` is about the interval GitHub last told the plugin of: when a `slow_down` is
lost on its way the plugin keeps the old one (`oauth.go:222-230`) and GitHub sees a poll
that is early for it. `LoginKept` excepts an
answer that is lost after GitHub has replaced the refresh token: nothing in the
plugin could help then. `StreamedAsWhole` compares what is left after trimming white
space. For the Claude bridge it excepts an answer whose conversion as a whole is refused
(the last finding), and has the blocks in the order of the items but for a text whose part
the endpoint adds after a later item has begun, which the bridge can only put where it
comes. For chat it excepts a call without arguments, for which the whole answer has `{}`
(`openai_responses.go:146`) and the stream nothing after the empty text of the call's head.
`ConversationKept` names what never reaches the model (`Untold`, `UntoldInResults`): parts
the loop has no case for, such as search results and what a server tool found, redacted
thinking without data, and all but texts and images in the result of a tool
(`claude_responses.go:107-168`, `357-366`). A server tool's call is therefore told without
an output, and `CallsPaired` is about all other calls. A signature by a model that is not
served by `/responses` is passed on as encrypted content, and the property counts it as
said. `TokenLive` holds as long as no refresh has failed; a call that GitHub refuses
because another has replaced the token counts as failed, since the host then waits
before it calls again.

## Proofs

`CopilotTokenProofs` proves, for all sets of callers, auth ids, credentials,
configurations and replies and all bounds, `TypeCorrect`, `SingleFlightHolds` and
`WaitersHaveLeaderHolds`, then `NewestCachedHolds` and `ForeignOnlyByJoinHolds`. The assumptions are those of `CopilotToken`: an auth id
is never a fingerprint nor `NoAuth`, times are naturals.

None of these invariants is inductive. `SingleFlight` says nothing of the
map that keeps it true, so the invariant `FlightInv` adds that whoever waits on or
leads a flight holds an existing one of its own key, that an open flight has
exactly one leader, that a leader's flight is open and is the one registered in
`tokenInflight`, and that a registered flight is open and of that key. Steps that
take no lock leave all of this alone (`UnlockedFlightInv`); `Join`, `Lead` and
`Publish` have a lemma each; `Shutdown` and `invalidateAuth` preserve it exactly
because they leave `tokenInflight` alone - the fault `ClearInflightToo` shows what
happens otherwise.

`CacheInv` traces tokens: a flight's token is its own, under a fingerprint it was
fetched with that credential, and what a leader is about to publish is of its
flight and its credential. `NewestCached` follows because, by `FlightInv`, a leader
publishes while its flight is the newest of the key; `ForeignOnlyByJoin` because a
hit compares fingerprints and the key of a call without auth id is its own.

Last, `ImplementsSharedExchangeHolds`: `CopilotToken` implements `SharedExchange` for all constants. The mapping takes the tokens of the
entries for the cache, the registered keys for the running exchanges, and a waiter on
a closed flight for one already answered. Each step is matched by one lemma:
`Begin` asks, `Hit` serves, `Join` and `Lead` attach, `Publish` finishes, a rejected
token or a shutdown forgets; the exchange's own steps and `Wake` are stutters
(`LeaderStepUnseen`, `WakeUnseen`). `PublishFinishes` is where `FlightInv` is needed:
whoever waits on another open flight is attached to another key, so closing one flight
answers exactly those attached to its key.

`ExecutionProofs` proves `RetryWithFreshTokenHolds`, `SpecialModelsTriedHolds` and
`ExecTypeCorrect` for all sets of callers, models, listings and kinds of request. It
assumes of the constants that special models are models, that listings and exclusions
are sets of models and TTLs naturals. A step of a request either leaves the cache
alone or is a step of `CopilotToken` (`ExecTokenSteps`), so `TypeOK`, `FlightInv`,
`CacheInv` and the refinement hold under the requests as they do without
(`TokensUnderRequests`, `RequestsSeeSharedExchange`). That a rejected token does not
come back needs three facts the code never states: a token that was rejected has been
delivered, so its flight is done (`RevokedDelivered`); an open flight has delivered
nothing (`OpenEmpty`); and only the leader of an open flight writes the cache. Hence an
entry that was dropped is never stored again (`NeverCachedAgain`), and no call that
begins after the drop can return it (`NeverReturnedAgain`); `RetryInv` follows a
request through the drop, the new token and the retry. `SpecialInv` follows a special
model to its endpoint: a failed listing sends it on, and only a missing token stops it.

`DeviceLoginProofs` proves `LoginTypeCorrect`, `OnePollPerStateHolds`,
`PollingFlagOwnedHolds`, `PollSpacingHolds` and `TokenAskedOnceHolds` for all sets of states, goroutines, device replies and
`slow_down` intervals. They assume that times are naturals and that the
configured timeout is positive. What the code relies on and no property says is
in the invariants:

* `PollInv`: a state is registered once (`Registered`), and the session a poll has
  marked stays marked or is gone until that poll gives it back (`PollKept`), so
  no second poll can mark it. A step of a poll is shown to be of one of four kinds
  (`StepKind`: beside the session, marking it, progress with it marked, giving it
  back), and each kind to keep the invariant.
* `PaceInv` relates the plugin's sessions to GitHub's codes, which the plugin
  never sees: a session free to be polled has at least the interval GitHub last told
  it of (`told`, which a lost `slow_down` leaves alone), is due no earlier than one interval after the last request, and its token has
  not been handed out (`SessionPaced`); a poll in flight will give back a long
  enough interval (`PollPaced`). A clock reading that is old when the lock is taken
  is harmless because it only makes the poll look earlier than it is.

The first part of `ClaudeToOpenAIProofs` proves that the decoder cuts at the first blank line of either
kind (`FrameEndFirst`) although the code compares where the two kinds *begin*, and
from it `CutsOfTheWholeHolds`: for every body and every cutting into chunks, each
frame ends at the first blank line after the frame before it, and when `Flush` is
called none is left. The invariant says that the buffer is the body between the last
frame and the last chunk (`BufferInv`), so that what the code finds in the buffer can
be said of the body. The only assumption of this part is that LF and CR differ.

The second part proves, for any number of blocks and pieces, any line ends and any
cutting of the body into chunks, `LegalChatStreamHolds`, `EndNotLostHolds`,
`FailureIsNoSuccessHolds`, `ChatTypeCorrect` and that the decoder keeps its promise in
a running stream (`CutsOfTheWholeInChat`). `BytesAssumption` says that an event's lines
are no line end. The invariant `ChatBridgeInv` follows an event on its way:

* *`Written`: what the body says.* Each block's start is its first event, nothing but
  what closes the stream comes after the end, and an answer that has ended or failed
  has said so in the body. One lemma for each action of the endpoint (`PlainTold`,
  `BlockTold`, `BodyEndsTold`), all from `WrittenOn`.
* *`BridgeInv`: what of it has arrived.* `Done` is how much of the body the frames
  handed out so far make up. As long as nothing failed, every event in that part is in
  hand or has had its effect (`HandledInv`), and the bridge knows no more than that part
  tells (`BlocksInv`, `StopInv`). A frame of several events is invalid and fails the
  output, and what `Flush` drops holds no event (`HandsEvents`), so nothing is lost
  on the way: when the pump ends, `Done` is the whole body (`EndsInv`).
* *`ChatInv`: what the client has for it*, as for the Responses bridge below. That the
  arguments of a call have a head is not the bridge's doing: `block()` would give a
  delta without a start an index of its own and never announce it. It follows from
  `Written`: the start comes before the delta, is in the part handed out, and so has
  had its effect (`BlockKnown`).

`StreamedAsWholeHolds` compares the two ends of this way: the chunks the client has when
the finish chunk comes, and what `claudeResponseToOpenAI` makes of the whole answer.
`WholeChatInv` adds to `ChatBridgeInv` what it needs of both.

* *`Laid`: what the body holds.* Every piece told of a block is in one event of that
  block, the events of different pieces stand in document order, the blocks start one
  after the other, and `message_delta` comes before `message_stop` and has the reason.
  This is about `text` and `content` alone, so one lemma for each action of the endpoint
  carries it (`PlainLaid`, `BlockStartsLaid`, `BlockGoesOnLaid`, `BodyEndsLaid`).
* *`GivenInv`: what the client has of it.* Each chunk is a piece or a call of the answer,
  all of the part of the body that came before what is in hand (`DeltasInv`), in its order
  (`InOrder`); what is in hand comes after all of it (`HandInv`), so that appending it
  keeps the order (`GivesOn`). The bridge knows of a call exactly when the map has one
  (`CallsInv`), which decides the finish reason. When the end is handled for the first
  time, all events with content are in the part handed out (`EndInHand`), so the chunk
  it makes is the last, and nothing is missing (`WholeInv`).

`CredentialRefreshProofs` proves `RefreshTypeCorrect` and `LoginKeptHolds` for any
number of goroutines, lifetimes, restarts and failures. `LoginKept` alone is not
inductive: the invariant adds that no copy of the storage has a newer refresh token
than the storage, that at most one call carries an answer and it carries the newest
token (`NewestCarried`), and that without a refresh token nobody asks
(`NobodyAsks`). GitHub grants only to a caller with its current token; such a
caller has a copy of a storage that is current, so no other answer is on its way.
`TokenLiveHolds` adds that while no refresh has failed the token in the storage expires
at most `MaxLogin` minutes before the storage says (`StoredCovered`) and the one a call
carries no earlier than it says, and that the next refresh comes early enough, measured by
GitHub's own expiry, for every restart still to come to put it off by a minute
(`OnTime`). It needs `PunctualAssumption`: the login's delay and the restarts that put one
refresh off together stay below the buffer, and no lifetime is so short that the login or
a call and the restarts use it up. Refreshes, and restarts that put none off, are not
limited. Neither part can be weakened by a minute; TLC then finds a host that comes too
late.

`ResponsesToClaudeProofs` and `ResponsesToOpenAIProofs` prove, for any number of output
items, pieces and kinds, that the client has a legal stream or the beginning of one
(`LegalMessagesStreamHolds`, `LegalChatStreamHolds`), that a failed answer never ends as
a success (`FailureIsNoSuccessHolds`) and that the types are kept (`ClaudeTypeCorrect`,
`OpenAITypeCorrect`). The argument has three parts.

* *What the pump can hold.* `FrameFits` says which frame may be in hand when the answer
  stands where, `BadNewsHeld` that a failure is in hand or has made the output fail.
* *What the client was told.* While the output is open, what was sent is related to the
  bridge's map: `HeadsTold` (OpenAI) has one announcement for each numbered call, `Told`
  (Claude) one start for each block, and a block is open for the client exactly when the
  map says so. One lemma for each kind of frame says what appending it does to a legal
  stream (`BlockFollows`, `InnerFollows`, `StopsFollow`, `EndFollows`). A client that
  goes away in the midst of the frames has a prefix of them, and a prefix of a legal
  stream is legal (`LegalPrefix`); the relation to the map is then given up, as the pump
  ends.
* *Why a closed block is not written again* (Claude). Nothing in the bridge prevents it:
  a delta for a block that was closed would be sent into it. It is the endpoint's order
  that does, so `FrameTold` ties the frame in hand to its item's progress and `BlocksFit`
  says that a closed block's item has nothing left to tell but its own end. `finish`
  closes what is open in any order of the map, since blocks have different indexes
  (`BlocksInv`).

What the client can put together from the stream is proved in two further steps, for
which the properties speak of places in the output and not of filtered sequences.

* *Every piece once and in turn* (`EveryPieceOnceHolds`, `AnswerOnceHolds`).
  `PiecesInv`, shared by both, says that each frame which carries a piece of an item
  carries the next one, and that the client has what the endpoint has told of the item,
  less what is in hand. A done frame repeats the whole content, and what decides whether
  it is sent again is the bridge's own memory of a delta: `HeardInv` says that this
  memory is right while the pump runs. For the Claude bridge it is the memory of a
  block, so `Owned` adds that every delta went into the block of its item. For the
  OpenAI bridge reasoning is excepted, as the code records nothing of it.
* *The stream as a whole response* (`StreamedAsWholeHolds`, both of these bridges). `BirthInv` says
  that the endpoint adds its items in order and that the terminal event has the reason
  the answer stopped for; `CallsInv` (OpenAI) that the calls of the map are the tool items, apart
  from one whose first frame is in hand and after which no item has come. `Ordered`, in
  it, says of the output that the calls are announced in the order of their items and
  that each delta is in the field of its item's kind; `EndInv` that a finish comes when
  nothing is missing and has the reason of the whole response. That the pieces then make
  up the document, in its order, is in the section of that name in `ResponsesStreamProofs`,
  with what is left of them without the white space at their ends (`InnerIs`,
  `TrimmedContent`). For the Claude bridge `ToolsInv` says that every tool item has a
  block, apart from one whose first frame is in hand, and its `EndInv` that a message
  which has ended has shown the blocks of the map and no other (`Shown`), has given all
  of every item, and has the reason of the whole response. An answer whose conversion is
  refused as a whole is excepted; nothing in the stream depends on it. Each block that began is then
  that of one item (`StartShows`), so that blocks with content and tool calls can be
  counted on either side (`AsManyCalls`).
  That they come in the order of the items is `OrderInv`: blocks that have a smaller index
  are of an earlier item, a late text excepted (`MapOrdered`), and every item that has
  begun has its block before the next begins (`CaughtUp`). For chat, a call without
  arguments is told from the others by what the endpoint told of it (`AsWhole`).

Only model-checked: `ConversationKept` and `CallsPaired`, whose histories are folds over the messages of
a request, so that what they yield for every conversation is an induction over data; and
all liveness (`EveryRequestEnds`, `KnownSessionEnds`: the prover has no fairness or
`ENABLED`).

## Plan

Written in this order: token cache with its abstract specification and proofs,
device login, execution, streams, the decoder with the Claude bridge, credential
refresh, conversations. What could follow:

1. Endpoint selection against a reference definition; several content parts of one
   message item; the OpenAI request conversion as a second conversation.
2. Proofs: what a turn adds to the folds of `ClaudeConversation`, as far as that needs no
   induction over the history.

## Not modelled, and why

Request parameters (sampling, tools, reasoning effort), endpoint selection, token
counting, redaction and configuration parsing are pure functions of one document or
text, whose properties would repeat their tables. File names, labels and priorities of
a credential are carried along and decide nothing in the plugin. The C memory protocol and what the host does at shutdown are outside
the repository. The two-hop stream route runs the host SDK's translators. Usage
numbers, ids and headers are carried along and never decide anything.
