--------------------------- MODULE ResponsesStream ---------------------------
(***************************************************************************)
(* One streamed model answer of Copilot's /responses endpoint, read frame  *)
(* by frame by StreamPump.  The translators are ResponsesToClaude and      *)
(* ResponsesToOpenAI, which extend this module.                            *)
(*                                                                         *)
(* The endpoint's side is what its protocol allows and what the code and   *)
(* its tests rely on: output items of three kinds, which may overlap, each *)
(* with a content of pieces, streamed as deltas or, for reasoning and      *)
(* tools, given only when the item is done.  Every piece is distinct, so   *)
(* that a lost, repeated or misplaced one shows.                           *)
(***************************************************************************)
EXTENDS StreamPump, SequencesExt

CONSTANTS NumItems,        \* output items of the answer
          ItemKinds,       \* what they may be
          MaxPieces,       \* the longest content of an item
          BlankPieces      \* which of its pieces are white space

ASSUME StreamAssumption ==
  /\ NumItems \in Nat /\ MaxPieces \in Nat
  /\ ItemKinds \subseteq {"reasoning", "message", "tool"}
  /\ BlankPieces \subseteq 1..MaxPieces

VARIABLES upstream,        \* the response, as far as the endpoint has told it
          items            \* the output items: [kind, phase, told]

streamVars == <<upstream, items, frame, sent, output>>

Items == 1..NumItems
NoItem == [kind |-> "none", phase |-> "unborn", told |-> 0]
Item(kind, phase, told) == [kind |-> kind, phase |-> phase, told |-> told]

(* Piece k of the content of item i.                                       *)
Piece(i, k) == [item |-> i, piece |-> k]
Pieces(i, from, to) == [n \in 1..(to - from + 1) |-> Piece(i, from + n - 1)]

(* stringValue: strings.TrimSpace of a text.                               *)
Trimmed(pieces) ==
  LET solid == {n \in 1..Len(pieces) : pieces[n].piece \notin BlankPieces}
  IN  IF solid = {} THEN <<>> ELSE SubSeq(pieces, Min(solid), Max(solid))

(* A frame of an item: the pieces it carries, and whether encrypted        *)
(* reasoning comes with it.                                                *)
Event(type, i, kind, pieces, encrypted) ==
  [type |-> type, item |-> i, kind |-> kind, pieces |-> pieces,
   encrypted |-> encrypted]
(* A frame of the whole response: completed and incomplete carry a reason. *)
Whole(type, reason) == [type |-> type, reason |-> reason]

(* What incomplete_details gives for one: nothing, or these.               *)
Limits == {"max_output_tokens", "content_filter"}
Reasons == {""} \cup Limits

-----------------------------------------------------------------------------
StreamInit ==
  /\ upstream = "opened"
  /\ items = [i \in Items |-> NoItem]
  /\ PumpInit

(* The next frame reaches the pump, which has finished with the last one.  *)
(* ReadStream hands over chunks; sse.Decoder cuts them into these frames:  *)
(* see SSEDecoder.                                                         *)
Sends(f) == Reading /\ frame' = f
Tells(i, item) == items' = [items EXCEPT ![i] = item]
Running == upstream \in {"opened", "created"}
Terminated == upstream \in {"completed", "incomplete"} \cup Limits

(* Items get their output_index in the order they appear.                  *)
MayBegin(i) == Running /\ items[i] = NoItem /\ \A j \in 1..(i-1) : items[j] # NoItem

Created ==
  /\ upstream = "opened"
  /\ Sends(Whole("response.created", ""))
  /\ upstream' = "created"
  /\ UNCHANGED <<items, sent, output>>

ItemAdded(i, kind, encrypted) ==
  /\ MayBegin(i)
  /\ kind \in ItemKinds
  /\ encrypted => kind = "reasoning"
  /\ Sends(Event("output_item.added", i, kind, <<>>, encrypted))
  /\ Tells(i, Item(kind, "open", 0))
  /\ UNCHANGED <<upstream, sent, output>>

(* A content part may begin with text in it.                               *)
PartAdded(i, n) ==
  /\ Running
  /\ items[i].kind = "message" /\ items[i].phase = "open" /\ items[i].told = 0
  /\ n <= MaxPieces
  /\ Sends(Event("content_part.added", i, "message", Pieces(i, 1, n), FALSE))
  /\ Tells(i, Item("message", "part", n))
  /\ UNCHANGED <<upstream, sent, output>>

(* Text and reasoning may be streamed without a frame that announces them. *)
Delta(i, kind) ==
  /\ Running
  /\ \/ MayBegin(i) /\ kind \in ItemKinds \ {"tool"}
     \/ items[i].kind = kind /\ items[i].phase \in {"open", "part"}
  /\ items[i].told < MaxPieces
  /\ LET k == items[i].told + 1
     IN  /\ Sends(Event("delta", i, kind, Pieces(i, k, k), FALSE))
         /\ Tells(i, Item(kind, IF kind = "message" THEN "part" ELSE "open", k))
  /\ UNCHANGED <<upstream, sent, output>>

PartDone(i) ==
  /\ Running
  /\ items[i].kind = "message" /\ items[i].phase = "part"
  /\ Sends(Event("content_part.done", i, "message", Pieces(i, 1, items[i].told), FALSE))
  /\ Tells(i, Item("message", "parted", items[i].told))
  /\ UNCHANGED <<upstream, sent, output>>

(* The done frame holds the whole content.  A reasoning item or a tool     *)
(* call that streamed none of it may come in this one frame.               *)
ItemDone(i, kind, n, encrypted) ==
  /\ Running
  /\ \/ MayBegin(i) /\ kind \in ItemKinds \ {"message"}
     \/ items[i].kind = kind /\ items[i].phase \in {"open", "parted"}
  /\ IF items[i].told = 0 /\ kind # "message" THEN n <= MaxPieces
     ELSE n = items[i].told
  /\ encrypted => kind = "reasoning"
  /\ Sends(Event("output_item.done", i, kind, Pieces(i, 1, n), encrypted))
  /\ Tells(i, Item(kind, "done", n))
  /\ UNCHANGED <<upstream, sent, output>>

(* An incomplete response may stop in the midst of its items, and the      *)
(* tests leave the items' done frames out of completed ones.               *)
Completes(reason) ==
  /\ Running
  /\ reason \in Reasons
  /\ \/ upstream' = "completed" /\ reason = "" /\ Sends(Whole("response.completed", ""))
     \/ /\ upstream' = IF reason = "" THEN "incomplete" ELSE reason
        /\ Sends(Whole("response.incomplete", reason))
  /\ UNCHANGED <<items, sent, output>>

(* error, response.failed, a completed response whose status is failed or  *)
(* cancelled, or data that is not JSON.                                    *)
Fails ==
  /\ Running
  /\ upstream' = "failed"
  /\ \E type \in {"response.failed", "response.completed.failed", "invalid"} :
       Sends(Whole(type, ""))
  /\ UNCHANGED <<items, sent, output>>

(* The sentinel [DONE], which may also cut an answer short.                *)
SendsDone ==
  /\ Running \/ Terminated
  /\ upstream' = IF Running THEN "cut" ELSE upstream
  /\ Sends(Whole("[DONE]", ""))
  /\ UNCHANGED <<items, sent, output>>

UpstreamNext ==
  \/ Created
  \/ \E i \in Items, kind \in ItemKinds, encrypted \in BOOLEAN :
       ItemAdded(i, kind, encrypted)
  \/ \E i \in Items, n \in 0..MaxPieces : PartAdded(i, n)
  \/ \E i \in Items, kind \in ItemKinds : Delta(i, kind)
  \/ \E i \in Items : PartDone(i)
  \/ \E i \in Items, kind \in ItemKinds, n \in 0..MaxPieces, encrypted \in BOOLEAN :
       ItemDone(i, kind, n, encrypted)
  \/ \E reason \in Reasons : Completes(reason)
  \/ Fails
  \/ SendsDone

(* The body ends, wherever the answer stood, or cannot be read.            *)
UpstreamEnds == PumpEnds /\ UNCHANGED <<upstream, items>>
ReadFails == PumpFails /\ UNCHANGED <<upstream, items>>

-----------------------------------------------------------------------------
(* What the properties of the translators are about. *)

(* Frame n of the output carries a piece of item i; the pieces of item i   *)
(* among the first n frames.                                               *)
Carries(n, i) == At(n, "delta") /\ sent[n].content.item = i
Received(i, n) == {sent[m].content : m \in {m \in 1..n : Carries(m, i)}}

(* The first k of some pieces; frame n carries the one that comes next.    *)
Leading(pieces, k) == {pieces[j] : j \in 1..k}
InTurn(n, i, pieces) ==
  \E k \in 1..Len(pieces) :
    sent[n].content = pieces[k] /\ Received(i, n - 1) = Leading(pieces, k - 1)
AllReceived(i, pieces, n) == Received(i, n) = Leading(pieces, Len(pieces))

(* The content of item i when the answer is read as one document.          *)
WholePieces(i) == Pieces(i, 1, items[i].told)

(* The reason the answer gives for its end, read as one document.          *)
ReasonTold == IF upstream \in Limits THEN upstream ELSE ""

(* What the client may get of it: reasoning that is done may have come     *)
(* whole, and is trimmed then.                                             *)
Contents(i) ==
  IF items[i].kind = "reasoning" /\ items[i].phase = "done"
  THEN {WholePieces(i), Trimmed(WholePieces(i))} ELSE {WholePieces(i)}

(* The pieces of item i.                                                   *)
Content(i) == {Piece(i, k) : k \in 1..items[i].told}

(* strings.TrimSpace of a text that is such a set of pieces.               *)
Inner(pieces) ==
  LET solid == {p \in pieces : p.piece \notin BlankPieces}
  IN  {p \in pieces : \E first, last \in solid :
                        first.piece <= p.piece /\ p.piece <= last.piece}

StreamTypeOK ==
  /\ Running \/ Terminated \/ upstream \in {"failed", "cut"}
  /\ \A i \in Items : items[i].told \in 0..MaxPieces
  /\ PumpTypeOK
=============================================================================
