------------------------ MODULE ResponsesStreamProofs ------------------------
(***************************************************************************)
(* What the proofs about ResponsesToClaude and ResponsesToOpenAI share: the *)
(* shapes of the frames a Responses answer is made of, which frame the     *)
(* pump can hold when the answer stands where, that an answer which failed *)
(* or was cut off leaves a frame in the pump's hands that no translator    *)
(* makes anything of, that the pieces of an item come to the client in     *)
(* turn if each frame's do, and what the whole answer holds as a document. *)
(***************************************************************************)
EXTENDS ResponsesStream, SequenceTheorems, WellFoundedInduction, TLAPS

USE StreamAssumption

-----------------------------------------------------------------------------
(* Pieces. *)

PiecesOf(i) == [item : {i}, piece : Nat]

LEMMA PieceFields ==
  \A i, k : Piece(i, k).item = i /\ Piece(i, k).piece = k
BY DEF Piece

LEMMA PiecesType ==
  ASSUME NEW i, NEW from \in Nat, NEW to \in Nat, from <= to + 1
  PROVE  Pieces(i, from, to) \in Seq(PiecesOf(i))
<1>1. to - from + 1 \in Nat
  OBVIOUS
<1>2. \A n \in 1..(to - from + 1) : Piece(i, from + n - 1) \in PiecesOf(i)
  BY DEF Piece, PiecesOf
<1> QED BY <1>1, <1>2 DEF Pieces

LEMMA LeastOfSet ==
  ASSUME NEW S, S \subseteq Nat, S # {}
  PROVE  \E m \in S : \A k \in S : m <= k
<1>1. PICK m \in S : \A k \in S : <<k, m>> \notin OpToRel(<, Nat)
  BY WFMin, NatLessThanWellFounded, Zenon
<1>2. \A k \in S : ~(k < m)
  BY <1>1 DEF OpToRel
<1> QED BY <1>2

(* A set of naturals that is not empty and bounded has both ends.          *)
LEMMA EndsOfSet ==
  ASSUME NEW n \in Nat, NEW S, S \subseteq 1..n, S # {}
  PROVE  /\ Min(S) \in S /\ Max(S) \in S
         /\ \A k \in S : Min(S) <= k /\ k <= Max(S)
<1> DEFINE Mirror == {k \in 0..n : n - k \in S}
<1>1. \E low \in S : \A k \in S : low <= k
  <2>1. S \subseteq Nat
    OBVIOUS
  <2> QED BY <2>1, LeastOfSet
<1>2. \E high \in S : \A k \in S : high >= k
  <2>1. PICK k \in S : TRUE
    OBVIOUS
  <2>2. n - k \in Mirror
    BY <2>1
  <2>3. Mirror # {}
    BY <2>2
  <2>4. Mirror \subseteq Nat
    OBVIOUS
  <2> HIDE DEF Mirror
  <2>5. PICK top \in Mirror : \A m \in Mirror : top <= m
    BY <2>3, <2>4, LeastOfSet
  <2>6. top \in 0..n /\ n - top \in S
    BY <2>5 DEF Mirror
  <2>7. ASSUME NEW m \in S PROVE n - top >= m
    <3>1. n - m \in Mirror
      BY <2>7 DEF Mirror
    <3>2. top <= n - m
      BY <2>5, <3>1
    <3> QED BY <2>6, <2>7, <3>2
  <2> QED BY <2>6, <2>7
<1> QED BY <1>1, <1>2 DEF Min, Max

LEMMA TrimmedType ==
  ASSUME NEW P, NEW pieces \in Seq(P)
  PROVE  Trimmed(pieces) \in Seq(P)
<1> DEFINE solid == {n \in 1..Len(pieces) : pieces[n].piece \notin BlankPieces}
<1>1. CASE solid = {}
  BY <1>1 DEF Trimmed
<1>2. CASE solid # {}
  <2>1. Min(solid) \in 1..Len(pieces) /\ Max(solid) \in 1..Len(pieces)
    <3>1. Len(pieces) \in Nat /\ solid \subseteq 1..Len(pieces)
      BY LenProperties
    <3> HIDE DEF solid
    <3> QED BY <1>2, <3>1, EndsOfSet
  <2>2. \A k \in Min(solid)..Max(solid) : pieces[k] \in P
    BY <2>1, ElementOfSeq
  <2>3. SubSeq(pieces, Min(solid), Max(solid)) \in Seq(P)
    BY <2>1, <2>2, SubSeqProperties
  <2> QED BY <1>2, <2>3 DEF Trimmed
<1> QED BY <1>1, <1>2

-----------------------------------------------------------------------------
(* Frames. *)

Kinds == {"reasoning", "message", "tool"}
EventTypes == {"output_item.added", "content_part.added", "delta", "content_part.done",
               "output_item.done"}
Failures == {"response.failed", "response.completed.failed", "invalid"}
Terminals == {"response.completed", "response.incomplete"}

IsEvent(f) ==
  \E i \in Items :
    f \in [type : EventTypes, item : {i}, kind : Kinds, pieces : Seq(PiecesOf(i)),
           encrypted : BOOLEAN]
IsWhole(f) ==
  f \in [type : {"response.created", "[DONE]"} \cup Failures \cup Terminals,
         reason : Reasons]

(* Which frame the pump may hold, by how far the endpoint has come.        *)
FrameFits ==
  \/ frame = NoFrame
  \/ IsEvent(frame) /\ Running
  \/ /\ IsWhole(frame)
     /\ frame.type = "response.created" => Running
     /\ frame.type \in Terminals => Terminated
     /\ frame.type \in Failures => upstream = "failed"
     /\ frame.type = "[DONE]" => Terminated \/ upstream = "cut"

(* The answer has failed or was cut off: the frame that told it is still   *)
(* in hand, or has made the output fail.                                   *)
BadNewsHeld ==
  /\ upstream = "failed" => frame.type \in Failures \/ output = "failed"
  /\ upstream = "cut" => frame.type = "[DONE]" \/ output = "failed"

ItemsOK ==
  items \in [Items -> [kind : Kinds \cup {"none"},
                       phase : {"unborn", "open", "part", "parted", "done"},
                       told : 0..MaxPieces]]

StreamInv ==
  /\ ItemsOK
  /\ StreamTypeOK
  /\ FrameFits
  /\ output # "open" => frame = NoFrame
  /\ BadNewsHeld

LEMMA StreamInitInv ==
  StreamInit => StreamInv
<1> SUFFICES ASSUME StreamInit PROVE StreamInv
  OBVIOUS
<1>1. ItemsOK
  BY DEF StreamInit, ItemsOK, NoItem
<1> QED
  BY <1>1 DEF StreamInit, PumpInit, StreamInv, StreamTypeOK, PumpTypeOK, FrameFits,
     BadNewsHeld, NoItem,
     Running

LEMMA EventInHand ==
  ASSUME FrameFits, frame.type \in EventTypes
  PROVE  /\ frame.item \in Items /\ frame.pieces \in Seq(PiecesOf(frame.item))
         /\ frame.kind \in Kinds /\ frame.encrypted \in BOOLEAN /\ Running
<1>1. frame # NoFrame /\ ~IsWhole(frame)
  <2>1. NoFrame.type = "none" /\ (IsWhole(frame) => frame.type \notin EventTypes)
    BY DEF NoFrame, IsWhole, EventTypes, Failures, Terminals
  <2> QED BY <2>1 DEF EventTypes
<1>2. IsEvent(frame) /\ Running
  BY <1>1 DEF FrameFits
<1> QED BY <1>2 DEF IsEvent

-----------------------------------------------------------------------------
(* The endpoint tells more. *)

LEMMA EventShape ==
  ASSUME NEW type \in EventTypes, NEW i \in Items, NEW kind \in Kinds,
         NEW pieces \in Seq(PiecesOf(i)), NEW encrypted \in BOOLEAN
  PROVE  IsEvent(Event(type, i, kind, pieces, encrypted))
BY DEF Event, IsEvent

(* A frame of an item: the item has moved on and the answer is running.    *)
LEMMA SendsEvent ==
  ASSUME StreamInv, Running, NEW i \in Items, NEW type \in EventTypes, NEW kind \in Kinds,
         NEW phase \in {"open", "part", "parted", "done"}, NEW told \in 0..MaxPieces,
         NEW pieces \in Seq(PiecesOf(i)), NEW encrypted \in BOOLEAN,
         Sends(Event(type, i, kind, pieces, encrypted)), Tells(i, Item(kind, phase, told)),
         UNCHANGED <<upstream, sent, output>>
  PROVE  StreamInv' /\ IsEvent(frame)'
<1>1. IsEvent(frame') /\ frame'.type \in EventTypes
  BY EventShape DEF Sends, Event
<1>2. ItemsOK'
  BY DEF StreamInv, ItemsOK, Tells, Item
<1>3. StreamTypeOK'
  BY <1>2 DEF StreamInv, ItemsOK, StreamTypeOK, PumpTypeOK,
     Running, Terminated
<1>4. Running' /\ upstream' \notin {"failed", "cut"} /\ output' = "open"
  BY DEF Running, Sends, Reading
<1> QED BY <1>1, <1>2, <1>3, <1>4 DEF StreamInv, FrameFits, BadNewsHeld, IsEvent

(* A frame of the whole response. *)
LEMMA SendsWhole ==
  ASSUME StreamInv, NEW type, NEW reason \in Reasons,
         Sends(Whole(type, reason)), UNCHANGED <<items, sent, output>>,
         \/ type = "response.created" /\ upstream' = "created"
         \/ type \in Terminals /\ Terminated'
         \/ type \in Failures /\ upstream' = "failed"
         \/ type = "[DONE]" /\ (Terminated' \/ upstream' = "cut")
  PROVE  StreamInv'
<1>1. IsWhole(frame') /\ frame'.type = type /\ output' = "open"
  BY DEF Sends, Whole, IsWhole, Failures, Terminals, Reading
<1>2. ItemsOK' /\ StreamTypeOK'
  BY DEF StreamInv, ItemsOK, StreamTypeOK, PumpTypeOK,
     Running, Terminated, Limits
<1>3. FrameFits' /\ BadNewsHeld'
  BY <1>1 DEF FrameFits, BadNewsHeld, Running, Terminated, Failures, Terminals,
     Limits
<1> QED BY <1>1, <1>2, <1>3 DEF StreamInv

LEMMA EventsKeep ==
  ASSUME StreamInv,
         \/ \E i \in Items, kind \in ItemKinds, encrypted \in BOOLEAN :
              ItemAdded(i, kind, encrypted)
         \/ \E i \in Items, n \in 0..MaxPieces : PartAdded(i, n)
         \/ \E i \in Items, kind \in ItemKinds : Delta(i, kind)
         \/ \E i \in Items : PartDone(i)
         \/ \E i \in Items, kind \in ItemKinds, n \in 0..MaxPieces, encrypted \in BOOLEAN :
              ItemDone(i, kind, n, encrypted)
  PROVE  StreamInv' /\ IsEvent(frame)' /\ Running
<1>1. \A i \in Items : items[i].told \in 0..MaxPieces /\ items[i].kind \in Kinds \cup {"none"}
  BY DEF StreamInv, ItemsOK
<1>2. ItemKinds \subseteq Kinds /\ MaxPieces \in Nat
  BY DEF Kinds
<1>3. ASSUME NEW i \in Items, NEW kind \in ItemKinds, NEW encrypted \in BOOLEAN,
             ItemAdded(i, kind, encrypted)
      PROVE  StreamInv' /\ IsEvent(frame)' /\ Running
  <2>1. <<>> \in Seq(PiecesOf(i)) /\ 0 \in 0..MaxPieces /\ kind \in Kinds
    BY <1>2
  <2>2. /\ Running /\ Sends(Event("output_item.added", i, kind, <<>>, encrypted))
        /\ Tells(i, Item(kind, "open", 0)) /\ UNCHANGED <<upstream, sent, output>>
    BY <1>3 DEF ItemAdded, MayBegin
  <2> QED
    BY <2>1, <2>2, SendsEvent DEF EventTypes
<1>4. ASSUME NEW i \in Items, NEW n \in 0..MaxPieces, PartAdded(i, n)
      PROVE  StreamInv' /\ IsEvent(frame)' /\ Running
  <2>1. Pieces(i, 1, n) \in Seq(PiecesOf(i))
    BY <1>2, PiecesType
  <2> QED
    BY <1>4, <2>1, SendsEvent DEF PartAdded, EventTypes, Kinds
<1>5. ASSUME NEW i \in Items, NEW kind \in ItemKinds, Delta(i, kind)
      PROVE  StreamInv' /\ IsEvent(frame)' /\ Running
  <2>1. items[i].told + 1 \in 0..MaxPieces
    BY <1>1, <1>2, <1>5 DEF Delta
  <2>2. Pieces(i, items[i].told + 1, items[i].told + 1) \in Seq(PiecesOf(i))
    BY <1>2, <2>1, PiecesType
  <2> QED
    BY <1>2, <1>5, <2>1, <2>2, SendsEvent DEF Delta, EventTypes
<1>6. ASSUME NEW i \in Items, PartDone(i)
      PROVE  StreamInv' /\ IsEvent(frame)' /\ Running
  <2>1. items[i].told \in Nat /\ 1 <= items[i].told + 1
    BY <1>1, <1>2
  <2>2. Pieces(i, 1, items[i].told) \in Seq(PiecesOf(i))
    BY <2>1, PiecesType
  <2> QED
    BY <1>1, <1>6, <2>2, SendsEvent DEF PartDone, EventTypes, Kinds
<1>7. ASSUME NEW i \in Items, NEW kind \in ItemKinds, NEW n \in 0..MaxPieces,
             NEW encrypted \in BOOLEAN, ItemDone(i, kind, n, encrypted)
      PROVE  StreamInv' /\ IsEvent(frame)' /\ Running
  <2>1. Pieces(i, 1, n) \in Seq(PiecesOf(i))
    BY <1>2, PiecesType
  <2> QED
    BY <1>2, <1>7, <2>1, SendsEvent DEF ItemDone, EventTypes
<1> QED BY <1>3, <1>4, <1>5, <1>6, <1>7

(* The endpoint speaks only while the pump reads, and once it has ended    *)
(* the answer it says nothing but [DONE].                                  *)
LEMMA UpstreamTells ==
  ASSUME StreamInv, UpstreamNext
  PROVE  /\ StreamInv' /\ frame = NoFrame /\ output = "open" /\ UNCHANGED <<sent, output>>
         /\ Terminated => Terminated' /\ frame'.type = "[DONE]"
<1>1. frame = NoFrame /\ output = "open" /\ UNCHANGED <<sent, output>>
  BY DEF UpstreamNext, Created, ItemAdded, PartAdded, Delta, PartDone, ItemDone, Completes,
     Fails, SendsDone, Sends, Reading
<1>2. Terminated => ~Running
  BY DEF Terminated, Running,
     Limits
<1>3. ASSUME Created PROVE StreamInv' /\ Running
  BY <1>3, SendsWhole DEF Created, Running,
     Reasons
<1>4. ASSUME NEW reason \in Reasons, Completes(reason)
      PROVE  StreamInv' /\ Running
  BY <1>4, SendsWhole DEF Completes, Terminals,
     Terminated, Reasons, Limits, Running
<1>5. ASSUME Fails PROVE StreamInv' /\ Running
  BY <1>5, SendsWhole DEF Fails, Failures,
     Reasons, Running
<1>6. ASSUME SendsDone PROVE StreamInv' /\ frame'.type = "[DONE]" /\ (Terminated => Terminated')
  <2>1. /\ Sends(Whole("[DONE]", "")) /\ UNCHANGED <<items, sent, output>>
        /\ (Terminated' \/ upstream' = "cut")
        /\ Terminated => Terminated'
    BY <1>6 DEF SendsDone, Running, Terminated,
     Limits
  <2>2. StreamInv'
    BY <2>1, SendsWhole DEF Reasons
  <2> QED BY <2>1, <2>2 DEF Sends, Whole
<1>7. /\ StreamInv'
      /\ \/ Running
         \/ frame'.type = "[DONE]" /\ (Terminated => Terminated')
  <2>1. CASE \/ \E i \in Items, kind \in ItemKinds, encrypted \in BOOLEAN :
                  ItemAdded(i, kind, encrypted)
             \/ \E i \in Items, n \in 0..MaxPieces : PartAdded(i, n)
             \/ \E i \in Items, kind \in ItemKinds : Delta(i, kind)
             \/ \E i \in Items : PartDone(i)
             \/ \E i \in Items, kind \in ItemKinds, n \in 0..MaxPieces,
                   encrypted \in BOOLEAN : ItemDone(i, kind, n, encrypted)
    BY <2>1, EventsKeep
  <2>2. CASE \E reason \in Reasons : Completes(reason)
    BY <2>2, <1>4
  <2> QED BY <1>3, <1>5, <1>6, <2>1, <2>2, Zenon DEF UpstreamNext
<1> QED BY <1>1, <1>2, <1>7

(* An answer that has ended is told no more of. *)
LEMMA TerminatedStays ==
  ASSUME UpstreamNext, Terminated
  PROVE  UNCHANGED <<upstream, items>>
<1>1. ~Running /\ upstream # "opened"
  BY DEF Terminated, Running,
     Limits
<1>2. SendsDone
  BY <1>1 DEF UpstreamNext, Created, ItemAdded, MayBegin, PartAdded, Delta, PartDone, ItemDone,
     Completes, Fails
<1> QED BY <1>1, <1>2 DEF SendsDone

-----------------------------------------------------------------------------
(* The pump.                                                               *)

LEMMA JoinThree ==
  ASSUME NEW S, NEW a \in Seq(S), NEW b \in Seq(S), NEW c \in Seq(S)
  PROVE  b \o c \in Seq(S) /\ a \o (b \o c) = (a \o b) \o c
<1>1. b \o c \in Seq(S)
  BY ConcatProperties
<1>2. (a \o b) \o c = a \o (b \o c)
  BY ConcatAssociative
<1> QED BY <1>1, <1>2

(* The client gets all of what is emitted, or the beginning of it and the  *)
(* output fails.                                                           *)
LEMMA EmitsPrefix ==
  ASSUME NEW S, NEW out \in Seq(S), sent \in Seq(S), output = "open", Emits(out)
  PROVE  /\ frame' = NoFrame /\ output' \in {output, "failed"}
         /\ output' = "open" => sent' = sent \o out
         /\ sent' \in Seq(S) /\ Len(sent') <= Len(sent \o out)
         /\ output' # "open" => Len(sent') < Len(sent \o out)
         /\ \A n \in 1..Len(sent') : sent'[n] = (sent \o out)[n]
<1>1. /\ sent \o out \in Seq(S) /\ Len(sent \o out) = Len(sent) + Len(out)
      /\ \A n \in 1..Len(sent) + Len(out) :
           (sent \o out)[n] = IF n <= Len(sent) THEN sent[n] ELSE out[n - Len(sent)]
      /\ Len(sent) \in Nat /\ Len(out) \in Nat
  BY ConcatProperties
<1>2. CASE sent' = sent \o out /\ frame' = NoFrame /\ output' = output
  BY <1>1, <1>2
<1>3. ASSUME NEW k \in 0..(Len(out) - 1), sent' = sent \o SubSeq(out, 1, k),
             ClosesOutput("failed")
      PROVE  /\ sent' \in Seq(S) /\ Len(sent') < Len(sent \o out)
             /\ Len(sent') <= Len(sent \o out)
             /\ \A n \in 1..Len(sent') : sent'[n] = (sent \o out)[n]
  <2> DEFINE t == SubSeq(out, 1, k)
  <2>1. t \in Seq(S) /\ Len(t) = k /\ \A n \in 1..k : t[n] = out[n]
    <3>1. k <= Len(out) /\ k \in Nat /\ \A n \in 1..k : out[n] \in S
      BY <1>1, ElementOfSeq
    <3> QED BY <3>1, SubSeqProperties
  <2> HIDE DEF t
  <2>2. /\ sent \o t \in Seq(S) /\ Len(sent \o t) = Len(sent) + k
        /\ \A n \in 1..Len(sent) + k :
             (sent \o t)[n] = IF n <= Len(sent) THEN sent[n] ELSE t[n - Len(sent)]
    BY <2>1, ConcatProperties
  <2>3. ASSUME NEW n \in 1..Len(sent \o t) PROVE (sent \o t)[n] = (sent \o out)[n]
    <3>1. n \in 1..Len(sent) + k /\ n \in 1..Len(sent) + Len(out)
      BY <1>1, <2>2, <2>3
    <3>2. CASE n <= Len(sent)
      BY <1>1, <2>2, <3>1, <3>2
    <3>3. CASE ~(n <= Len(sent))
      <4>1. n - Len(sent) \in 1..k
        BY <1>1, <3>1, <3>3
      <4> QED BY <1>1, <2>1, <2>2, <3>1, <3>3, <4>1
    <3> QED BY <3>2, <3>3
  <2>4. sent' = sent \o t
    BY <1>3 DEF t
  <2>5. Len(sent \o t) < Len(sent \o out) /\ Len(sent \o t) <= Len(sent \o out)
    BY <1>1, <2>2
  <2> QED BY <2>2, <2>3, <2>4, <2>5
<1> QED BY <1>1, <1>2, <1>3 DEF Emits, ClosesOutput

(* It has finished with a frame, and a bad one has made the output fail.   *)
LEMMA FrameFinished ==
  ASSUME StreamInv, UNCHANGED <<upstream, items>>, frame' = NoFrame,
         output' \in {output, "failed"}, output = "open",
         frame.type \in Failures => output' = "failed",
         frame.type = "[DONE]" /\ upstream = "cut" => output' = "failed"
  PROVE  StreamInv'
BY DEF StreamInv, ItemsOK, StreamTypeOK, PumpTypeOK, FrameFits, BadNewsHeld, NoFrame, Failures,
     Running, Terminated

(* The body ends or cannot be read. *)
LEMMA PumpStops ==
  ASSUME StreamInv, UpstreamEnds \/ ReadFails
  PROVE  /\ StreamInv' /\ UNCHANGED <<upstream, items, sent, frame>>
         /\ output' # "open" /\ frame = NoFrame
<1>1. /\ UNCHANGED <<upstream, items, sent, frame>> /\ frame = NoFrame /\ output = "open"
      /\ output' \in {"ended", "failed"}
  BY DEF UpstreamEnds, ReadFails, PumpEnds, PumpFails, Reading, ClosesOutput
<1>2. upstream \notin {"failed", "cut"}
  BY <1>1 DEF StreamInv, BadNewsHeld, NoFrame, Failures
<1> QED
  BY <1>1, <1>2 DEF StreamInv, ItemsOK, StreamTypeOK, PumpTypeOK, FrameFits, BadNewsHeld,
     Running, Terminated

(* An answer that failed or was cut off does not end well.                 *)
LEMMA BadNewsTold ==
  ASSUME StreamInv
  PROVE  upstream \in {"failed", "cut"} => output # "ended"
BY DEF StreamInv, BadNewsHeld, NoFrame, Failures

-----------------------------------------------------------------------------
(* What a sequence of frames carries of an item. *)

CarriesIn(s, n, i) == s[n].type = "delta" /\ s[n].content.item = i
Got(s, n, i) == {s[m].content : m \in {m \in 1..n : CarriesIn(s, m, i)}}
TurnIn(s, n, i, pieces) ==
  \E k \in 1..Len(pieces) :
    s[n].content = pieces[k] /\ Got(s, n - 1, i) = Leading(pieces, k - 1)

(* Frame n carries the next of the pieces or, if they may come again, one  *)
(* after all of them.                                                      *)
FineIn(s, n, i, pieces, again) ==
  \/ TurnIn(s, n, i, pieces)
  \/ again /\ Got(s, n - 1, i) = Leading(pieces, Len(pieces))
AllFine(s, i, pieces, again) ==
  \A n \in 1..Len(s) : CarriesIn(s, n, i) => FineIn(s, n, i, pieces, again)

(* It carries the first k of the pieces, in order.                         *)
Delivered(s, i, pieces, k, again) ==
  AllFine(s, i, pieces, again) /\ Got(s, Len(s), i) = Leading(pieces, k)

(* No frame of it carries a piece; its frames carry those after the first  *)
(* k.                                                                      *)
Quiet(out) == \A n \in 1..Len(out) : out[n].type # "delta"
CarriesNone(out, i) == \A n \in 1..Len(out) : ~CarriesIn(out, n, i)
CarriesNext(out, i, pieces, k) ==
  /\ k + Len(out) <= Len(pieces)
  /\ \A n \in 1..Len(out) : CarriesIn(out, n, i) /\ out[n].content = pieces[k + n]

LEMMA SameGot ==
  ASSUME NEW s, NEW t, NEW n \in Int, NEW i, \A m \in 1..n : t[m] = s[m]
  PROVE  Got(t, n, i) = Got(s, n, i)
BY DEF Got, CarriesIn

LEMMA SameFine ==
  ASSUME NEW s, NEW t, NEW n \in Nat, NEW i, NEW pieces, NEW again, n >= 1,
         \A m \in 1..n : t[m] = s[m], FineIn(s, n, i, pieces, again)
  PROVE  FineIn(t, n, i, pieces, again)
<1>1. n - 1 \in Int /\ \A m \in 1..(n - 1) : t[m] = s[m]
  OBVIOUS
<1>2. Got(t, n - 1, i) = Got(s, n - 1, i)
  BY <1>1, SameGot
<1>3. t[n] = s[n]
  OBVIOUS
<1> QED BY <1>2, <1>3 DEF FineIn, TurnIn

(* The beginning of what is delivered in order is in order. *)
LEMMA PrefixFine ==
  ASSUME NEW s, NEW t, NEW i, NEW pieces, NEW again, AllFine(s, i, pieces, again),
         Len(s) \in Nat, Len(t) \in Nat, Len(t) <= Len(s), \A n \in 1..Len(t) : t[n] = s[n]
  PROVE  AllFine(t, i, pieces, again)
<1> SUFFICES ASSUME NEW n \in 1..Len(t), CarriesIn(t, n, i)
             PROVE  FineIn(t, n, i, pieces, again)
  BY DEF AllFine
<1>1. n \in 1..Len(s) /\ n \in Nat /\ n >= 1 /\ t[n] = s[n]
  OBVIOUS
<1>2. FineIn(s, n, i, pieces, again)
  BY <1>1 DEF AllFine, CarriesIn
<1>3. \A m \in 1..n : t[m] = s[m]
  OBVIOUS
<1> QED BY <1>1, <1>2, <1>3, SameFine

(* The elements of a concatenation. *)
Follows(t, s, out) ==
  /\ Len(s) \in Nat /\ Len(out) \in Nat /\ Len(t) = Len(s) + Len(out)
  /\ \A n \in 1..Len(s) : t[n] = s[n]
  /\ \A n \in 1..Len(out) : t[Len(s) + n] = out[n]

LEMMA Following ==
  ASSUME NEW S, NEW s \in Seq(S), NEW out \in Seq(S)
  PROVE  s \o out \in Seq(S) /\ Follows(s \o out, s, out)
<1>1. /\ s \o out \in Seq(S) /\ Len(s \o out) = Len(s) + Len(out)
      /\ \A n \in 1..Len(s) + Len(out) :
           (s \o out)[n] = IF n <= Len(s) THEN s[n] ELSE out[n - Len(s)]
      /\ Len(s) \in Nat /\ Len(out) \in Nat
  BY ConcatProperties
<1>2. ASSUME NEW n \in 1..Len(out) PROVE (s \o out)[Len(s) + n] = out[n]
  <2>1. Len(s) + n \in 1..Len(s) + Len(out) /\ ~(Len(s) + n <= Len(s))
        /\ (Len(s) + n) - Len(s) = n
    BY <1>1
  <2> QED BY <1>1, <2>1
<1> QED BY <1>1, <1>2 DEF Follows

(* What follows adds its own contents. *)
LEMMA GotMore ==
  ASSUME NEW s, NEW out, NEW t, Follows(t, s, out), NEW n \in 0..Len(out), NEW i
  PROVE  Got(t, Len(s) + n, i) = Got(s, Len(s), i) \cup Got(out, n, i)
<1>1. Len(s) \in Nat /\ Len(out) \in Nat /\ n \in Nat
  BY DEF Follows
<1>2. \A m \in 1..Len(s) : t[m] = s[m] /\ m \in 1..(Len(s) + n)
  BY <1>1 DEF Follows
<1>3. \A m \in 1..n : t[Len(s) + m] = out[m] /\ Len(s) + m \in 1..(Len(s) + n)
  BY <1>1 DEF Follows
<1>4. ASSUME NEW m \in 1..(Len(s) + n)
      PROVE  m \in 1..Len(s) \/ \E l \in 1..n : m = Len(s) + l
  <2>1. CASE m <= Len(s)
    BY <1>1, <2>1
  <2>2. CASE ~(m <= Len(s))
    <3>1. m - Len(s) \in 1..n /\ m = Len(s) + (m - Len(s))
      BY <1>1, <2>2
    <3> QED BY <3>1
  <2> QED BY <2>1, <2>2
<1>5. ASSUME NEW c \in Got(t, Len(s) + n, i) PROVE c \in Got(s, Len(s), i) \cup Got(out, n, i)
  <2>1. PICK m \in 1..(Len(s) + n) : CarriesIn(t, m, i) /\ c = t[m].content
    BY <1>5 DEF Got
  <2>2. CASE m \in 1..Len(s)
    BY <1>2, <2>1, <2>2 DEF Got, CarriesIn
  <2>3. CASE \E l \in 1..n : m = Len(s) + l
    BY <1>3, <2>1, <2>3 DEF Got, CarriesIn
  <2> QED BY <1>4, <2>2, <2>3
<1>6. ASSUME NEW c \in Got(s, Len(s), i) PROVE c \in Got(t, Len(s) + n, i)
  BY <1>2, <1>6 DEF Got, CarriesIn
<1>7. ASSUME NEW c \in Got(out, n, i) PROVE c \in Got(t, Len(s) + n, i)
  BY <1>3, <1>7 DEF Got, CarriesIn
<1> QED BY <1>5, <1>6, <1>7

(* Frames that carry nothing of the item leave it as it was. *)
LEMMA NoneFollow ==
  ASSUME NEW s, NEW out, NEW t, Follows(t, s, out), NEW i, NEW pieces, NEW k, NEW again,
         Delivered(s, i, pieces, k, again), CarriesNone(out, i)
  PROVE  Delivered(t, i, pieces, k, again)
<1>1. /\ Len(s) \in Nat /\ Len(out) \in Nat /\ Len(t) = Len(s) + Len(out)
      /\ \A n \in 1..Len(s) : t[n] = s[n]
  BY DEF Follows
<1>2. Got(t, Len(t), i) = Leading(pieces, k)
  <2>1. Got(out, Len(out), i) = {}
    BY DEF Got, CarriesNone
  <2>2. Got(t, Len(s) + Len(out), i) = Got(s, Len(s), i) \cup Got(out, Len(out), i)
    BY <1>1, GotMore
  <2> QED BY <1>1, <2>1, <2>2 DEF Delivered
<1>3. ASSUME NEW n \in 1..Len(t), CarriesIn(t, n, i) PROVE FineIn(t, n, i, pieces, again)
  <2>1. CASE n <= Len(s)
    <3>1. n \in 1..Len(s) /\ n \in Nat /\ n >= 1 /\ \A m \in 1..n : t[m] = s[m]
      BY <1>1, <2>1
    <3>2. FineIn(s, n, i, pieces, again)
      BY <1>3, <3>1 DEF Delivered, AllFine, CarriesIn
    <3> QED BY <3>1, <3>2, SameFine
  <2>2. CASE ~(n <= Len(s))
    <3>1. n - Len(s) \in 1..Len(out) /\ n = Len(s) + (n - Len(s))
      BY <1>1, <2>2
    <3>2. t[n] = out[n - Len(s)]
      BY <3>1 DEF Follows
    <3> QED BY <1>3, <3>1, <3>2 DEF CarriesNone, CarriesIn
  <2> QED BY <2>1, <2>2
<1> QED BY <1>2, <1>3 DEF Delivered, AllFine

Stretch(pieces, k, n) == {pieces[k + j] : j \in 1..n}

LEMMA LeadingMore ==
  ASSUME NEW pieces, NEW k \in Nat, NEW n \in Nat
  PROVE  Leading(pieces, k + n) = Leading(pieces, k) \cup Stretch(pieces, k, n)
<1>1. ASSUME NEW c \in Leading(pieces, k + n)
      PROVE  c \in Leading(pieces, k) \cup Stretch(pieces, k, n)
  <2>1. PICK j \in 1..(k + n) : c = pieces[j]
    BY <1>1 DEF Leading
  <2>2. CASE j <= k
    BY <2>1, <2>2 DEF Leading
  <2>3. CASE ~(j <= k)
    <3>1. j - k \in 1..n /\ j = k + (j - k)
      BY <2>3
    <3> QED BY <2>1, <3>1 DEF Stretch
  <2> QED BY <2>2, <2>3
<1>2. ASSUME NEW c \in Leading(pieces, k) PROVE c \in Leading(pieces, k + n)
  BY <1>2 DEF Leading
<1>3. ASSUME NEW c \in Stretch(pieces, k, n) PROVE c \in Leading(pieces, k + n)
  <2>1. PICK j \in 1..n : c = pieces[k + j]
    BY <1>3 DEF Stretch
  <2>2. k + j \in 1..(k + n)
    OBVIOUS
  <2> QED BY <2>1, <2>2 DEF Leading
<1> QED BY <1>1, <1>2, <1>3

(* Frames that carry the next pieces. *)
LEMMA NextFollow ==
  ASSUME NEW s, NEW out, NEW t, Follows(t, s, out), NEW i, NEW pieces, Len(pieces) \in Nat,
         NEW k \in Nat, NEW again, Delivered(s, i, pieces, k, again),
         CarriesNext(out, i, pieces, k)
  PROVE  Delivered(t, i, pieces, k + Len(out), again)
<1>1. /\ Len(s) \in Nat /\ Len(out) \in Nat /\ Len(t) = Len(s) + Len(out)
      /\ \A n \in 1..Len(s) : t[n] = s[n]
      /\ \A n \in 1..Len(out) : t[Len(s) + n] = out[n]
  BY DEF Follows
<1>2. ASSUME NEW n \in 0..Len(out) PROVE Got(t, Len(s) + n, i) = Leading(pieces, k + n)
  <2>1. Got(t, Len(s) + n, i) = Got(s, Len(s), i) \cup Got(out, n, i)
    BY GotMore
  <2>2. Got(out, n, i) = Stretch(pieces, k, n)
    <3>1. 1..n \subseteq 1..Len(out)
      BY <1>1
    <3>2. \A m \in 1..n : CarriesIn(out, m, i) /\ out[m].content = pieces[k + m]
      BY <3>1 DEF CarriesNext
    <3> QED BY <3>2 DEF Got, Stretch
  <2>3. n \in Nat
    BY <1>1
  <2>4. Leading(pieces, k + n) = Leading(pieces, k) \cup Stretch(pieces, k, n)
    BY <2>3, LeadingMore
  <2>5. Got(s, Len(s), i) = Leading(pieces, k)
    BY DEF Delivered
  <2> QED BY <2>1, <2>2, <2>4, <2>5
<1>3. Got(t, Len(t), i) = Leading(pieces, k + Len(out))
  BY <1>1, <1>2
<1>4. ASSUME NEW n \in 1..Len(t), CarriesIn(t, n, i) PROVE FineIn(t, n, i, pieces, again)
  <2>1. CASE n <= Len(s)
    <3>1. n \in 1..Len(s) /\ n \in Nat /\ n >= 1 /\ \A m \in 1..n : t[m] = s[m]
      BY <1>1, <2>1
    <3>2. FineIn(s, n, i, pieces, again)
      BY <1>4, <3>1 DEF Delivered, AllFine, CarriesIn
    <3> QED BY <3>1, <3>2, SameFine
  <2>2. CASE ~(n <= Len(s))
    <3> DEFINE m == n - Len(s)
    <3>1. m \in 1..Len(out) /\ n = Len(s) + m /\ n - 1 = Len(s) + (m - 1)
          /\ m - 1 \in 0..Len(out) /\ m \in Nat
      BY <1>1, <2>2
    <3> HIDE DEF m
    <3>2. t[n].content = pieces[k + m]
      BY <1>1, <3>1 DEF CarriesNext
    <3>3. Got(t, n - 1, i) = Leading(pieces, (k + m) - 1)
      <4>1. Got(t, Len(s) + (m - 1), i) = Leading(pieces, k + (m - 1))
        BY <1>2, <3>1
      <4>2. k + (m - 1) = (k + m) - 1
        BY <3>1
      <4> QED BY <3>1, <4>1, <4>2
    <3>4. k + m \in 1..Len(pieces)
      BY <1>1, <3>1 DEF CarriesNext
    <3> QED BY <3>2, <3>3, <3>4 DEF FineIn, TurnIn
  <2> QED BY <2>1, <2>2
<1> QED BY <1>3, <1>4 DEF Delivered, AllFine

(* Frames that carry pieces again. *)
LEMMA AgainFollow ==
  ASSUME NEW s, NEW out, NEW t, Follows(t, s, out), NEW i, NEW pieces,
         Delivered(s, i, pieces, Len(pieces), TRUE),
         \A n \in 1..Len(out) : out[n].content \in Leading(pieces, Len(pieces))
  PROVE  Delivered(t, i, pieces, Len(pieces), TRUE)
<1>1. /\ Len(s) \in Nat /\ Len(out) \in Nat /\ Len(t) = Len(s) + Len(out)
      /\ \A n \in 1..Len(s) : t[n] = s[n]
  BY DEF Follows
<1>2. ASSUME NEW n \in 0..Len(out)
      PROVE  Got(t, Len(s) + n, i) = Leading(pieces, Len(pieces))
  <2>1. Got(t, Len(s) + n, i) = Got(s, Len(s), i) \cup Got(out, n, i)
    BY GotMore
  <2>2. Got(out, n, i) \subseteq Leading(pieces, Len(pieces))
    <3>1. 1..n \subseteq 1..Len(out)
      BY <1>1
    <3> QED BY <3>1 DEF Got
  <2> QED BY <2>1, <2>2 DEF Delivered
<1>3. Got(t, Len(t), i) = Leading(pieces, Len(pieces))
  BY <1>1, <1>2
<1>4. ASSUME NEW n \in 1..Len(t), CarriesIn(t, n, i) PROVE FineIn(t, n, i, pieces, TRUE)
  <2>1. CASE n <= Len(s)
    <3>1. n \in 1..Len(s) /\ n \in Nat /\ n >= 1 /\ \A m \in 1..n : t[m] = s[m]
      BY <1>1, <2>1
    <3>2. CarriesIn(s, n, i)
      BY <1>4, <3>1 DEF CarriesIn
    <3>3. FineIn(s, n, i, pieces, TRUE)
      BY <3>1, <3>2 DEF Delivered, AllFine
    <3> QED BY <3>1, <3>3, SameFine
  <2>2. CASE ~(n <= Len(s))
    <3>1. n - 1 = Len(s) + ((n - Len(s)) - 1) /\ (n - Len(s)) - 1 \in 0..Len(out)
      BY <1>1, <2>2
    <3>2. Got(t, n - 1, i) = Leading(pieces, Len(pieces))
      BY <1>2, <3>1
    <3> QED BY <3>2 DEF FineIn
  <2> QED BY <2>1, <2>2
<1> QED BY <1>3, <1>4 DEF Delivered, AllFine

(* Of an item of which nothing was delivered, any content may be.          *)
LEMMA NothingDelivered ==
  ASSUME NEW s, NEW i, NEW pieces, NEW others, NEW again, NEW twice,
         Delivered(s, i, pieces, 0, again)
  PROVE  Delivered(s, i, others, 0, twice)
<1>1. Got(s, Len(s), i) = {}
  BY DEF Delivered, Leading
<1>2. \A n \in 1..Len(s) : ~CarriesIn(s, n, i)
  BY <1>1 DEF Got
<1>3. Leading(others, 0) = {}
  BY DEF Leading
<1> QED BY <1>1, <1>2, <1>3 DEF Delivered, AllFine

(* The content may grow, and pieces may come again.                        *)
LEMMA ContentGrows ==
  ASSUME NEW s, NEW i, NEW a \in Nat, NEW b \in Nat, a <= b, NEW k \in 0..a, NEW again,
         Delivered(s, i, Pieces(i, 1, a), k, FALSE)
  PROVE  Delivered(s, i, Pieces(i, 1, b), k, again)
<1> DEFINE p == Pieces(i, 1, a)
           q == Pieces(i, 1, b)
<1>1. /\ Len(p) = a /\ Len(q) = b /\ \A j \in 1..a : p[j] = q[j]
  <2>1. a - 1 + 1 = a /\ b - 1 + 1 = b
    OBVIOUS
  <2> QED BY <2>1 DEF Pieces
<1> HIDE DEF p, q
<1>2. \A l \in 0..a : Leading(p, l) = Leading(q, l)
  BY <1>1 DEF Leading
<1>3. ASSUME NEW n \in 1..Len(s), CarriesIn(s, n, i) PROVE FineIn(s, n, i, q, again)
  <2>1. PICK l \in 1..Len(p) : s[n].content = p[l] /\ Got(s, n - 1, i) = Leading(p, l - 1)
    BY <1>3 DEF Delivered, AllFine, FineIn, TurnIn, p
  <2>2. l \in 1..Len(q) /\ p[l] = q[l] /\ l - 1 \in 0..a
    BY <1>1, <2>1
  <2>3. Leading(p, l - 1) = Leading(q, l - 1)
    BY <1>2, <2>2
  <2> QED BY <2>1, <2>2, <2>3 DEF FineIn, TurnIn
<1>4. Got(s, Len(s), i) = Leading(q, k)
  BY <1>2 DEF Delivered, p
<1> QED BY <1>3, <1>4 DEF Delivered, AllFine, q

-----------------------------------------------------------------------------
(* What the client has of each item, whatever the translator.              *)

Pending(i) == frame.type \in EventTypes /\ frame.item = i

(* Whether pieces of the item may come a second time: the reasoning text   *)
(* of a translator that always sends it with the done frame.               *)
Again(i, pieces, twice) ==
  twice /\ items[i].kind = "reasoning" /\ items[i].phase = "done" /\ pieces = WholePieces(i)

(* The client has, or will have, all of the item that was told.            *)
Full(s, i, twice) ==
  \E pieces \in Contents(i) :
    Delivered(s, i, pieces, Len(pieces), Again(i, pieces, twice))

(* While a frame of it is in hand, the client has what was told before:    *)
(* the first k pieces.                                                     *)
Due(i, k) ==
  /\ k \in 0..items[i].told
  /\ \/ frame.type = "delta" /\ k + 1 = items[i].told
     \/ frame.type = "content_part.added" /\ k = 0
     \/ frame.type = "output_item.done" /\ frame.kind # "message" /\ k = 0
     \/ frame.type \notin {"delta", "content_part.added"} /\ k = items[i].told
FrameGives(i) ==
  /\ frame.kind = items[i].kind
  /\ frame.type \in {"content_part.added", "content_part.done"} => frame.kind = "message"
  /\ frame.type = "output_item.done" => items[i].phase = "done"
  /\ frame.pieces =
       IF frame.type = "output_item.added" THEN <<>>
       ELSE IF frame.type = "delta" THEN Pieces(i, items[i].told, items[i].told)
       ELSE WholePieces(i)
PartGiven(s, i) == \E k : Due(i, k) /\ Delivered(s, i, WholePieces(i), k, FALSE)

InOrder(s, i, twice) ==
  \E pieces \in Contents(i) : AllFine(s, i, pieces, Again(i, pieces, twice))

PieceInv(i, twice) ==
  IF output = "failed" THEN InOrder(sent, i, twice)
  ELSE IF Pending(i) THEN PartGiven(sent, i) /\ FrameGives(i)
  ELSE Full(sent, i, twice)
PiecesInv(twice) == \A i \in Items : PieceInv(i, twice)

LEMMA WholeIs ==
  ASSUME ItemsOK, NEW i \in Items
  PROVE  /\ items[i].told \in Nat /\ Len(WholePieces(i)) = items[i].told
         /\ WholePieces(i) = Pieces(i, 1, items[i].told)
         /\ WholePieces(i) \in Contents(i)
<1>1. items[i].told \in Nat
  BY DEF ItemsOK
<1>2. items[i].told - 1 + 1 = items[i].told
  BY <1>1
<1> QED BY <1>1, <1>2 DEF WholePieces, Pieces, Contents

(* All of an item that is not done is all that was told of it. *)
LEMMA FullUndone ==
  ASSUME ItemsOK, NEW i \in Items, NEW s, NEW twice, items[i].phase # "done", Full(s, i, twice)
  PROVE  Delivered(s, i, WholePieces(i), items[i].told, FALSE)
<1>1. PICK pieces \in Contents(i) :
        Delivered(s, i, pieces, Len(pieces), Again(i, pieces, twice))
  BY DEF Full
<1>2. pieces = WholePieces(i) /\ Again(i, pieces, twice) = FALSE
  BY DEF Contents, Again
<1> QED BY <1>1, <1>2, WholeIs

LEMMA FullWhole ==
  ASSUME ItemsOK, NEW i \in Items, NEW s, NEW twice,
         Delivered(s, i, WholePieces(i), items[i].told, FALSE)
  PROVE  Full(s, i, twice)
<1>1. /\ items[i].told \in Nat /\ Len(WholePieces(i)) = items[i].told
      /\ WholePieces(i) = Pieces(i, 1, items[i].told) /\ WholePieces(i) \in Contents(i)
  BY WholeIs
<1>2. ASSUME NEW again PROVE Delivered(s, i, WholePieces(i), items[i].told, again)
  <2>1. items[i].told \in 0..items[i].told /\ items[i].told <= items[i].told
    BY <1>1
  <2> QED BY <1>1, <2>1, ContentGrows
<1>3. Delivered(s, i, WholePieces(i), items[i].told, Again(i, WholePieces(i), twice))
  BY <1>2
<1>4. Delivered(s, i, WholePieces(i), Len(WholePieces(i)), Again(i, WholePieces(i), twice))
  BY ONLY <1>1, <1>3
<1> QED BY ONLY <1>1, <1>4 DEF Full

LEMMA StreamInitPieces ==
  ASSUME StreamInit, NEW twice
  PROVE  PiecesInv(twice)
<1> SUFFICES ASSUME NEW i \in Items PROVE PieceInv(i, twice)
  BY DEF PiecesInv
<1>1. /\ sent = <<>> /\ frame = NoFrame /\ output = "open"
      /\ items[i] = NoItem /\ ItemsOK
  BY StreamInitInv DEF StreamInit, PumpInit, StreamInv
<1>2. items[i].told = 0
  BY <1>1 DEF NoItem
<1>3. Delivered(sent, i, WholePieces(i), 0, FALSE)
  <2>1. Got(sent, Len(sent), i) = {} /\ 1..Len(sent) = {}
    BY <1>1 DEF Got
  <2>2. Leading(WholePieces(i), 0) = {}
    BY DEF Leading
  <2>3. AllFine(sent, i, WholePieces(i), FALSE)
    BY <2>1 DEF AllFine
  <2> QED BY <2>1, <2>2, <2>3 DEF Delivered
<1>4. Full(sent, i, twice)
  BY <1>1, <1>2, <1>3, FullWhole
<1>5. ~Pending(i)
  BY <1>1 DEF Pending, NoFrame, EventTypes
<1> QED BY <1>1, <1>4, <1>5 DEF PieceInv

(* What every frame of an item comes with. *)
IsToldOf(i, type, kind, phase, told, pieces, encrypted) ==
  /\ items[i].phase # "done" /\ items[i].kind \in {"none", kind} /\ kind \in Kinds
  /\ items[i] = NoItem => \A j \in 1..(i - 1) : items[j] # NoItem
  /\ frame = NoFrame /\ output = "open" /\ UNCHANGED <<sent, output>>
  /\ frame' = Event(type, i, kind, pieces, encrypted)
  /\ Tells(i, Item(kind, phase, told))
  /\ \/ type = "delta" /\ told = items[i].told + 1 /\ pieces = Pieces(i, told, told)
     \/ /\ type = "content_part.added" /\ kind = "message" /\ items[i].told = 0
        /\ pieces = Pieces(i, 1, told)
     \/ /\ type = "content_part.done" /\ kind = "message" /\ told = items[i].told
        /\ pieces = Pieces(i, 1, told)
     \/ /\ type = "output_item.done" /\ phase = "done"
        /\ told = items[i].told \/ (items[i].told = 0 /\ kind # "message")
        /\ pieces = Pieces(i, 1, told)
     \/ type = "output_item.added" /\ told = items[i].told /\ pieces = <<>>

SomethingTold ==
  \E i \in Items, type \in EventTypes, told \in 0..MaxPieces :
    \E kind, phase, pieces, encrypted :
      IsToldOf(i, type, kind, phase, told, pieces, encrypted)

LEMMA ThisIsTold ==
  ASSUME NEW i \in Items, NEW type \in EventTypes, NEW kind, NEW phase,
         NEW told \in 0..MaxPieces, NEW pieces, NEW encrypted,
         IsToldOf(i, type, kind, phase, told, pieces, encrypted)
  PROVE  SomethingTold
BY DEF SomethingTold

LEMMA TellsSomething ==
  ASSUME StreamInv,
         \/ \E i \in Items, kind \in ItemKinds, encrypted \in BOOLEAN :
              ItemAdded(i, kind, encrypted)
         \/ \E i \in Items, n \in 0..MaxPieces : PartAdded(i, n)
         \/ \E i \in Items, kind \in ItemKinds : Delta(i, kind)
         \/ \E i \in Items : PartDone(i)
         \/ \E i \in Items, kind \in ItemKinds, n \in 0..MaxPieces, encrypted \in BOOLEAN :
              ItemDone(i, kind, n, encrypted)
  PROVE  SomethingTold
<1>1. \A i \in Items : items[i].told \in 0..MaxPieces
  BY DEF StreamInv, ItemsOK
<1>2. /\ MaxPieces \in Nat /\ NoItem.told = 0 /\ NoItem.phase = "unborn" /\ NoItem.kind = "none"
      /\ ItemKinds \subseteq Kinds /\ "none" \notin Kinds
  BY DEF NoItem, Kinds
<1>3. ASSUME NEW i \in Items, NEW kind \in ItemKinds, NEW encrypted \in BOOLEAN,
             ItemAdded(i, kind, encrypted)
      PROVE  IsToldOf(i, "output_item.added", kind, "open", 0, <<>>, encrypted)
  BY <1>2, <1>3 DEF ItemAdded, MayBegin, Sends, Reading, IsToldOf
<1>4. ASSUME NEW i \in Items, NEW n \in 0..MaxPieces, PartAdded(i, n)
      PROVE  IsToldOf(i, "content_part.added", "message", "part", n, Pieces(i, 1, n), FALSE)
  BY <1>2, <1>4 DEF PartAdded, Sends, Reading, IsToldOf, Kinds
<1>5. ASSUME NEW i \in Items, NEW kind \in ItemKinds, Delta(i, kind)
      PROVE  /\ items[i].told + 1 \in 0..MaxPieces
             /\ IsToldOf(i, "delta", kind, IF kind = "message" THEN "part" ELSE "open",
                         items[i].told + 1,
                         Pieces(i, items[i].told + 1, items[i].told + 1), FALSE)
  <2>1. items[i].told + 1 \in 0..MaxPieces
    BY <1>1, <1>2, <1>5 DEF Delta
  <2>2. /\ items[i].phase # "done" /\ items[i].kind \in {"none", kind} /\ kind \in Kinds
        /\ items[i] = NoItem => \A j \in 1..(i - 1) : items[j] # NoItem
    BY <1>2, <1>5 DEF Delta, MayBegin
  <2> QED BY <1>5, <2>1, <2>2 DEF Delta, Sends, Reading, IsToldOf
<1>6. ASSUME NEW i \in Items, PartDone(i)
      PROVE  IsToldOf(i, "content_part.done", "message", "parted", items[i].told,
                     Pieces(i, 1, items[i].told), FALSE)
  BY <1>2, <1>6 DEF PartDone, Sends, Reading, IsToldOf, Kinds
<1>7. ASSUME NEW i \in Items, NEW kind \in ItemKinds, NEW n \in 0..MaxPieces,
             NEW encrypted \in BOOLEAN, ItemDone(i, kind, n, encrypted)
      PROVE  IsToldOf(i, "output_item.done", kind, "done", n, Pieces(i, 1, n), encrypted)
  <2>1. /\ items[i].phase # "done" /\ items[i].kind \in {"none", kind} /\ kind \in Kinds
        /\ items[i] = NoItem => \A j \in 1..(i - 1) : items[j] # NoItem
    BY <1>2, <1>7 DEF ItemDone, MayBegin
  <2>2. n = items[i].told \/ (items[i].told = 0 /\ kind # "message")
    BY <1>7 DEF ItemDone
  <2> QED BY <1>7, <2>1, <2>2 DEF ItemDone, Sends, Reading, IsToldOf
<1>8. {"output_item.added", "content_part.added", "delta", "content_part.done",
       "output_item.done"} \subseteq EventTypes /\ 0 \in 0..MaxPieces
  BY <1>2 DEF EventTypes
<1> QED
  <2>1. CASE \E i \in Items, kind \in ItemKinds, encrypted \in BOOLEAN :
               ItemAdded(i, kind, encrypted)
    BY <1>3, <1>8, <2>1, ThisIsTold
  <2>2. CASE \E i \in Items, n \in 0..MaxPieces : PartAdded(i, n)
    BY <1>4, <1>8, <2>2, ThisIsTold
  <2>3. CASE \E i \in Items, kind \in ItemKinds : Delta(i, kind)
    BY <1>5, <1>8, <2>3, ThisIsTold
  <2>4. CASE \E i \in Items : PartDone(i)
    BY <1>1, <1>6, <1>8, <2>4, ThisIsTold
  <2>5. CASE \E i \in Items, kind \in ItemKinds, n \in 0..MaxPieces, encrypted \in BOOLEAN :
               ItemDone(i, kind, n, encrypted)
    BY <1>7, <1>8, <2>5, ThisIsTold
  <2> QED BY <2>1, <2>2, <2>3, <2>4, <2>5

(* The endpoint tells more of an item. *)
LEMMA SendsPieces ==
  ASSUME ItemsOK, NEW twice, PiecesInv(twice), ItemsOK', NEW i \in Items,
         NEW type \in EventTypes, NEW kind, NEW phase, NEW told \in 0..MaxPieces,
         NEW pieces, NEW encrypted,
         IsToldOf(i, type, kind, phase, told, pieces, encrypted)
  PROVE  PiecesInv(twice)'
<1>1. /\ frame'.type = type /\ frame'.item = i /\ frame'.kind = kind /\ frame'.pieces = pieces
      /\ items'[i].kind = kind /\ items'[i].phase = phase /\ items'[i].told = told
      /\ \A j \in Items : j # i => items'[j] = items[j]
      /\ sent' = sent /\ output' = "open"
  BY DEF Event, Item, Tells, ItemsOK, IsToldOf
<1>2. \A j \in Items : ~Pending(j)
  BY DEF Pending, NoFrame, EventTypes, IsToldOf
<1>3. \A j \in Items : Full(sent, j, twice)
  BY <1>2 DEF PiecesInv, PieceInv, IsToldOf
<1>4. ASSUME NEW j \in Items, j # i PROVE PieceInv(j, twice)'
  <2>1. ~(Pending(j)')
    BY <1>1, <1>4 DEF Pending
  <2>2. Full(sent, j, twice)'
    BY <1>1, <1>3, <1>4 DEF Full, Contents, Again, WholePieces
  <2> QED BY <1>1, <2>1, <2>2 DEF PieceInv
<1>5. PieceInv(i, twice)'
  <2>0. PICK k \in Nat : k = items[i].told
    BY WholeIs
  <2>1. k \in Nat /\ told \in Nat /\ k <= told /\ k \in 0..k /\ k \in 0..told
    BY <2>0 DEF IsToldOf
  <2>2. Delivered(sent, i, Pieces(i, 1, k), k, FALSE)
    BY <1>3, <2>0, FullUndone, WholeIs DEF IsToldOf
  <2>3. WholePieces(i)' = Pieces(i, 1, told)
    BY <1>1, <2>1 DEF WholePieces
  <2>4. Due(i, k)'
    BY <1>1, <2>0, <2>1 DEF Due, EventTypes, IsToldOf
  <2>5. FrameGives(i)'
    BY <1>1, <2>3 DEF FrameGives, IsToldOf
  <2>6. Delivered(sent, i, Pieces(i, 1, told), k, FALSE)
    BY <2>1, <2>2, ContentGrows
  <2>7. Delivered(sent, i, WholePieces(i), k, FALSE)'
    BY <1>1, <2>3, <2>6
  <2>8. PartGiven(sent, i)'
    BY <2>4, <2>7 DEF PartGiven
  <2>9. Pending(i)'
    BY <1>1 DEF Pending
  <2> QED BY <1>1, <2>5, <2>8, <2>9 DEF PieceInv
<1> QED BY <1>4, <1>5 DEF PiecesInv

(* A frame of the whole response is none of an item. *)
LEMMA WholeTold ==
  ASSUME \/ Created \/ Fails \/ SendsDone
         \/ \E reason \in Reasons : Completes(reason)
  PROVE  /\ frame = NoFrame /\ output = "open" /\ UNCHANGED <<items, sent, output>>
         /\ frame'.type \notin EventTypes
<1>1. ASSUME NEW type, NEW reason, type \notin EventTypes, Sends(Whole(type, reason))
      PROVE  frame = NoFrame /\ output = "open" /\ frame'.type \notin EventTypes
  BY <1>1 DEF Sends, Reading, Whole
<1>2. \A type \in {"response.created", "response.failed", "response.completed.failed",
                 "invalid", "[DONE]", "response.completed", "response.incomplete"} :
        type \notin EventTypes
  BY DEF EventTypes
<1>3. CASE Created
  BY <1>1, <1>2, <1>3 DEF Created
<1>4. CASE Fails
  BY <1>1, <1>2, <1>4 DEF Fails
<1>5. CASE SendsDone
  BY <1>1, <1>2, <1>5 DEF SendsDone
<1>6. CASE \E reason \in Reasons : Completes(reason)
  BY <1>1, <1>2, <1>6 DEF Completes
<1> QED BY <1>3, <1>4, <1>5, <1>6

(* The endpoint says something, or the body ends. *)
LEMMA UpstreamPieces ==
  ASSUME StreamInv, NEW twice, PiecesInv(twice), UpstreamNext \/ UpstreamEnds \/ ReadFails
  PROVE  PiecesInv(twice)'
<1>1. CASE \/ \E i \in Items, kind \in ItemKinds, encrypted \in BOOLEAN :
                ItemAdded(i, kind, encrypted)
           \/ \E i \in Items, n \in 0..MaxPieces : PartAdded(i, n)
           \/ \E i \in Items, kind \in ItemKinds : Delta(i, kind)
           \/ \E i \in Items : PartDone(i)
           \/ \E i \in Items, kind \in ItemKinds, n \in 0..MaxPieces,
                 encrypted \in BOOLEAN : ItemDone(i, kind, n, encrypted)
  <2>1. SomethingTold
    BY <1>1, TellsSomething
  <2>2. PICK i \in Items, type \in EventTypes, told \in 0..MaxPieces :
          \E kind, phase, pieces, encrypted :
            IsToldOf(i, type, kind, phase, told, pieces, encrypted)
    BY <2>1 DEF SomethingTold
  <2>3. StreamInv'
    BY <1>1, EventsKeep
  <2> QED BY <2>2, <2>3, SendsPieces DEF StreamInv
<1>2. CASE \/ Created \/ Fails \/ SendsDone
           \/ \E reason \in Reasons : Completes(reason)
  <2>1. /\ frame = NoFrame /\ output = "open" /\ UNCHANGED <<items, sent, output>>
        /\ frame'.type \notin EventTypes
    BY <1>2, WholeTold
  <2>2. \A i \in Items : ~Pending(i) /\ ~(Pending(i)')
    BY <2>1 DEF Pending, NoFrame, EventTypes
  <2>3. \A i \in Items : Full(sent, i, twice)
    BY <2>1, <2>2 DEF PiecesInv, PieceInv
  <2>4. \A i \in Items : Full(sent, i, twice)'
    BY <2>1, <2>3 DEF Full, Contents, Again, WholePieces
  <2> QED BY <2>1, <2>2, <2>4 DEF PiecesInv, PieceInv
<1>3. CASE UpstreamEnds \/ ReadFails
  <2>1. /\ UNCHANGED <<items, sent, frame>> /\ frame = NoFrame /\ output = "open"
    BY <1>3, PumpStops DEF UpstreamEnds, ReadFails, PumpEnds, PumpFails, Reading
  <2>2. \A i \in Items : ~Pending(i) /\ ~(Pending(i)')
    BY <2>1 DEF Pending, NoFrame, EventTypes
  <2>3. \A i \in Items : Full(sent, i, twice)
    BY <2>1, <2>2 DEF PiecesInv, PieceInv
  <2>4. \A i \in Items : Full(sent, i, twice)'
    BY <2>1, <2>3 DEF Full, Contents, Again, WholePieces
  <2>5. ASSUME NEW i \in Items PROVE InOrder(sent, i, twice)'
    BY <2>4 DEF Full, InOrder, Delivered
  <2> QED BY <2>2, <2>4, <2>5 DEF PiecesInv, PieceInv
<1> QED BY <1>1, <1>2, <1>3, Zenon DEF UpstreamNext

LEMMA PiecesUnmoved ==
  ASSUME NEW twice, PiecesInv(twice), UNCHANGED streamVars
  PROVE  PiecesInv(twice)'
<1> SUFFICES ASSUME NEW i \in Items PROVE PieceInv(i, twice)'
  BY DEF PiecesInv
<1>1. PieceInv(i, twice)
  BY DEF PiecesInv
<1>2. /\ Contents(i)' = Contents(i) /\ WholePieces(i)' = WholePieces(i)
      /\ Pending(i)' = Pending(i) /\ FrameGives(i)' = FrameGives(i)
      /\ \A k : Due(i, k)' = Due(i, k)
      /\ \A pieces : Again(i, pieces, twice)' = Again(i, pieces, twice)
      /\ sent' = sent /\ output' = output
  BY DEF streamVars, Contents, WholePieces, Pending, FrameGives, Due, Again
<1> QED BY <1>1, <1>2 DEF PieceInv, PartGiven, InOrder, Full

(* The translator has made its frames of the one in hand.                  *)
LEMMA PumpedPieces ==
  ASSUME NEW S, NEW out \in Seq(S), sent \in Seq(S), output = "open", Emits(out),
         UNCHANGED items, NEW twice, \A i \in Items : Full(sent \o out, i, twice)
  PROVE  PiecesInv(twice)'
<1> SUFFICES ASSUME NEW i \in Items PROVE PieceInv(i, twice)'
  BY DEF PiecesInv
<1>1. /\ frame' = NoFrame /\ output' \in {"open", "failed"}
      /\ output' = "open" => sent' = sent \o out
      /\ sent' \in Seq(S) /\ Len(sent') <= Len(sent \o out)
      /\ \A n \in 1..Len(sent') : sent'[n] = (sent \o out)[n]
  BY EmitsPrefix
<1>2. ~(Pending(i)')
  BY <1>1 DEF Pending, NoFrame, EventTypes
<1>3. PICK pieces \in Contents(i) :
        Delivered(sent \o out, i, pieces, Len(pieces), Again(i, pieces, twice))
  BY DEF Full
<1>4. Contents(i)' = Contents(i) /\ Again(i, pieces, twice)' = Again(i, pieces, twice)
  BY DEF Contents, WholePieces, Again
<1>5. CASE output' = "open"
  <2>1. Full(sent, i, twice)'
    BY <1>1, <1>3, <1>4, <1>5 DEF Full
  <2> QED BY <1>2, <1>5, <2>1 DEF PieceInv
<1>6. CASE output' = "failed"
  <2>1. sent \o out \in Seq(S)
    BY ConcatProperties
  <2>2. Len(sent \o out) \in Nat /\ Len(sent') \in Nat
    BY <1>1, <2>1, LenProperties
  <2>3. AllFine(sent', i, pieces, Again(i, pieces, twice))
    BY <1>1, <1>3, <2>2, PrefixFine DEF Delivered
  <2>4. InOrder(sent, i, twice)'
    BY <1>3, <1>4, <2>3 DEF InOrder
  <2> QED BY <1>6, <2>4 DEF PieceInv
<1> QED BY <1>1, <1>5, <1>6

(* It has made none, and fails. *)
LEMMA FailedPieces ==
  ASSUME ItemsOK, NEW twice, PiecesInv(twice), output = "open", TranslationFails,
         UNCHANGED items
  PROVE  PiecesInv(twice)'
<1> SUFFICES ASSUME NEW i \in Items PROVE PieceInv(i, twice)'
  BY DEF PiecesInv
<1>1. output' = "failed" /\ sent' = sent
  BY DEF TranslationFails, ClosesOutput
<1>2. PieceInv(i, twice)
  BY DEF PiecesInv
<1>3. InOrder(sent, i, twice)
  <2>1. CASE Pending(i)
    <3>1. PICK k : Due(i, k) /\ Delivered(sent, i, WholePieces(i), k, FALSE)
      BY <1>2, <2>1 DEF PieceInv, PartGiven
    <3>2. k \in 0..items[i].told
      BY <3>1 DEF Due
    <3>3. /\ items[i].told \in Nat /\ WholePieces(i) = Pieces(i, 1, items[i].told)
          /\ WholePieces(i) \in Contents(i) /\ items[i].told <= items[i].told
      BY WholeIs
    <3>4. ASSUME NEW again PROVE Delivered(sent, i, WholePieces(i), k, again)
      BY <3>1, <3>2, <3>3, ContentGrows
    <3> QED BY <3>3, <3>4 DEF InOrder, Delivered
  <2>2. CASE ~Pending(i)
    BY <1>2, <2>2 DEF PieceInv, Full, InOrder, Delivered
  <2> QED BY <2>1, <2>2
<1>4. InOrder(sent, i, twice)'
  BY <1>1, <1>3 DEF InOrder, Contents, WholePieces, Again
<1> QED BY <1>1, <1>4 DEF PieceInv

(* An item of which a frame comes was not done, and its kind is the same   *)
(* as before if it had one.                                                *)
Active(i) == items[i].phase # "done" \/ Pending(i)

LEMMA UpstreamActive ==
  ASSUME StreamInv, NEW i \in Items, UpstreamNext \/ UpstreamEnds \/ ReadFails, Active(i)'
  PROVE  Active(i) /\ items[i].kind \in {"none", items'[i].kind}
<1>1. CASE \/ \E j \in Items, kind \in ItemKinds, encrypted \in BOOLEAN :
                ItemAdded(j, kind, encrypted)
           \/ \E j \in Items, n \in 0..MaxPieces : PartAdded(j, n)
           \/ \E j \in Items, kind \in ItemKinds : Delta(j, kind)
           \/ \E j \in Items : PartDone(j)
           \/ \E j \in Items, kind \in ItemKinds, n \in 0..MaxPieces,
                 encrypted \in BOOLEAN : ItemDone(j, kind, n, encrypted)
  <2>1. SomethingTold
    BY <1>1, TellsSomething
  <2>2. PICK j \in Items, type \in EventTypes, told \in 0..MaxPieces :
          \E kind, phase, pieces, encrypted :
            IsToldOf(j, type, kind, phase, told, pieces, encrypted)
    BY <2>1 DEF SomethingTold
  <2>3. PICK kind, phase, pieces, encrypted :
          IsToldOf(j, type, kind, phase, told, pieces, encrypted)
    BY <2>2
  <2>4. CASE i = j
    <3>1. items'[i].kind = kind
      BY <2>3, <2>4 DEF IsToldOf, Tells, Item, StreamInv, ItemsOK
    <3> QED BY <2>3, <2>4, <3>1 DEF IsToldOf, Active
  <2>5. CASE i # j
    <3>1. items'[i] = items[i] /\ frame'.item = j
      BY <2>3, <2>5 DEF IsToldOf, Tells, Event, StreamInv, ItemsOK
    <3> QED BY <2>5, <3>1 DEF Active, Pending
  <2> QED BY <2>4, <2>5
<1>2. CASE \/ Created \/ Fails \/ SendsDone
           \/ \E reason \in Reasons : Completes(reason)
  <2>1. items' = items /\ frame'.type \notin EventTypes
    BY <1>2, WholeTold
  <2> QED BY <2>1 DEF Active, Pending
<1>3. CASE UpstreamEnds \/ ReadFails
  <2>1. UNCHANGED <<items, frame>>
    BY <1>3, PumpStops
  <2> QED BY <2>1 DEF Active, Pending
<1> QED BY <1>1, <1>2, <1>3, Zenon DEF UpstreamNext

-----------------------------------------------------------------------------
(* The items appear one after the other; and the frame that ends the       *)
(* answer gives the reason for its end.                                    *)

BirthInv ==
  /\ \A i \in Items : items[i].kind = "none" => items[i] = NoItem
  /\ \A i, j \in Items : j < i /\ items[i] # NoItem => items[j] # NoItem
  /\ frame.type \in Terminals =>
       frame.reason = ReasonTold

(* An item that appears is in hand then, and is the last one.              *)
Appears(i) ==
  /\ items[i].kind = "none"
  /\ Pending(i)'
  /\ \A j \in Items : j > i => items'[j] = NoItem
KindsKept ==
  \A i \in Items : items'[i].kind = items[i].kind \/ Appears(i)

LEMMA InitBirth ==
  ASSUME StreamInit
  PROVE  BirthInv
<1>1. \A i \in Items : items[i] = NoItem
  BY DEF StreamInit
<1>2. frame.type \notin Terminals
  BY DEF StreamInit, PumpInit, NoFrame, Terminals
<1> QED BY <1>1, <1>2 DEF BirthInv

LEMMA EventBirth ==
  ASSUME ItemsOK, BirthInv, NEW i \in Items, NEW type \in EventTypes, NEW kind, NEW phase,
         NEW told \in 0..MaxPieces, NEW pieces, NEW encrypted,
         IsToldOf(i, type, kind, phase, told, pieces, encrypted)
  PROVE  BirthInv' /\ KindsKept /\ \A j \in Items : ~Pending(j)
<1>1. /\ frame'.type = type /\ frame'.item = i
      /\ items'[i] = Item(kind, phase, told) /\ kind # "none"
      /\ \A j \in Items : j # i => items'[j] = items[j]
  BY DEF Event, Tells, ItemsOK, IsToldOf, Kinds
<1>2. items'[i].kind = kind /\ items'[i] # NoItem
  BY <1>1 DEF Item, NoItem
<1>3. type \notin Terminals
  BY DEF EventTypes, Terminals
<1>4. items[i] = NoItem => \A j \in Items : j < i => items[j] # NoItem
  BY DEF IsToldOf, Items
<1>5. BirthInv'
  <2>1. ASSUME NEW j \in Items, items'[j].kind = "none" PROVE items'[j] = NoItem
    BY <1>1, <1>2, <2>1 DEF BirthInv
  <2>2. ASSUME NEW j \in Items, NEW k \in Items, k < j, items'[j] # NoItem
        PROVE  items'[k] # NoItem
    BY <1>1, <1>2, <1>4, <2>2 DEF BirthInv
  <2> QED BY <1>1, <1>3, <2>1, <2>2 DEF BirthInv
<1>6. ASSUME NEW j \in Items, items'[j].kind # items[j].kind PROVE Appears(j)
  <2>1. j = i /\ items[i].kind = "none"
    BY <1>1, <1>2, <1>6 DEF IsToldOf
  <2>2. Pending(i)'
    BY <1>1 DEF Pending
  <2>3. ASSUME NEW k \in Items, k > i PROVE items'[k] = NoItem
    <3>1. items[i] = NoItem /\ i < k /\ k # i
      BY <2>1, <2>3 DEF BirthInv, Items
    <3> QED BY <1>1, <3>1 DEF BirthInv
  <2> QED BY <2>1, <2>2, <2>3 DEF Appears
<1>7. \A j \in Items : ~Pending(j)
  BY DEF Pending, NoFrame, EventTypes, IsToldOf
<1> QED BY <1>5, <1>6, <1>7 DEF KindsKept

LEMMA UpstreamBirth ==
  ASSUME StreamInv, BirthInv, UpstreamNext \/ UpstreamEnds \/ ReadFails
  PROVE  BirthInv' /\ KindsKept /\ \A i \in Items : ~Pending(i)
<1>1. CASE \/ \E i \in Items, kind \in ItemKinds, encrypted \in BOOLEAN :
                ItemAdded(i, kind, encrypted)
           \/ \E i \in Items, n \in 0..MaxPieces : PartAdded(i, n)
           \/ \E i \in Items, kind \in ItemKinds : Delta(i, kind)
           \/ \E i \in Items : PartDone(i)
           \/ \E i \in Items, kind \in ItemKinds, n \in 0..MaxPieces,
                 encrypted \in BOOLEAN : ItemDone(i, kind, n, encrypted)
  <2>1. SomethingTold
    BY <1>1, TellsSomething
  <2>2. PICK i \in Items, type \in EventTypes, told \in 0..MaxPieces :
          \E kind, phase, pieces, encrypted :
            IsToldOf(i, type, kind, phase, told, pieces, encrypted)
    BY <2>1 DEF SomethingTold
  <2> QED BY <2>2, EventBirth DEF StreamInv
<1>2. CASE \/ Created \/ Fails \/ SendsDone
           \/ \E reason \in Reasons : Completes(reason)
  <2>1. frame = NoFrame /\ items' = items
    BY <1>2, WholeTold
  <2>2. frame'.type \in Terminals =>
          frame'.reason = ReasonTold'
    <3>0. ASSUME NEW type, NEW reason, Sends(Whole(type, reason))
          PROVE  frame'.type = type /\ frame'.reason = reason
      BY <3>0 DEF Sends, Whole
    <3>1. ASSUME Created \/ Fails \/ SendsDone PROVE frame'.type \notin Terminals
      <4>1. \A type \in {"response.created", "response.failed", "response.completed.failed",
                         "invalid", "[DONE]"} : type \notin Terminals
        BY DEF Terminals
      <4>2. CASE Created
        BY <3>0, <4>1, <4>2 DEF Created
      <4>3. CASE Fails
        BY <3>0, <4>1, <4>3 DEF Fails
      <4>4. CASE SendsDone
        BY <3>0, <4>1, <4>4 DEF SendsDone
      <4> QED BY <3>1, <4>2, <4>3, <4>4
    <3>2. ASSUME NEW reason \in Reasons, Completes(reason)
          PROVE  frame'.reason = ReasonTold'
      <4>1. frame'.reason = reason
        BY <3>0, <3>2 DEF Completes
      <4>2. ReasonTold' = reason
        <5>1. CASE upstream' = "completed" /\ reason = ""
          BY <5>1 DEF ReasonTold, Limits
        <5>2. CASE upstream' = IF reason = "" THEN "incomplete" ELSE reason
          BY <3>2, <5>2 DEF ReasonTold, Limits, Reasons
        <5> QED BY <3>2, <5>1, <5>2 DEF Completes
      <4> QED BY <4>1, <4>2
    <3> QED BY <1>2, <3>1, <3>2
  <2> QED BY <2>1, <2>2 DEF BirthInv, KindsKept, Pending, NoFrame, EventTypes
<1>3. CASE UpstreamEnds \/ ReadFails
  <2>1. UNCHANGED <<upstream, items, frame>> /\ frame = NoFrame
    BY <1>3, PumpStops
  <2> QED BY <2>1 DEF BirthInv, KindsKept, Pending, NoFrame, EventTypes,
     ReasonTold
<1> QED BY <1>1, <1>2, <1>3, Zenon DEF UpstreamNext

-----------------------------------------------------------------------------
(* What a translator makes of the frame in hand: frames without a piece,   *)
(* some pieces of the frame's item, and again frames without a piece.      *)

Brings(S, out, pieces) ==
  \E a, b, c \in Seq(S) :
    /\ out = (a \o b) \o c /\ Quiet(a) /\ Quiet(c)
    /\ Len(b) = Len(pieces)
    /\ \A n \in 1..Len(b) : b[n].type = "delta" /\ b[n].content = pieces[n]

(* Frames without a piece. *)
LEMMA FrameQuiet ==
  ASSUME NEW S, NEW f \in S, f.type # "delta"
  PROVE  <<f>> \in Seq(S) /\ Quiet(<<f>>)
<1>1. Len(<<f>>) = 1 /\ <<f>>[1] = f
  OBVIOUS
<1>2. 1..Len(<<f>>) = {1}
  BY <1>1
<1> QED BY <1>1, <1>2 DEF Quiet

LEMMA NoneQuiet ==
  ASSUME NEW S
  PROVE  <<>> \in Seq(S) /\ Quiet(<<>>) /\ Len(<<>>) = 0
BY DEF Quiet

LEMMA QuietTwo ==
  ASSUME NEW S, NEW a \in Seq(S), NEW b \in Seq(S), Quiet(a), Quiet(b)
  PROVE  Quiet(a \o b)
<1>1. Follows(a \o b, a, b)
  BY Following
<1> DEFINE t == a \o b
<1>2. /\ Len(a) \in Nat /\ Len(b) \in Nat /\ Len(t) = Len(a) + Len(b)
      /\ \A n \in 1..Len(a) : t[n] = a[n]
      /\ \A n \in 1..Len(b) : t[Len(a) + n] = b[n]
  BY <1>1 DEF Follows
<1> HIDE DEF t
<1>3. ASSUME NEW n \in 1..Len(t) PROVE t[n].type # "delta"
  <2>1. CASE n <= Len(a)
    BY <1>2, <2>1 DEF Quiet
  <2>2. CASE ~(n <= Len(a))
    <3>1. n - Len(a) \in 1..Len(b) /\ Len(a) + (n - Len(a)) = n
      BY <1>2, <2>2
    <3>2. t[n] = b[n - Len(a)]
      BY <1>2, <3>1
    <3> QED BY <3>1, <3>2 DEF Quiet
  <2> QED BY <2>1, <2>2
<1> QED BY <1>3 DEF Quiet, t

LEMMA QuietFollow ==
  ASSUME NEW S, NEW s \in Seq(S), NEW out \in Seq(S), Quiet(out), NEW i, NEW pieces, NEW k,
         NEW again, Delivered(s, i, pieces, k, again)
  PROVE  Delivered(s \o out, i, pieces, k, again)
<1>1. Follows(s \o out, s, out)
  BY Following
<1>2. CarriesNone(out, i)
  BY DEF Quiet, CarriesNone, CarriesIn
<1> QED BY <1>1, <1>2, NoneFollow

LEMMA QuietFull ==
  ASSUME NEW S, NEW out \in Seq(S), Quiet(out), sent \in Seq(S), NEW twice,
         PiecesInv(twice), output = "open", frame.type \notin EventTypes
  PROVE  \A i \in Items : Full(sent \o out, i, twice)
<1> SUFFICES ASSUME NEW i \in Items PROVE Full(sent \o out, i, twice)
  OBVIOUS
<1>1. Full(sent, i, twice)
  BY DEF PiecesInv, PieceInv, Pending
<1>2. PICK pieces \in Contents(i) :
        Delivered(sent, i, pieces, Len(pieces), Again(i, pieces, twice))
  BY <1>1 DEF Full
<1>3. Delivered(sent \o out, i, pieces, Len(pieces), Again(i, pieces, twice))
  BY <1>2, QuietFollow
<1> QED BY <1>3 DEF Full

(* The next pieces come: the client has as many more.                      *)
LEMMA NextBrought ==
  ASSUME NEW S, NEW s \in Seq(S), NEW out, NEW i, NEW more \in Seq(PiecesOf(i)),
         Brings(S, out, more), NEW pieces, Len(pieces) \in Nat, NEW k \in Nat, NEW again,
         Delivered(s, i, pieces, k, again), k + Len(more) <= Len(pieces),
         \A n \in 1..Len(more) : more[n] = pieces[k + n]
  PROVE  Delivered(s \o out, i, pieces, k + Len(more), again)
<1>1. PICK a \in Seq(S), b \in Seq(S), c \in Seq(S) :
        /\ out = (a \o b) \o c /\ Quiet(a) /\ Quiet(c) /\ Len(b) = Len(more)
        /\ \A n \in 1..Len(b) : b[n].type = "delta" /\ b[n].content = more[n]
  BY DEF Brings
<1>2. s \o a \in Seq(S) /\ (s \o a) \o b \in Seq(S) /\ a \o b \in Seq(S)
  BY <1>1, ConcatProperties
<1>3. s \o out = ((s \o a) \o b) \o c
  <2>1. s \o ((a \o b) \o c) = (s \o (a \o b)) \o c
    BY ONLY <1>2, JoinThree
  <2>2. s \o (a \o b) = (s \o a) \o b
    BY ONLY JoinThree
  <2> QED BY ONLY <1>1, <2>1, <2>2
<1>4. Delivered(s \o a, i, pieces, k, again)
  BY <1>1, QuietFollow
<1>5. CarriesNext(b, i, pieces, k)
  <2>1. ASSUME NEW n \in 1..Len(b)
        PROVE  CarriesIn(b, n, i) /\ b[n].content = pieces[k + n]
    <3>1. more[n] \in PiecesOf(i)
      BY <1>1, ElementOfSeq
    <3> QED BY <1>1, <3>1 DEF CarriesIn, PiecesOf
  <2> QED BY <1>1, <2>1 DEF CarriesNext
<1>6. Delivered((s \o a) \o b, i, pieces, k + Len(more), again)
  <2>1. Follows((s \o a) \o b, s \o a, b)
    BY <1>2, Following
  <2> QED BY <1>1, <1>4, <1>5, <2>1, NextFollow
<1>7. Delivered(((s \o a) \o b) \o c, i, pieces, k + Len(more), again)
  BY <1>1, <1>2, <1>6, QuietFollow
<1> QED BY <1>3, <1>7

(* Pieces come a second time. *)
LEMMA AgainBrought ==
  ASSUME NEW S, NEW s \in Seq(S), NEW out, NEW i, NEW more, Brings(S, out, more),
         NEW pieces, more \in Seq(Leading(pieces, Len(pieces))),
         Delivered(s, i, pieces, Len(pieces), TRUE)
  PROVE  Delivered(s \o out, i, pieces, Len(pieces), TRUE)
<1>1. PICK a \in Seq(S), b \in Seq(S), c \in Seq(S) :
        /\ out = (a \o b) \o c /\ Quiet(a) /\ Quiet(c) /\ Len(b) = Len(more)
        /\ \A n \in 1..Len(b) : b[n].type = "delta" /\ b[n].content = more[n]
  BY DEF Brings
<1>2. s \o a \in Seq(S) /\ (s \o a) \o b \in Seq(S) /\ a \o b \in Seq(S)
  BY <1>1, ConcatProperties
<1>3. s \o out = ((s \o a) \o b) \o c
  <2>1. s \o ((a \o b) \o c) = (s \o (a \o b)) \o c
    BY ONLY <1>2, JoinThree
  <2>2. s \o (a \o b) = (s \o a) \o b
    BY ONLY JoinThree
  <2> QED BY ONLY <1>1, <2>1, <2>2
<1>4. Delivered(s \o a, i, pieces, Len(pieces), TRUE)
  BY <1>1, QuietFollow
<1>5. \A n \in 1..Len(b) : b[n].content \in Leading(pieces, Len(pieces))
  BY <1>1, ElementOfSeq
<1>6. Delivered((s \o a) \o b, i, pieces, Len(pieces), TRUE)
  <2>1. Follows((s \o a) \o b, s \o a, b)
    BY <1>2, Following
  <2> QED BY <1>4, <1>5, <2>1, AgainFollow
<1>7. Delivered(((s \o a) \o b) \o c, i, pieces, Len(pieces), TRUE)
  BY <1>1, <1>2, <1>6, QuietFollow
<1> QED BY <1>3, <1>7

(* They are of one item, and leave the others as they were.                *)
LEMMA OthersBrought ==
  ASSUME NEW S, NEW s \in Seq(S), NEW out, NEW i, NEW more \in Seq(PiecesOf(i)),
         Brings(S, out, more), NEW j, j # i, NEW pieces, NEW k, NEW again,
         Delivered(s, j, pieces, k, again)
  PROVE  Delivered(s \o out, j, pieces, k, again)
<1>1. PICK a \in Seq(S), b \in Seq(S), c \in Seq(S) :
        /\ out = (a \o b) \o c /\ Quiet(a) /\ Quiet(c) /\ Len(b) = Len(more)
        /\ \A n \in 1..Len(b) : b[n].type = "delta" /\ b[n].content = more[n]
  BY DEF Brings
<1>2. s \o a \in Seq(S) /\ (s \o a) \o b \in Seq(S) /\ a \o b \in Seq(S)
  BY <1>1, ConcatProperties
<1>3. s \o out = ((s \o a) \o b) \o c
  <2>1. s \o ((a \o b) \o c) = (s \o (a \o b)) \o c
    BY ONLY <1>2, JoinThree
  <2>2. s \o (a \o b) = (s \o a) \o b
    BY ONLY JoinThree
  <2> QED BY ONLY <1>1, <2>1, <2>2
<1>4. Delivered(s \o a, j, pieces, k, again)
  BY <1>1, QuietFollow
<1>5. CarriesNone(b, j)
  <2>1. ASSUME NEW n \in 1..Len(b) PROVE ~CarriesIn(b, n, j)
    <3>1. more[n] \in PiecesOf(i)
      BY <1>1, ElementOfSeq
    <3> QED BY <1>1, <3>1 DEF CarriesIn, PiecesOf
  <2> QED BY <2>1 DEF CarriesNone
<1>6. Delivered((s \o a) \o b, j, pieces, k, again)
  <2>1. Follows((s \o a) \o b, s \o a, b)
    BY <1>2, Following
  <2> QED BY <1>4, <1>5, <2>1, NoneFollow
<1>7. Delivered(((s \o a) \o b) \o c, j, pieces, k, again)
  BY <1>1, <1>2, <1>6, QuietFollow
<1> QED BY <1>3, <1>7

(* The pieces brought for the frame in hand: its own, unless it is the     *)
(* done frame of what was streamed; or the whole reasoning text.           *)
FitsHand(pieces, twice) ==
  LET i == frame.item
      nothing == Got(sent, Len(sent), i) = {}
      ends == frame.type = "output_item.done" /\ frame.kind # "message"
  IN  \/ frame.type \in {"delta", "content_part.added"} /\ pieces = frame.pieces
      \/ /\ frame.type \notin {"delta", "content_part.added"} /\ pieces = <<>>
         /\ ends => ~nothing
      \/ /\ ends /\ nothing
         /\ \/ pieces = frame.pieces
            \/ frame.kind = "reasoning" /\ pieces = Trimmed(frame.pieces)
      \/ ends /\ twice /\ frame.kind = "reasoning" /\ pieces = Trimmed(frame.pieces)

LEMMA WholeSeq ==
  ASSUME ItemsOK, NEW i \in Items
  PROVE  WholePieces(i) \in Seq(PiecesOf(i))
<1>1. items[i].told \in Nat /\ 1 <= items[i].told + 1
  BY WholeIs
<1> QED BY <1>1, PiecesType DEF WholePieces

LEMMA WithinLeading ==
  ASSUME NEW P, NEW pieces \in Seq(P)
  PROVE  Trimmed(pieces) \in Seq(Leading(pieces, Len(pieces)))
<1>1. Len(pieces) \in Nat /\ pieces = [n \in 1..Len(pieces) |-> pieces[n]]
  BY LenProperties
<1>2. \A n \in 1..Len(pieces) : pieces[n] \in Leading(pieces, Len(pieces))
  BY DEF Leading
<1>3. pieces \in Seq(Leading(pieces, Len(pieces)))
  BY <1>1, <1>2
<1> QED BY <1>3, TrimmedType

(* It then has all of what was told of the frame's item. *)
LEMMA HandFull ==
  ASSUME ItemsOK, FrameFits, frame.type \in EventTypes, NEW i \in Items, i = frame.item,
         NEW S, sent \in Seq(S), NEW out, NEW more, Brings(S, out, more),
         NEW twice, PartGiven(sent, i), FrameGives(i), FitsHand(more, twice)
  PROVE  Full(sent \o out, i, twice)
<1>1. PICK k : Due(i, k) /\ Delivered(sent, i, WholePieces(i), k, FALSE)
  BY DEF PartGiven
<1> DEFINE w == WholePieces(i)
           told == items[i].told
<1>2. /\ told \in Nat /\ Len(w) = told /\ k \in 0..told /\ k \in Nat /\ told \in 0..told
      /\ w \in Seq(PiecesOf(i)) /\ w \in Contents(i)
      /\ w = Pieces(i, 1, told) /\ told <= told
  BY <1>1, WholeIs, WholeSeq DEF Due
<1>3. \A n \in 1..told : w[n] = Piece(i, n)
  <2>1. told - 1 + 1 = told /\ \A n \in 1..told : 1 + n - 1 = n
    BY <1>2
  <2> QED BY <1>2, <2>1 DEF Pieces
<1> HIDE DEF w, told
<1>4. ASSUME NEW again PROVE Delivered(sent, i, w, k, again)
  BY <1>1, <1>2, ContentGrows DEF w, told
<1>5. ASSUME \A again : Delivered(sent \o out, i, w, told, again)
      PROVE  Full(sent \o out, i, twice)
  BY <1>2, <1>5 DEF Full, w
<1>6. ASSUME more = <<>>, k = told PROVE Full(sent \o out, i, twice)
  <2>1. more \in Seq(PiecesOf(i)) /\ Len(more) = 0 /\ 1..Len(more) = {} /\ k + Len(more) = told
    BY <1>2, <1>6
  <2>2. ASSUME NEW again PROVE Delivered(sent \o out, i, w, told, again)
    BY <1>2, <1>4, <2>1, NextBrought
  <2> QED BY <1>5, <2>2
<1>7. CASE frame.type \in {"delta", "content_part.added"} /\ more = frame.pieces
  <2>1. /\ more \in Seq(PiecesOf(i)) /\ k + Len(more) = told
        /\ \A n \in 1..Len(more) : more[n] = w[k + n]
    <3>1. CASE frame.type = "delta"
      <4>1. more = Pieces(i, told, told) /\ k + 1 = told
        BY <1>1, <1>7, <3>1 DEF FrameGives, Due, told
      <4>2. Len(more) = 1 /\ more[1] = Piece(i, told) /\ 1..Len(more) = {1}
        <5>1. told - told + 1 = 1 /\ told + 1 - 1 = told
          BY <1>2
        <5> QED BY <4>1, <5>1 DEF Pieces
      <4>3. w[k + 1] = Piece(i, told)
        BY <1>2, <1>3, <4>1
      <4>4. more \in Seq(PiecesOf(i))
        BY <1>2, <4>1, PiecesType
      <4> QED BY <4>1, <4>2, <4>3, <4>4
    <3>2. CASE frame.type = "content_part.added"
      <4>1. more = w /\ k = 0
        BY <1>1, <1>7, <3>2 DEF FrameGives, Due, w
      <4> QED BY <1>2, <4>1
    <3> QED BY <1>7, <3>1, <3>2
  <2>2. ASSUME NEW again PROVE Delivered(sent \o out, i, w, told, again)
    <3>1. k + Len(more) <= Len(w)
      BY <1>2, <2>1
    <3>2. Delivered(sent \o out, i, w, k + Len(more), again)
      BY <1>2, <1>4, <2>1, <3>1, NextBrought
    <3> QED BY <2>1, <3>2
  <2> QED BY <1>5, <2>2
<1>8. Got(sent, Len(sent), i) = Leading(w, k)
  BY <1>1 DEF Delivered, w
<1>9. Got(sent, Len(sent), i) = {} => k = 0
  <2>1. k # 0 => 1 \in 1..k
    BY <1>2
  <2> QED BY <1>8, <2>1 DEF Leading
<1>10. Got(sent, Len(sent), i) # {} => k # 0
  BY <1>8 DEF Leading
<1>11. CASE /\ frame.type \notin {"delta", "content_part.added"} /\ more = <<>>
            /\ frame.type = "output_item.done" /\ frame.kind # "message" =>
                 Got(sent, Len(sent), i) # {}
  <2>1. k = told
    BY <1>1, <1>10, <1>11 DEF Due, told
  <2> QED BY <1>6, <1>11, <2>1
<1>12. ASSUME k = 0, frame.type = "output_item.done", frame.kind # "message",
              \/ more = frame.pieces
              \/ frame.kind = "reasoning" /\ more = Trimmed(frame.pieces)
       PROVE  Full(sent \o out, i, twice)
  <2>1. more \in Contents(i) /\ more \in Seq(PiecesOf(i))
    <3>1. frame.pieces = w
      BY <1>12 DEF FrameGives, w
    <3>2. frame.kind = "reasoning" => Trimmed(w) \in Contents(i)
      BY <1>12 DEF FrameGives, Contents, w
    <3>3. Trimmed(w) \in Seq(PiecesOf(i))
      BY <1>2, TrimmedType
    <3> QED BY <1>2, <1>12, <3>1, <3>2, <3>3
  <2>2. ASSUME NEW again PROVE Delivered(sent \o out, i, more, Len(more), again)
    <3>1. Delivered(sent, i, more, 0, again)
      BY <1>4, <1>12, NothingDelivered
    <3>2. /\ Len(more) \in Nat /\ 0 + Len(more) = Len(more) /\ 0 \in Nat
          /\ 0 + Len(more) <= Len(more) /\ \A n \in 1..Len(more) : more[n] = more[0 + n]
      BY <2>1
    <3>3. Delivered(sent \o out, i, more, 0 + Len(more), again)
      BY <2>1, <3>1, <3>2, NextBrought
    <3> QED BY <3>2, <3>3
  <2>3. Delivered(sent \o out, i, more, Len(more), Again(i, more, twice))
    BY <2>2
  <2> QED BY <2>1, <2>3 DEF Full
<1>13. CASE /\ frame.type = "output_item.done" /\ twice /\ frame.kind = "reasoning"
            /\ more = Trimmed(frame.pieces)
  <2>1. CASE k = 0
    BY <1>12, <1>13, <2>1
  <2>2. CASE k # 0
    <3>1. k = told
      BY <1>1, <1>13, <2>2 DEF Due, told
    <3>2. more \in Seq(Leading(w, Len(w)))
      BY <1>2, <1>13, WithinLeading DEF FrameGives, w
    <3>3. Delivered(sent \o out, i, w, Len(w), TRUE)
      BY <1>2, <1>4, <3>1, <3>2, AgainBrought
    <3>4. Again(i, w, twice) = TRUE
      BY <1>13 DEF Again, FrameGives, w
    <3> QED BY <1>2, <3>3, <3>4 DEF Full
  <2> QED BY <2>1, <2>2
<1>14. frame.item = i
  OBVIOUS
<1> QED BY <1>7, <1>9, <1>11, <1>12, <1>13, <1>14 DEF FitsHand

(* And of every other item. *)
LEMMA AllFull ==
  ASSUME ItemsOK, FrameFits, output = "open", frame.type \in EventTypes,
         NEW S, sent \in Seq(S), NEW out, NEW more \in Seq(PiecesOf(frame.item)),
         Brings(S, out, more), NEW twice, PiecesInv(twice), FitsHand(more, twice)
  PROVE  \A i \in Items : Full(sent \o out, i, twice)
<1> SUFFICES ASSUME NEW i \in Items PROVE Full(sent \o out, i, twice)
  OBVIOUS
<1>1. CASE i = frame.item
  <2>1. PartGiven(sent, i) /\ FrameGives(i)
    BY <1>1 DEF PiecesInv, PieceInv, Pending
  <2> QED BY <1>1, <2>1, HandFull
<1>2. CASE i # frame.item
  <2>1. Full(sent, i, twice)
    BY <1>2 DEF PiecesInv, PieceInv, Pending
  <2>2. PICK pieces \in Contents(i) :
          Delivered(sent, i, pieces, Len(pieces), Again(i, pieces, twice))
    BY <2>1 DEF Full
  <2>3. Delivered(sent \o out, i, pieces, Len(pieces), Again(i, pieces, twice))
    BY <1>2, <2>2, OthersBrought
  <2> QED BY <2>3 DEF Full
<1> QED BY <1>1, <1>2

(* What it has of any item then. *)
LEMMA GotBrought ==
  ASSUME NEW S, NEW s \in Seq(S), NEW out, NEW i, NEW more \in Seq(PiecesOf(i)),
         Brings(S, out, more), NEW j
  PROVE  Got(s \o out, Len(s \o out), j)
           = Got(s, Len(s), j) \cup (IF j = i THEN Leading(more, Len(more)) ELSE {})
<1>1. PICK a \in Seq(S), b \in Seq(S), c \in Seq(S) :
        /\ out = (a \o b) \o c /\ Quiet(a) /\ Quiet(c) /\ Len(b) = Len(more)
        /\ \A n \in 1..Len(b) : b[n].type = "delta" /\ b[n].content = more[n]
  BY DEF Brings
<1>2. s \o a \in Seq(S) /\ (s \o a) \o b \in Seq(S) /\ a \o b \in Seq(S)
  BY <1>1, ConcatProperties
<1>3. s \o out = ((s \o a) \o b) \o c
  <2>1. s \o ((a \o b) \o c) = (s \o (a \o b)) \o c
    BY ONLY <1>2, JoinThree
  <2>2. s \o (a \o b) = (s \o a) \o b
    BY ONLY JoinThree
  <2> QED BY ONLY <1>1, <2>1, <2>2
<1>4. ASSUME NEW x \in Seq(S), NEW y \in Seq(S)
      PROVE  Got(x \o y, Len(x \o y), j) = Got(x, Len(x), j) \cup Got(y, Len(y), j)
  <2>1. Follows(x \o y, x, y)
    BY Following
  <2>2. Len(y) \in 0..Len(y) /\ Len(x \o y) = Len(x) + Len(y)
    BY <2>1 DEF Follows
  <2> QED BY <2>1, <2>2, GotMore
<1>5. Got(a, Len(a), j) = {} /\ Got(c, Len(c), j) = {}
  BY <1>1 DEF Got, Quiet, CarriesIn
<1>6. Got(b, Len(b), j) = IF j = i THEN Leading(more, Len(more)) ELSE {}
  <2>1. \A n \in 1..Len(b) : more[n] \in PiecesOf(i)
    BY <1>1, ElementOfSeq
  <2>2. \A n \in 1..Len(b) : CarriesIn(b, n, j) <=> j = i
    BY <1>1, <2>1 DEF CarriesIn, PiecesOf
  <2> QED BY <1>1, <2>2 DEF Got, Leading
<1>7. /\ Got(s \o a, Len(s \o a), j) = Got(s, Len(s), j) \cup Got(a, Len(a), j)
      /\ Got((s \o a) \o b, Len((s \o a) \o b), j)
           = Got(s \o a, Len(s \o a), j) \cup Got(b, Len(b), j)
      /\ Got(((s \o a) \o b) \o c, Len(((s \o a) \o b) \o c), j)
           = Got((s \o a) \o b, Len((s \o a) \o b), j) \cup Got(c, Len(c), j)
  BY <1>1, <1>2, <1>4
<1> QED BY ONLY <1>3, <1>5, <1>6, <1>7

LEMMA GotQuiet ==
  ASSUME NEW S, NEW s \in Seq(S), NEW out \in Seq(S), Quiet(out), NEW j
  PROVE  Got(s \o out, Len(s \o out), j) = Got(s, Len(s), j)
<1>1. Follows(s \o out, s, out)
  BY Following
<1>2. Len(out) \in 0..Len(out) /\ Len(s \o out) = Len(s) + Len(out)
  BY <1>1 DEF Follows
<1>3. Got(out, Len(out), j) = {}
  BY DEF Got, Quiet, CarriesIn
<1>4. Got(s \o out, Len(s) + Len(out), j) = Got(s, Len(s), j) \cup Got(out, Len(out), j)
  BY <1>1, <1>2, GotMore
<1> QED BY ONLY <1>2, <1>3, <1>4

LEMMA NothingLeading ==
  ASSUME NEW P, NEW pieces \in Seq(P)
  PROVE  Leading(pieces, Len(pieces)) = {} <=> pieces = <<>>
<1>1. Len(pieces) \in Nat
  BY LenProperties
<1>2. ASSUME pieces = <<>> PROVE Leading(pieces, Len(pieces)) = {}
  <2>1. 1..Len(pieces) = {}
    BY <1>2
  <2> QED BY <2>1 DEF Leading
<1>3. ASSUME pieces # <<>> PROVE Leading(pieces, Len(pieces)) # {}
  <2>1. Len(pieces) # 0
    BY <1>3, EmptySeq
  <2>2. 1 \in 1..Len(pieces)
    BY <1>1, <2>1
  <2>3. pieces[1] \in Leading(pieces, Len(pieces))
    BY <2>2 DEF Leading
  <2> QED BY <2>3
<1> QED BY <1>2, <1>3

(* The properties of the translators, of what is sent. *)
LEMMA InTurnIn ==
  ASSUME NEW i
  PROVE  /\ \A n : Carries(n, i) <=> CarriesIn(sent, n, i)
         /\ \A n : Received(i, n) = Got(sent, n, i)
         /\ \A n, pieces : InTurn(n, i, pieces) <=> TurnIn(sent, n, i, pieces)
<1>1. \A n : Carries(n, i) <=> CarriesIn(sent, n, i)
  BY DEF Carries, CarriesIn, At
<1>2. \A n : Received(i, n) = Got(sent, n, i)
  BY <1>1 DEF Received, Got
<1> QED BY <1>1, <1>2 DEF InTurn, TurnIn

-----------------------------------------------------------------------------
(* The answer as one document. *)

LEMMA WholeContent ==
  ASSUME ItemsOK, NEW i \in Items
  PROVE  Leading(WholePieces(i), items[i].told) = Content(i)
<1>1. items[i].told \in Nat /\ items[i].told - 1 + 1 = items[i].told
  BY WholeIs
<1>2. \A k \in 1..items[i].told : WholePieces(i)[k] = Piece(i, k)
  <2>1. \A k \in 1..items[i].told : 1 + k - 1 = k
    BY <1>1
  <2> QED BY <1>1, <2>1 DEF WholePieces, Pieces
<1> QED BY <1>2 DEF Leading, Content

(* An item of which the client has all, each piece once, is read as it is  *)
(* in the document.                                                        *)
CarriedBy(s, i) == {n \in 1..Len(s) : CarriesIn(s, n, i)}
InDocument(s, i, pieces) ==
  /\ {s[n].content : n \in CarriedBy(s, i)} = pieces
  /\ \A m, n \in CarriedBy(s, i) : m < n => Precedes(s[m].content, s[n].content)

(* Pieces of one item, each further on in it than those before.            *)
Rising(i, pieces) ==
  /\ Len(pieces) \in Nat
  /\ \A k \in 1..Len(pieces) : pieces[k].item = i
  /\ \A k, l \in 1..Len(pieces) : l < k => pieces[l].piece < pieces[k].piece

LEMMA RisingInOrder ==
  ASSUME NEW i, NEW s, NEW pieces, Rising(i, pieces),
         Delivered(s, i, pieces, Len(pieces), FALSE)
  PROVE  InDocument(s, i, Leading(pieces, Len(pieces)))
<1>1. {s[n].content : n \in CarriedBy(s, i)} = Leading(pieces, Len(pieces))
  BY DEF Delivered, Got, CarriedBy
<1>2. ASSUME NEW m \in CarriedBy(s, i), NEW n \in CarriedBy(s, i), m < n
      PROVE  Precedes(s[m].content, s[n].content)
  <2>1. PICK k \in 1..Len(pieces) :
          s[n].content = pieces[k] /\ Got(s, n - 1, i) = Leading(pieces, k - 1)
    BY DEF Delivered, AllFine, FineIn, TurnIn, CarriedBy
  <2>2. m \in 1..(n - 1)
    BY <1>2 DEF CarriedBy
  <2>3. s[m].content \in Got(s, n - 1, i)
    BY <2>2 DEF Got, CarriedBy
  <2>4. PICK l \in 1..(k - 1) : s[m].content = pieces[l]
    BY <2>1, <2>3 DEF Leading
  <2>5. l \in 1..Len(pieces) /\ l < k
    BY <2>1 DEF Rising
  <2> QED BY <2>1, <2>4, <2>5 DEF Rising, Precedes
<1> QED BY <1>1, <1>2 DEF InDocument

LEMMA WholePiece ==
  ASSUME ItemsOK, NEW i \in Items
  PROVE  /\ items[i].told \in Nat /\ Len(WholePieces(i)) = items[i].told
         /\ \A k \in 1..items[i].told : WholePieces(i)[k] = Piece(i, k)
<1>1. items[i].told \in Nat /\ Len(WholePieces(i)) = items[i].told
      /\ items[i].told - 1 + 1 = items[i].told
  BY WholeIs
<1>2. \A k \in 1..items[i].told : 1 + k - 1 = k
  BY <1>1
<1> QED BY <1>1, <1>2 DEF WholePieces, Pieces

LEMMA ItemInOrder ==
  ASSUME ItemsOK, NEW i \in Items, NEW s,
         Delivered(s, i, WholePieces(i), items[i].told, FALSE)
  PROVE  InDocument(s, i, Content(i))
<1>1. Rising(i, WholePieces(i)) /\ Len(WholePieces(i)) = items[i].told
  <2>1. /\ items[i].told \in Nat /\ Len(WholePieces(i)) = items[i].told
        /\ \A k \in 1..items[i].told : WholePieces(i)[k] = Piece(i, k)
    BY WholePiece
  <2>2. \A k \in 1..items[i].told : WholePieces(i)[k].item = i /\ WholePieces(i)[k].piece = k
    BY <2>1, PieceFields
  <2> QED BY <2>1, <2>2 DEF Rising
<1> QED BY <1>1, RisingInOrder, WholeContent

(* The pieces of item i from one on to another, and what remains of them   *)
(* without the white space at their ends.                                  *)
Span(i, K) == {Piece(i, k) : k \in K}
Solid(K) == {k \in K : k \notin BlankPieces}
Between(K) == {k \in K : \E first, last \in Solid(K) : first <= k /\ k <= last}

LEMMA InnerIs ==
  ASSUME NEW i, NEW K
  PROVE  Inner(Span(i, K)) = Span(i, Between(K))
<1> DEFINE solid == {p \in Span(i, K) : p.piece \notin BlankPieces}
<1>1. \A k : Piece(i, k).piece = k
  BY PieceFields
<1>2. ASSUME NEW p PROVE p \in solid <=> \E k \in Solid(K) : p = Piece(i, k)
  BY <1>1 DEF Span, Solid
<1> HIDE DEF solid
<1>3. ASSUME NEW k \in K
      PROVE  (\E first, last \in solid : first.piece <= k /\ k <= last.piece) <=>
               \E first, last \in Solid(K) : first <= k /\ k <= last
  BY <1>1, <1>2
<1>4. Inner(Span(i, K)) =
        {p \in Span(i, K) :
           \E first, last \in solid : first.piece <= p.piece /\ p.piece <= last.piece}
  BY DEF Inner, solid
<1>5. ASSUME NEW p PROVE p \in Inner(Span(i, K)) <=> p \in Span(i, Between(K))
  BY <1>1, <1>3, <1>4 DEF Span, Between
<1> QED BY <1>5

(* Trimmed content is part of the whole, and is trimmed already. *)
LEMMA TrimmedContent ==
  ASSUME ItemsOK, NEW i \in Items
  PROVE  LET pieces == Trimmed(WholePieces(i))
         IN  Rising(i, pieces) /\ Inner(Leading(pieces, Len(pieces))) = Inner(Content(i))
<1> DEFINE w == WholePieces(i)
           solid == {n \in 1..Len(w) : w[n].piece \notin BlankPieces}
           K == 1..items[i].told
<1>1. /\ items[i].told \in Nat /\ Len(w) = items[i].told /\ w \in Seq(PiecesOf(i))
      /\ \A k \in K : w[k] = Piece(i, k)
  BY WholePiece, WholeSeq
<1>2. solid = Solid(K)
  <2>1. \A k \in K : w[k].piece = k
    BY <1>1, PieceFields
  <2> QED BY <1>1, <2>1 DEF Solid
<1>3. Content(i) = Span(i, K)
  BY DEF Content, Span
<1>4. Trimmed(w) = IF solid = {} THEN <<>> ELSE SubSeq(w, Min(solid), Max(solid))
  BY DEF Trimmed
<1> HIDE DEF w, solid
<1>5. CASE solid = {}
  <2>1. Trimmed(w) = <<>> /\ Len(Trimmed(w)) = 0 /\ 1..0 = {}
    BY <1>4, <1>5
  <2>2. Rising(i, Trimmed(w))
    BY <2>1 DEF Rising
  <2>3. Leading(Trimmed(w), Len(Trimmed(w))) = {}
    BY <2>1 DEF Leading
  <2>4. Between(K) = {} /\ Span(i, Between(K)) = {}
    BY <1>2, <1>5 DEF Between, Span
  <2>5. Inner({}) = {}
    BY DEF Inner
  <2> QED BY <1>3, <2>2, <2>3, <2>4, <2>5, InnerIs DEF w
<1>6. CASE solid # {}
  <2> DEFINE low == Min(solid)
             high == Max(solid)
             pieces == Trimmed(w)
             size == high - low + 1
  <2>1. /\ low \in solid /\ high \in solid /\ \A k \in solid : low <= k /\ k <= high
        /\ solid \subseteq K
    BY <1>1, <1>2, <1>6, EndsOfSet DEF Solid
  <2> HIDE DEF low, high
  <2>2. low \in K /\ high \in K /\ low <= high /\ size \in Nat
    BY <1>1, <2>1
  <2>3. \A k \in low..high : w[k] \in PiecesOf(i)
    BY <1>1, <2>2, ElementOfSeq
  <2>4. pieces = SubSeq(w, low, high)
    BY <1>4, <1>6 DEF low, high
  <2> HIDE DEF pieces
  <2>5. /\ Len(pieces) = size
        /\ \A k \in 1..size : pieces[k] = w[low + k - 1]
    BY <1>1, <2>2, <2>3, <2>4, SubSeqProperties
  <2>6. \A k \in 1..size : pieces[k] = Piece(i, low + k - 1)
    BY <1>1, <2>2, <2>5
  <2>7. Rising(i, pieces)
    <3>1. \A k \in 1..size : pieces[k].item = i /\ pieces[k].piece = low + k - 1
      BY <2>6, PieceFields
    <3> QED BY <2>2, <2>5, <3>1 DEF Rising
  <2>8. Leading(pieces, size) = Span(i, low..high)
    <3>1. ASSUME NEW k \in 1..size PROVE pieces[k] \in Span(i, low..high)
      <4>1. low + k - 1 \in low..high
        BY <2>2
      <4> QED BY <2>6, <4>1 DEF Span
    <3>2. ASSUME NEW k \in low..high PROVE \E j \in 1..size : Piece(i, k) = pieces[j]
      <4>1. k - low + 1 \in 1..size /\ low + (k - low + 1) - 1 = k
        BY <2>2
      <4> QED BY <2>6, <4>1
    <3> QED BY <3>1, <3>2 DEF Leading, Span
  <2>9. Solid(low..high) = solid
    BY <1>1, <1>2, <2>1, <2>2 DEF Solid
  <2>10. Between(low..high) = Between(K)
    BY <1>1, <1>2, <2>1, <2>2, <2>9 DEF Between
  <2> QED BY <1>3, <2>5, <2>7, <2>8, <2>10, InnerIs DEF pieces, w
<1> QED BY <1>5, <1>6

(* What the client has of an item it has all of. *)
LEMMA FullInDocument ==
  ASSUME ItemsOK, NEW i \in Items, NEW s, Full(s, i, FALSE)
  PROVE  \E pieces : InDocument(s, i, pieces) /\ Inner(pieces) = Inner(Content(i))
<1>1. PICK pieces \in Contents(i) :
        Delivered(s, i, pieces, Len(pieces), Again(i, pieces, FALSE))
  BY DEF Full
<1>2. Delivered(s, i, pieces, Len(pieces), FALSE)
  BY <1>1 DEF Again
<1>3. pieces = WholePieces(i) \/ pieces = Trimmed(WholePieces(i))
  BY DEF Contents
<1>4. CASE pieces = WholePieces(i)
  BY <1>2, <1>4, ItemInOrder, WholeIs
<1>5. CASE pieces = Trimmed(WholePieces(i))
  BY <1>2, <1>5, TrimmedContent, RisingInOrder
<1> QED BY <1>3, <1>4, <1>5

=============================================================================
