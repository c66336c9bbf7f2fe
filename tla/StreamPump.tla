----------------------------- MODULE StreamPump -----------------------------
(***************************************************************************)
(* The goroutine pumpStream of internal/provider/executor.go, whatever the *)
(* protocols on its two sides: it has a frame in hand or reads on, emits   *)
(* what a translator makes of the frame, and closes its output once.  The  *)
(* modules of the streams extend this one.                                 *)
(***************************************************************************)
EXTENDS Integers, Sequences, FiniteSets

VARIABLES frame,           \* the frame in pumpStream's hands, or NoFrame
          sent,            \* the frames host.Emit has taken, in order
          output           \* the output stream: "open", "ended" or "failed"

pumpVars == <<frame, sent, output>>

NoFrame == [type |-> "none"]

PumpInit ==
  /\ frame = NoFrame
  /\ sent = <<>>
  /\ output = "open"

Reading == frame = NoFrame /\ output = "open"

(* The deferred function: it closes the upstream, and the output once,     *)
(* with an error or without.                                               *)
ClosesOutput(how) == output' = how /\ frame' = NoFrame

(* The translator returned out: each frame goes to host.Emit, and an error *)
(* of that (the client is gone) ends the pump.                             *)
Emits(out) ==
  \/ sent' = sent \o out /\ frame' = NoFrame /\ output' = output
  \/ \E k \in 0..(Len(out) - 1) :
       sent' = sent \o SubSeq(out, 1, k) /\ ClosesOutput("failed")

(* The translator returned an error: nothing of this frame is emitted.     *)
TranslationFails == ClosesOutput("failed") /\ sent' = sent

(* chunk.Done: the upstream's body has ended, wherever the answer stood.   *)
PumpEnds == Reading /\ ClosesOutput("ended") /\ sent' = sent

(* ReadStream fails, or the chunk carries an error.                        *)
PumpFails == Reading /\ ClosesOutput("failed") /\ sent' = sent

-----------------------------------------------------------------------------
(* What the properties of the translators are about. *)

At(n, type) == sent[n].type = type

(* No frame is still to be translated, and none was lost to an error.      *)
Settled == frame = NoFrame /\ output # "failed"

(* The order the pieces of content have when the answer is read as one     *)
(* document, where each of them is there once.                             *)
Precedes(p, q) == p.item < q.item \/ (p.item = q.item /\ p.piece < q.piece)

(* The frames in where, a set of places, give all of the pieces and no     *)
(* other; and they give them in that order, none twice.                    *)
Gives(where, pieces) == {sent[n].content : n \in where} = pieces
InDocumentOrder(where) ==
  \A m, n \in where : m < n => Precedes(sent[m].content, sent[n].content)

PumpTypeOK == output \in {"open", "ended", "failed"}
=============================================================================
