----------------------------- MODULE SSEDecoder -----------------------------
(***************************************************************************)
(* internal/sse/decoder.go: the decoder of one event stream.  The body     *)
(* comes in chunks that are cut anywhere, also within a line end; Feed     *)
(* appends a chunk to the buffer and hands out a frame for each blank line *)
(* it finds, one Cut for each turn of its loop; Flush hands out what is    *)
(* left when the body has ended.                                           *)
(***************************************************************************)
EXTENDS Integers, Sequences

CONSTANTS Byte,            \* what a body is made of
          LF, CR           \* \n and \r

ASSUME ByteAssumption == {LF, CR} \subseteq Byte /\ LF # CR

VARIABLES text,            \* the body, as far as the endpoint has written it
          closed,          \* the body has ended
          read,            \* how much of it the chunks so far have brought
          buffer,          \* Decoder.buffer
          cuts,            \* where in text the frames handed out end
          flushed          \* Flush has been called

decoderVars == <<text, closed, read, buffer, cuts, flushed>>

BlankLine == <<LF, LF>>
BlankLineCR == <<CR, LF, CR, LF>>

(* bytes.Index: where sep begins in raw, 0 when it does not.               *)
Begins(sep, raw, n) ==
  n + Len(sep) - 1 <= Len(raw) /\ \A i \in 1..Len(sep) : raw[n + i - 1] = sep[i]
Index(raw, sep) ==
  IF \E n \in 1..Len(raw) : Begins(sep, raw, n)
  THEN CHOOSE n \in 1..Len(raw) :
         Begins(sep, raw, n) /\ \A m \in 1..(n-1) : ~Begins(sep, raw, m)
  ELSE 0

CutAt(n) == IF n = 0 THEN 0 ELSE cuts[n]

-----------------------------------------------------------------------------
(* Variants of the definitions below, each with a seeded fault. *)

FrameEndPreferringLF(raw) ==
  IF Index(raw, BlankLine) # 0 THEN Index(raw, BlankLine) + 1
  ELSE IF Index(raw, BlankLineCR) # 0 THEN Index(raw, BlankLineCR) + 3 ELSE 0
NothingTrailing == <<>>

-----------------------------------------------------------------------------
DecoderInit ==
  /\ text = <<>> /\ closed = FALSE
  /\ read = 0
  /\ buffer = <<>>
  /\ cuts = <<>>
  /\ flushed = FALSE

(* The endpoint writes on, and may end the body with it.                   *)
Write(bytes, last) ==
  /\ ~closed
  /\ text' = text \o bytes
  /\ closed' = last
  /\ UNCHANGED <<read, buffer, cuts, flushed>>

(* frameEnd: how long the first frame of raw is with its blank line, 0 when *)
(* raw holds none.                                                         *)
FrameEnd(raw) ==
  LET lf   == Index(raw, BlankLine)
      crlf == Index(raw, BlankLineCR)
  IN  IF lf = 0 /\ crlf = 0 THEN 0
      ELSE IF crlf = 0 \/ (lf # 0 /\ lf < crlf) THEN lf + 1
      ELSE crlf + 3

(* A chunk is read once the loop of the last Feed has ended.               *)
Feed(n) ==
  /\ ~flushed
  /\ FrameEnd(buffer) = 0
  /\ n \in 1..(Len(text) - read)
  /\ buffer' = buffer \o SubSeq(text, read + 1, read + n)
  /\ read' = read + n
  /\ UNCHANGED <<text, closed, cuts, flushed>>

FirstFrame == SubSeq(buffer, 1, FrameEnd(buffer))

Cut ==
  /\ FrameEnd(buffer) # 0
  /\ buffer' = SubSeq(buffer, FrameEnd(buffer) + 1, Len(buffer))
  /\ cuts' = Append(cuts, CutAt(Len(cuts)) + FrameEnd(buffer))
  /\ UNCHANGED <<text, closed, read, flushed>>

(* What Flush returns: nothing when only white space is left.              *)
Trailing ==
  IF \A n \in 1..Len(buffer) : buffer[n] \in {LF, CR} THEN <<>> ELSE buffer

Flush ==
  /\ closed /\ read = Len(text) /\ ~flushed
  /\ FrameEnd(buffer) = 0
  /\ buffer' = <<>>
  /\ flushed' = TRUE
  /\ UNCHANGED <<text, closed, read, cuts>>

DecoderNext ==
  \/ \E bytes \in Seq(Byte), last \in BOOLEAN : Write(bytes, last)
  \/ \E n \in Nat : Feed(n)
  \/ Cut
  \/ Flush

DecoderSpec == DecoderInit /\ [][DecoderNext]_decoderVars

-----------------------------------------------------------------------------
(* Properties. *)

DecoderTypeOK ==
  /\ text \in Seq(Byte)
  /\ closed \in BOOLEAN /\ flushed \in BOOLEAN
  /\ read \in 0..Len(text)
  /\ buffer \in Seq(Byte)
  /\ cuts \in Seq(1..Len(text))

(* A blank line that lies after position from ends at position m.          *)
BlankLineEnds(from, m) ==
  \/ m - 2 >= from /\ text[m-1] = LF /\ text[m] = LF
  \/ /\ m - 4 >= from
     /\ text[m-3] = CR /\ text[m-2] = LF /\ text[m-1] = CR /\ text[m] = LF

(* However the chunks were cut (sse/decoder.go:9-25), the frames are those *)
(* of the body as a whole: each ends where the first blank line after the  *)
(* frame before it ends, and when Flush is called none is left.            *)
CutsOfTheWhole ==
  /\ \A n \in 1..Len(cuts) :
       /\ BlankLineEnds(CutAt(n-1), cuts[n])
       /\ \A m \in CutAt(n-1)..(cuts[n] - 1) : ~BlankLineEnds(CutAt(n-1), m)
  /\ flushed => \A m \in 1..Len(text) : ~BlankLineEnds(CutAt(Len(cuts)), m)
=============================================================================
