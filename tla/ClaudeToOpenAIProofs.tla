------------------------ MODULE ClaudeToOpenAIProofs ------------------------
(***************************************************************************)
(* Proofs about ClaudeToOpenAI and the decoder it reads through.           *)
(*                                                                         *)
(* The decoder first: the frames of a body are those of the body as a      *)
(* whole, wherever its chunks are cut (what FrameEnd finds; the buffer is  *)
(* always the part of the body between the last frame and the last chunk). *)
(*                                                                         *)
(* Then the bridge, for every number of blocks and pieces: what the        *)
(* endpoint has written (Written), what of it the bridge has taken and     *)
(* handled (BridgeInv), and what the client has got for it (ChatInv).      *)
(*                                                                         *)
(* Last the content: where the body has the pieces of the blocks (Laid),   *)
(* which of them the client has been given (GivenInv), and that these are  *)
(* the whole answer when the finish chunk comes.                           *)
(***************************************************************************)
EXTENDS ClaudeToOpenAI, SequenceTheorems, FiniteSetTheorems, WellFoundedInduction, TLAPS

USE ByteAssumption

-----------------------------------------------------------------------------
(* What frameEnd finds. *)

(* Every set of naturals that is not empty has a least one.                *)
LEMMA LeastNatural ==
  ASSUME NEW S, S \subseteq Nat, S # {}
  PROVE  \E m \in S : \A k \in S : m <= k
<1>1. PICK m \in S : \A k \in S : <<k, m>> \notin OpToRel(<, Nat)
  BY WFMin, NatLessThanWellFounded, Zenon
<1>2. \A k \in S : ~(k < m)
  BY <1>1, Zenon DEF OpToRel
<1> QED  BY <1>2

(* bytes.Index finds the first occurrence if there is one.                 *)
LEMMA IndexFirst ==
  ASSUME NEW raw, Len(raw) \in Nat, NEW sep
  PROVE  \/ Index(raw, sep) = 0 /\ \A n \in 1..Len(raw) : ~Begins(sep, raw, n)
         \/ /\ Index(raw, sep) \in 1..Len(raw)
            /\ Begins(sep, raw, Index(raw, sep))
            /\ \A m \in 1..(Index(raw, sep) - 1) : ~Begins(sep, raw, m)
<1>1. CASE \A n \in 1..Len(raw) : ~Begins(sep, raw, n)
  BY <1>1 DEF Index
<1>2. CASE \E n \in 1..Len(raw) : Begins(sep, raw, n)
  <2> DEFINE S == {n \in 1..Len(raw) : Begins(sep, raw, n)}
  <2>1. S \subseteq Nat /\ S # {}
    BY <1>2
  <2>2. PICK m \in S : \A k \in S : m <= k
    <3> HIDE DEF S
    <3> QED  BY <2>1, LeastNatural
  <2>3. /\ m \in 1..Len(raw) /\ Begins(sep, raw, m)
        /\ \A k \in 1..(m-1) : ~Begins(sep, raw, k)
    BY <2>2
  <2> QED  BY <1>2, <2>3, Zenon DEF Index
<1> QED  BY <1>1, <1>2

(* A blank line ends at position m of raw.                                 *)
Closes(raw, m) ==
  \/ m >= 2 /\ raw[m-1] = LF /\ raw[m] = LF
  \/ /\ m >= 4
     /\ raw[m-3] = CR /\ raw[m-2] = LF /\ raw[m-1] = CR /\ raw[m] = LF

LEMMA BeginsLF ==
  ASSUME NEW raw, Len(raw) \in Nat, NEW n \in Nat
  PROVE  Begins(BlankLine, raw, n) <=>
           n + 1 <= Len(raw) /\ raw[n] = LF /\ raw[n+1] = LF
<1>1. Len(BlankLine) = 2 /\ BlankLine[1] = LF /\ BlankLine[2] = LF
  BY DEF BlankLine
<1>2. 1..2 = {1, 2}
  OBVIOUS
<1> QED  BY <1>1, <1>2 DEF Begins

LEMMA BeginsCR ==
  ASSUME NEW raw, Len(raw) \in Nat, NEW n \in Nat
  PROVE  Begins(BlankLineCR, raw, n) <=>
           /\ n + 3 <= Len(raw)
           /\ raw[n] = CR /\ raw[n+1] = LF /\ raw[n+2] = CR /\ raw[n+3] = LF
<1>1. /\ Len(BlankLineCR) = 4 /\ BlankLineCR[1] = CR /\ BlankLineCR[2] = LF
      /\ BlankLineCR[3] = CR /\ BlankLineCR[4] = LF
  BY DEF BlankLineCR
<1>2. 1..4 = {1, 2, 3, 4}
  OBVIOUS
<1> QED  BY <1>1, <1>2 DEF Begins

(* frameEnd finds where the first blank line of either kind ends, although *)
(* it looks for where each kind begins (sse/decoder.go:37-51).             *)
THEOREM FrameEndFirst ==
  ASSUME NEW raw, Len(raw) \in Nat
  PROVE  \/ FrameEnd(raw) = 0 /\ \A m \in 1..Len(raw) : ~Closes(raw, m)
         \/ /\ FrameEnd(raw) \in 1..Len(raw)
            /\ Closes(raw, FrameEnd(raw))
            /\ \A m \in 1..(FrameEnd(raw) - 1) : ~Closes(raw, m)
<1> DEFINE lf == Index(raw, BlankLine)
           crlf == Index(raw, BlankLineCR)
<1>1. \/ lf = 0 /\ \A n \in 1..Len(raw) : ~Begins(BlankLine, raw, n)
      \/ /\ lf \in 1..Len(raw) /\ Begins(BlankLine, raw, lf)
         /\ \A n \in 1..(lf - 1) : ~Begins(BlankLine, raw, n)
  BY IndexFirst, Zenon
<1>2. \/ crlf = 0 /\ \A n \in 1..Len(raw) : ~Begins(BlankLineCR, raw, n)
      \/ /\ crlf \in 1..Len(raw) /\ Begins(BlankLineCR, raw, crlf)
         /\ \A n \in 1..(crlf - 1) : ~Begins(BlankLineCR, raw, n)
  BY IndexFirst, Zenon
<1>3. FrameEnd(raw) = IF lf = 0 /\ crlf = 0 THEN 0
                      ELSE IF crlf = 0 \/ (lf # 0 /\ lf < crlf) THEN lf + 1
                      ELSE crlf + 3
  BY Zenon DEF FrameEnd
<1> HIDE DEF lf, crlf
<1>4. \A m \in 1..Len(raw) : Closes(raw, m) <=>
        \/ m >= 2 /\ Begins(BlankLine, raw, m - 1)
        \/ m >= 4 /\ Begins(BlankLineCR, raw, m - 3)
  <2> TAKE m \in 1..Len(raw)
  <2>1. m >= 2 => (Begins(BlankLine, raw, m - 1) <=> raw[m-1] = LF /\ raw[m] = LF)
    <3>1. SUFFICES ASSUME m >= 2
                   PROVE  Begins(BlankLine, raw, m - 1) <=> raw[m-1] = LF /\ raw[m] = LF
      OBVIOUS
    <3>2. m - 1 \in Nat /\ (m - 1) + 1 = m
      BY <3>1
    <3> QED  BY <3>2, BeginsLF
  <2>2. m >= 4 => (Begins(BlankLineCR, raw, m - 3) <=>
                    /\ raw[m-3] = CR /\ raw[m-2] = LF
                    /\ raw[m-1] = CR /\ raw[m] = LF)
    <3>1. SUFFICES ASSUME m >= 4
                   PROVE  Begins(BlankLineCR, raw, m - 3) <=>
                            /\ raw[m-3] = CR /\ raw[m-2] = LF
                            /\ raw[m-1] = CR /\ raw[m] = LF
      OBVIOUS
    <3>2. /\ m - 3 \in Nat /\ (m - 3) + 1 = m - 2
          /\ (m - 3) + 2 = m - 1 /\ (m - 3) + 3 = m
      BY <3>1
    <3> QED  BY <3>2, BeginsCR
  <2> QED  BY <2>1, <2>2 DEF Closes
<1>5. CASE lf = 0 /\ crlf = 0
  BY <1>1, <1>2, <1>3, <1>4, <1>5
<1>6. CASE lf # 0 /\ (crlf = 0 \/ lf < crlf)
  <2>1. /\ lf \in 1..Len(raw) /\ lf + 1 <= Len(raw) /\ FrameEnd(raw) = lf + 1
    BY <1>1, <1>3, <1>6, BeginsLF
  <2>2. Closes(raw, lf + 1)
    BY <1>1, <1>4, <1>6, <2>1
  <2>3. ASSUME NEW m \in 1..lf, Closes(raw, m)
        PROVE  FALSE
    <3>1. CASE m >= 2 /\ Begins(BlankLine, raw, m - 1)
      BY <1>1, <2>1, <3>1
    <3>2. CASE m >= 4 /\ Begins(BlankLineCR, raw, m - 3)
      BY <1>2, <1>6, <2>1, <3>2
    <3> QED  BY <1>4, <2>1, <2>3, <3>1, <3>2
  <2> QED  BY <2>1, <2>2, <2>3
<1>7. CASE crlf # 0 /\ ~(lf # 0 /\ lf < crlf)
  <2>1. /\ crlf \in 1..Len(raw) /\ crlf + 3 <= Len(raw) /\ FrameEnd(raw) = crlf + 3
        /\ raw[crlf] = CR /\ raw[crlf + 1] = LF /\ raw[crlf + 2] = CR
    BY <1>2, <1>3, <1>7, BeginsCR
  <2>2. Closes(raw, crlf + 3)
    BY <1>2, <1>4, <1>7, <2>1
  <2>3. ASSUME NEW m \in 1..(crlf + 2), Closes(raw, m)
        PROVE  FALSE
    <3>1. CASE m >= 2 /\ Begins(BlankLine, raw, m - 1)
      <4>1. raw[m-1] = LF /\ raw[m] = LF
        <5>1. m - 1 \in Nat /\ (m - 1) + 1 = m
          BY <2>1, <3>1
        <5> QED  BY <3>1, <5>1, BeginsLF
      <4>2. m - 1 >= crlf
        BY <1>1, <1>7, <2>1, <3>1
      <4>3. m = crlf + 1 \/ m = crlf + 2
        BY <2>1, <4>2
      <4> QED  BY <2>1, <4>1, <4>3
    <3>2. CASE m >= 4 /\ Begins(BlankLineCR, raw, m - 3)
      BY <1>2, <2>1, <3>2
    <3> QED  BY <1>4, <2>1, <2>3, <3>1, <3>2
  <2> QED  BY <2>1, <2>2, <2>3
<1> QED  BY <1>1, <1>2, <1>5, <1>6, <1>7

-----------------------------------------------------------------------------
(* The invariant: the buffer is the part of the body between the last      *)
(* frame and the last chunk, until Flush takes it.                         *)

LastCut == CutAt(Len(cuts))

BufferInv ==
  /\ LastCut <= read
  /\ IF flushed THEN closed /\ read = Len(text) /\ buffer = <<>>
     ELSE /\ Len(buffer) = read - LastCut
          /\ \A i \in 1..Len(buffer) : buffer[i] = text[LastCut + i]

DecoderInv == DecoderTypeOK /\ BufferInv /\ CutsOfTheWhole

(* The same as CutsOfTheWhole, of a body and of cuts that are given: the   *)
(* text and the cuts before and after a step can then be compared.         *)
EndsIn(t, from, m) ==
  \/ m - 2 >= from /\ t[m-1] = LF /\ t[m] = LF
  \/ m - 4 >= from /\ t[m-3] = CR /\ t[m-2] = LF /\ t[m-1] = CR /\ t[m] = LF
FirstIn(t, from, m) ==
  EndsIn(t, from, m) /\ \A l \in from..(m-1) : ~EndsIn(t, from, l)
AllCut(t, from) == \A m \in 1..Len(t) : ~EndsIn(t, from, m)
CutOf(c, n) == IF n = 0 THEN 0 ELSE c[n]
WholeCuts(t, c) == \A n \in 1..Len(c) : FirstIn(t, CutOf(c, n-1), c[n])

LEMMA CutsAsWhole ==
  /\ CutsOfTheWhole <=> WholeCuts(text, cuts) /\ (flushed => AllCut(text, LastCut))
  /\ CutsOfTheWhole' <=> WholeCuts(text', cuts') /\ (flushed' => AllCut(text', LastCut'))
<1>1. CutsOfTheWhole <=> WholeCuts(text, cuts) /\ (flushed => AllCut(text, LastCut))
  BY DEF CutsOfTheWhole, WholeCuts, AllCut, FirstIn, EndsIn, BlankLineEnds, CutAt,
         CutOf, LastCut
<1>2. CutsOfTheWhole' <=> WholeCuts(text', cuts') /\ (flushed' => AllCut(text', LastCut'))
  BY DEF CutsOfTheWhole, WholeCuts, AllCut, FirstIn, EndsIn, BlankLineEnds, CutAt,
         CutOf, LastCut
<1> QED  BY <1>1, <1>2

LEMMA CutAtType ==
  ASSUME DecoderTypeOK, NEW n \in 0..Len(cuts)
  PROVE  CutAt(n) \in 0..Len(text)
  BY DEF DecoderTypeOK, CutAt

(* A longer body has the same blank lines up to where the shorter ended.   *)
LEMMA BlankLinesStay ==
  ASSUME NEW t \in Seq(Byte), NEW bytes \in Seq(Byte),
         NEW from \in Nat, NEW m \in 0..Len(t)
  PROVE  EndsIn(t \o bytes, from, m) <=> EndsIn(t, from, m)
<1>1. \A i \in 1..Len(t) : (t \o bytes)[i] = t[i]
  OBVIOUS
<1>2. m - 2 >= from => m \in 1..Len(t) /\ m - 1 \in 1..Len(t)
  OBVIOUS
<1>3. m - 4 >= from => m - 2 \in 1..Len(t) /\ m - 3 \in 1..Len(t)
  OBVIOUS
<1> QED  BY <1>1, <1>2, <1>3 DEF EndsIn

(* The blank lines of the buffer are those of the body after the last cut. *)
LEMMA BlankLinesOfBuffer ==
  ASSUME DecoderTypeOK, BufferInv, ~flushed, NEW m \in LastCut..read
  PROVE  EndsIn(text, LastCut, m) <=> m > LastCut /\ Closes(buffer, m - LastCut)
<1>1. LastCut \in Nat /\ read \in Nat /\ LastCut <= read
  BY CutAtType DEF LastCut, BufferInv, DecoderTypeOK
<1>2. \A i \in 1..(read - LastCut) : buffer[i] = text[LastCut + i]
  BY DEF BufferInv
<1> DEFINE j == m - LastCut
<1>3. /\ j \in 0..(read - LastCut) /\ m = LastCut + j
      /\ m - 1 = LastCut + (j - 1) /\ m - 2 = LastCut + (j - 2)
      /\ m - 3 = LastCut + (j - 3)
  BY <1>1
<1>4. /\ j >= 1 => buffer[j] = text[m]
      /\ j >= 2 => buffer[j-1] = text[m-1]
      /\ j >= 3 => buffer[j-2] = text[m-2]
      /\ j >= 4 => buffer[j-3] = text[m-3]
  BY <1>1, <1>2, <1>3
<1>5. /\ (m - 2 >= LastCut) <=> j >= 2
      /\ (m - 4 >= LastCut) <=> j >= 4
      /\ (m > LastCut) <=> j >= 1
  BY <1>1, <1>3
<1> HIDE DEF j
<1>6. EndsIn(text, LastCut, m) <=> j >= 1 /\ Closes(buffer, j)
  BY <1>1, <1>3, <1>4, <1>5 DEF EndsIn, Closes
<1> QED  BY <1>5, <1>6 DEF j

-----------------------------------------------------------------------------
LEMMA DecoderInitInv == DecoderInit => DecoderInv
<1> SUFFICES ASSUME DecoderInit PROVE DecoderInv
  OBVIOUS
<1>1. DecoderTypeOK
  <2>1. text = <<>> /\ read = 0 /\ buffer = <<>> /\ cuts = <<>> /\ Len(text) = 0
    BY DEF DecoderInit
  <2>2. text \in Seq(Byte) /\ buffer \in Seq(Byte)
    BY <2>1
  <2>3. cuts \in Seq(1..Len(text))
    BY <2>1, EmptySeq
  <2>4. read \in 0..Len(text)
    BY <2>1
  <2> QED  BY <2>2, <2>3, <2>4 DEF DecoderInit, DecoderTypeOK
<1>2. LastCut = 0 /\ Len(cuts) = 0
  BY DEF DecoderInit, LastCut, CutAt
<1>3. BufferInv
  BY <1>2 DEF DecoderInit, BufferInv
<1>4. CutsOfTheWhole
  BY <1>2, CutsAsWhole DEF DecoderInit, WholeCuts
<1> QED  BY <1>1, <1>3, <1>4 DEF DecoderInv

LEMMA WriteInv ==
  ASSUME DecoderInv, NEW bytes \in Seq(Byte), NEW last \in BOOLEAN, Write(bytes, last)
  PROVE  DecoderInv'
<1>1. /\ text \in Seq(Byte) /\ text' = text \o bytes /\ text' \in Seq(Byte)
      /\ Len(text') = Len(text) + Len(bytes) /\ Len(bytes) \in Nat
      /\ \A i \in 1..Len(text) : text'[i] = text[i]
      /\ UNCHANGED <<read, buffer, cuts, flushed>>
      /\ ~closed /\ ~flushed
  BY DEF Write, DecoderInv, DecoderTypeOK, BufferInv
<1>2. DecoderTypeOK'
  BY <1>1 DEF Write, DecoderInv, DecoderTypeOK
<1>3. LastCut' = LastCut /\ LastCut \in 0..Len(text)
  BY <1>1, CutAtType DEF LastCut, CutAt, DecoderInv, DecoderTypeOK
<1>4. BufferInv'
  BY <1>1, <1>3 DEF BufferInv, DecoderInv, DecoderTypeOK
<1>5. WholeCuts(text', cuts')
  <2>1. ASSUME NEW n \in 1..Len(cuts)
        PROVE  FirstIn(text', CutOf(cuts, n-1), cuts[n])
    <3>1. CutOf(cuts, n-1) \in Nat /\ cuts[n] \in 1..Len(text)
      BY <1>1, CutAtType DEF CutAt, CutOf, DecoderInv, DecoderTypeOK
    <3>2. FirstIn(text, CutOf(cuts, n-1), cuts[n])
      BY CutsAsWhole DEF DecoderInv, WholeCuts
    <3>3. \A m \in 0..Len(text) :
            EndsIn(text', CutOf(cuts, n-1), m) <=> EndsIn(text, CutOf(cuts, n-1), m)
      BY <1>1, <3>1, BlankLinesStay
    <3>4. cuts[n] \in 0..Len(text) /\ CutOf(cuts, n-1)..(cuts[n] - 1) \subseteq 0..Len(text)
      BY <1>1, <3>1
    <3> QED  BY <3>2, <3>3, <3>4 DEF FirstIn
  <2> QED  BY <1>1, <2>1 DEF WholeCuts
<1>6. CutsOfTheWhole'
  BY <1>1, <1>5, CutsAsWhole
<1> QED  BY <1>2, <1>4, <1>6 DEF DecoderInv

LEMMA FeedInv ==
  ASSUME DecoderInv, NEW n \in Nat, Feed(n)
  PROVE  DecoderInv'
<1>1. /\ n \in 1..(Len(text) - read) /\ ~flushed
      /\ buffer' = buffer \o SubSeq(text, read + 1, read + n)
      /\ read' = read + n
      /\ UNCHANGED <<text, closed, cuts, flushed>>
      /\ text \in Seq(Byte) /\ buffer \in Seq(Byte) /\ read \in 0..Len(text)
  BY DEF Feed, DecoderInv, DecoderTypeOK
<1>2. /\ SubSeq(text, read + 1, read + n) \in Seq(Byte)
      /\ Len(SubSeq(text, read + 1, read + n)) = n
      /\ \A i \in 1..n : SubSeq(text, read + 1, read + n)[i] = text[read + i]
  <2>1. /\ read + 1 \in Int /\ read + n \in Int
        /\ \A i \in (read + 1)..(read + n) : text[i] \in Byte
        /\ read + 1 <= read + n /\ (read + n) - (read + 1) + 1 = n
    BY <1>1
  <2>2. \A i \in 1..n : (read + 1) + i - 1 = read + i
    BY <1>1
  <2> QED  BY <2>1, <2>2, SubSeqProperties
<1>3. /\ buffer' \in Seq(Byte) /\ Len(buffer') = Len(buffer) + n
      /\ \A i \in 1..Len(buffer) : buffer'[i] = buffer[i]
      /\ \A i \in 1..n : buffer'[Len(buffer) + i] = text[read + i]
  <2> DEFINE part == SubSeq(text, read + 1, read + n)
  <2>1. part \in Seq(Byte) /\ Len(part) = n /\ \A i \in 1..n : part[i] = text[read + i]
    BY <1>2
  <2>2. buffer' = buffer \o part
    BY <1>1
  <2> HIDE DEF part
  <2>3. /\ buffer' \in Seq(Byte) /\ Len(buffer') = Len(buffer) + n
        /\ \A i \in 1..Len(buffer) + n :
             buffer'[i] = IF i <= Len(buffer) THEN buffer[i] ELSE part[i - Len(buffer)]
        /\ Len(buffer) \in Nat
    BY <1>1, <2>1, <2>2, ConcatProperties
  <2>4. \A i \in 1..n : Len(buffer) + i \in 1..Len(buffer) + n
    BY <2>3
  <2>5. ASSUME NEW i \in 1..n PROVE buffer'[Len(buffer) + i] = text[read + i]
    <3>1. /\ Len(buffer) + i \in 1..Len(buffer) + n /\ ~(Len(buffer) + i <= Len(buffer))
          /\ (Len(buffer) + i) - Len(buffer) = i
      BY <2>3
    <3> QED BY <2>1, <2>3, <3>1
  <2> QED BY <2>3, <2>5
<1>4. DecoderTypeOK'
  BY <1>1, <1>3 DEF DecoderInv, DecoderTypeOK
<1>5. LastCut' = LastCut /\ LastCut \in 0..Len(text)
  BY <1>1, CutAtType DEF LastCut, CutAt, DecoderInv, DecoderTypeOK
<1>6. BufferInv'
  <2>1. /\ LastCut <= read /\ Len(buffer) = read - LastCut
        /\ \A i \in 1..Len(buffer) : buffer[i] = text[LastCut + i]
    BY <1>1 DEF DecoderInv, BufferInv
  <2>0. /\ n \in Nat /\ read \in Nat /\ LastCut \in Nat /\ Len(buffer) \in Nat
        /\ Len(buffer') = Len(buffer) + n
    BY <1>1, <1>3, <1>5
  <2> DEFINE old == Len(buffer)
  <2>2. ASSUME NEW i \in 1..Len(buffer')
        PROVE  buffer'[i] = text[LastCut + i]
    <3>1. CASE i \in 1..old
      BY <1>3, <2>1, <3>1
    <3>2. CASE i \notin 1..old
      <4> HIDE DEF old
      <4>1. /\ i - old \in 1..n /\ old + (i - old) = i
            /\ LastCut + i = read + (i - old)
        BY <2>0, <2>1, <3>2 DEF old
      <4>2. buffer'[old + (i - old)] = text[read + (i - old)]
        BY <1>3, <4>1, Zenon DEF old
      <4> QED  BY <4>1, <4>2
    <3> QED  BY <3>1, <3>2
  <2>3. ~flushed' /\ LastCut' <= read' /\ Len(buffer') = read' - LastCut'
    <3>1. read' = read + n /\ ~flushed'
      BY <1>1
    <3> QED  BY <1>5, <2>0, <2>1, <3>1
  <2>4. \A i \in 1..Len(buffer') : buffer'[i] = text'[LastCut' + i]
    BY <1>1, <1>5, <2>2
  <2> QED  BY <2>3, <2>4, Zenon DEF BufferInv
<1>7. CutsOfTheWhole'
  BY <1>1, CutsAsWhole DEF DecoderInv
<1> QED  BY <1>4, <1>6, <1>7 DEF DecoderInv

LEMMA CutInv ==
  ASSUME DecoderInv, Cut
  PROVE  DecoderInv'
<1> DEFINE end == FrameEnd(buffer)
           k == Len(cuts)
<1>1. /\ buffer \in Seq(Byte) /\ text \in Seq(Byte) /\ read \in 0..Len(text)
      /\ cuts \in Seq(1..Len(text)) /\ k \in Nat
  BY DEF DecoderInv, DecoderTypeOK
<1>2. /\ end \in 1..Len(buffer) /\ Closes(buffer, end)
      /\ \A m \in 1..(end - 1) : ~Closes(buffer, m)
  BY <1>1, FrameEndFirst DEF Cut
<1>3. ~flushed
  BY <1>2 DEF DecoderInv, BufferInv
<1>4. /\ LastCut \in Nat /\ LastCut <= read /\ Len(buffer) = read - LastCut
      /\ \A i \in 1..Len(buffer) : buffer[i] = text[LastCut + i]
  BY <1>3, CutAtType DEF DecoderInv, BufferInv, LastCut
<1> HIDE DEF end
<1>5. /\ cuts' = Append(cuts, LastCut + end)
      /\ LastCut + end \in 1..Len(text)
      /\ LastCut + end <= read
      /\ buffer' = SubSeq(buffer, end + 1, Len(buffer))
      /\ UNCHANGED <<text, closed, read, flushed>>
  BY <1>1, <1>2, <1>4 DEF Cut, end, LastCut
<1>6. /\ cuts' \in Seq(1..Len(text)) /\ Len(cuts') = k + 1
      /\ cuts'[k+1] = LastCut + end
      /\ \A n \in 1..k : cuts'[n] = cuts[n]
  BY <1>1, <1>5
<1>7. LastCut' = LastCut + end
  BY <1>1, <1>5, <1>6 DEF LastCut, CutAt
<1>8. /\ buffer' \in Seq(Byte) /\ Len(buffer') = Len(buffer) - end
      /\ \A i \in 1..Len(buffer') : buffer'[i] = buffer[end + i]
  BY <1>1, <1>2, <1>5
<1>9. DecoderTypeOK'
  BY <1>1, <1>5, <1>6, <1>8 DEF DecoderInv, DecoderTypeOK
<1>10. BufferInv'
  BY <1>1, <1>2, <1>3, <1>4, <1>5, <1>7, <1>8 DEF BufferInv
<1>11. FirstIn(text, LastCut, LastCut + end)
  <2>1. /\ LastCut + end \in LastCut..read /\ (LastCut + end) - LastCut = end
        /\ LastCut + end > LastCut
    BY <1>1, <1>2, <1>4, <1>5
  <2>2. EndsIn(text, LastCut, LastCut + end)
    BY <1>2, <1>3, <2>1, BlankLinesOfBuffer DEF DecoderInv
  <2>3. ASSUME NEW m \in LastCut..(LastCut + end - 1)
        PROVE  ~EndsIn(text, LastCut, m)
    <3>1. m \in LastCut..read /\ (m > LastCut => m - LastCut \in 1..(end - 1))
      BY <1>1, <1>2, <1>4, <1>5
    <3> QED  BY <1>2, <1>3, <3>1, BlankLinesOfBuffer DEF DecoderInv
  <2>4. \A m \in LastCut..((LastCut + end) - 1) : ~EndsIn(text, LastCut, m)
    BY <1>1, <1>2, <1>4, <2>3
  <2> QED  BY <2>2, <2>4, Zenon DEF FirstIn
<1>12. WholeCuts(text, cuts')
  <2>0. CutOf(cuts, k) = LastCut /\ \A n \in 0..k : CutOf(cuts', n) = CutOf(cuts, n)
    <3>1. CutOf(cuts, k) = LastCut
      BY Zenon DEF CutOf, LastCut, CutAt
    <3>2. ASSUME NEW n \in 0..k
          PROVE  CutOf(cuts', n) = CutOf(cuts, n)
      <4>1. n = 0 \/ n \in 1..k
        BY <1>1
      <4> QED  BY <1>6, <4>1, Zenon DEF CutOf
    <3> QED  BY <3>1, <3>2
  <2> HIDE DEF k
  <2>1. ASSUME NEW n \in 1..k
        PROVE  FirstIn(text, CutOf(cuts', n-1), cuts'[n])
    <3>1. CutOf(cuts', n-1) = CutOf(cuts, n-1) /\ cuts'[n] = cuts[n]
      <4>1. n - 1 \in 0..k
        BY <1>1
      <4> QED  BY <1>6, <2>0, <4>1
    <3>2. FirstIn(text, CutOf(cuts, n-1), cuts[n])
      BY CutsAsWhole DEF DecoderInv, WholeCuts, k
    <3> QED  BY <3>1, <3>2
  <2>2. FirstIn(text, CutOf(cuts', k), cuts'[k+1])
    <3>1. CutOf(cuts', k) = LastCut
      BY <1>1, <2>0
    <3> QED  BY <1>6, <1>11, <3>1
  <2>3. ASSUME NEW n \in 1..(k+1)
        PROVE  FirstIn(text, CutOf(cuts', n-1), cuts'[n])
    <3>1. n \in 1..k \/ (n = k + 1 /\ n - 1 = k)
      BY <1>1
    <3> QED  BY <2>1, <2>2, <3>1
  <2> QED  BY <1>6, <2>3 DEF WholeCuts
<1>13. CutsOfTheWhole'
  BY <1>3, <1>5, <1>12, CutsAsWhole
<1> QED  BY <1>9, <1>10, <1>13 DEF DecoderInv

LEMMA FlushInv ==
  ASSUME DecoderInv, Flush
  PROVE  DecoderInv'
<1>1. /\ closed /\ read = Len(text) /\ ~flushed /\ flushed' = TRUE
      /\ buffer' = <<>> /\ FrameEnd(buffer) = 0
      /\ UNCHANGED <<text, closed, read, cuts>>
      /\ text \in Seq(Byte) /\ buffer \in Seq(Byte)
  BY DEF Flush, DecoderInv, DecoderTypeOK
<1>2. DecoderTypeOK'
  BY <1>1 DEF DecoderInv, DecoderTypeOK
<1>3. LastCut' = LastCut
  BY <1>1 DEF LastCut, CutAt
<1>4. BufferInv'
  BY <1>1, <1>3 DEF DecoderInv, BufferInv
<1>5. CutsOfTheWhole'
  <2>1. \A m \in 1..Len(buffer) : ~Closes(buffer, m)
    BY <1>1, FrameEndFirst
  <2>2. /\ LastCut \in 0..Len(text) /\ LastCut <= read
        /\ Len(buffer) = read - LastCut
    BY <1>1, CutAtType DEF DecoderInv, BufferInv, LastCut, DecoderTypeOK
  <2>3. ASSUME NEW m \in 1..Len(text)
        PROVE  ~EndsIn(text, LastCut, m)
    <3>1. CASE m <= LastCut
      BY <1>1, <2>2, <3>1 DEF EndsIn
    <3>2. CASE m > LastCut
      <4>1. m \in LastCut..read /\ m - LastCut \in 1..Len(buffer)
        BY <1>1, <2>2, <3>2
      <4> QED  BY <1>1, <2>1, <4>1, BlankLinesOfBuffer DEF DecoderInv
    <3> QED  BY <1>1, <2>2, <3>1, <3>2
  <2> QED  BY <1>1, <1>3, <2>3, CutsAsWhole DEF DecoderInv, AllCut
<1> QED  BY <1>2, <1>4, <1>5 DEF DecoderInv

(* The invariant behind the two results below.                             *)
THEOREM DecoderCorrect == DecoderSpec => []DecoderInv
<1>1. DecoderInv /\ [DecoderNext]_decoderVars => DecoderInv'
  <2> SUFFICES ASSUME DecoderInv, [DecoderNext]_decoderVars
               PROVE  DecoderInv'
    OBVIOUS
  <2>1. CASE \E bytes \in Seq(Byte), last \in BOOLEAN : Write(bytes, last)
    BY <2>1, WriteInv
  <2>2. CASE \E n \in Nat : Feed(n)
    BY <2>2, FeedInv
  <2>3. CASE Cut
    BY <2>3, CutInv
  <2>4. CASE Flush
    BY <2>4, FlushInv
  <2>5. CASE UNCHANGED decoderVars
    BY <2>5, CutsAsWhole DEF decoderVars, DecoderInv, DecoderTypeOK, BufferInv, LastCut,
                             CutAt
  <2> QED  BY <2>1, <2>2, <2>3, <2>4, <2>5 DEF DecoderNext
<1> QED  BY DecoderInitInv, <1>1, PTL DEF DecoderSpec

(* The decoder's state keeps its shape (sse/decoder.go:5-35).              *)
THEOREM DecoderTypeCorrect == DecoderSpec => []DecoderTypeOK
<1>1. DecoderInv => DecoderTypeOK
  BY DEF DecoderInv
<1> QED  BY DecoderCorrect, <1>1, PTL

(* For every body and every way to cut it into chunks, the frames are      *)
(* those of the body as a whole, and none is left when Flush is called     *)
(* (sse/decoder.go:9-35).                                                  *)
THEOREM CutsOfTheWholeHolds == DecoderSpec => []CutsOfTheWhole
<1>1. DecoderInv => CutsOfTheWhole
  BY DEF DecoderInv
<1> QED  BY DecoderCorrect, <1>1, PTL

-----------------------------------------------------------------------------
(* Sequences of chunks. *)

Contents == [item : BlockIndexes, piece : Nat]
ToolChunks == [type : {"tool"}, index : Nat, item : BlockIndexes]
Fields == {"content", "arguments", "reasoning_content"}
DeltaChunks == [type : {"delta"}, field : Fields, index : Nat, content : Contents]
FinishChunks == [type : {"finish"}, reason : {"length", "content_filter", "tool_calls", "stop"}]
ChatChunks == {RoleChunk} \cup ToolChunks \cup DeltaChunks \cup FinishChunks

(* LegalChatStream, of any sequence. *)
ToolsIn(s, n) == {m \in 1..n : s[m].type = "tool"}
LegalAt(s, n) ==
  /\ s[n].type = "role" <=> n = 1
  /\ s[n].type = "tool" =>
       /\ s[n].index = Cardinality(ToolsIn(s, n - 1))
       /\ \A m \in ToolsIn(s, n - 1) : s[m].item # s[n].item
  /\ s[n].type = "delta" /\ s[n].field = "arguments" =>
       \E m \in ToolsIn(s, n) :
         s[m].index = s[n].index /\ s[m].item = s[n].content.item
  /\ s[n].type = "finish" => n = Len(s)
LegalChat(s) == s \in Seq(ChatChunks) /\ \A n \in 1..Len(s) : LegalAt(s, n)

(* It has begun and is not finished. *)
Going(s) == LegalChat(s) /\ s # <<>> /\ \A n \in 1..Len(s) : s[n].type # "finish"

LEMMA LegalSent ==
  ASSUME LegalChat(sent)
  PROVE  LegalChatStream
BY DEF LegalChat, LegalAt, LegalChatStream, ToolsIn, Announced, At

(* What the client has got before it goes away is legal too. *)
LEMMA LegalPrefix ==
  ASSUME NEW s, NEW t \in Seq(ChatChunks), LegalChat(s), Len(t) <= Len(s),
         \A n \in 1..Len(t) : t[n] = s[n]
  PROVE  LegalChat(t)
<1> SUFFICES ASSUME NEW n \in 1..Len(t) PROVE LegalAt(t, n)
  BY DEF LegalChat
<1>1. Len(t) \in Nat /\ Len(s) \in Nat
  BY DEF LegalChat
<1>2. n \in 1..Len(s) /\ LegalAt(s, n) /\ t[n] = s[n]
  BY <1>1 DEF LegalChat
<1>3. ToolsIn(t, n) = ToolsIn(s, n) /\ ToolsIn(t, n - 1) = ToolsIn(s, n - 1)
  BY <1>1 DEF ToolsIn
<1>4. \A m \in ToolsIn(t, n) : t[m] = s[m]
  BY <1>1 DEF ToolsIn
<1>5. \A m \in ToolsIn(t, n - 1) : t[m] = s[m]
  BY <1>1 DEF ToolsIn
<1>6. s[n].type = "finish" => n = Len(t)
  BY <1>1, <1>2 DEF LegalAt
<1> QED BY <1>2, <1>3, <1>4, <1>5, <1>6 DEF LegalAt

(* The elements of a concatenation, and that the tools of its first part   *)
(* are where they were.                                                    *)
LEMMA ChunksJoined ==
  ASSUME NEW s \in Seq(ChatChunks), NEW t \in Seq(ChatChunks)
  PROVE  /\ s \o t \in Seq(ChatChunks) /\ Len(s \o t) = Len(s) + Len(t)
         /\ \A n \in 1..Len(s) : (s \o t)[n] = s[n]
         /\ \A n \in 1..Len(t) : (s \o t)[Len(s) + n] = t[n]
         /\ \A n \in 0..Len(s) : ToolsIn(s \o t, n) = ToolsIn(s, n)
<1>1. /\ s \o t \in Seq(ChatChunks) /\ Len(s \o t) = Len(s) + Len(t)
      /\ \A n \in 1..Len(s) + Len(t) :
           (s \o t)[n] = IF n <= Len(s) THEN s[n] ELSE t[n - Len(s)]
      /\ Len(s) \in Nat /\ Len(t) \in Nat
  BY ConcatProperties
<1>2. \A n \in 1..Len(s) : (s \o t)[n] = s[n]
  BY <1>1
<1>3. ASSUME NEW n \in 1..Len(t) PROVE (s \o t)[Len(s) + n] = t[n]
  <2>1. Len(s) + n \in 1..Len(s) + Len(t) /\ ~(Len(s) + n <= Len(s))
        /\ (Len(s) + n) - Len(s) = n
    BY <1>1
  <2> QED BY <1>1, <2>1
<1>4. ASSUME NEW n \in 0..Len(s) PROVE ToolsIn(s \o t, n) = ToolsIn(s, n)
  BY <1>1, <1>2 DEF ToolsIn
<1> QED BY <1>1, <1>2, <1>3, <1>4

LEMMA DeltasAreChunks ==
  Seq(DeltaChunks) \subseteq Seq(ChatChunks)
BY SeqMonotonic DEF ChatChunks

(* What goes on stays legal up to where it was. *)
LEMMA StillLegal ==
  ASSUME NEW s, Going(s), NEW t \in Seq(ChatChunks), NEW n \in 1..Len(s)
  PROVE  LegalAt(s \o t, n) /\ (s \o t)[n].type # "finish"
<1>1. /\ Len(s) \in Nat /\ s \in Seq(ChatChunks) /\ LegalAt(s, n) /\ s[n].type # "finish"
      /\ n \in 0..Len(s) /\ n - 1 \in 0..Len(s)
  BY DEF Going, LegalChat
<1>2. /\ (s \o t)[n] = s[n] /\ ToolsIn(s \o t, n) = ToolsIn(s, n)
      /\ ToolsIn(s \o t, n - 1) = ToolsIn(s, n - 1)
      /\ \A m \in ToolsIn(s, n) : (s \o t)[m] = s[m]
  BY <1>1, ChunksJoined DEF ToolsIn
<1>3. \A m \in ToolsIn(s, n - 1) : (s \o t)[m] = s[m]
  BY <1>1, ChunksJoined DEF ToolsIn
<1> QED BY <1>1, <1>2, <1>3 DEF LegalAt

LEMMA RoleFirst ==
  Going(<<RoleChunk>>) /\ ToolsIn(<<RoleChunk>>, 1) = {}
BY DEF Going, LegalChat, LegalAt, ToolsIn, RoleChunk, ChatChunks

(* A call that has no head yet, under the next index. *)
LEMMA HeadFollows ==
  ASSUME NEW s, Going(s), NEW index, index \in Nat, NEW i \in BlockIndexes,
         index = Cardinality(ToolsIn(s, Len(s))),
         \A m \in ToolsIn(s, Len(s)) : s[m].item # i
  PROVE  LET t == s \o <<ToolChunk(index, i)>>
         IN  /\ Going(t) /\ Len(t) = Len(s) + 1 /\ t[Len(t)] = ToolChunk(index, i)
             /\ \A n \in 1..Len(s) : t[n] = s[n]
             /\ ToolsIn(t, Len(t)) = ToolsIn(s, Len(s)) \cup {Len(t)}
<1> DEFINE c == ToolChunk(index, i)
           t == s \o <<c>>
<1>1. /\ c \in ChatChunks /\ c.type = "tool" /\ c.index = index /\ c.item = i
      /\ <<c>> \in Seq(ChatChunks) /\ Len(<<c>>) = 1 /\ <<c>>[1] = c
      /\ s \in Seq(ChatChunks) /\ Len(s) \in Nat /\ s # <<>>
  BY DEF ToolChunk, ToolChunks, ChatChunks, Going, LegalChat
<1> HIDE DEF c
<1>2. /\ t \in Seq(ChatChunks) /\ Len(t) = Len(s) + 1 /\ t[Len(s) + 1] = c
      /\ \A n \in 1..Len(s) : t[n] = s[n]
      /\ ToolsIn(t, Len(s)) = ToolsIn(s, Len(s))
  <2>1. 1 \in 1..Len(<<c>>) /\ Len(s) \in 0..Len(s)
    BY <1>1
  <2> QED BY <1>1, <2>1, ChunksJoined
<1>3. \A n \in 1..Len(s) : LegalAt(t, n) /\ t[n].type # "finish"
  BY <1>1, StillLegal
<1>4. Len(s) >= 1
  BY <1>1
<1> HIDE DEF t
<1>5. LegalAt(t, Len(s) + 1)
  <2>1. (Len(s) + 1) - 1 = Len(s)
    BY <1>1
  <2>2. \A m \in ToolsIn(s, Len(s)) : t[m].item # i
    BY <1>2 DEF ToolsIn
  <2> QED BY <1>1, <1>2, <1>4, <2>1, <2>2 DEF LegalAt
<1>6. ToolsIn(t, Len(t)) = ToolsIn(s, Len(s)) \cup {Len(t)}
  <2>1. ToolsIn(t, Len(s) + 1) = ToolsIn(t, Len(s)) \cup {Len(s) + 1}
    <3>1. 1..(Len(s) + 1) = (1..Len(s)) \cup {Len(s) + 1} /\ t[Len(s) + 1].type = "tool"
      BY <1>1, <1>2
    <3> QED BY <3>1 DEF ToolsIn
  <2> QED BY <1>2, <2>1
<1>7. t # <<>> /\ \A n \in 1..Len(t) : LegalAt(t, n) /\ t[n].type # "finish"
  BY <1>1, <1>2, <1>3, <1>5
<1> QED BY <1>2, <1>6, <1>7 DEF Going, LegalChat, c, t

(* Pieces of content, of calls that have a head. *)
LEMMA PiecesFollow ==
  ASSUME NEW s, Going(s), NEW out \in Seq(DeltaChunks),
         \A n \in 1..Len(out) : out[n].field = "arguments" =>
           \E m \in ToolsIn(s, Len(s)) :
             s[m].index = out[n].index /\ s[m].item = out[n].content.item
  PROVE  /\ Going(s \o out)
         /\ Len(s) <= Len(s \o out) /\ \A n \in 1..Len(s) : (s \o out)[n] = s[n]
         /\ ToolsIn(s \o out, Len(s \o out)) = ToolsIn(s, Len(s))
<1> DEFINE t == s \o out
<1>1. /\ out \in Seq(ChatChunks) /\ s \in Seq(ChatChunks) /\ Len(s) \in Nat /\ Len(out) \in Nat
      /\ s # <<>>
  BY DEF ChatChunks, Going, LegalChat
<1>2. /\ t \in Seq(ChatChunks) /\ Len(t) = Len(s) + Len(out)
      /\ \A n \in 1..Len(s) : t[n] = s[n]
      /\ \A n \in 1..Len(out) : t[Len(s) + n] = out[n]
      /\ ToolsIn(t, Len(s)) = ToolsIn(s, Len(s))
  BY <1>1, ChunksJoined
<1>3. \A n \in 1..Len(s) : LegalAt(t, n) /\ t[n].type # "finish"
  BY <1>1, StillLegal
<1> HIDE DEF t
<1>4. ASSUME NEW n \in 1..Len(t), n > Len(s)
      PROVE  LegalAt(t, n) /\ t[n].type \notin {"finish", "tool"}
  <2>1. n - Len(s) \in 1..Len(out) /\ n = Len(s) + (n - Len(s))
    BY <1>1, <1>2, <1>4
  <2> DEFINE c == out[n - Len(s)]
  <2>2. t[n] = c /\ c \in DeltaChunks
    BY <1>2, <2>1, ElementOfSeq
  <2>3. c.type = "delta" /\ n # 1
    BY <1>1, <1>4, <2>2 DEF DeltaChunks
  <2>4. c.field = "arguments" =>
          \E m \in ToolsIn(s, Len(s)) : s[m].index = c.index /\ s[m].item = c.content.item
    BY <2>1
  <2> HIDE DEF c
  <2>5. ASSUME NEW m \in ToolsIn(s, Len(s)) PROVE m \in ToolsIn(t, n) /\ t[m] = s[m]
    BY <1>1, <1>2, <1>4 DEF ToolsIn
  <2>6. c.field = "arguments" =>
          \E m \in ToolsIn(t, n) : t[m].index = c.index /\ t[m].item = c.content.item
    BY <2>4, <2>5
  <2> QED BY <2>2, <2>3, <2>6 DEF LegalAt
<1>5. ToolsIn(t, Len(t)) = ToolsIn(t, Len(s))
  <2>1. \A n \in 1..Len(t) : t[n].type = "tool" => n \in 1..Len(s)
    BY <1>1, <1>2, <1>4
  <2>2. 1..Len(s) \subseteq 1..Len(t)
    BY <1>1, <1>2
  <2> QED BY <2>1, <2>2 DEF ToolsIn
<1>6. \A n \in 1..Len(t) : LegalAt(t, n) /\ t[n].type # "finish"
  BY <1>1, <1>2, <1>3, <1>4
<1>7. t # <<>>
  BY <1>1, <1>2
<1>8. Going(t)
  BY <1>2, <1>6, <1>7 DEF Going, LegalChat
<1> QED BY <1>1, <1>2, <1>5, <1>8 DEF t

LEMMA FinishFollows ==
  ASSUME NEW s, Going(s), NEW c \in FinishChunks
  PROVE  LET t == s \o <<c>>
         IN  /\ LegalChat(t) /\ t # <<>> /\ t[Len(t)].type = "finish"
             /\ ToolsIn(t, Len(t)) = ToolsIn(s, Len(s)) /\ \A n \in 1..Len(s) : t[n] = s[n]
<1> DEFINE t == s \o <<c>>
<1>1. /\ <<c>> \in Seq(ChatChunks) /\ s \in Seq(ChatChunks) /\ Len(s) \in Nat /\ s # <<>>
      /\ Len(<<c>>) = 1 /\ <<c>>[1] = c /\ c.type = "finish"
  BY DEF ChatChunks, Going, LegalChat, FinishChunks
<1>2. /\ t \in Seq(ChatChunks) /\ Len(t) = Len(s) + 1 /\ t[Len(s) + 1] = c
      /\ \A n \in 1..Len(s) : t[n] = s[n]
      /\ ToolsIn(t, Len(s)) = ToolsIn(s, Len(s))
  <2>1. 1 \in 1..Len(<<c>>) /\ Len(s) \in 0..Len(s)
    BY <1>1
  <2> QED BY <1>1, <2>1, ChunksJoined
<1>3. \A n \in 1..Len(s) : LegalAt(t, n)
  BY <1>1, StillLegal
<1> HIDE DEF t
<1>4. LegalAt(t, Len(s) + 1)
  BY <1>1, <1>2 DEF LegalAt
<1>5. \A n \in 1..Len(t) : LegalAt(t, n)
  BY <1>1, <1>2, <1>3, <1>4
<1>6. ToolsIn(t, Len(t)) = ToolsIn(t, Len(s))
  <2>1. t[Len(t)].type # "tool" /\ 1..Len(t) = (1..Len(s)) \cup {Len(t)}
    BY <1>1, <1>2
  <2> QED BY <2>1 DEF ToolsIn
<1>7. t # <<>> /\ t[Len(t)].type = "finish"
  BY <1>1, <1>2
<1> QED BY <1>2, <1>5, <1>6, <1>7 DEF LegalChat, t

-----------------------------------------------------------------------------
(* What the pump emits. *)

LEMMA JoinThree ==
  ASSUME NEW S, NEW a \in Seq(S), NEW b \in Seq(S), NEW c \in Seq(S)
  PROVE  b \o c \in Seq(S) /\ a \o (b \o c) = (a \o b) \o c
<1>1. b \o c \in Seq(S)
  BY ConcatProperties
<1>2. (a \o b) \o c = a \o (b \o c)
  BY ConcatAssociative
<1> QED BY <1>1, <1>2

(* The client gets all of what is emitted, or the beginning of it and the  *)
(* output fails.                                                           *)
LEMMA EmitsPrefix ==
  ASSUME NEW S, NEW out \in Seq(S), sent \in Seq(S), output = "open", Emits(out)
  PROVE  /\ frame' = NoFrame /\ output' \in {output, "failed"}
         /\ output' = "open" => sent' = sent \o out
         /\ sent' \in Seq(S) /\ Len(sent') <= Len(sent \o out)
         /\ \A n \in 1..Len(sent') : sent'[n] = (sent \o out)[n]
<1>1. /\ sent \o out \in Seq(S) /\ Len(sent \o out) = Len(sent) + Len(out)
      /\ \A n \in 1..Len(sent) + Len(out) :
           (sent \o out)[n] = IF n <= Len(sent) THEN sent[n] ELSE out[n - Len(sent)]
      /\ Len(sent) \in Nat /\ Len(out) \in Nat
  BY ConcatProperties
<1>2. CASE sent' = sent \o out /\ frame' = NoFrame /\ output' = output
  BY <1>1, <1>2
<1>3. ASSUME NEW k \in 0..(Len(out) - 1), sent' = sent \o SubSeq(out, 1, k),
             ClosesOutput("failed")
      PROVE  /\ sent' \in Seq(S) /\ Len(sent') <= Len(sent \o out)
             /\ \A n \in 1..Len(sent') : sent'[n] = (sent \o out)[n]
  <2> DEFINE t == SubSeq(out, 1, k)
  <2>1. t \in Seq(S) /\ Len(t) = k /\ \A n \in 1..k : t[n] = out[n]
    <3>1. k <= Len(out) /\ k \in Nat /\ \A n \in 1..k : out[n] \in S
      BY <1>1, ElementOfSeq
    <3> QED BY <3>1, SubSeqProperties
  <2> HIDE DEF t
  <2>2. /\ sent \o t \in Seq(S) /\ Len(sent \o t) = Len(sent) + k
        /\ \A n \in 1..Len(sent) + k :
             (sent \o t)[n] = IF n <= Len(sent) THEN sent[n] ELSE t[n - Len(sent)]
    BY <2>1, ConcatProperties
  <2>3. ASSUME NEW n \in 1..Len(sent \o t) PROVE (sent \o t)[n] = (sent \o out)[n]
    <3>1. n \in 1..Len(sent) + k /\ n \in 1..Len(sent) + Len(out)
      BY <1>1, <2>2, <2>3
    <3>2. CASE n <= Len(sent)
      BY <1>1, <2>2, <3>1, <3>2
    <3>3. CASE ~(n <= Len(sent))
      <4>1. n - Len(sent) \in 1..k
        BY <1>1, <3>1, <3>3
      <4> QED BY <1>1, <2>1, <2>2, <3>1, <3>3, <4>1
    <3> QED BY <3>2, <3>3
  <2>4. sent' = sent \o t
    BY <1>3 DEF t
  <2>5. Len(sent \o t) <= Len(sent \o out)
    BY <1>1, <2>2
  <2> QED BY <2>2, <2>3, <2>4, <2>5
<1> QED BY <1>1, <1>2, <1>3 DEF Emits, ClosesOutput

-----------------------------------------------------------------------------
(* What the endpoint has written. *)

Upstreams ==
  {"opened", "started", "pinged", "ended", "stopped", "done", "failed", "broken"}
Ended == {"ended", "stopped", "done"}
EndTypes == {"message_delta", "message_stop"}
ClosingTypes == EndTypes \cup {"[DONE]"}
BadTypes == {"error", "invalid"}

BlockRecords == [kind : BlockKinds, told : 0..MaxPieces, open : BOOLEAN]
PiecesOf(i) == [item : {i}, piece : Nat]

(* The lines of an event, and not of a blank line.                         *)
IsEvent(b) == b \notin {LF, CR}
Is(b, types) == IsEvent(b) /\ b.type \in types

(* The event is of a block that has begun.                                 *)
FitsBlock(event, c) ==
  /\ event.index \in 1..Len(c) /\ event.kind = c[event.index].kind
  /\ event.pieces \in Seq(PiecesOf(event.index))

(* The body t tells the blocks c, each with its start first, and when the  *)
(* answer has ended or failed it says so, with nothing after the end but   *)
(* what may close the stream.                                              *)
Written(t, c, up) ==
  /\ c \in Seq(BlockRecords) /\ Len(c) <= NumBlocks
  /\ \A n \in 1..Len(t) : Is(t[n], BlockTypes) => FitsBlock(t[n], c)
  /\ \A m, n \in 1..Len(t) :
       Is(t[m], {"content_block_start"}) /\ Is(t[n], BlockTypes) /\ t[n].index = t[m].index
         => m <= n
  /\ \A i \in 1..Len(c) : \E m \in 1..Len(t) :
       Is(t[m], {"content_block_start"}) /\ t[m].index = i
  /\ \A m, n \in 1..Len(t) :
       Is(t[m], EndTypes) /\ m < n /\ IsEvent(t[n]) => t[n].type \in ClosingTypes
  /\ \A n \in 1..Len(t) : Is(t[n], EndTypes) => up \in Ended
  /\ up \in Ended => \E m \in 1..Len(t) : Is(t[m], {"message_delta"})
  /\ up = "failed" => \E m \in 1..Len(t) : Is(t[m], BadTypes)
  /\ up \in Upstreams

(* t is s with an event, and line ends after it.                           *)
Wrote(s, t, event) ==
  /\ Len(s) \in Nat /\ Len(t) \in Nat /\ Len(s) < Len(t)
  /\ \A n \in 1..Len(s) : t[n] = s[n]
  /\ t[Len(s) + 1] = event
  /\ \A n \in (Len(s) + 2)..Len(t) : t[n] \in {LF, CR}

LEMMA WroteEvents ==
  ASSUME NEW s, NEW t, NEW event, IsEvent(event), Wrote(s, t, event)
  PROVE  /\ Len(s) + 1 \in 1..Len(t) /\ t[Len(s) + 1] = event
         /\ \A n \in 1..Len(s) : n \in 1..Len(t) /\ t[n] = s[n]
         /\ \A n \in 1..Len(t) : IsEvent(t[n]) => n \in 1..Len(s) \/ n = Len(s) + 1
<1>1. /\ Len(s) \in Nat /\ Len(t) \in Nat /\ Len(s) < Len(t)
      /\ \A n \in 1..Len(s) : t[n] = s[n]
      /\ t[Len(s) + 1] = event
      /\ \A n \in (Len(s) + 2)..Len(t) : t[n] \in {LF, CR}
  BY DEF Wrote
<1>2. ASSUME NEW n \in 1..Len(t), IsEvent(t[n]) PROVE n \in 1..Len(s) \/ n = Len(s) + 1
  <2>1. n \notin (Len(s) + 2)..Len(t)
    BY <1>1, <1>2 DEF IsEvent
  <2> QED BY <1>1, <2>1
<1> QED BY <1>1, <1>2

(* A start is the first event of its block, and none comes after the end.  *)
LEMMA WrittenOn ==
  ASSUME NEW s, NEW c, NEW up, Written(s, c, up),
         NEW t, NEW event, IsEvent(event), Wrote(s, t, event),
         NEW d \in Seq(BlockRecords), Len(d) <= NumBlocks, NEW next \in Upstreams,
         \A i \in 1..Len(c) : i \in 1..Len(d) /\ d[i].kind = c[i].kind,
         \A i \in 1..Len(d) : i \in 1..Len(c)
                              \/ (event.type = "content_block_start" /\ event.index = i),
         event.type \in BlockTypes => FitsBlock(event, d),
         event.type = "content_block_start" => event.index \notin 1..Len(c),
         up \in Ended => event.type \in ClosingTypes /\ next \in Ended,
         event.type \in EndTypes => next \in Ended,
         next \in Ended => up \in Ended \/ event.type = "message_delta",
         next = "failed" => event.type \in BadTypes
  PROVE  Written(t, d, next)
<1> DEFINE k == Len(s) + 1
<1>1. /\ k \in 1..Len(t) /\ t[k] = event
      /\ \A n \in 1..Len(s) : n \in 1..Len(t) /\ t[n] = s[n] /\ n < k
      /\ \A n \in 1..Len(t) : IsEvent(t[n]) => n \in 1..Len(s) \/ n = k
      /\ k \in Nat
  <2>1. \A n \in 1..Len(s) : n < k
    BY DEF Wrote
  <2>2. k \in Nat
    BY DEF Wrote
  <2> QED BY <2>1, <2>2, WroteEvents
<1> HIDE DEF k
<1>2. \A n \in 1..Len(s) : Is(s[n], BlockTypes) => FitsBlock(s[n], c)
  BY DEF Written
<1>3. ASSUME NEW n \in 1..Len(t), Is(t[n], BlockTypes) PROVE FitsBlock(t[n], d)
  <2>1. CASE n \in 1..Len(s)
    <3>1. FitsBlock(t[n], c)
      BY <1>1, <1>2, <1>3, <2>1
    <3> QED BY <3>1 DEF FitsBlock
  <2>2. CASE n = k
    BY <1>1, <1>3, <2>2 DEF Is
  <2> QED BY <1>1, <1>3, <2>1, <2>2 DEF Is
<1>4. ASSUME NEW m \in 1..Len(t), NEW n \in 1..Len(t),
             Is(t[m], {"content_block_start"}), Is(t[n], BlockTypes), t[n].index = t[m].index
      PROVE  m <= n
  <2>1. /\ m \in 1..Len(s) \/ m = k
        /\ n \in 1..Len(s) \/ n = k
    BY <1>1, <1>4 DEF Is
  <2>2. CASE m \in 1..Len(s) /\ n \in 1..Len(s)
    <3>1. t[m] = s[m] /\ t[n] = s[n]
      BY <1>1, <2>2
    <3> QED BY <1>4, <2>2, <3>1 DEF Written
  <2>3. CASE n = k
    BY <1>1, <2>1, <2>3
  <2>4. CASE m = k /\ n \in 1..Len(s)
    <3>1. event.type = "content_block_start" /\ event.index \notin 1..Len(c)
      BY <1>1, <1>4, <2>4 DEF Is
    <3>2. t[n].index \in 1..Len(c)
      BY <1>1, <1>2, <1>4, <2>4 DEF FitsBlock
    <3> QED BY <1>1, <1>4, <2>4, <3>1, <3>2
  <2> QED BY <2>1, <2>2, <2>3, <2>4
<1>5. ASSUME NEW i \in 1..Len(d)
      PROVE  \E m \in 1..Len(t) : Is(t[m], {"content_block_start"}) /\ t[m].index = i
  <2>1. CASE i \in 1..Len(c)
    <3>1. PICK m \in 1..Len(s) : Is(s[m], {"content_block_start"}) /\ s[m].index = i
      BY <2>1 DEF Written
    <3> QED BY <1>1, <3>1
  <2>2. CASE event.type = "content_block_start" /\ event.index = i
    BY <1>1, <2>2 DEF Is
  <2> QED BY <2>1, <2>2
<1>6. ASSUME NEW m \in 1..Len(t), NEW n \in 1..Len(t),
             Is(t[m], EndTypes), m < n, IsEvent(t[n])
      PROVE  t[n].type \in ClosingTypes
  <2>1. m \in 1..Len(s)
    <3>1. m \in 1..Len(s) \/ m = k
      BY <1>1, <1>6 DEF Is
    <3>2. n \in 1..Len(s) \/ n = k
      BY <1>1, <1>6
    <3> QED BY <1>1, <1>6, <3>1, <3>2
  <2>2. Is(s[m], EndTypes) /\ up \in Ended
    BY <1>1, <1>6, <2>1 DEF Written
  <2>3. CASE n \in 1..Len(s)
    <3>1. t[n] = s[n]
      BY <1>1, <2>3
    <3> QED BY <1>6, <2>1, <2>2, <2>3, <3>1 DEF Written
  <2>4. CASE n = k
    BY <1>1, <2>2, <2>4
  <2> QED BY <1>1, <1>6, <2>3, <2>4
<1>7. ASSUME NEW n \in 1..Len(t), Is(t[n], EndTypes) PROVE next \in Ended
  <2>1. CASE n \in 1..Len(s)
    BY <1>1, <1>7, <2>1 DEF Written
  <2>2. CASE n = k
    BY <1>1, <1>7, <2>2 DEF Is
  <2> QED BY <1>1, <1>7, <2>1, <2>2 DEF Is
<1>8. ASSUME next \in Ended PROVE \E m \in 1..Len(t) : Is(t[m], {"message_delta"})
  <2>1. CASE up \in Ended
    <3>1. PICK m \in 1..Len(s) : Is(s[m], {"message_delta"})
      BY <2>1 DEF Written
    <3> QED BY <1>1, <3>1
  <2>2. CASE event.type = "message_delta"
    BY <1>1, <2>2 DEF Is
  <2> QED BY <1>8, <2>1, <2>2
<1>9. next = "failed" => \E m \in 1..Len(t) : Is(t[m], BadTypes)
  BY <1>1 DEF Is
<1> QED BY <1>3, <1>4, <1>5, <1>6, <1>7, <1>8, <1>9 DEF Written

USE ClaudeAssumption, BytesAssumption

LEMMA PieceSequences ==
  ASSUME NEW i, NEW k \in Nat
  PROVE  Pieces(i, 1, 0) = <<>> /\ Pieces(i, k, k) = <<Piece(i, k)>>
<1>1. Pieces(i, 1, 0) = <<>>
  BY DEF Pieces
<1>2. Pieces(i, k, k) = <<Piece(i, k)>>
  <2>1. k - k + 1 = 1 /\ k + 1 - 1 = k
    OBVIOUS
  <2> QED BY <2>1 DEF Pieces
<1> QED BY <1>1, <1>2

LEMMA PlainShapes ==
  /\ \A type \in PlainTypes : PlainEvent(type) \in Events /\ PlainEvent(type).type = type
  /\ \A reason \in StopReasons : Event("message_delta", 0, "none", <<>>, reason) \in Events
BY DEF Events, PlainEvent, Event

LEMMA BlockShapes ==
  ASSUME NEW type \in BlockTypes, NEW i \in BlockIndexes, NEW kind \in BlockKinds, NEW k
  PROVE  /\ Event(type, i, kind, <<>>, "") \in BlockEvents
         /\ k \in 1..MaxPieces => Event(type, i, kind, <<Piece(i, k)>>, "") \in BlockEvents
<1>1. Event(type, i, kind, <<>>, "") \in BlockEvents
  BY DEF Event, BlockEvents
<1>2. ASSUME k \in 1..MaxPieces
      PROVE  Event(type, i, kind, <<Piece(i, k)>>, "") \in BlockEvents
  BY <1>2 DEF Event, BlockEvents
<1> QED BY <1>1, <1>2

LEMMA BlockEventsAreEvents ==
  \A event \in BlockEvents : event \in Events
BY DEF Events

LEMMA EventsAreEvents ==
  Events \subseteq Byte /\ \A event \in Events : IsEvent(event)
BY DEF Bytes, IsEvent

(* An event is written, whole or with a part of its blank line.            *)
LEMMA WritesOn ==
  ASSUME DecoderTypeOK, NEW event \in Events, Writes(event)
  PROVE  /\ Wrote(text, text', event) /\ IsEvent(event)
         /\ \E bytes \in Seq(Byte), last \in BOOLEAN : Write(bytes, last)
         /\ Reading /\ UNCHANGED <<pumpVars, bridgeVars>>
<1> DEFINE end == EndOfEvent(event)
           bytes == <<event>> \o end
<1>1. PICK n \in 1..Len(bytes) : Write(SubSeq(bytes, 1, n), n < Len(bytes))
  BY DEF Writes
<1>2. /\ end \in Seq({LF, CR}) /\ end \in Seq(Byte) /\ <<event>> \in Seq(Byte)
      /\ Len(<<event>>) = 1 /\ <<event>>[1] = event
  <2>1. BlankLine \in Seq({LF, CR}) /\ BlankLineCR \in Seq({LF, CR})
    BY DEF BlankLine, BlankLineCR
  <2>2. end \in {BlankLine, BlankLineCR}
    BY DEF EndOfEvent
  <2> HIDE DEF end
  <2>3. end \in Seq({LF, CR})
    BY <2>1, <2>2
  <2>4. end \in Seq(Byte)
    BY <2>3, SeqMonotonic
  <2>5. event \in Byte
    BY EventsAreEvents
  <2> QED BY <2>3, <2>4, <2>5
<1> HIDE DEF end
<1>3. /\ bytes \in Seq(Byte) /\ Len(bytes) \in Nat /\ bytes[1] = event
      /\ \A i \in 2..Len(bytes) : bytes[i] \in {LF, CR}
  <2>1. /\ bytes \in Seq(Byte) /\ Len(bytes) = 1 + Len(end) /\ Len(end) \in Nat
        /\ \A i \in 1..1 + Len(end) : bytes[i] = IF i <= 1 THEN event ELSE end[i - 1]
    BY <1>2, ConcatProperties
  <2>2. \A i \in 1..Len(end) : end[i] \in {LF, CR}
    BY <1>2, ElementOfSeq
  <2>3. \A i \in 2..Len(bytes) : i \in 1..1 + Len(end) /\ i - 1 \in 1..Len(end) /\ ~(i <= 1)
    BY <2>1
  <2>4. \A i \in 2..Len(bytes) : bytes[i] = end[i - 1]
    BY <2>1, <2>3
  <2> QED BY <2>1, <2>2, <2>3, <2>4
<1> HIDE DEF bytes
<1> DEFINE part == SubSeq(bytes, 1, n)
<1>4. part \in Seq(Byte) /\ Len(part) = n /\ \A i \in 1..n : part[i] = bytes[i]
  <2>1. n \in Nat /\ 1 <= n /\ \A i \in 1..n : bytes[i] \in Byte
    BY <1>3, ElementOfSeq
  <2> QED BY <2>1, SubSeqProperties
<1>5. Write(part, n < Len(bytes)) /\ (n < Len(bytes)) \in BOOLEAN
  BY <1>1
<1> HIDE DEF part
<1>6. /\ text' = text \o part /\ text \in Seq(Byte)
      /\ Len(text') = Len(text) + n /\ Len(text) \in Nat
      /\ \A i \in 1..Len(text) + n :
           text'[i] = IF i <= Len(text) THEN text[i] ELSE part[i - Len(text)]
  <2>1. text' = text \o part /\ text \in Seq(Byte) /\ Len(text) \in Nat
    BY <1>5, LenProperties DEF Write, DecoderTypeOK
  <2>2. /\ Len(text \o part) = Len(text) + Len(part)
        /\ \A i \in 1..Len(text) + Len(part) :
             (text \o part)[i] = IF i <= Len(text) THEN text[i] ELSE part[i - Len(text)]
    BY <1>4, <2>1, ConcatProperties
  <2> QED BY <1>4, <2>1, <2>2
<1>7. Wrote(text, text', event)
  <2>1. n \in Nat /\ n >= 1
    BY <1>3
  <2>2. \A i \in 1..Len(text) : text'[i] = text[i]
    BY <1>6, <2>1
  <2>3. text'[Len(text) + 1] = event
    <3>1. Len(text) + 1 \in 1..Len(text) + n /\ ~(Len(text) + 1 <= Len(text))
          /\ (Len(text) + 1) - Len(text) = 1 /\ 1 \in 1..n
      BY <1>6, <2>1
    <3> QED BY <1>3, <1>4, <1>6, <3>1
  <2>4. ASSUME NEW i \in (Len(text) + 2)..Len(text') PROVE text'[i] \in {LF, CR}
    <3>1. /\ i \in 1..Len(text) + n /\ ~(i <= Len(text)) /\ i - Len(text) \in 1..n
          /\ i - Len(text) \in 2..Len(bytes)
      BY <1>3, <1>6, <2>1
    <3> QED BY <1>3, <1>4, <1>6, <3>1
  <2> QED BY <1>6, <2>1, <2>2, <2>3, <2>4 DEF Wrote
<1>8. Reading /\ UNCHANGED <<pumpVars, bridgeVars>>
  BY DEF Writes, Waiting
<1> QED BY <1>4, <1>5, <1>7, <1>8, EventsAreEvents

(* A step of the endpoint: what it has written fits what it has told, no   *)
(* block changes its kind, and the pump waits meanwhile.                   *)
TellsOn ==
  /\ Written(text, content, upstream)'
  /\ \E bytes \in Seq(Byte), last \in BOOLEAN : Write(bytes, last)
  /\ \A i \in 1..Begun : i \in 1..Len(content') /\ content'[i].kind = content[i].kind
  /\ Reading /\ UNCHANGED <<pumpVars, bridgeVars>>

(* An event that is of no block.                                           *)
LEMMA PlainTold ==
  ASSUME DecoderTypeOK, Written(text, content, upstream), NEW event \in Events,
         Writes(event), event.type \notin BlockTypes, UNCHANGED content,
         upstream' \in Upstreams,
         upstream \in Ended => event.type \in ClosingTypes /\ upstream' \in Ended,
         event.type \in EndTypes => upstream' \in Ended,
         upstream' \in Ended => upstream \in Ended \/ event.type = "message_delta",
         upstream' = "failed" => event.type \in BadTypes
  PROVE  TellsOn
<1>1. /\ Wrote(text, text', event) /\ IsEvent(event)
      /\ \E bytes \in Seq(Byte), last \in BOOLEAN : Write(bytes, last)
      /\ Reading /\ UNCHANGED <<pumpVars, bridgeVars>>
  BY WritesOn
<1>2. content' = content /\ content \in Seq(BlockRecords) /\ Len(content) <= NumBlocks
  BY DEF Written
<1>3. event.type # "content_block_start"
  BY DEF BlockTypes
<1>4. Written(text', content, upstream')
  BY <1>1, <1>2, <1>3, WrittenOn
<1> QED BY <1>1, <1>2, <1>4 DEF TellsOn, Begun

(* An event of a block that has begun, or begins.                          *)
LEMMA BlockTold ==
  ASSUME DecoderTypeOK, Written(text, content, upstream), NEW type \in BlockTypes,
         NEW i \in Nat, NEW kind \in BlockKinds, NEW pieces \in Seq(PiecesOf(i)),
         Event(type, i, kind, pieces, "") \in BlockEvents, Writes(Event(type, i, kind, pieces, "")),
         NEW d \in Seq(BlockRecords), content' = d, Len(d) <= NumBlocks,
         \A j \in 1..Len(content) : j \in 1..Len(d) /\ d[j].kind = content[j].kind,
         i \in 1..Len(d), d[i].kind = kind,
         IF type = "content_block_start" THEN i = Len(d) /\ Len(d) = Len(content) + 1
         ELSE Len(d) = Len(content),
         Running, UNCHANGED upstream
  PROVE  TellsOn
<1> DEFINE event == Event(type, i, kind, pieces, "")
<1>1. /\ event.type = type /\ event.index = i /\ FitsBlock(event, d)
      /\ event \in BlockEvents /\ Writes(event)
  BY DEF Event, FitsBlock
<1> HIDE DEF event
<1>2. /\ Wrote(text, text', event) /\ IsEvent(event)
      /\ \E bytes \in Seq(Byte), last \in BOOLEAN : Write(bytes, last)
      /\ Reading /\ UNCHANGED <<pumpVars, bridgeVars>>
  BY <1>1, BlockEventsAreEvents, WritesOn
<1>3. upstream \notin Ended /\ upstream # "failed" /\ event.type \notin EndTypes
      /\ upstream \in Upstreams
  BY <1>1 DEF Running, Ended, EndTypes, BlockTypes, Upstreams
<1>4. /\ Len(content) \in Nat /\ Len(d) \in Nat
      /\ type # "content_block_start" => Len(d) = Len(content)
      /\ type = "content_block_start" => i = Len(d) /\ Len(d) = Len(content) + 1
  <2>1. content \in Seq(BlockRecords)
    BY DEF Written
  <2> QED BY <2>1, LenProperties
<1> DEFINE before == Len(content)
           after == Len(d)
<1> HIDE DEF before, after
<1>5. \A j \in 1..after : j \in 1..before
                          \/ (event.type = "content_block_start" /\ event.index = j)
  <2>1. /\ before \in Nat /\ after \in Nat
        /\ event.type # "content_block_start" => after = before
        /\ event.type = "content_block_start" => event.index = after /\ after = before + 1
    BY <1>1, <1>4 DEF before, after
  <2> QED BY ONLY <2>1
<1>6. event.type = "content_block_start" => event.index \notin 1..before
  <2>1. /\ before \in Nat
        /\ event.type = "content_block_start" => event.index = before + 1
    BY <1>1, <1>4 DEF before, after
  <2> QED BY ONLY <2>1
<1>7. Written(text', d, upstream)
  BY <1>1, <1>2, <1>3, <1>5, <1>6, WrittenOn DEF before, after
<1>8. Written(text, content, upstream)'
  BY <1>7
<1> QED BY <1>2, <1>8 DEF TellsOn, Begun

(* The blocks the endpoint has told so far.                                *)
LEMMA BlocksTold ==
  ASSUME Written(text, content, upstream)
  PROVE  /\ content \in Seq(BlockRecords) /\ Begun = Len(content) /\ Begun \in Nat
         /\ Begun <= NumBlocks /\ BlockIndexes = 1..NumBlocks /\ NumBlocks \in Nat
         /\ MaxPieces \in Nat
         /\ \A i \in 1..Begun : content[i] \in BlockRecords
         /\ Begun > 0 => Begun \in 1..Begun /\ Begun \in BlockIndexes
<1>1. content \in Seq(BlockRecords) /\ Begun <= NumBlocks
  BY DEF Written, Begun
<1>2. Begun = Len(content) /\ Begun \in Nat /\ \A i \in 1..Begun : content[i] \in BlockRecords
  BY <1>1, LenProperties, ElementOfSeq DEF Begun
<1>3. NumBlocks \in Nat /\ BlockIndexes = 1..NumBlocks /\ MaxPieces \in Nat
  BY DEF BlockIndexes
<1> QED BY <1>1, <1>2, <1>3

LEMMA BlockStartsTold ==
  ASSUME DecoderTypeOK, Written(text, content, upstream),
         NEW kind \in BlockKinds, NEW n \in 0..1, BlockStarts(kind, n)
  PROVE  TellsOn
<1> DEFINE i == Begun + 1
           block == [kind |-> kind, told |-> n, open |-> TRUE]
           d == Append(content, block)
<1>1. /\ content \in Seq(BlockRecords) /\ Begun = Len(content) /\ Begun \in Nat
      /\ Begun < NumBlocks /\ i \in BlockIndexes /\ i \in Nat /\ n <= MaxPieces
      /\ MaxPieces \in Nat
  <2>1. Begun < NumBlocks /\ n <= MaxPieces
    BY DEF BlockStarts
  <2>2. /\ content \in Seq(BlockRecords) /\ Begun = Len(content) /\ Begun \in Nat
        /\ BlockIndexes = 1..NumBlocks /\ NumBlocks \in Nat /\ MaxPieces \in Nat
    BY BlocksTold
  <2>3. i \in 1..NumBlocks /\ i \in Nat
    BY <2>1, <2>2
  <2> QED BY <2>1, <2>2, <2>3
<1>2. block \in BlockRecords /\ block.kind = kind
  BY <1>1 DEF BlockRecords
<1> HIDE DEF block
<1>3. /\ d \in Seq(BlockRecords) /\ Len(d) = Len(content) + 1 /\ d[Len(content) + 1] = block
      /\ \A j \in 1..Len(content) : d[j] = content[j]
  BY <1>1, <1>2, AppendProperties
<1> HIDE DEF d
<1>4. /\ Writes(Event("content_block_start", i, kind, Pieces(i, 1, n), ""))
      /\ content' = d /\ Running /\ UNCHANGED upstream
  BY DEF BlockStarts, d, block, Between
<1>5. Pieces(i, 1, n) = <<>> \/ (1 \in 1..MaxPieces /\ Pieces(i, 1, n) = <<Piece(i, 1)>>)
  <2>1. n = 0 \/ n = 1
    OBVIOUS
  <2>2. n = 1 => 1 \in 1..MaxPieces
    BY <1>1
  <2> QED BY <2>1, <2>2, PieceSequences
<1>6. "content_block_start" \in BlockTypes
  BY DEF BlockTypes
<1>7. Event("content_block_start", i, kind, Pieces(i, 1, n), "") \in BlockEvents
  BY <1>1, <1>5, <1>6, BlockShapes
<1>8. Pieces(i, 1, n) \in Seq(PiecesOf(i))
  <2>1. Piece(i, 1) \in PiecesOf(i)
    BY DEF Piece, PiecesOf
  <2>2. <<>> \in Seq(PiecesOf(i)) /\ <<Piece(i, 1)>> \in Seq(PiecesOf(i))
    BY <2>1
  <2> QED BY <1>5, <2>2
<1>9. /\ i \in 1..Len(d) /\ d[i].kind = kind /\ i = Len(d)
      /\ \A j \in 1..Len(content) : j \in 1..Len(d) /\ d[j].kind = content[j].kind
      /\ Len(d) <= NumBlocks
  BY <1>1, <1>2, <1>3
<1> DEFINE pieces == Pieces(i, 1, n)
<1> HIDE DEF i, pieces
<1>10. /\ Event("content_block_start", i, kind, pieces, "") \in BlockEvents
       /\ Writes(Event("content_block_start", i, kind, pieces, ""))
       /\ pieces \in Seq(PiecesOf(i)) /\ i \in Nat
  BY <1>1, <1>4, <1>7, <1>8 DEF pieces
<1> QED BY <1>3, <1>4, <1>6, <1>9, <1>10, BlockTold

LEMMA BlockGoesOnTold ==
  ASSUME DecoderTypeOK, Written(text, content, upstream), BlockGoesOn
  PROVE  TellsOn
<1> DEFINE i == Begun
           k == content[i].told + 1
           kind == content[i].kind
           d == [content EXCEPT ![i].told = k]
<1>1. /\ content \in Seq(BlockRecords) /\ i = Len(content) /\ i \in 1..i /\ i \in BlockIndexes
      /\ i \in Nat /\ content[i] \in BlockRecords /\ i <= NumBlocks /\ MaxPieces \in Nat
  BY BlocksTold DEF BlockGoesOn
<1>2. kind \in BlockKinds /\ k \in 1..MaxPieces /\ k \in Nat
  <2>1. content[i].kind \in BlockKinds /\ content[i].told \in 0..MaxPieces
    BY <1>1 DEF BlockRecords
  <2>2. content[i].told < MaxPieces
    BY DEF BlockGoesOn
  <2> QED BY <1>1, <2>1, <2>2
<1>3. /\ d \in Seq(BlockRecords) /\ Len(d) = Len(content) /\ d[i].kind = kind
      /\ \A j \in 1..Len(content) : d[j].kind = content[j].kind
  <2> DEFINE block == [content[i] EXCEPT !.told = k]
  <2>1. block \in BlockRecords /\ block.kind = kind
    BY <1>1, <1>2 DEF BlockRecords
  <2>2. d = [content EXCEPT ![i] = block]
    OBVIOUS
  <2> HIDE DEF block, d
  <2>3. /\ d \in Seq(BlockRecords) /\ Len(d) = Len(content)
        /\ \A j \in 1..Len(content) : d[j] = IF j = i THEN block ELSE content[j]
    BY <1>1, <2>1, <2>2, ExceptSeq
  <2> QED BY <1>1, <2>1, <2>3
<1>4. /\ Writes(Event("content_block_delta", i, kind, Pieces(i, k, k), ""))
      /\ content' = d /\ Running /\ UNCHANGED upstream
  BY DEF BlockGoesOn
<1> HIDE DEF i, k, kind, d
<1>5. Pieces(i, k, k) = <<Piece(i, k)>>
  BY <1>2, PieceSequences
<1>6. "content_block_delta" \in BlockTypes /\ "content_block_delta" # "content_block_start"
  BY DEF BlockTypes
<1>7. Event("content_block_delta", i, kind, Pieces(i, k, k), "") \in BlockEvents
  BY <1>1, <1>2, <1>5, <1>6, BlockShapes
<1>8. Pieces(i, k, k) \in Seq(PiecesOf(i))
  BY <1>2, <1>5 DEF Piece, PiecesOf
<1>9. /\ i \in 1..Len(d) /\ Len(d) <= NumBlocks
      /\ \A j \in 1..Len(content) : j \in 1..Len(d) /\ d[j].kind = content[j].kind
  BY <1>1, <1>3
<1> DEFINE pieces == Pieces(i, k, k)
<1> HIDE DEF pieces
<1>10. /\ Event("content_block_delta", i, kind, pieces, "") \in BlockEvents
       /\ Writes(Event("content_block_delta", i, kind, pieces, ""))
       /\ pieces \in Seq(PiecesOf(i))
  BY <1>4, <1>7, <1>8 DEF pieces
<1> QED BY <1>1, <1>2, <1>3, <1>4, <1>6, <1>9, <1>10, BlockTold

LEMMA BlockStopsTold ==
  ASSUME DecoderTypeOK, Written(text, content, upstream), BlockStops
  PROVE  TellsOn
<1> DEFINE i == Begun
           kind == content[i].kind
           d == [content EXCEPT ![i].open = FALSE]
<1>1. /\ content \in Seq(BlockRecords) /\ i = Len(content) /\ i \in 1..i /\ i \in BlockIndexes
      /\ i \in Nat /\ content[i] \in BlockRecords /\ i <= NumBlocks
  BY BlocksTold DEF BlockStops
<1>2. kind \in BlockKinds
  BY <1>1 DEF BlockRecords
<1>3. /\ d \in Seq(BlockRecords) /\ Len(d) = Len(content) /\ d[i].kind = kind
      /\ \A j \in 1..Len(content) : d[j].kind = content[j].kind
  <2> DEFINE block == [content[i] EXCEPT !.open = FALSE]
  <2>1. block \in BlockRecords /\ block.kind = kind
    BY <1>1 DEF BlockRecords
  <2>2. d = [content EXCEPT ![i] = block]
    OBVIOUS
  <2> HIDE DEF block, d
  <2>3. /\ d \in Seq(BlockRecords) /\ Len(d) = Len(content)
        /\ \A j \in 1..Len(content) : d[j] = IF j = i THEN block ELSE content[j]
    BY <1>1, <2>1, <2>2, ExceptSeq
  <2> QED BY <1>1, <2>1, <2>3
<1>4. /\ Writes(Event("content_block_stop", i, kind, <<>>, ""))
      /\ content' = d /\ Running /\ UNCHANGED upstream
  BY DEF BlockStops
<1> HIDE DEF i, kind, d
<1>5. "content_block_stop" \in BlockTypes /\ "content_block_stop" # "content_block_start"
  BY DEF BlockTypes
<1>6. Event("content_block_stop", i, kind, <<>>, "") \in BlockEvents
  BY <1>1, <1>2, <1>5, BlockShapes
<1>7. <<>> \in Seq(PiecesOf(i))
  OBVIOUS
<1>8. /\ i \in 1..Len(d) /\ Len(d) <= NumBlocks
      /\ \A j \in 1..Len(content) : j \in 1..Len(d) /\ d[j].kind = content[j].kind
  BY <1>1, <1>3
<1> QED BY <1>1, <1>2, <1>3, <1>4, <1>5, <1>6, <1>7, <1>8, BlockTold

(* The body ends: nothing more is written, or a fragment of an event.      *)
LEMMA BodyEndsTold ==
  ASSUME DecoderTypeOK, Written(text, content, upstream), BodyEnds
  PROVE  TellsOn
<1>1. Reading /\ UNCHANGED <<pumpVars, bridgeVars>> /\ content' = content
  BY DEF BodyEnds, Waiting
<1>2. Begun = Len(content) /\ text \in Seq(Byte) /\ Len(text) \in Nat
  BY LenProperties DEF Begun, DecoderTypeOK
<1>3. CASE Write(<<>>, TRUE) /\ upstream' = upstream
  <2>1. text' = text
    BY <1>2, <1>3, ConcatEmptySeq DEF Write
  <2>2. <<>> \in Seq(Byte) /\ TRUE \in BOOLEAN
    OBVIOUS
  <2>3. Written(text, content, upstream)'
    BY <1>1, <1>3, <2>1
  <2> QED BY <1>1, <1>2, <1>3, <2>2, <2>3 DEF TellsOn
<1>4. CASE Running /\ Write(<<Fragment>>, TRUE) /\ upstream' = "broken"
  <2>1. /\ Fragment \in Events /\ Fragment.type = "fragment"
        /\ Fragment \in Byte /\ IsEvent(Fragment)
    <3>1. "fragment" \in PlainTypes
      BY DEF PlainTypes
    <3> QED BY <3>1, PlainShapes, EventsAreEvents DEF Fragment
  <2>2. <<Fragment>> \in Seq(Byte) /\ TRUE \in BOOLEAN
    BY <2>1
  <2>3. text' = Append(text, Fragment)
    BY <1>2, <1>4 DEF Write
  <2>4. /\ Len(text') = Len(text) + 1 /\ text'[Len(text) + 1] = Fragment
        /\ \A n \in 1..Len(text) : text'[n] = text[n]
    BY <1>2, <2>1, <2>3, AppendProperties
  <2>5. Wrote(text, text', Fragment)
    BY <1>2, <2>4 DEF Wrote
  <2>6. /\ upstream \notin Ended /\ "broken" \notin Ended /\ "broken" \in Upstreams
        /\ Fragment.type \notin BlockTypes /\ Fragment.type \notin EndTypes
        /\ Fragment.type # "content_block_start"
    BY <1>4, <2>1 DEF Running, Ended, Upstreams, BlockTypes, EndTypes
  <2>7. content \in Seq(BlockRecords) /\ Len(content) <= NumBlocks
    BY DEF Written
  <2>8. Written(text', content, "broken")
    BY <2>1, <2>5, <2>6, <2>7, WrittenOn
  <2>9. Written(text, content, upstream)'
    BY <1>1, <1>4, <2>8
  <2> QED BY <1>1, <1>2, <1>4, <2>2, <2>9 DEF TellsOn
<1> QED BY <1>3, <1>4 DEF BodyEnds

LEMMA EndpointTells ==
  ASSUME DecoderTypeOK, Written(text, content, upstream), EndpointNext
  PROVE  TellsOn
<1> USE DEF Ended, Upstreams, BlockTypes, EndTypes, ClosingTypes, BadTypes, Running, PlainTypes
<1>1. CASE MessageStarts
  <2>1. PlainEvent("message_start") \in Events /\ PlainEvent("message_start").type = "message_start"
    BY PlainShapes
  <2> QED BY <1>1, <2>1, PlainTold DEF MessageStarts
<1>2. CASE Pings
  <2>1. PlainEvent("ping") \in Events /\ PlainEvent("ping").type = "ping"
    BY PlainShapes
  <2> QED BY <1>2, <2>1, PlainTold DEF Pings
<1>3. ASSUME NEW reason \in StopReasons, MessageEnds(reason) PROVE TellsOn
  <2> DEFINE event == Event("message_delta", 0, "none", <<>>, reason)
  <2>1. event \in Events /\ event.type = "message_delta"
    BY PlainShapes DEF Event
  <2>2. Writes(event) /\ upstream' = "ended" /\ content' = content /\ Running
    BY <1>3 DEF MessageEnds, Between
  <2> HIDE DEF event
  <2> QED BY <2>1, <2>2, PlainTold
<1>4. CASE MessageStops
  <2>1. PlainEvent("message_stop") \in Events /\ PlainEvent("message_stop").type = "message_stop"
    BY PlainShapes
  <2> QED BY <1>4, <2>1, PlainTold DEF MessageStops
<1>5. CASE SendsDone
  <2>1. PlainEvent("[DONE]") \in Events /\ PlainEvent("[DONE]").type = "[DONE]"
    BY PlainShapes
  <2> QED BY <1>5, <2>1, PlainTold DEF SendsDone
<1>6. CASE Fails
  <2>1. PICK type \in {"error", "invalid"} : Writes(PlainEvent(type))
    BY <1>6 DEF Fails
  <2>2. PlainEvent(type) \in Events /\ PlainEvent(type).type = type
    BY PlainShapes
  <2> QED BY <1>6, <2>1, <2>2, PlainTold DEF Fails
<1> QED BY <1>1, <1>2, <1>3, <1>4, <1>5, <1>6, BlockStartsTold, BlockGoesOnTold,
           BlockStopsTold, BodyEndsTold DEF EndpointNext

-----------------------------------------------------------------------------
(* What the bridge has taken of it, and what the client has got for it. *)

(* How much of the body the frames handed out so far make up.              *)
Done == IF flushed THEN Len(text) ELSE LastCut

(* The frame in hand is an event of that part, or stands for none.         *)
FrameTold ==
  /\ frame # NoFrame => output = "open"
  /\ \/ frame \in {NoFrame, PlainEvent("nodata"), PlainEvent("invalid")}
     \/ \E m \in 1..Done : IsEvent(text[m]) /\ text[m] = frame

(* As long as nothing has failed, every event of that part is in hand or   *)
(* has had its effect: no frame is lost.                                   *)
Healthy == output = "open" /\ frame.type \notin BadTypes
Handled(event) ==
  /\ event.type \notin BadTypes
  /\ event.type = "content_block_start" => blocks[event.index] # NoBlock \/ frame = event
  /\ event.type = "message_delta" => stopped \/ frame = event
HandledInv == Healthy => \A m \in 1..Done : IsEvent(text[m]) => Handled(text[m])

(* And the bridge knows nothing but what that part has told.               *)
BlocksInv ==
  \A i \in BlockIndexes : blocks[i] # NoBlock =>
    /\ i \in 1..Begun /\ blocks[i].kind = content[i].kind
    /\ \E m \in 1..Done : Is(text[m], BlockTypes) /\ text[m].index = i
StopInv ==
  /\ stopped => \E m \in 1..Done : Is(text[m], EndTypes)
  /\ frame.type = "content_block_start" => blocks[frame.index] = NoBlock
  /\ frame.type \in BlockTypes \cup {"message_start"} => ~stopped

BridgeInv == FrameTold /\ HandledInv /\ BlocksInv /\ StopInv

Tools == {i \in BlockIndexes : blocks[i].kind = "tool_use"}
IndexInv == nextToolIndex = Cardinality(Tools)

(* s is what the client has, or will have, when the map is map: there is   *)
(* one head for each call of the map, with its index.                      *)
HeadsTold(s, map, next) ==
  /\ Cardinality(ToolsIn(s, Len(s))) = next
  /\ \A i \in BlockIndexes : map[i].kind = "tool_use" =>
       \E m \in ToolsIn(s, Len(s)) : s[m].item = i /\ s[m].index = map[i].toolIndex
  /\ \A m \in ToolsIn(s, Len(s)) : map[s[m].item].kind = "tool_use"

ChatInv ==
  /\ LegalChat(sent)
  /\ output = "open" =>
       /\ IF started THEN sent # <<>> ELSE sent = <<>> /\ ~stopped
       /\ IF stopped THEN sent[Len(sent)].type = "finish"
          ELSE \A n \in 1..Len(sent) : sent[n].type # "finish"
       /\ HeadsTold(sent, blocks, nextToolIndex)

(* What the clean end of the output means.                                 *)
EndInv == EndNotLost /\ (upstream = "failed" => output # "ended")

ChatBridgeInv ==
  /\ DecoderInv /\ Written(text, content, upstream)
  /\ ChatTypeOK /\ started \in BOOLEAN /\ stopped \in BOOLEAN /\ hasToolCalls \in BOOLEAN
  /\ BridgeInv /\ IndexInv /\ ChatInv /\ EndInv

LEMMA DoneType ==
  ASSUME DecoderInv
  PROVE  Done \in Nat /\ Done <= Len(text) /\ Len(text) \in Nat
<1>1. Len(text) \in Nat /\ Len(cuts) \in Nat
  BY LenProperties DEF DecoderInv, DecoderTypeOK
<1>2. LastCut \in 0..Len(text)
  BY <1>1, CutAtType DEF DecoderInv, LastCut
<1> QED BY <1>1, <1>2 DEF Done

(* parseSSEFrame: what a frame can be, by the events that are in it.       *)
LEMMA ParsesEvents ==
  ASSUME NEW raw, NEW f \in Parses(raw)
  PROVE  \/ f = PlainEvent("invalid")
         \/ /\ f = PlainEvent("nodata")
            /\ \A n \in 1..Len(raw) : IsEvent(raw[n]) => raw[n] = Fragment
         \/ \E n \in 1..Len(raw) :
              /\ IsEvent(raw[n]) /\ f = raw[n]
              /\ \A k \in 1..Len(raw) : IsEvent(raw[k]) => k = n
<1> DEFINE told == {n \in 1..Len(raw) : raw[n] \notin {LF, CR}}
<1>1. \A n \in 1..Len(raw) : IsEvent(raw[n]) <=> n \in told
  BY DEF IsEvent
<1>2. told \subseteq 1..Len(raw)
  OBVIOUS
<1>3. f \in IF told = {} THEN {PlainEvent("nodata")}
            ELSE IF \E m, n \in told : m # n THEN {PlainEvent("invalid")}
            ELSE UNION {IF raw[n] = Fragment
                        THEN {PlainEvent("nodata"), PlainEvent("invalid")}
                        ELSE {raw[n]} : n \in told}
  BY Zenon DEF Parses
<1> HIDE DEF told
<1>4. CASE told = {}
  BY <1>1, <1>3, <1>4
<1>5. CASE \E m, n \in told : m # n
  BY <1>3, <1>5
<1>6. CASE told # {} /\ ~\E m, n \in told : m # n
  <2>1. PICK n \in told : f \in IF raw[n] = Fragment
                                THEN {PlainEvent("nodata"), PlainEvent("invalid")}
                                ELSE {raw[n]}
    BY <1>3, <1>6
  <2>2. n \in 1..Len(raw) /\ IsEvent(raw[n])
        /\ \A k \in 1..Len(raw) : IsEvent(raw[k]) => k = n
    BY <1>1, <1>2, <1>6
  <2> QED BY <2>1, <2>2
<1> QED BY <1>4, <1>5, <1>6

(* A part of the body is handed out, with f for the events in it.          *)
Hands(raw, done, f) ==
  /\ done \in Nat /\ Done <= done /\ done <= Len(text) /\ Len(raw) = done - Done
  /\ \A n \in 1..Len(raw) : raw[n] = text[Done + n]
  /\ f \in Parses(raw) \/ (f = NoFrame /\ \A n \in 1..Len(raw) : ~IsEvent(raw[n]))

(* Either it is worth nothing, or it holds one event, which is f.          *)
LEMMA HandsEvents ==
  ASSUME DecoderInv, NEW raw, NEW done, NEW f, Hands(raw, done, f)
  PROVE  \/ f = PlainEvent("invalid")
         \/ /\ f \in {NoFrame, PlainEvent("nodata")}
            /\ \A m \in 1..done : m \in 1..Done \/ (IsEvent(text[m]) => text[m] = Fragment)
         \/ \E k \in 1..done :
              /\ IsEvent(text[k]) /\ f = text[k] /\ k \notin 1..Done
              /\ \A m \in 1..done : m \in 1..Done \/ m = k \/ ~IsEvent(text[m])
<1>1. /\ Done \in Nat /\ done \in Nat /\ Done <= done /\ Len(raw) = done - Done
      /\ \A n \in 1..Len(raw) : raw[n] = text[Done + n]
  BY DoneType DEF Hands
<1>2. \A m \in 1..done : m \in 1..Done \/ (m - Done \in 1..Len(raw) /\ raw[m - Done] = text[m])
  <2> TAKE m \in 1..done
  <2>1. CASE m \notin 1..Done
    <3>1. m - Done \in 1..Len(raw) /\ Done + (m - Done) = m
      BY <1>1, <2>1
    <3> QED BY <1>1, <3>1
  <2> QED BY <2>1
<1>3. CASE f \in Parses(raw)
  <2>1. CASE f = PlainEvent("nodata")
               /\ \A n \in 1..Len(raw) : IsEvent(raw[n]) => raw[n] = Fragment
    BY <1>2, <2>1
  <2>2. ASSUME NEW n \in 1..Len(raw), IsEvent(raw[n]), f = raw[n],
               \A k \in 1..Len(raw) : IsEvent(raw[k]) => k = n
        PROVE  \E k \in 1..done :
                 /\ IsEvent(text[k]) /\ f = text[k] /\ k \notin 1..Done
                 /\ \A m \in 1..done : m \in 1..Done \/ m = k \/ ~IsEvent(text[m])
    <3> DEFINE k == Done + n
    <3>1. k \in 1..done /\ k \notin 1..Done /\ text[k] = raw[n]
      BY <1>1, <2>2
    <3>2. ASSUME NEW m \in 1..done, m \notin 1..Done, IsEvent(text[m]) PROVE m = k
      <4>1. m - Done \in 1..Len(raw) /\ IsEvent(raw[m - Done])
        BY <1>2, <3>2
      <4>2. m - Done = n
        BY <2>2, <4>1
      <4> QED BY <1>1, <4>2
    <3> QED BY <2>2, <3>1, <3>2
  <2> QED BY <1>3, <2>1, <2>2, ParsesEvents
<1>4. CASE f = NoFrame /\ \A n \in 1..Len(raw) : ~IsEvent(raw[n])
  BY <1>2, <1>4
<1> QED BY <1>3, <1>4 DEF Hands

LEMMA PlainFrames ==
  /\ NoFrame.type = "none" /\ PlainEvent("nodata").type = "nodata"
  /\ PlainEvent("invalid").type = "invalid" /\ Fragment.type = "fragment"
BY DEF NoFrame, PlainEvent, Event, Fragment

(* The bridge takes a frame: nothing that was handed out is lost.          *)
LEMMA HandsInv ==
  ASSUME DecoderInv, Written(text, content, upstream), BridgeInv, Reading,
         NEW raw, Hands(raw, Done', frame'), UNCHANGED <<text, content, output, bridgeVars>>
  PROVE  BridgeInv'
<1> DEFINE done == Done'
<1>1. /\ Done \in Nat /\ done \in Nat /\ Done <= done /\ \A m \in 1..Done : m \in 1..done
      /\ frame = NoFrame /\ output = "open" /\ Healthy
      /\ blocks' = blocks /\ stopped' = stopped /\ text' = text /\ content' = content
      /\ output' = "open"
  BY DoneType, PlainFrames DEF Hands, Reading, Healthy, BadTypes, bridgeVars
<1>2. \/ frame' = PlainEvent("invalid")
      \/ /\ frame' \in {NoFrame, PlainEvent("nodata")}
         /\ \A m \in 1..done : m \in 1..Done \/ (IsEvent(text[m]) => text[m] = Fragment)
      \/ \E k \in 1..done :
           /\ IsEvent(text[k]) /\ frame' = text[k] /\ k \notin 1..Done
           /\ \A m \in 1..done : m \in 1..Done \/ m = k \/ ~IsEvent(text[m])
  BY HandsEvents
<1> HIDE DEF done
<1>3. FrameTold'
  BY <1>1, <1>2 DEF FrameTold, done
<1>4. HandledInv'
  <2> SUFFICES ASSUME frame'.type \notin BadTypes, NEW m \in 1..done, IsEvent(text[m])
               PROVE  Handled(text[m])'
    BY <1>1 DEF HandledInv, Healthy, done
  <2>1. CASE m \in 1..Done
    <3>1. Handled(text[m])
      BY <1>1, <2>1 DEF BridgeInv, HandledInv
    <3> QED BY <1>1, <3>1, PlainFrames DEF Handled
  <2>2. CASE m \notin 1..Done
    <3>1. text[m] = Fragment \/ text[m] = frame'
      BY <1>2, <2>2, PlainFrames DEF BadTypes
    <3> QED BY <1>1, <3>1, PlainFrames DEF Handled, BadTypes
  <2> QED BY <2>1, <2>2
<1>5. BlocksInv'
  <2>1. BlocksInv
    BY DEF BridgeInv
  <2> SUFFICES ASSUME NEW i \in BlockIndexes, blocks[i] # NoBlock
               PROVE  /\ i \in 1..Begun' /\ blocks[i].kind = content[i].kind
                      /\ \E m \in 1..done : Is(text[m], BlockTypes) /\ text[m].index = i
    BY <1>1 DEF BlocksInv, done
  <2> QED BY <1>1, <2>1 DEF BlocksInv, Begun
<1>6. StopInv'
  <2>1. stopped => \E m \in 1..done : Is(text[m], EndTypes)
    BY <1>1 DEF BridgeInv, StopInv
  <2>2. ASSUME frame'.type \in BlockTypes \cup {"message_start"}
        PROVE  ~stopped /\ (frame'.type = "content_block_start" =>
                              blocks[frame'.index] = NoBlock)
    <3>1. PICK k \in 1..done : IsEvent(text[k]) /\ frame' = text[k] /\ k \notin 1..Done
      BY <1>2, <2>2, PlainFrames DEF BlockTypes
    <3>2. ASSUME stopped PROVE FALSE
      <4>1. PICK m \in 1..Done : Is(text[m], EndTypes)
        BY <3>2 DEF BridgeInv, StopInv
      <4>2. m < k /\ m \in 1..Len(text) /\ k \in 1..Len(text)
        BY <1>1, <3>1, DoneType DEF done, Hands
      <4>3. text[k].type \in ClosingTypes
        BY <3>1, <4>1, <4>2 DEF Written
      <4> QED BY <2>2, <3>1, <4>3 DEF ClosingTypes, EndTypes, BlockTypes
    <3>3. ASSUME frame'.type = "content_block_start", blocks[frame'.index] # NoBlock
          PROVE  FALSE
      <4>0. k \in 1..Len(text) /\ Is(text[k], BlockTypes) /\ Is(text[k], {"content_block_start"})
        BY <1>1, <3>1, <3>3, DoneType DEF done, Hands, Is, BlockTypes
      <4>1. text[k].index \in BlockIndexes
        <5>1. text[k].index \in 1..Len(content)
          BY <4>0 DEF Written, FitsBlock
        <5> QED BY <5>1, BlocksTold
      <4>2. PICK m \in 1..Done : Is(text[m], BlockTypes) /\ text[m].index = text[k].index
        BY <3>1, <3>3, <4>1 DEF BridgeInv, BlocksInv
      <4>3. m < k /\ m \in 1..Len(text)
        BY <1>1, <3>1, DoneType DEF done
      <4>4. k <= m
        BY <4>0, <4>2, <4>3 DEF Written
      <4> QED BY <1>1, <4>3, <4>4
    <3> QED BY <3>2, <3>3
  <2>3. frame'.type = "content_block_start" => frame'.type \in BlockTypes
    BY DEF BlockTypes
  <2> QED BY <1>1, <2>1, <2>2, <2>3 DEF StopInv, done
<1> QED BY <1>3, <1>4, <1>5, <1>6 DEF BridgeInv

(* The endpoint writes on: what was handed out stays what it was.          *)
LEMMA TellsOnInv ==
  ASSUME DecoderInv, Written(text, content, upstream), BridgeInv, TellsOn
  PROVE  DecoderInv' /\ BridgeInv'
<1>1. PICK bytes \in Seq(Byte), last \in BOOLEAN : Write(bytes, last)
  BY DEF TellsOn
<1>2. DecoderInv'
  BY <1>1, WriteInv
<1>3. /\ Done \in Nat /\ Done <= Len(text) /\ Len(text) \in Nat
      /\ frame' = frame /\ output' = output /\ blocks' = blocks /\ stopped' = stopped
  BY DoneType DEF TellsOn, pumpVars, bridgeVars
<1>4. ~flushed /\ flushed' = flushed /\ cuts' = cuts /\ text' = text \o bytes
      /\ text \in Seq(Byte)
  BY <1>1 DEF Write, DecoderInv, BufferInv, DecoderTypeOK
<1>5. Done' = Done
  BY <1>4 DEF Done, LastCut, CutAt
<1>6. \A m \in 1..Done : text'[m] = text[m]
  BY <1>3, <1>4, ConcatProperties
<1>7. \A i \in 1..Begun : i \in 1..Begun' /\ content'[i].kind = content[i].kind
  BY DEF TellsOn, Begun
<1>8. FrameTold'
  BY <1>3, <1>5, <1>6 DEF BridgeInv, FrameTold
<1>9. HandledInv'
  BY <1>3, <1>5, <1>6 DEF BridgeInv, HandledInv, Handled, Healthy
<1>10. BlocksInv'
  <2>1. BlocksInv
    BY DEF BridgeInv
  <2> SUFFICES ASSUME NEW i \in BlockIndexes, blocks[i] # NoBlock
               PROVE  /\ i \in 1..Begun' /\ blocks[i].kind = content'[i].kind
                      /\ \E m \in 1..Done : Is(text'[m], BlockTypes) /\ text'[m].index = i
    BY <1>3, <1>5 DEF BlocksInv
  <2>2. i \in 1..Begun /\ blocks[i].kind = content[i].kind
        /\ \E m \in 1..Done : Is(text[m], BlockTypes) /\ text[m].index = i
    BY <2>1 DEF BlocksInv
  <2> QED BY <1>6, <1>7, <2>2
<1>11. StopInv'
  BY <1>3, <1>5, <1>6 DEF BridgeInv, StopInv
<1> QED BY <1>2, <1>8, <1>9, <1>10, <1>11 DEF BridgeInv

(* A chunk comes in. *)
LEMMA ReadsInv ==
  ASSUME DecoderInv, BridgeInv, Reads
  PROVE  DecoderInv' /\ BridgeInv' /\ UNCHANGED <<text, sent, output, endpointVars, bridgeVars>>
<1>1. /\ UNCHANGED <<text, sent, output, frame, endpointVars, bridgeVars>>
      /\ content' = content /\ stopped' = stopped /\ blocks' = blocks
      /\ flushed' = flushed /\ cuts' = cuts
  BY DEF Reads, Feed, pumpVars, endpointVars, bridgeVars
<1>2. PICK n \in 1..(Len(text) - read) : Feed(n)
  BY DEF Reads
<1>3. n \in Nat
  BY LenProperties DEF DecoderInv, DecoderTypeOK
<1>4. DecoderInv'
  BY <1>2, <1>3, FeedInv
<1>5. Done' = Done
  BY <1>1 DEF Done, LastCut, CutAt
<1>6. BridgeInv'
  BY <1>1, <1>5 DEF BridgeInv, FrameTold, HandledInv, Healthy, Handled, BlocksInv, StopInv, Begun
<1> QED BY <1>1, <1>4, <1>6

(* A frame is cut out. *)
LEMMA TakesFrameInv ==
  ASSUME DecoderInv, Written(text, content, upstream), BridgeInv, TakesFrame
  PROVE  /\ DecoderInv' /\ BridgeInv' /\ UNCHANGED <<text, sent, output, endpointVars, bridgeVars>>
         /\ Reading /\ \E raw : Hands(raw, Done', frame')
<1> DEFINE end == FrameEnd(buffer)
           raw == SubSeq(buffer, 1, end)
<1>1. /\ Reading /\ Cut /\ frame' \in Parses(raw)
      /\ UNCHANGED <<text, sent, output, endpointVars, bridgeVars>> /\ content' = content
      /\ flushed' = flushed
  BY DEF TakesFrame, Cut, FirstFrame, endpointVars
<1>2. DecoderInv'
  BY <1>1, CutInv
<1>3. /\ buffer \in Seq(Byte) /\ Len(buffer) \in Nat /\ Len(cuts) \in Nat
      /\ cuts \in Seq(1..Len(text)) /\ read \in 0..Len(text) /\ Len(text) \in Nat
  BY LenProperties DEF DecoderInv, DecoderTypeOK
<1>4. end \in 1..Len(buffer)
  BY <1>1, <1>3, FrameEndFirst DEF Cut
<1>5. ~flushed /\ LastCut <= read /\ Len(buffer) = read - LastCut
      /\ \A i \in 1..Len(buffer) : buffer[i] = text[LastCut + i]
  BY <1>3, <1>4 DEF DecoderInv, BufferInv
<1>6. LastCut \in Nat
  BY <1>3, CutAtType DEF DecoderInv, LastCut
<1>7. cuts' = Append(cuts, LastCut + end)
  BY <1>1 DEF Cut, LastCut
<1> HIDE DEF end
<1>8. LastCut' = LastCut + end
  <2>1. LastCut + end \in 1..Len(text)
    BY <1>3, <1>4, <1>5, <1>6
  <2>2. Len(cuts') = Len(cuts) + 1 /\ cuts'[Len(cuts) + 1] = LastCut + end
    BY <1>3, <1>7, <2>1, AppendProperties
  <2> QED BY <1>3, <2>2 DEF LastCut, CutAt
<1>9. Done = LastCut /\ Done' = LastCut + end
  BY <1>1, <1>5, <1>8 DEF Done
<1>10. Len(raw) = end /\ \A n \in 1..end : raw[n] = text[LastCut + n]
  <2>1. /\ end \in Int /\ 1 <= end /\ \A i \in 1..end : buffer[i] \in Byte
        /\ \A i \in 1..end : buffer[i] = text[LastCut + i] /\ 1 + i - 1 = i
    BY <1>3, <1>4, <1>5, ElementOfSeq
  <2> QED BY <2>1, SubSeqProperties
<1> HIDE DEF raw
<1>11. Hands(raw, Done', frame')
  BY <1>1, <1>3, <1>4, <1>5, <1>6, <1>9, <1>10 DEF Hands
<1> QED BY <1>1, <1>2, <1>11, HandsInv

(* What is left is handed out, or nothing. *)
LEMMA TakesTrailingInv ==
  ASSUME DecoderInv, Written(text, content, upstream), BridgeInv, TakesTrailing
  PROVE  /\ DecoderInv' /\ BridgeInv' /\ UNCHANGED <<text, sent, output, endpointVars, bridgeVars>>
         /\ Reading /\ \E raw : Hands(raw, Done', frame')
<1>1. /\ Reading /\ Flush
      /\ UNCHANGED <<text, sent, output, endpointVars, bridgeVars>> /\ content' = content
      /\ IF Trailing = <<>> THEN frame' = NoFrame ELSE frame' \in Parses(Trailing)
      /\ flushed' = TRUE /\ ~flushed /\ read = Len(text)
  BY DEF TakesTrailing, Flush, endpointVars
<1>2. DecoderInv'
  BY <1>1, FlushInv
<1>3. /\ buffer \in Seq(Byte) /\ Len(buffer) \in Nat /\ Len(cuts) \in Nat
      /\ Len(text) \in Nat
  BY LenProperties DEF DecoderInv, DecoderTypeOK
<1>4. LastCut <= read /\ Len(buffer) = read - LastCut
      /\ \A i \in 1..Len(buffer) : buffer[i] = text[LastCut + i]
  BY <1>1 DEF DecoderInv, BufferInv
<1>5. LastCut \in Nat
  BY <1>3, CutAtType DEF DecoderInv, LastCut
<1>6. Done = LastCut /\ Done' = Len(text)
  BY <1>1 DEF Done
<1>7. frame' \in Parses(buffer) \/ (frame' = NoFrame /\ \A n \in 1..Len(buffer) : ~IsEvent(buffer[n]))
  <2>1. CASE \A n \in 1..Len(buffer) : buffer[n] \in {LF, CR}
    <3>1. Trailing = <<>>
      BY <2>1 DEF Trailing
    <3> QED BY <1>1, <2>1, <3>1 DEF IsEvent
  <2>2. CASE ~\A n \in 1..Len(buffer) : buffer[n] \in {LF, CR}
    <3>1. Trailing = buffer
      BY <2>2 DEF Trailing
    <3>2. buffer # <<>>
      BY <2>2
    <3> QED BY <1>1, <3>1, <3>2
  <2> QED BY <2>1, <2>2
<1>8. Hands(buffer, Done', frame')
  BY <1>1, <1>3, <1>4, <1>5, <1>6, <1>7 DEF Hands
<1> QED BY <1>1, <1>2, <1>8, HandsInv

(* What concerns the client only. *)
LEMMA ChatKept ==
  ASSUME ChatInv, IndexInv, UNCHANGED <<sent, bridgeVars>>,
         output' = output \/ output' # "open"
  PROVE  ChatInv' /\ IndexInv'
<1>1. /\ sent' = sent /\ started' = started /\ stopped' = stopped /\ blocks' = blocks
      /\ nextToolIndex' = nextToolIndex
  BY DEF bridgeVars
<1> QED BY <1>1 DEF ChatInv, IndexInv, Tools

(* The body has ended and everything in it is translated: the pump ends,   *)
(* and an answer that has ended or failed has not been lost.               *)
LEMMA EndsInv ==
  ASSUME ChatBridgeInv, Ends
  PROVE  EndInv'
<1>1. /\ flushed /\ frame = NoFrame /\ output = "open" /\ sent' = sent
      /\ upstream' = upstream
  BY DEF Ends, PumpEnds, Reading, endpointVars
<1>2. Done = Len(text) /\ Healthy
  BY <1>1, PlainFrames DEF Done, Healthy, BadTypes
<1>3. \A m \in 1..Len(text) : IsEvent(text[m]) => Handled(text[m])
  BY <1>2 DEF ChatBridgeInv, BridgeInv, HandledInv
<1>4. upstream # "failed"
  <2> SUFFICES ASSUME upstream = "failed" PROVE FALSE
    OBVIOUS
  <2>1. PICK m \in 1..Len(text) : Is(text[m], BadTypes)
    BY DEF ChatBridgeInv, Written
  <2> QED BY <1>3, <2>1 DEF Is, Handled
<1>5. ASSUME upstream \in {"ended", "stopped", "done"}
      PROVE  Len(sent) > 0 /\ sent[Len(sent)].type = "finish"
  <2>1. PICK m \in 1..Len(text) : Is(text[m], {"message_delta"})
    BY <1>5 DEF ChatBridgeInv, Written, Ended
  <2>2. text[m] # frame
    BY <1>1, <2>1, PlainFrames DEF Is
  <2>3. stopped
    BY <1>3, <2>1, <2>2 DEF Is, Handled
  <2>4. sent # <<>> /\ sent[Len(sent)].type = "finish" /\ sent \in Seq(ChatChunks)
    BY <1>1, <2>3 DEF ChatBridgeInv, ChatInv, LegalChat
  <2> QED BY <2>4, EmptySeq
<1> QED BY <1>1, <1>4, <1>5 DEF EndInv, EndNotLost, At

-----------------------------------------------------------------------------
(* Initially. *)

LEMMA ChatInitInv ==
  ChatInit => ChatBridgeInv
<1> SUFFICES ASSUME ChatInit PROVE ChatBridgeInv
  OBVIOUS
<1>1. /\ frame = NoFrame /\ sent = <<>> /\ output = "open" /\ text = <<>>
      /\ upstream = "opened" /\ content = <<>> /\ started = FALSE /\ stopped = FALSE
      /\ hasToolCalls = FALSE /\ nextToolIndex = 0
      /\ blocks = [i \in BlockIndexes |-> NoBlock] /\ NumBlocks \in Nat
      /\ Len(text) = 0 /\ Len(content) = 0 /\ Len(sent) = 0
  BY EmptySeq DEF ChatInit, PumpInit, DecoderInit
<1>2. DecoderInv
  BY DecoderInitInv DEF ChatInit
<1>3. Written(text, content, upstream)
  <2>1. content \in Seq(BlockRecords)
    BY <1>1
  <2>2. 1..Len(text) = {} /\ 1..Len(content) = {}
    BY <1>1
  <2> QED BY <1>1, <2>1, <2>2 DEF Written, Ended, Upstreams
<1>4. Done = 0
  BY <1>1, DoneType, <1>2
<1>5. BridgeInv
  <2>1. 1..Done = {}
    BY <1>4
  <2>2. FrameTold
    BY <1>1 DEF FrameTold
  <2>3. HandledInv
    BY <2>1 DEF HandledInv
  <2>4. BlocksInv
    BY <1>1 DEF BlocksInv
  <2>5. StopInv
    BY <1>1, PlainFrames DEF StopInv, BlockTypes
  <2> QED BY <2>2, <2>3, <2>4, <2>5 DEF BridgeInv
<1>6. IndexInv
  <2>1. Tools = {}
    BY <1>1 DEF Tools, NoBlock
  <2> QED BY <1>1, <2>1, FS_EmptySet DEF IndexInv
<1>7. ChatInv
  <2>1. LegalChat(sent)
    BY <1>1 DEF LegalChat
  <2>2. ToolsIn(sent, Len(sent)) = {}
    BY <1>1 DEF ToolsIn
  <2>3. HeadsTold(sent, blocks, nextToolIndex)
    BY <1>1, <2>2, FS_EmptySet DEF HeadsTold, NoBlock
  <2>4. \A n \in 1..Len(sent) : sent[n].type # "finish"
    BY <1>1
  <2> QED BY <1>1, <2>1, <2>3, <2>4 DEF ChatInv
<1>8. EndInv
  BY <1>1 DEF EndInv, EndNotLost
<1>9. ChatTypeOK
  BY <1>1, <1>2 DEF ChatTypeOK, PumpTypeOK, DecoderInv
<1> QED BY <1>1, <1>2, <1>3, <1>5, <1>6, <1>7, <1>8, <1>9 DEF ChatBridgeInv

-----------------------------------------------------------------------------
(* What the bridge makes of a frame. *)

BlockStates ==
  {NoBlock} \cup [kind : {"text", "thinking"}]
    \cup [kind : {"tool_use"}, toolIndex : 0..(NumBlocks - 1)]

LEMMA BlocksType ==
  ASSUME ChatTypeOK
  PROVE  /\ blocks \in [BlockIndexes -> BlockStates]
         /\ nextToolIndex \in Nat /\ nextToolIndex <= NumBlocks /\ NumBlocks \in Nat
BY DEF ChatTypeOK, BlockStates

(* The event of a block in hand is one of the events told. *)
LEMMA BlockInHand ==
  ASSUME ChatBridgeInv, frame.type \in BlockTypes
  PROVE  /\ output = "open" /\ Healthy /\ ~stopped
         /\ FitsBlock(frame, content) /\ frame.index \in BlockIndexes
         /\ frame.kind \in BlockKinds
         /\ \E m \in 1..Done : Is(text[m], BlockTypes) /\ text[m] = frame
<1>1. output = "open" /\ Healthy /\ ~stopped
  BY PlainFrames DEF ChatBridgeInv, BridgeInv, FrameTold, StopInv, Healthy, BlockTypes, BadTypes
<1>2. PICK m \in 1..Done : IsEvent(text[m]) /\ text[m] = frame
  BY PlainFrames DEF ChatBridgeInv, BridgeInv, FrameTold, BlockTypes
<1>3. Is(text[m], BlockTypes) /\ m \in 1..Len(text)
  BY <1>2, DoneType DEF Is, ChatBridgeInv
<1>4. FitsBlock(frame, content)
  BY <1>2, <1>3 DEF ChatBridgeInv, Written
<1>5. frame.index \in 1..Len(content) /\ frame.kind = content[frame.index].kind
      /\ content \in Seq(BlockRecords)
  BY <1>4 DEF FitsBlock, ChatBridgeInv, Written
<1>6. content[frame.index] \in BlockRecords
  BY <1>5, ElementOfSeq
<1>7. frame.index \in BlockIndexes
  BY <1>5, BlocksTold DEF ChatBridgeInv
<1> QED BY <1>1, <1>2, <1>3, <1>4, <1>5, <1>6, <1>7 DEF BlockRecords

(* The start of a block comes before what is in it: the bridge knows the   *)
(* block of a delta.                                                       *)
LEMMA BlockKnown ==
  ASSUME ChatBridgeInv, frame.type \in BlockTypes, frame.type # "content_block_start"
  PROVE  blocks[frame.index] # NoBlock /\ blocks[frame.index].kind = frame.kind
<1> DEFINE i == frame.index
<1>1. /\ Healthy /\ FitsBlock(frame, content) /\ i \in BlockIndexes
      /\ \E m \in 1..Done : Is(text[m], BlockTypes) /\ text[m] = frame
  BY BlockInHand
<1>2. i \in 1..Len(content) /\ frame.kind = content[i].kind
  BY <1>1 DEF FitsBlock
<1>3. PICK m \in 1..Done : Is(text[m], BlockTypes) /\ text[m] = frame
  BY <1>1
<1>4. PICK q \in 1..Len(text) : Is(text[q], {"content_block_start"}) /\ text[q].index = i
  BY <1>2 DEF ChatBridgeInv, Written
<1>5. Done \in Nat /\ Len(text) \in Nat /\ Done <= Len(text)
  BY DoneType DEF ChatBridgeInv
<1>6. q <= m
  <2>1. m \in 1..Len(text) /\ text[m].index = text[q].index
    BY <1>3, <1>4, <1>5
  <2> QED BY <1>3, <1>4, <2>1 DEF ChatBridgeInv, Written
<1>7. q \in 1..Done
  BY <1>4, <1>5, <1>6
<1>8. Handled(text[q])
  BY <1>1, <1>4, <1>7 DEF ChatBridgeInv, BridgeInv, HandledInv, Is
<1>9. blocks[i] # NoBlock
  BY <1>4, <1>8 DEF Handled, Is
<1>10. blocks[i].kind = content[i].kind
  BY <1>1, <1>9 DEF ChatBridgeInv, BridgeInv, BlocksInv
<1> QED BY <1>2, <1>9, <1>10

(* What every frame does to the blocks and to the end of the answer.       *)
Follows ==
  /\ frame' = NoFrame /\ output' \in {output, "failed"}
  /\ frame.type \in BadTypes => output' = "failed"
  /\ \A i \in BlockIndexes :
       \/ blocks'[i] = blocks[i]
       \/ /\ blocks[i] = NoBlock /\ i = frame.index /\ frame.type \in BlockTypes
          /\ blocks'[i] # NoBlock /\ blocks'[i].kind = frame.kind
  /\ frame.type = "content_block_start" => blocks'[frame.index] # NoBlock
  /\ stopped' = stopped \/ (stopped' = TRUE /\ frame.type \in EndTypes)
  /\ frame.type = "message_delta" => stopped'

LEMMA FollowsBridge ==
  ASSUME ChatBridgeInv, Follows, frame # NoFrame, UNCHANGED <<decoderVars, endpointVars>>
  PROVE  BridgeInv'
<1>1. /\ text' = text /\ content' = content /\ Done' = Done /\ Begun' = Begun
      /\ Done \in Nat /\ Done <= Len(text) /\ Len(text) \in Nat
      /\ BridgeInv
  BY DoneType DEF decoderVars, endpointVars, Done, LastCut, CutAt, Begun, ChatBridgeInv
<1>2. frame' = NoFrame /\ output' \in {output, "failed"} /\ output = "open"
  BY <1>1 DEF Follows, BridgeInv, FrameTold
<1>3. FrameTold'
  BY <1>1, <1>2 DEF FrameTold
<1>4. \A m \in 1..Done : Is(text[m], BlockTypes) => text[m].index \in BlockIndexes
  <2> SUFFICES ASSUME NEW m \in 1..Done, Is(text[m], BlockTypes)
               PROVE  text[m].index \in BlockIndexes
    OBVIOUS
  <2>1. FitsBlock(text[m], content)
    BY <1>1 DEF ChatBridgeInv, Written
  <2>2. text[m].index \in 1..Len(content)
    BY <2>1 DEF FitsBlock
  <2> QED BY <2>2, BlocksTold DEF ChatBridgeInv
<1>5. HandledInv'
  <2> SUFFICES ASSUME Healthy', NEW m \in 1..Done, IsEvent(text[m])
               PROVE  Handled(text[m])'
    BY <1>1 DEF HandledInv
  <2>1. Healthy
    BY <1>2 DEF Healthy, Follows
  <2>2. Handled(text[m])
    BY <1>1, <2>1 DEF BridgeInv, HandledInv
  <2> DEFINE event == text[m]
  <2>3. ASSUME event.type = "content_block_start" PROVE blocks'[event.index] # NoBlock
    <3>1. event.index \in BlockIndexes
      BY <1>4, <2>3 DEF Is, BlockTypes
    <3>2. CASE frame = event
      BY <2>3, <3>2 DEF Follows
    <3>3. CASE blocks[event.index] # NoBlock
      BY <3>1, <3>3 DEF Follows
    <3> QED BY <2>2, <2>3, <3>2, <3>3 DEF Handled
  <2>4. ASSUME event.type = "message_delta" PROVE stopped'
    BY <2>2, <2>4 DEF Handled, Follows
  <2> QED BY <1>1, <2>2, <2>3, <2>4 DEF Handled
<1>6. BlocksInv'
  <2> SUFFICES ASSUME NEW i \in BlockIndexes, blocks'[i] # NoBlock
               PROVE  /\ i \in 1..Begun /\ blocks'[i].kind = content[i].kind
                      /\ \E m \in 1..Done : Is(text[m], BlockTypes) /\ text[m].index = i
    BY <1>1 DEF BlocksInv
  <2>1. CASE blocks'[i] = blocks[i]
    BY <1>1, <2>1 DEF BridgeInv, BlocksInv
  <2>2. CASE blocks'[i] # blocks[i]
    <3>1. i = frame.index /\ frame.type \in BlockTypes /\ blocks'[i].kind = frame.kind
      BY <2>2 DEF Follows
    <3>2. FitsBlock(frame, content) /\ \E m \in 1..Done : Is(text[m], BlockTypes) /\ text[m] = frame
      BY <3>1, BlockInHand
    <3>3. i \in 1..Len(content) /\ frame.kind = content[i].kind
      BY <3>1, <3>2 DEF FitsBlock
    <3> QED BY <3>1, <3>2, <3>3 DEF Begun
  <2> QED BY <2>1, <2>2
<1>7. StopInv'
  <2>1. ASSUME stopped' PROVE \E m \in 1..Done : Is(text[m], EndTypes)
    <3>1. CASE stopped
      BY <1>1, <3>1 DEF BridgeInv, StopInv
    <3>2. CASE ~stopped
      <4>1. frame.type \in EndTypes
        BY <2>1, <3>2 DEF Follows
      <4>2. PICK m \in 1..Done : IsEvent(text[m]) /\ text[m] = frame
        BY <1>1, <4>1, PlainFrames DEF BridgeInv, FrameTold, EndTypes
      <4> QED BY <4>1, <4>2 DEF Is
    <3> QED BY <3>1, <3>2
  <2>2. frame'.type \notin BlockTypes \cup {"message_start"}
    BY <1>2, PlainFrames DEF BlockTypes
  <2>3. frame'.type # "content_block_start"
    BY <2>2 DEF BlockTypes
  <2> QED BY <1>1, <2>1, <2>2, <2>3 DEF StopInv
<1> QED BY <1>3, <1>5, <1>6, <1>7 DEF BridgeInv

-----------------------------------------------------------------------------
(* What the client gets for it. *)

(* The chat goes on with out, all of it or its beginning.                  *)
LEMMA ChatGoesOn ==
  ASSUME output = "open", sent \in Seq(ChatChunks), NEW out \in Seq(ChatChunks), Emits(out),
         NEW t, t = sent \o out, LegalChat(t), t # <<>>, started' = TRUE,
         HeadsTold(t, blocks', nextToolIndex'),
         IF stopped' THEN t[Len(t)].type = "finish"
         ELSE \A n \in 1..Len(t) : t[n].type # "finish"
  PROVE  ChatInv' /\ frame' = NoFrame /\ output' \in {output, "failed"}
<1>1. /\ frame' = NoFrame /\ output' \in {output, "failed"}
      /\ output' = "open" => sent' = t
      /\ sent' \in Seq(ChatChunks) /\ Len(sent') <= Len(t)
      /\ \A n \in 1..Len(sent') : sent'[n] = t[n]
  BY EmitsPrefix
<1>2. LegalChat(sent')
  BY <1>1, LegalPrefix
<1>3. output' = "open" => HeadsTold(sent', blocks', nextToolIndex')
  BY <1>1
<1> QED BY <1>1, <1>2, <1>3 DEF ChatInv

LEMMA StartGoes ==
  ASSUME ChatInv, output = "open", ~stopped
  PROVE  /\ Start \in Seq(ChatChunks) /\ sent \in Seq(ChatChunks)
         /\ sent \o Start \in Seq(ChatChunks) /\ Going(sent \o Start)
         /\ HeadsTold(sent \o Start, blocks, nextToolIndex)
<1>1. sent \in Seq(ChatChunks) /\ LegalChat(sent) /\ HeadsTold(sent, blocks, nextToolIndex)
  BY DEF ChatInv, LegalChat
<1>2. CASE started
  <2>1. Start = <<>> /\ sent \o <<>> = sent
    BY <1>1, <1>2, ConcatEmptySeq DEF Start
  <2> QED BY <1>1, <1>2, <2>1 DEF ChatInv, Going
<1>3. CASE ~started
  <2>1. Start = <<RoleChunk>> /\ sent = <<>> /\ <<RoleChunk>> \in Seq(ChatChunks)
    BY <1>3 DEF Start, ChatInv, ChatChunks
  <2>2. sent \o Start = <<RoleChunk>>
    BY <2>1, ConcatEmptySeq
  <2>3. ToolsIn(sent, Len(sent)) = {}
    BY <2>1 DEF ToolsIn
  <2>4. Len(<<RoleChunk>>) = 1 /\ ToolsIn(<<RoleChunk>>, 1) = {} /\ Going(<<RoleChunk>>)
    BY RoleFirst
  <2>5. HeadsTold(<<RoleChunk>>, blocks, nextToolIndex)
    BY <1>1, <2>3, <2>4 DEF HeadsTold
  <2> QED BY <1>1, <2>1, <2>2, <2>4, <2>5
<1> QED BY <1>2, <1>3

(* Chunks without a head leave what has been told of the map as it is.     *)
LEMMA HeadsKept ==
  ASSUME NEW s, NEW t, NEW map, NEW next, HeadsTold(s, map, next),
         ToolsIn(t, Len(t)) = ToolsIn(s, Len(s)), \A m \in 1..Len(s) : t[m] = s[m]
  PROVE  HeadsTold(t, map, next)
<1>1. \A m \in ToolsIn(s, Len(s)) : t[m] = s[m]
  BY DEF ToolsIn
<1> QED BY <1>1 DEF HeadsTold

(* And blocks that are not calls do not matter to the heads. *)
LEMMA HeadsAgree ==
  ASSUME NEW s, NEW map, NEW other, NEW next, HeadsTold(s, map, next), s \in Seq(ChatChunks),
         \A k \in BlockIndexes :
           other[k] = map[k] \/ (other[k].kind # "tool_use" /\ map[k].kind # "tool_use")
  PROVE  HeadsTold(s, other, next)
<1>1. ASSUME NEW m \in ToolsIn(s, Len(s)) PROVE s[m].item \in BlockIndexes
  <2>1. m \in 1..Len(s) /\ s[m].type = "tool" /\ s[m] \in ChatChunks
    BY <1>1, ElementOfSeq DEF ToolsIn
  <2> QED BY <2>1 DEF ChatChunks, RoleChunk, ToolChunks, DeltaChunks, FinishChunks
<1>2. ASSUME NEW k \in BlockIndexes, other[k].kind = "tool_use"
      PROVE  \E m \in ToolsIn(s, Len(s)) : s[m].item = k /\ s[m].index = other[k].toolIndex
  <2>1. other[k] = map[k]
    BY <1>2
  <2> QED BY <1>2, <2>1 DEF HeadsTold
<1>3. \A m \in ToolsIn(s, Len(s)) : other[s[m].item].kind = "tool_use"
  BY <1>1 DEF HeadsTold
<1> QED BY <1>2, <1>3 DEF HeadsTold

(* The arguments of a call of the map, under its index.                    *)
OfCall(c) ==
  LET i == c.content.item
  IN  i \in BlockIndexes /\ blocks[i].kind = "tool_use" /\ c.index = blocks[i].toolIndex

(* The step leaves the calls of the map as they are.                       *)
SameCalls ==
  /\ nextToolIndex' = nextToolIndex
  /\ \A k \in BlockIndexes :
       blocks'[k] = blocks[k] \/ (blocks'[k].kind # "tool_use" /\ blocks[k].kind # "tool_use")

(* Pieces follow what the client has, calls only under their own index.    *)
LEMMA PiecesGoOn ==
  ASSUME ChatInv, output = "open", ~stopped, stopped' = stopped, started' = TRUE,
         NEW out \in Seq(DeltaChunks), Emits(Start \o out),
         \A n \in 1..Len(out) : out[n].field = "arguments" => OfCall(out[n]),
         SameCalls
  PROVE  ChatInv' /\ frame' = NoFrame /\ output' \in {output, "failed"}
<1> DEFINE s == sent \o Start
           t == s \o out
<1>1. /\ Start \in Seq(ChatChunks) /\ sent \in Seq(ChatChunks) /\ Going(s)
      /\ HeadsTold(s, blocks, nextToolIndex) /\ out \in Seq(ChatChunks)
  BY StartGoes, DeltasAreChunks
<1>2. t = sent \o (Start \o out) /\ Start \o out \in Seq(ChatChunks)
  <2>1. /\ sent \in Seq(ChatChunks) /\ Start \in Seq(ChatChunks) /\ out \in Seq(ChatChunks)
    BY <1>1
  <2> QED BY ONLY <2>1, JoinThree
<1> HIDE DEF s
<1>3. \A n \in 1..Len(out) : out[n].field = "arguments" =>
        \E m \in ToolsIn(s, Len(s)) :
          s[m].index = out[n].index /\ s[m].item = out[n].content.item
  <2> SUFFICES ASSUME NEW n \in 1..Len(out), out[n].field = "arguments"
               PROVE  \E m \in ToolsIn(s, Len(s)) :
                        s[m].index = out[n].index /\ s[m].item = out[n].content.item
    OBVIOUS
  <2>1. /\ out[n].content.item \in BlockIndexes
        /\ blocks[out[n].content.item].kind = "tool_use"
        /\ out[n].index = blocks[out[n].content.item].toolIndex
    BY DEF OfCall
  <2> QED BY <1>1, <2>1 DEF HeadsTold
<1>4. /\ Going(t) /\ \A n \in 1..Len(s) : t[n] = s[n]
      /\ ToolsIn(t, Len(t)) = ToolsIn(s, Len(s))
  BY <1>1, <1>3, PiecesFollow
<1> HIDE DEF t
<1>5. HeadsTold(t, blocks, nextToolIndex)
  BY <1>1, <1>4, HeadsKept
<1>6. t \in Seq(ChatChunks) /\ LegalChat(t) /\ t # <<>>
      /\ \A n \in 1..Len(t) : t[n].type # "finish"
  BY <1>4 DEF Going, LegalChat
<1>7. HeadsTold(t, blocks', nextToolIndex')
  BY <1>5, <1>6, HeadsAgree DEF SameCalls
<1> QED BY <1>1, <1>2, <1>6, <1>7, ChatGoesOn

(* The head of a call that is new follows.                                 *)
LEMMA HeadGoesOn ==
  ASSUME ChatInv, ChatTypeOK, output = "open", ~stopped, stopped' = stopped, started' = TRUE,
         NEW i \in BlockIndexes, blocks[i] = NoBlock,
         nextToolIndex' = nextToolIndex + 1,
         blocks' = [blocks EXCEPT ![i] = [kind |-> "tool_use", toolIndex |-> nextToolIndex]],
         Emits(Start \o <<ToolChunk(nextToolIndex, i)>>)
  PROVE  ChatInv' /\ frame' = NoFrame /\ output' \in {output, "failed"}
<1> DEFINE s == sent \o Start
           c == ToolChunk(nextToolIndex, i)
           t == s \o <<c>>
<1>1. /\ Start \in Seq(ChatChunks) /\ sent \in Seq(ChatChunks) /\ Going(s)
      /\ s \in Seq(ChatChunks) /\ HeadsTold(s, blocks, nextToolIndex)
  BY StartGoes
<1>2. /\ nextToolIndex \in Nat /\ c.type = "tool" /\ c.index = nextToolIndex /\ c.item = i
      /\ <<c>> \in Seq(ChatChunks)
  BY BlocksType DEF ToolChunk, ToolChunks, ChatChunks
<1>3. t = sent \o (Start \o <<c>>) /\ Start \o <<c>> \in Seq(ChatChunks)
  <2>1. sent \in Seq(ChatChunks) /\ Start \in Seq(ChatChunks) /\ <<c>> \in Seq(ChatChunks)
    BY <1>1, <1>2
  <2> HIDE DEF c
  <2> QED BY ONLY <2>1, JoinThree
<1>4. \A k \in BlockIndexes : k # i => blocks'[k] = blocks[k]
  BY BlocksType
<1>5. /\ blocks'[i].kind = "tool_use" /\ blocks'[i].toolIndex = nextToolIndex
      /\ blocks[i].kind = "none"
  BY BlocksType DEF NoBlock
<1> HIDE DEF s
<1>6. nextToolIndex = Cardinality(ToolsIn(s, Len(s)))
      /\ \A m \in ToolsIn(s, Len(s)) : s[m].item # i
  BY <1>1, <1>5 DEF HeadsTold
<1>7. /\ Going(t) /\ Len(t) = Len(s) + 1 /\ t[Len(t)] = c
      /\ \A n \in 1..Len(s) : t[n] = s[n]
      /\ ToolsIn(t, Len(t)) = ToolsIn(s, Len(s)) \cup {Len(t)}
  BY <1>1, <1>2, <1>6, HeadFollows
<1> HIDE DEF t, c
<1>8. Len(s) \in Nat /\ IsFiniteSet(ToolsIn(s, Len(s))) /\ Len(t) \notin ToolsIn(s, Len(s))
  <2>1. Len(s) \in Nat
    BY <1>1, LenProperties
  <2>2. Len(t) \notin 1..Len(s)
    BY <1>7, <2>1
  <2>3. IsFiniteSet(1..Len(s))
    BY <2>1, FS_Interval
  <2> QED BY <2>1, <2>2, <2>3, FS_Subset DEF ToolsIn
<1>9. Cardinality(ToolsIn(t, Len(t))) = nextToolIndex'
  BY <1>6, <1>7, <1>8, FS_AddElement
<1>10. \A m \in ToolsIn(s, Len(s)) : m \in ToolsIn(t, Len(t)) /\ t[m] = s[m]
  BY <1>7 DEF ToolsIn
<1>11. Len(t) \in ToolsIn(t, Len(t)) /\ t[Len(t)].item = i /\ t[Len(t)].index = nextToolIndex
  BY <1>2, <1>7
<1>12. ASSUME NEW k \in BlockIndexes, blocks'[k].kind = "tool_use"
       PROVE  \E m \in ToolsIn(t, Len(t)) : t[m].item = k /\ t[m].index = blocks'[k].toolIndex
  <2>1. CASE k = i
    BY <1>5, <1>11, <2>1
  <2>2. CASE k # i
    <3>1. PICK m \in ToolsIn(s, Len(s)) : s[m].item = k /\ s[m].index = blocks[k].toolIndex
      BY <1>1, <1>4, <1>12, <2>2 DEF HeadsTold
    <3> QED BY <1>4, <1>10, <2>2, <3>1
  <2> QED BY <2>1, <2>2
<1>13. ASSUME NEW m \in ToolsIn(t, Len(t)) PROVE blocks'[t[m].item].kind = "tool_use"
  <2>1. CASE m = Len(t)
    BY <1>5, <1>11, <2>1
  <2>2. CASE m \in ToolsIn(s, Len(s))
    <3>1. m \in 1..Len(s) /\ s[m].type = "tool" /\ s[m] \in ChatChunks
      BY <1>1, <2>2, ElementOfSeq DEF ToolsIn
    <3>2. s[m].item \in BlockIndexes
      BY <3>1 DEF ChatChunks, RoleChunk, ToolChunks, DeltaChunks, FinishChunks
    <3>3. s[m].item # i /\ t[m] = s[m] /\ blocks[s[m].item].kind = "tool_use"
      BY <1>1, <1>6, <1>10, <2>2 DEF HeadsTold
    <3> QED BY <1>4, <3>2, <3>3
  <2> QED BY <1>7, <2>1, <2>2
<1>14. HeadsTold(t, blocks', nextToolIndex')
  BY <1>9, <1>12, <1>13 DEF HeadsTold
<1>15. LegalChat(t) /\ t # <<>> /\ \A n \in 1..Len(t) : t[n].type # "finish"
  BY <1>7 DEF Going
<1>16. Emits(Start \o <<c>>)
  BY DEF c
<1> QED BY <1>1, <1>3, <1>14, <1>15, <1>16, ChatGoesOn

-----------------------------------------------------------------------------
(* Each frame.                                                             *)

(* What a step that handles a frame keeps, whatever the frame.             *)
Kept ==
  /\ Follows /\ ChatInv' /\ IndexInv'
  /\ started' \in BOOLEAN /\ stopped' \in BOOLEAN /\ hasToolCalls' \in BOOLEAN
  /\ blocks' \in [BlockIndexes -> BlockStates] /\ nextToolIndex' \in 0..NumBlocks

LEMMA SameBlocksIndex ==
  ASSUME ChatBridgeInv, blocks' = blocks, nextToolIndex' = nextToolIndex
  PROVE  /\ IndexInv'
         /\ blocks' \in [BlockIndexes -> BlockStates] /\ nextToolIndex' \in 0..NumBlocks
BY BlocksType DEF ChatBridgeInv, IndexInv, Tools

(* A block is new: it gets the next index if it is a call, and there are   *)
(* no more calls than blocks.                                              *)
LEMMA NewBlockIndex ==
  ASSUME ChatBridgeInv, NEW i \in BlockIndexes, NEW kind \in BlockKinds, blocks[i] = NoBlock,
         blocks' = [blocks EXCEPT ![i] = Block(i, kind)],
         nextToolIndex' = NextToolIndex(i, kind)
  PROVE  /\ IndexInv'
         /\ blocks' \in [BlockIndexes -> BlockStates] /\ nextToolIndex' \in 0..NumBlocks
<1>1. /\ blocks \in [BlockIndexes -> BlockStates] /\ nextToolIndex \in Nat
      /\ nextToolIndex <= NumBlocks /\ NumBlocks \in Nat /\ nextToolIndex = Cardinality(Tools)
  BY BlocksType DEF ChatBridgeInv, IndexInv
<1>2. IsFiniteSet(BlockIndexes) /\ Cardinality(BlockIndexes) = NumBlocks
  BY <1>1, FS_Interval DEF BlockIndexes
<1>3. Tools \subseteq BlockIndexes /\ i \notin Tools
  BY DEF Tools, NoBlock
<1>4. IsFiniteSet(Tools)
  BY <1>2, <1>3, FS_Subset
<1>5. CASE kind = "tool_use"
  <2>1. /\ blocks' = [blocks EXCEPT ![i] = [kind |-> "tool_use", toolIndex |-> nextToolIndex]]
        /\ nextToolIndex' = nextToolIndex + 1
    BY <1>5 DEF Block, NextToolIndex
  <2>2. Tools' = Tools \cup {i}
    BY <1>1, <2>1 DEF Tools
  <2>3. IsFiniteSet(Tools \cup {i}) /\ Cardinality(Tools \cup {i}) = nextToolIndex + 1
    BY <1>1, <1>3, <1>4, FS_AddElement
  <2>4. Cardinality(Tools \cup {i}) <= NumBlocks
    BY <1>2, <1>3, FS_Subset
  <2>5. nextToolIndex \in 0..(NumBlocks - 1) /\ nextToolIndex + 1 \in 0..NumBlocks
    BY <1>1, <2>3, <2>4
  <2>6. [kind |-> "tool_use", toolIndex |-> nextToolIndex] \in BlockStates
    BY <2>5 DEF BlockStates
  <2>7. blocks' \in [BlockIndexes -> BlockStates]
    BY <1>1, <2>1, <2>6
  <2> QED BY <2>1, <2>2, <2>3, <2>5, <2>7 DEF IndexInv
<1>6. CASE kind # "tool_use"
  <2>1. blocks' = [blocks EXCEPT ![i] = [kind |-> kind]] /\ nextToolIndex' = nextToolIndex
    BY <1>6 DEF Block, NextToolIndex
  <2>2. [kind |-> kind] \in BlockStates
    BY <1>6 DEF BlockStates
  <2>3. blocks' \in [BlockIndexes -> BlockStates]
    BY <1>1, <2>1, <2>2
  <2>4. Tools' = Tools
    BY <1>1, <1>3, <1>6, <2>1 DEF Tools
  <2> QED BY <1>1, <2>1, <2>3, <2>4 DEF IndexInv
<1> QED BY <1>5, <1>6

DeltasOf(field, index, i) ==
  [type : {"delta"}, field : {field}, index : {index}, content : PiecesOf(i)]

LEMMA ChunksType ==
  ASSUME NEW field \in Fields, NEW index \in Nat,
         NEW i \in BlockIndexes, NEW pieces \in Seq(PiecesOf(i))
  PROVE  /\ Chunks(field, index, pieces) \in Seq(DeltaChunks)
         /\ \A n \in 1..Len(Chunks(field, index, pieces)) :
              /\ Chunks(field, index, pieces)[n].field = field
              /\ Chunks(field, index, pieces)[n].index = index
              /\ Chunks(field, index, pieces)[n].content.item = i
<1> DEFINE out == Chunks(field, index, pieces)
<1>1. Len(pieces) \in Nat /\ \A n \in 1..Len(pieces) : pieces[n] \in PiecesOf(i)
  BY ElementOfSeq
<1>2. \A n \in 1..Len(pieces) :
        PieceChunk(field, index, pieces[n]) \in DeltasOf(field, index, i)
  BY <1>1 DEF PieceChunk, DeltasOf
<1>3. out \in Seq(DeltasOf(field, index, i))
  BY <1>1, <1>2 DEF Chunks
<1>4. DeltasOf(field, index, i) \subseteq DeltaChunks
  BY DEF DeltasOf, DeltaChunks, Contents, PiecesOf
<1> HIDE DEF out
<1>5. out \in Seq(DeltaChunks)
  BY <1>3, <1>4, SeqMonotonic
<1>6. \A n \in 1..Len(out) : out[n] \in DeltasOf(field, index, i)
  BY <1>3, ElementOfSeq
<1> QED BY <1>5, <1>6 DEF DeltasOf, PiecesOf, out

(* Nothing but what has to come first follows. *)
LEMMA StartEmitted ==
  ASSUME ChatInv, output = "open", ~stopped, stopped' = stopped, started' = TRUE,
         Emits(Start), nextToolIndex' = nextToolIndex, blocks' = blocks
  PROVE  ChatInv' /\ frame' = NoFrame /\ output' \in {output, "failed"}
<1> DEFINE out == <<>>
<1>1. Start \in Seq(ChatChunks) /\ Start \o <<>> = Start
  BY StartGoes, ConcatEmptySeq
<1>2. out \in Seq(DeltaChunks) /\ 1..Len(out) = {} /\ Emits(Start \o out)
  BY <1>1
<1>3. SameCalls
  BY DEF SameCalls
<1> HIDE DEF out
<1> QED BY <1>2, <1>3, PiecesGoOn

LEMMA MessageStartKept ==
  ASSUME ChatBridgeInv, OnMessageStart
  PROVE  Kept
<1>1. /\ frame.type = "message_start" /\ started' = TRUE /\ stopped' = stopped
      /\ blocks' = blocks /\ nextToolIndex' = nextToolIndex /\ hasToolCalls' = hasToolCalls
      /\ Emits(Start)
  BY DEF OnMessageStart
<1>2. output = "open" /\ ~stopped /\ ChatInv /\ stopped \in BOOLEAN /\ hasToolCalls \in BOOLEAN
  BY <1>1, PlainFrames DEF ChatBridgeInv, BridgeInv, FrameTold, StopInv
<1>3. ChatInv' /\ frame' = NoFrame /\ output' \in {output, "failed"}
  BY <1>1, <1>2, StartEmitted
<1>4. Follows
  BY <1>1, <1>3 DEF Follows, BadTypes
<1> QED BY <1>1, <1>2, <1>3, <1>4, SameBlocksIndex DEF Kept

(* A block of text or thinking begins, or a call gets its head. *)
LEMMA BlockStartKept ==
  ASSUME ChatBridgeInv, OnBlockStart
  PROVE  Kept
<1> DEFINE i == frame.index
           kind == frame.kind
<1>1. /\ frame.type = "content_block_start" /\ frame.type \in BlockTypes
      /\ blocks' = [blocks EXCEPT ![i] = Block(i, kind)]
      /\ nextToolIndex' = NextToolIndex(i, kind)
      /\ hasToolCalls' = (hasToolCalls \/ kind = "tool_use")
      /\ Emits(Start \o IF kind = "tool_use" THEN <<ToolChunk(Block(i, kind).toolIndex, i)>>
                        ELSE StartContent)
      /\ started' = TRUE /\ stopped' = stopped
  BY DEF OnBlockStart, BlockTypes
<1>2. /\ output = "open" /\ ~stopped /\ FitsBlock(frame, content)
      /\ i \in BlockIndexes /\ kind \in BlockKinds
  BY <1>1, BlockInHand
<1>3. /\ blocks[i] = NoBlock /\ ChatInv /\ ChatTypeOK /\ stopped \in BOOLEAN
      /\ hasToolCalls \in BOOLEAN
  BY <1>1 DEF ChatBridgeInv, BridgeInv, StopInv
<1>4. /\ IndexInv' /\ blocks' \in [BlockIndexes -> BlockStates] /\ nextToolIndex' \in 0..NumBlocks
  BY <1>1, <1>2, <1>3, NewBlockIndex
<1>5. blocks \in [BlockIndexes -> BlockStates]
  BY <1>3, BlocksType
<1>6. ChatInv' /\ frame' = NoFrame /\ output' \in {output, "failed"}
  <2>1. CASE kind = "tool_use"
    <3>1. Block(i, kind) = [kind |-> "tool_use", toolIndex |-> nextToolIndex]
          /\ NextToolIndex(i, kind) = nextToolIndex + 1
      BY <1>3, <2>1 DEF Block, NextToolIndex
    <3>2. /\ blocks' = [blocks EXCEPT ![i] = [kind |-> "tool_use", toolIndex |-> nextToolIndex]]
          /\ nextToolIndex' = nextToolIndex + 1
          /\ Emits(Start \o <<ToolChunk(nextToolIndex, i)>>)
      <4>1. Emits(Start \o <<ToolChunk(Block(i, kind).toolIndex, i)>>)
        BY <1>1, <2>1
      <4>2. Block(i, kind).toolIndex = nextToolIndex
        BY <3>1
      <4> QED BY <1>1, <3>1, <4>1, <4>2
    <3> QED BY <1>1, <1>2, <1>3, <3>2, HeadGoesOn
  <2>2. CASE kind # "tool_use"
    <3>1. Emits(Start \o StartContent) /\ nextToolIndex' = nextToolIndex
          /\ blocks' = [blocks EXCEPT ![i] = [kind |-> kind]]
      BY <1>1, <1>3, <2>2 DEF Block, NextToolIndex
    <3>2. Field(kind) \in {"content", "reasoning_content"}
      BY <1>2, <2>2 DEF Field
    <3> DEFINE field == Field(kind)
    <3>3. frame.pieces \in Seq(PiecesOf(i))
      BY <1>2 DEF FitsBlock
    <3> DEFINE out == Chunks(field, 0, frame.pieces)
    <3> HIDE DEF field
    <3>4. out \in Seq(DeltaChunks) /\ \A n \in 1..Len(out) : out[n].field = field
      <4>1. field \in Fields /\ 0 \in Nat
        BY <3>2 DEF field, Fields
      <4> DEFINE pieces == frame.pieces
                 block == frame.index
      <4>2. block \in BlockIndexes /\ pieces \in Seq(PiecesOf(block))
        BY <1>2, <3>3
      <4> HIDE DEF pieces, block
      <4>3. /\ Chunks(field, 0, pieces) \in Seq(DeltaChunks)
            /\ \A n \in 1..Len(Chunks(field, 0, pieces)) : Chunks(field, 0, pieces)[n].field = field
        BY <4>1, <4>2, ChunksType
      <4> QED BY <4>3 DEF pieces
    <3>5. Emits(Start \o out)
      BY <3>1 DEF StartContent, field
    <3> HIDE DEF out
    <3>6. \A n \in 1..Len(out) : out[n].field # "arguments"
      BY <3>2, <3>4 DEF field
    <3>7. SameCalls
      BY <1>3, <1>5, <2>2, <3>1 DEF NoBlock, SameCalls
    <3> QED BY <1>1, <1>2, <1>3, <3>1, <3>4, <3>5, <3>6, <3>7, PiecesGoOn
  <2> QED BY <2>1, <2>2
<1>7. Block(i, kind) # NoBlock /\ Block(i, kind).kind = kind
  <2>1. kind # "none"
    BY <1>2
  <2>2. Block(i, kind) = IF kind = "tool_use"
                         THEN [kind |-> kind, toolIndex |-> nextToolIndex] ELSE [kind |-> kind]
    BY <1>3 DEF Block
  <2>3. NoBlock.kind = "none"
    BY DEF NoBlock
  <2>4. Block(i, kind).kind = kind
    BY <2>2
  <2> QED BY <2>1, <2>3, <2>4
<1>8. blocks'[i] = Block(i, kind) /\ \A k \in BlockIndexes : k # i => blocks'[k] = blocks[k]
  BY <1>1, <1>2, <1>5
<1>9. Follows
  BY <1>1, <1>3, <1>6, <1>7, <1>8 DEF Follows, BadTypes
<1> QED BY <1>1, <1>3, <1>4, <1>6, <1>9 DEF Kept

(* What a block goes on with, under the index of its call if it is one. *)
LEMMA BlockDeltaKept ==
  ASSUME ChatBridgeInv, OnBlockDelta
  PROVE  Kept
<1> DEFINE i == frame.index
           kind == frame.kind
           field == Field(kind)
           index == IF kind = "tool_use" THEN blocks[i].toolIndex ELSE 0
           pieces == frame.pieces
           out == Chunks(field, index, pieces)
<1>1. frame.type = "content_block_delta" /\ frame.type \in BlockTypes
      /\ started' = TRUE /\ stopped' = stopped
  BY DEF OnBlockDelta, BlockTypes
<1>2. /\ output = "open" /\ ~stopped /\ FitsBlock(frame, content)
      /\ i \in BlockIndexes /\ kind \in BlockKinds
  BY <1>1, BlockInHand
<1>3. blocks[i] # NoBlock /\ blocks[i].kind = kind
  BY <1>1, BlockKnown
<1>4. /\ ChatInv /\ stopped \in BOOLEAN /\ hasToolCalls \in BOOLEAN
      /\ blocks \in [BlockIndexes -> BlockStates]
  BY BlocksType DEF ChatBridgeInv
<1>5. Block(i, kind) = blocks[i] /\ NextToolIndex(i, kind) = nextToolIndex
      /\ [blocks EXCEPT ![i] = blocks[i]] = blocks
  BY <1>2, <1>3, <1>4 DEF Block, NextToolIndex
<1>6. blocks' = blocks /\ nextToolIndex' = nextToolIndex /\ hasToolCalls' \in BOOLEAN
  BY <1>4, <1>5 DEF OnBlockDelta
<1>7. Emits(Start \o out)
  <2>1. Emits(Start \o Chunks(Field(kind), IF kind = "tool_use" THEN Block(i, kind).toolIndex
                                           ELSE 0, pieces))
    BY DEF OnBlockDelta
  <2> QED BY <1>5, <2>1
<1>8. index \in Nat
  <2>1. blocks[i] \in BlockStates
    BY <1>2, <1>4
  <2>2. kind = "tool_use" => blocks[i].toolIndex \in 0..(NumBlocks - 1)
    BY <1>3, <2>1 DEF BlockStates, NoBlock
  <2> QED BY <2>2
<1>9. field \in Fields /\ (field = "arguments" => kind = "tool_use")
  BY <1>2 DEF Field, Fields
<1>10. pieces \in Seq(PiecesOf(i))
  BY <1>2 DEF FitsBlock
<1>11. index = blocks[i].toolIndex \/ kind # "tool_use"
  OBVIOUS
<1>12. SameCalls
  BY <1>6 DEF SameCalls
<1> HIDE DEF i, kind, field, index, pieces
<1>13. /\ out \in Seq(DeltaChunks)
       /\ \A n \in 1..Len(out) :
            out[n].field = field /\ out[n].index = index /\ out[n].content.item = i
  BY <1>2, <1>8, <1>9, <1>10, ChunksType
<1> HIDE DEF out
<1>14. \A n \in 1..Len(out) : out[n].field = "arguments" => OfCall(out[n])
  <2> SUFFICES ASSUME NEW n \in 1..Len(out), out[n].field = "arguments" PROVE OfCall(out[n])
    OBVIOUS
  <2>1. field = "arguments" /\ out[n].index = index /\ out[n].content.item = i
    BY <1>13
  <2> QED BY <1>2, <1>3, <1>9, <1>11, <2>1 DEF OfCall
<1>15. ChatInv' /\ frame' = NoFrame /\ output' \in {output, "failed"}
  BY <1>1, <1>2, <1>4, <1>7, <1>12, <1>13, <1>14, PiecesGoOn
<1>16. Follows
  BY <1>1, <1>6, <1>15 DEF Follows, BadTypes
<1> QED BY <1>1, <1>4, <1>6, <1>15, <1>16, SameBlocksIndex DEF Kept

(* The endpoint's end makes the finish chunk, once. *)
LEMMA MessageEndKept ==
  ASSUME ChatBridgeInv, OnMessageEnd
  PROVE  Kept
<1>1. /\ frame.type \in EndTypes /\ started' = TRUE /\ stopped' = TRUE
      /\ nextToolIndex' = nextToolIndex /\ hasToolCalls' = hasToolCalls /\ blocks' = blocks
      /\ Emits(Start \o Finishing(frame.reason))
  BY DEF OnMessageEnd, EndTypes
<1>2. /\ output = "open" /\ ChatInv /\ stopped \in BOOLEAN /\ hasToolCalls \in BOOLEAN
  BY <1>1, PlainFrames DEF ChatBridgeInv, BridgeInv, FrameTold, EndTypes
<1>3. ChatInv' /\ frame' = NoFrame /\ output' \in {output, "failed"}
  <2>1. CASE stopped
    <3>1. /\ LegalChat(sent) /\ sent \in Seq(ChatChunks) /\ started /\ sent # <<>>
          /\ sent[Len(sent)].type = "finish" /\ HeadsTold(sent, blocks, nextToolIndex)
      BY <1>2, <2>1 DEF ChatInv, LegalChat
    <3>2. Start = <<>> /\ Finishing(frame.reason) = <<>>
      BY <2>1, <3>1 DEF Start, Finishing
    <3> DEFINE out == <<>>
    <3>3. out \in Seq(ChatChunks) /\ Start \o Finishing(frame.reason) = out /\ sent = sent \o out
      BY <3>1, <3>2, ConcatEmptySeq
    <3> HIDE DEF out
    <3>4. HeadsTold(sent, blocks', nextToolIndex')
      BY <1>1, <3>1
    <3>5. Emits(out)
      BY <1>1, <3>3
    <3> QED BY <1>1, <1>2, <3>1, <3>3, <3>4, <3>5, ChatGoesOn
  <2>2. CASE ~stopped
    <3> DEFINE c == FinishChunk(FinishReason(frame.reason, hasToolCalls))
               s == sent \o Start
               t == s \o <<c>>
    <3>1. /\ Start \in Seq(ChatChunks) /\ sent \in Seq(ChatChunks) /\ Going(s)
          /\ HeadsTold(s, blocks, nextToolIndex)
      BY <1>2, <2>2, StartGoes
    <3>2. c \in FinishChunks /\ <<c>> \in Seq(ChatChunks)
      BY DEF FinishChunk, FinishReason, FinishChunks, ChatChunks
    <3>3. Emits(Start \o <<c>>)
      BY <1>1, <2>2 DEF Finishing
    <3> HIDE DEF c
    <3>4. t = sent \o (Start \o <<c>>) /\ Start \o <<c>> \in Seq(ChatChunks)
      <4>1. sent \in Seq(ChatChunks) /\ Start \in Seq(ChatChunks) /\ <<c>> \in Seq(ChatChunks)
        BY <3>1, <3>2
      <4> QED BY ONLY <4>1, JoinThree
    <3> HIDE DEF s
    <3>5. /\ LegalChat(t) /\ t # <<>> /\ t[Len(t)].type = "finish"
          /\ ToolsIn(t, Len(t)) = ToolsIn(s, Len(s)) /\ \A n \in 1..Len(s) : t[n] = s[n]
      BY <3>1, <3>2, FinishFollows
    <3> HIDE DEF t
    <3>6. HeadsTold(t, blocks, nextToolIndex)
      BY <3>1, <3>5, HeadsKept
    <3>7. HeadsTold(t, blocks', nextToolIndex')
      BY <1>1, <3>6
    <3> QED BY <1>1, <1>2, <3>1, <3>3, <3>4, <3>5, <3>7, ChatGoesOn
  <2> QED BY <1>2, <2>1, <2>2
<1>4. Follows
  BY <1>1, <1>3 DEF Follows, BadTypes, EndTypes
<1> QED BY <1>1, <1>2, <1>3, <1>4, SameBlocksIndex DEF Kept

(* A frame that is nothing to the client, or fails the output. *)
LEMMA SilentKept ==
  ASSUME ChatBridgeInv, OnNothing \/ OnFailure
  PROVE  Kept
<1>1. UNCHANGED bridgeVars /\ frame.type # "none"
      /\ frame.type \notin EndTypes \cup {"content_block_start"}
  BY DEF OnNothing, OnFailure, EndTypes
<1>2. sent \in Seq(ChatChunks)
  BY DEF ChatBridgeInv, ChatInv, LegalChat
<1>3. /\ frame' = NoFrame /\ output' \in {output, "failed"} /\ sent' = sent
      /\ frame.type \in BadTypes => output' = "failed"
  <2>1. CASE OnNothing
    <3>1. Emits(<<>>) /\ frame.type \notin BadTypes
      BY <2>1 DEF OnNothing, BadTypes
    <3>2. sent \o <<>> = sent /\ 0..(Len(<<>>) - 1) = {}
      BY <1>2, ConcatEmptySeq
    <3> QED BY <3>1, <3>2 DEF Emits
  <2>2. CASE OnFailure
    BY <2>2 DEF OnFailure, TranslationFails, ClosesOutput
  <2> QED BY <2>1, <2>2
<1>4. ChatInv' /\ IndexInv'
  BY <1>1, <1>3, ChatKept DEF ChatBridgeInv
<1>5. /\ blocks' = blocks /\ stopped' = stopped /\ started' = started
      /\ hasToolCalls' = hasToolCalls /\ nextToolIndex' = nextToolIndex
  BY <1>1 DEF bridgeVars
<1>6. Follows
  BY <1>1, <1>3, <1>5 DEF Follows, EndTypes
<1>7. started \in BOOLEAN /\ stopped \in BOOLEAN /\ hasToolCalls \in BOOLEAN
  BY DEF ChatBridgeInv
<1> QED BY <1>4, <1>5, <1>6, <1>7, SameBlocksIndex DEF Kept

-----------------------------------------------------------------------------
(* Each step. *)

LEMMA TranslatesInv ==
  ASSUME ChatBridgeInv, Translates
  PROVE  ChatBridgeInv'
<1>1. frame.type # "none" /\ frame # NoFrame /\ UNCHANGED <<decoderVars, endpointVars>>
  BY DEF Translates, OnMessageStart, OnBlockStart, OnBlockDelta, OnMessageEnd, OnNothing,
     OnFailure, NoFrame
<1>2. Kept
  BY MessageStartKept, BlockStartKept, BlockDeltaKept, MessageEndKept, SilentKept
     DEF Translates
<1>3. BridgeInv'
  BY <1>1, <1>2, FollowsBridge DEF Kept
<1>4. /\ text' = text /\ closed' = closed /\ read' = read /\ buffer' = buffer
      /\ cuts' = cuts /\ flushed' = flushed /\ upstream' = upstream /\ content' = content
  BY <1>1 DEF decoderVars, endpointVars
<1>5. DecoderInv'
  BY <1>4 DEF ChatBridgeInv, DecoderInv, DecoderTypeOK, BufferInv, LastCut, CutAt,
     CutsOfTheWhole, BlankLineEnds
<1>6. Written(text, content, upstream)'
  BY <1>4 DEF ChatBridgeInv
<1>7. output = "open" /\ output' \in {"open", "failed"}
  BY <1>1, <1>2 DEF Kept, Follows, ChatBridgeInv, BridgeInv, FrameTold
<1>8. EndInv'
  BY <1>7 DEF EndInv, EndNotLost
<1>9. ChatTypeOK'
  BY <1>2, <1>4, <1>5, <1>7 DEF Kept, ChatBridgeInv, ChatTypeOK, PumpTypeOK, DecoderInv,
     BlockStates
<1> QED BY <1>2, <1>3, <1>5, <1>6, <1>8, <1>9 DEF ChatBridgeInv, Kept

(* The endpoint and the decoder do not touch what the client has.          *)
LEMMA OutsideInv ==
  ASSUME ChatBridgeInv, DecoderInv', BridgeInv', Written(text, content, upstream)',
         UNCHANGED <<sent, output, bridgeVars>>, upstream' = upstream \/ output = "open"
  PROVE  ChatBridgeInv'
<1>1. ChatInv' /\ IndexInv'
  BY ChatKept DEF ChatBridgeInv
<1>2. EndInv'
  BY DEF ChatBridgeInv, EndInv, EndNotLost, At
<1>3. ChatTypeOK'
  BY DEF ChatBridgeInv, ChatTypeOK, PumpTypeOK, DecoderInv, bridgeVars, Written, Upstreams
<1> QED BY <1>1, <1>2, <1>3 DEF ChatBridgeInv, bridgeVars

LEMMA EndpointInv ==
  ASSUME ChatBridgeInv, EndpointNext
  PROVE  ChatBridgeInv'
<1>1. TellsOn
  BY EndpointTells DEF ChatBridgeInv, DecoderInv
<1>2. DecoderInv' /\ BridgeInv'
  BY <1>1, TellsOnInv DEF ChatBridgeInv
<1>3. output = "open"
  BY DEF EndpointNext, MessageStarts, Pings, BlockStarts, BlockGoesOn, BlockStops,
     MessageEnds, MessageStops, SendsDone, Fails, BodyEnds, Writes, Waiting, Reading
<1> QED BY <1>1, <1>2, <1>3, OutsideInv DEF TellsOn, pumpVars

LEMMA DecoderInvStep ==
  ASSUME ChatBridgeInv, Reads \/ TakesFrame \/ TakesTrailing
  PROVE  ChatBridgeInv'
<1>1. /\ DecoderInv' /\ BridgeInv'
      /\ UNCHANGED <<text, sent, output, endpointVars, bridgeVars>>
  BY ReadsInv, TakesFrameInv, TakesTrailingInv DEF ChatBridgeInv
<1>2. Written(text, content, upstream)' /\ upstream' = upstream
  BY <1>1 DEF ChatBridgeInv, endpointVars
<1> QED BY <1>1, <1>2, OutsideInv

(* The pump stops, or nothing happens.                                     *)
LEMMA StopsInv ==
  ASSUME ChatBridgeInv, Ends \/ ReadFails \/ UNCHANGED chatVars
  PROVE  ChatBridgeInv'
<1>1. UNCHANGED <<decoderVars, endpointVars, bridgeVars, frame, sent>>
      /\ (output' = output \/ (frame = NoFrame /\ output' \in {"ended", "failed"}))
  BY DEF Ends, ReadFails, PumpEnds, PumpFails, ClosesOutput, Reading, chatVars, pumpVars
<1>2. /\ text' = text /\ closed' = closed /\ read' = read /\ buffer' = buffer
      /\ cuts' = cuts /\ flushed' = flushed /\ upstream' = upstream /\ content' = content
      /\ blocks' = blocks /\ stopped' = stopped /\ started' = started /\ frame' = frame
      /\ sent' = sent /\ nextToolIndex' = nextToolIndex /\ hasToolCalls' = hasToolCalls
      /\ Done' = Done
  BY <1>1 DEF decoderVars, endpointVars, bridgeVars, Done, LastCut, CutAt
<1>3. DecoderInv' /\ Written(text, content, upstream)'
  BY <1>2 DEF ChatBridgeInv, DecoderInv, DecoderTypeOK, BufferInv, LastCut, CutAt,
     CutsOfTheWhole, BlankLineEnds
<1>4. BridgeInv'
  <2>1. FrameTold'
    BY <1>1, <1>2 DEF ChatBridgeInv, BridgeInv, FrameTold
  <2>2. HandledInv'
    BY <1>1, <1>2 DEF ChatBridgeInv, BridgeInv, HandledInv, Healthy, Handled
  <2>3. BlocksInv'
    BY <1>2 DEF ChatBridgeInv, BridgeInv, BlocksInv, Begun
  <2>4. StopInv'
    BY <1>2 DEF ChatBridgeInv, BridgeInv, StopInv
  <2> QED BY <2>1, <2>2, <2>3, <2>4 DEF BridgeInv
<1>5. ChatInv' /\ IndexInv'
  BY <1>1, <1>2, ChatKept DEF ChatBridgeInv
<1>6. EndInv'
  <2>1. CASE Ends
    BY <2>1, EndsInv
  <2>2. CASE ReadFails
    BY <2>2 DEF ReadFails, PumpFails, ClosesOutput, EndInv, EndNotLost
  <2>3. CASE UNCHANGED chatVars
    BY <2>3 DEF chatVars, pumpVars, endpointVars, ChatBridgeInv, EndInv, EndNotLost, At
  <2> QED BY <2>1, <2>2, <2>3
<1>7. ChatTypeOK'
  BY <1>1, <1>2, <1>3 DEF ChatBridgeInv, ChatTypeOK, PumpTypeOK, DecoderInv
<1> QED BY <1>2, <1>3, <1>4, <1>5, <1>6, <1>7 DEF ChatBridgeInv

LEMMA ChatBridgeInvHolds ==
  ChatSpec => []ChatBridgeInv
<1>1. ASSUME ChatBridgeInv, [ChatNext]_chatVars PROVE ChatBridgeInv'
  BY <1>1, EndpointInv, DecoderInvStep, TranslatesInv, StopsInv DEF ChatNext, Returned
<1> QED BY <1>1, ChatInitInv, PTL DEF ChatSpec

-----------------------------------------------------------------------------
(* Which pieces of content the body holds, and in which order. *)

(* An event with content, which is one piece.                              *)
Bears(event) == event.type \in BlockTypes /\ event.pieces # <<>>
PieceIn(event) == event.pieces[1]
BearsAt(t, n) == IsEvent(t[n]) /\ Bears(t[n])

(* The piece is one that has been told of block i.                         *)
ToldOf(p, i, c) == i \in 1..Len(c) /\ \E k \in 1..c[i].told : p = Piece(i, k)

(* The body t holds the pieces of the blocks c, each in an event of its    *)
(* block, one after the other.                                             *)
PiecesLaid(t, c) ==
  /\ \A n \in 1..Len(t) : BearsAt(t, n) => ToldOf(PieceIn(t[n]), t[n].index, c)
  /\ \A i \in 1..Len(c) : \A k \in 1..c[i].told :
       \E n \in 1..Len(t) : BearsAt(t, n) /\ PieceIn(t[n]) = Piece(i, k)
  /\ \A m, n \in 1..Len(t) :
       BearsAt(t, m) /\ BearsAt(t, n) /\ m < n => Precedes(PieceIn(t[m]), PieceIn(t[n]))

(* Nor does a call begin with content, or a block end with it.             *)
Empty(event) ==
  \/ event.type = "content_block_start" /\ event.kind = "tool_use"
  \/ event.type = "content_block_stop"

(* The blocks begin one after the other.                                   *)
StartsLaid(t) ==
  /\ \A n \in 1..Len(t) : IsEvent(t[n]) /\ Empty(t[n]) => ~Bears(t[n])
  /\ \A m, n \in 1..Len(t) :
       Is(t[m], {"content_block_start"}) /\ Is(t[n], {"content_block_start"}) /\ m < n
         => t[m].index < t[n].index

(* message_delta has the reason of the end, and comes before message_stop. *)
EndLaid(t, reason) ==
  /\ \A n \in 1..Len(t) : Is(t[n], {"message_delta"}) => t[n].reason = reason
  /\ \A n \in 1..Len(t) : Is(t[n], {"message_stop"}) =>
       \E m \in 1..Len(t) : m < n /\ Is(t[m], {"message_delta"})

Laid(t, c, reason) ==
  /\ \A n \in 1..Len(t) : IsEvent(t[n]) => t[n] \in Events
  /\ PiecesLaid(t, c) /\ StartsLaid(t) /\ EndLaid(t, reason)

(* What the client has in s is the whole of the blocks c, and the reason.  *)
DeltaOf(chunk, c) ==
  \E i \in 1..Len(c) :
    ToldOf(chunk.content, i, c) /\ chunk.field = Field(c[i].kind)
DeltasIn(s) == {n \in 1..Len(s) : s[n].type = "delta"}
GivesAll(s, c) ==
  /\ \A n \in DeltasIn(s) : DeltaOf(s[n], c)
  /\ \A i \in 1..Len(c) : \A k \in 1..c[i].told : \E n \in DeltasIn(s) : s[n].content = Piece(i, k)
  /\ {s[m].item : m \in ToolsIn(s, Len(s))} = {i \in 1..Len(c) : c[i].kind = "tool_use"}
InOrder(s) ==
  /\ \A m, n \in DeltasIn(s) : m < n => Precedes(s[m].content, s[n].content)
  /\ \A m, n \in ToolsIn(s, Len(s)) : m < n => s[m].item < s[n].item
HasCalls(c) == \E i \in 1..Len(c) : c[i].kind = "tool_use"
WholeInv ==
  Len(sent) > 0 /\ sent[Len(sent)].type = "finish" =>
    /\ GivesAll(sent, content)
    /\ sent[Len(sent)].reason = FinishReason(stopReason, HasCalls(content))

(* What the client has got so far, and what it is still to get.            *)
DeltasInv ==
  /\ \A n \in DeltasIn(sent) : \E m \in 1..Done :
       /\ BearsAt(text, m) /\ sent[n].content = PieceIn(text[m])
       /\ sent[n].field = Field(text[m].kind)
       /\ sent[n].field # "arguments" => sent[n].index = 0
  /\ Healthy => \A m \in 1..Done :
       BearsAt(text, m) => \/ frame = text[m]
                           \/ \E n \in DeltasIn(sent) : sent[n].content = PieceIn(text[m])
HandInv ==
  /\ Bears(frame) => \A n \in DeltasIn(sent) : Precedes(sent[n].content, PieceIn(frame))
  /\ frame.type = "content_block_start" =>
       \A i \in BlockIndexes : blocks[i] # NoBlock => i < frame.index
CallsInv == hasToolCalls <=> \E i \in BlockIndexes : blocks[i].kind = "tool_use"
GivenInv ==
  /\ Laid(text, content, stopReason)
  /\ DeltasInv /\ InOrder(sent) /\ HandInv /\ CallsInv /\ WholeInv
WholeChatInv == ChatBridgeInv /\ GivenInv

LEMMA PieceFields ==
  \A i, k : Piece(i, k).item = i /\ Piece(i, k).piece = k
BY DEF Piece

LEMMA PiecesDiffer ==
  \A i, k, j, l : Piece(i, k) = Piece(j, l) => i = j /\ k = l
BY PieceFields

(* An event with content has one piece.                                    *)
LEMMA OnePiece ==
  ASSUME NEW event \in Events, Bears(event)
  PROVE  /\ event \in BlockEvents /\ event.pieces = <<PieceIn(event)>>
         /\ event.type \in {"content_block_start", "content_block_delta", "content_block_stop"}
<1> DEFINE lists == {<<Piece(i, k)>> : i \in BlockIndexes, k \in 1..MaxPieces}
           plain == {PlainEvent(t) : t \in PlainTypes}
           ends == {Event("message_delta", 0, "none", <<>>, r) : r \in StopReasons}
<1>1. event \in BlockEvents
  <2>1. event \in plain \cup BlockEvents \cup ends
    BY DEF Events
  <2>2. event \notin plain
    <3> SUFFICES ASSUME NEW t \in PlainTypes, event = PlainEvent(t) PROVE FALSE
      OBVIOUS
    <3>1. event.type = t
      BY PlainShapes
    <3> QED BY <3>1 DEF PlainTypes, BlockTypes, Bears
  <2>3. event \notin ends
    <3> SUFFICES ASSUME NEW r \in StopReasons, event = Event("message_delta", 0, "none", <<>>, r)
                 PROVE  FALSE
      OBVIOUS
    <3>1. event.type = "message_delta"
      BY DEF Event
    <3> QED BY <3>1 DEF BlockTypes, Bears
  <2> QED BY <2>1, <2>2, <2>3
<1>2. event.pieces \in lists
  <2>1. BlockEvents = [type : BlockTypes, index : BlockIndexes, kind : BlockKinds,
                       pieces : {<<>>} \cup lists, reason : {""}]
    BY DEF BlockEvents
  <2> HIDE DEF lists
  <2>2. event.pieces \in {<<>>} \cup lists
    BY <1>1, <2>1
  <2> QED BY <2>2 DEF Bears
<1>3. PICK i \in BlockIndexes, k \in 1..MaxPieces : event.pieces = <<Piece(i, k)>>
  BY <1>2
<1>4. PieceIn(event) = Piece(i, k)
  BY <1>3 DEF PieceIn
<1> QED BY <1>1, <1>3, <1>4 DEF Bears, BlockTypes

(* The event adds its piece to the blocks c, after those that are there.   *)
Grows(c, d, event) ==
  /\ \A i \in 1..Len(c) : i \in 1..Len(d) /\ \A k \in 1..c[i].told : k \in 1..d[i].told
  /\ \A i \in 1..Len(d) : \A k \in 1..d[i].told :
       \/ i \in 1..Len(c) /\ k \in 1..c[i].told
       \/ Bears(event) /\ PieceIn(event) = Piece(i, k)
  /\ Bears(event) =>
       /\ ToldOf(PieceIn(event), event.index, d)
       /\ \A i \in 1..Len(c) : \A k \in 1..c[i].told : Precedes(Piece(i, k), PieceIn(event))

LEMMA PiecesLaidOn ==
  ASSUME NEW s, NEW c, PiecesLaid(s, c), NEW t, NEW event, IsEvent(event), Wrote(s, t, event),
         NEW d, Grows(c, d, event)
  PROVE  PiecesLaid(t, d)
<1> DEFINE k == Len(s) + 1
<1>1. /\ k \in 1..Len(t) /\ t[k] = event
      /\ \A n \in 1..Len(s) : n \in 1..Len(t) /\ t[n] = s[n] /\ n < k
      /\ \A n \in 1..Len(t) : IsEvent(t[n]) => n \in 1..Len(s) \/ n = k
      /\ k \in Nat /\ Len(s) \in Nat
  <2>1. (\A n \in 1..Len(s) : n < k) /\ k \in Nat /\ Len(s) \in Nat
    BY DEF Wrote
  <2> QED BY <2>1, WroteEvents
<1> HIDE DEF k
<1>2. \A n \in 1..Len(t) : BearsAt(t, n) => \/ n \in 1..Len(s) /\ BearsAt(s, n) /\ t[n] = s[n]
                                            \/ n = k /\ Bears(event)
  BY <1>1 DEF BearsAt
<1>3. \A n \in 1..Len(s) : BearsAt(s, n) => ToldOf(PieceIn(s[n]), s[n].index, c)
  BY DEF PiecesLaid
<1>4. \A p, i : ToldOf(p, i, c) => ToldOf(p, i, d)
  BY DEF Grows, ToldOf
<1>5. ASSUME NEW n \in 1..Len(t), BearsAt(t, n) PROVE ToldOf(PieceIn(t[n]), t[n].index, d)
  <2>1. CASE n \in 1..Len(s) /\ BearsAt(s, n) /\ t[n] = s[n]
    BY <1>3, <1>4, <2>1
  <2>2. CASE n = k /\ Bears(event)
    BY <1>1, <2>2 DEF Grows
  <2> QED BY <1>2, <1>5, <2>1, <2>2
<1>6. ASSUME NEW i \in 1..Len(d), NEW l \in 1..d[i].told
      PROVE  \E n \in 1..Len(t) : BearsAt(t, n) /\ PieceIn(t[n]) = Piece(i, l)
  <2>1. CASE i \in 1..Len(c) /\ l \in 1..c[i].told
    <3>1. PICK n \in 1..Len(s) : BearsAt(s, n) /\ PieceIn(s[n]) = Piece(i, l)
      BY <2>1 DEF PiecesLaid
    <3> QED BY <1>1, <3>1 DEF BearsAt
  <2>2. CASE Bears(event) /\ PieceIn(event) = Piece(i, l)
    BY <1>1, <2>2 DEF BearsAt
  <2> QED BY <2>1, <2>2 DEF Grows
<1>7. ASSUME NEW m \in 1..Len(t), NEW n \in 1..Len(t), BearsAt(t, m), BearsAt(t, n), m < n
      PROVE  Precedes(PieceIn(t[m]), PieceIn(t[n]))
  <2>1. m \in 1..Len(s) /\ BearsAt(s, m) /\ t[m] = s[m]
    <3>1. n \in 1..Len(s) \/ n = k
      BY <1>2, <1>7
    <3>2. m # k
      BY <1>1, <1>7, <3>1
    <3> QED BY <1>2, <1>7, <3>2
  <2>2. CASE n \in 1..Len(s) /\ BearsAt(s, n) /\ t[n] = s[n]
    BY <1>7, <2>1, <2>2 DEF PiecesLaid
  <2>3. CASE n = k /\ Bears(event)
    <3>1. PICK l : s[m].index \in 1..Len(c) /\ l \in 1..c[s[m].index].told
                   /\ PieceIn(s[m]) = Piece(s[m].index, l)
      BY <1>3, <2>1 DEF ToldOf
    <3>2. Precedes(PieceIn(s[m]), PieceIn(event))
      BY <2>3, <3>1 DEF Grows
    <3> QED BY <1>1, <2>1, <2>3, <3>2
  <2> QED BY <1>2, <1>7, <2>2, <2>3
<1> QED BY <1>5, <1>6, <1>7 DEF PiecesLaid

LEMMA LaidOn ==
  ASSUME NEW s, NEW c, NEW up, NEW reason, Written(s, c, up), Laid(s, c, reason),
         NEW t, NEW event \in Events, IsEvent(event), Wrote(s, t, event),
         NEW d, NEW why, Grows(c, d, event), Empty(event) => ~Bears(event),
         event.type = "content_block_start" => \A i \in 1..Len(c) : i < event.index,
         event.type = "message_delta" => event.reason = why,
         \A n \in 1..Len(s) : Is(s[n], {"message_delta"}) => why = reason,
         event.type = "message_stop" => \E m \in 1..Len(s) : Is(s[m], {"message_delta"})
  PROVE  Laid(t, d, why)
<1> DEFINE k == Len(s) + 1
<1>1. /\ k \in 1..Len(t) /\ t[k] = event
      /\ \A n \in 1..Len(s) : n \in 1..Len(t) /\ t[n] = s[n] /\ n < k
      /\ \A n \in 1..Len(t) : IsEvent(t[n]) => n \in 1..Len(s) \/ n = k
      /\ k \in Nat /\ Len(s) \in Nat
  <2>1. (\A n \in 1..Len(s) : n < k) /\ k \in Nat /\ Len(s) \in Nat
    BY DEF Wrote
  <2> QED BY <2>1, WroteEvents
<1> HIDE DEF k
<1>2. \A n \in 1..Len(t) : IsEvent(t[n]) => t[n] \in Events
  BY <1>1 DEF Laid
<1>3. PiecesLaid(t, d)
  BY PiecesLaidOn DEF Laid
<1>4. StartsLaid(t)
  <2>1. StartsLaid(s)
    BY DEF Laid
  <2>2. \A n \in 1..Len(t) : IsEvent(t[n]) /\ Empty(t[n]) => ~Bears(t[n])
    BY <1>1, <2>1 DEF StartsLaid
  <2>3. ASSUME NEW m \in 1..Len(t), NEW n \in 1..Len(t), Is(t[m], {"content_block_start"}),
               Is(t[n], {"content_block_start"}), m < n
        PROVE  t[m].index < t[n].index
    <3>1. m \in 1..Len(s)
      <4>1. (m \in 1..Len(s) \/ m = k) /\ (n \in 1..Len(s) \/ n = k)
        BY <1>1, <2>3 DEF Is
      <4> QED BY <1>1, <2>3, <4>1
    <3>2. CASE n \in 1..Len(s)
      <4>1. t[m] = s[m] /\ t[n] = s[n]
        BY <1>1, <3>1, <3>2
      <4> QED BY <2>1, <2>3, <3>1, <3>2, <4>1 DEF StartsLaid
    <3>3. CASE n = k
      <4>1. t[m] = s[m] /\ Is(s[m], BlockTypes)
        BY <1>1, <2>3, <3>1 DEF Is, BlockTypes
      <4>2. s[m].index \in 1..Len(c)
        BY <3>1, <4>1 DEF Written, FitsBlock
      <4> QED BY <1>1, <2>3, <3>3, <4>1, <4>2 DEF Is
    <3> QED BY <1>1, <2>3, <3>2, <3>3 DEF Is
  <2> QED BY <2>2, <2>3 DEF StartsLaid
<1>5. EndLaid(t, why)
  <2>1. EndLaid(s, reason)
    BY DEF Laid
  <2>2. ASSUME NEW n \in 1..Len(t), Is(t[n], {"message_delta"}) PROVE t[n].reason = why
    <3>1. CASE n \in 1..Len(s)
      BY <1>1, <2>1, <2>2, <3>1 DEF EndLaid
    <3>2. CASE n = k
      BY <1>1, <2>2, <3>2 DEF Is
    <3> QED BY <1>1, <2>2, <3>1, <3>2 DEF Is
  <2>3. ASSUME NEW n \in 1..Len(t), Is(t[n], {"message_stop"})
        PROVE  \E m \in 1..Len(t) : m < n /\ Is(t[m], {"message_delta"})
    <3>1. CASE n \in 1..Len(s)
      <4>1. PICK m \in 1..Len(s) : m < n /\ Is(s[m], {"message_delta"})
        BY <1>1, <2>1, <2>3, <3>1 DEF EndLaid
      <4> QED BY <1>1, <4>1
    <3>2. CASE n = k
      <4>1. PICK m \in 1..Len(s) : Is(s[m], {"message_delta"})
        BY <1>1, <2>3, <3>2 DEF Is
      <4> QED BY <1>1, <3>2, <4>1
    <3> QED BY <1>1, <2>3, <3>1, <3>2 DEF Is
  <2> QED BY <2>2, <2>3 DEF EndLaid
<1> QED BY <1>2, <1>3, <1>4, <1>5 DEF Laid

(* An event that is of no block adds nothing. *)
LEMMA PlainLaid ==
  ASSUME DecoderTypeOK, Written(text, content, upstream), Laid(text, content, stopReason),
         NEW event \in Events, Writes(event), event.type \notin BlockTypes, UNCHANGED content,
         event.type = "message_delta" => event.reason = stopReason',
         \A n \in 1..Len(text) : Is(text[n], {"message_delta"}) => stopReason' = stopReason,
         event.type = "message_stop" => \E m \in 1..Len(text) : Is(text[m], {"message_delta"})
  PROVE  Laid(text, content, stopReason)'
<1>1. Wrote(text, text', event) /\ IsEvent(event)
  BY WritesOn
<1>2. /\ ~Bears(event) /\ event.type # "content_block_start"
      /\ event.type # "content_block_stop"
  BY DEF Bears, BlockTypes
<1>3. Grows(content, content, event)
  BY <1>2 DEF Grows
<1>4. Laid(text', content, stopReason')
  BY <1>1, <1>2, <1>3, LaidOn
<1> QED BY <1>4

LEMMA BlockLaid ==
  ASSUME DecoderTypeOK, Written(text, content, upstream), Laid(text, content, stopReason),
         NEW event \in BlockEvents, event.type \in BlockTypes, Writes(event),
         Grows(content, content', event),
         Empty(event) => ~Bears(event),
         event.type = "content_block_start" => \A i \in 1..Len(content) : i < event.index,
         UNCHANGED stopReason
  PROVE  Laid(text, content, stopReason)'
<1>1. event \in Events
  BY BlockEventsAreEvents
<1>2. Wrote(text, text', event) /\ IsEvent(event)
  BY <1>1, WritesOn
<1>3. event.type # "message_delta" /\ event.type # "message_stop"
  BY DEF BlockTypes
<1>4. Laid(text', content', stopReason)
  BY <1>1, <1>2, <1>3, LaidOn
<1> QED BY <1>4

LEMMA BlockStartsLaid ==
  ASSUME DecoderTypeOK, Written(text, content, upstream), Laid(text, content, stopReason),
         NEW kind \in BlockKinds, NEW n \in 0..1, BlockStarts(kind, n)
  PROVE  Laid(text, content, stopReason)'
<1> DEFINE i == Begun + 1
           block == [kind |-> kind, told |-> n, open |-> TRUE]
           d == Append(content, block)
           event == Event("content_block_start", i, kind, Pieces(i, 1, n), "")
<1>1. /\ content \in Seq(BlockRecords) /\ Begun = Len(content) /\ Begun \in Nat
      /\ i \in BlockIndexes /\ n <= MaxPieces /\ MaxPieces \in Nat
      /\ kind = "tool_use" => n = 0
  <2>1. Begun < NumBlocks /\ n <= MaxPieces /\ (kind = "tool_use" => n = 0)
    BY DEF BlockStarts
  <2>2. /\ content \in Seq(BlockRecords) /\ Begun = Len(content) /\ Begun \in Nat
        /\ BlockIndexes = 1..NumBlocks /\ NumBlocks \in Nat /\ MaxPieces \in Nat
    BY BlocksTold
  <2>3. i \in 1..NumBlocks
    BY <2>1, <2>2
  <2> QED BY <2>1, <2>2, <2>3
<1>2. block \in BlockRecords /\ block.told = n
  BY <1>1 DEF BlockRecords
<1> HIDE DEF block
<1>3. /\ d \in Seq(BlockRecords) /\ Len(d) = Begun + 1 /\ d[i] = block
      /\ \A j \in 1..Begun : d[j] = content[j]
  BY <1>1, <1>2, AppendProperties
<1> HIDE DEF d
<1>4. Writes(event) /\ content' = d /\ UNCHANGED stopReason
  BY DEF BlockStarts, d, block
<1>5. \/ n = 0 /\ Pieces(i, 1, n) = <<>>
      \/ n = 1 /\ 1 \in 1..MaxPieces /\ Pieces(i, 1, n) = <<Piece(i, 1)>>
  <2>1. n = 0 \/ n = 1
    OBVIOUS
  <2>2. n = 1 => 1 \in 1..MaxPieces
    BY <1>1
  <2> QED BY <2>1, <2>2, PieceSequences
<1>6. event \in BlockEvents
  BY <1>1, <1>5, BlockShapes DEF BlockTypes
<1>7. /\ event.type = "content_block_start" /\ event.index = i /\ event.kind = kind
      /\ event.pieces = Pieces(i, 1, n)
  BY DEF Event
<1>8. \A j \in 1..Begun : j < i /\ j \in 1..Len(d)
  BY <1>1, <1>3
<1>9. i \in 1..Len(d) /\ \A j \in 1..Len(d) : j \in 1..Begun \/ j = i
  BY <1>1, <1>3
<1> HIDE DEF event, i
<1>10. Bears(event) <=> n = 1
  <2>1. event.pieces # <<>> <=> n = 1
    <3>1. CASE n = 0
      BY <1>5, <1>7, <3>1
    <3>2. CASE n = 1
      <4>1. event.pieces = <<Piece(i, 1)>>
        BY <1>5, <1>7, <3>2
      <4>2. <<Piece(i, 1)>> # <<>>
        OBVIOUS
      <4> QED BY <3>2, <4>1, <4>2
    <3> QED BY <1>5, <3>1, <3>2
  <2>2. event.type \in BlockTypes
    BY <1>7 DEF BlockTypes
  <2> QED BY <2>1, <2>2 DEF Bears
<1>11. n = 1 => PieceIn(event) = Piece(i, 1)
  BY <1>5, <1>7 DEF PieceIn
<1>12. Grows(content, d, event)
  <2>1. ASSUME NEW j \in 1..Len(d), NEW k \in 1..d[j].told
        PROVE  \/ j \in 1..Len(content) /\ k \in 1..content[j].told
               \/ Bears(event) /\ PieceIn(event) = Piece(j, k)
    <3>1. CASE j \in 1..Begun
      BY <1>1, <1>3, <2>1, <3>1
    <3>2. CASE j = i
      <4>1. k \in 1..n
        BY <1>2, <1>3, <2>1, <3>2
      <4>2. n = 1 /\ k = 1
        BY <4>1
      <4> QED BY <1>10, <1>11, <3>2, <4>2
    <3> QED BY <1>9, <3>1, <3>2
  <2>2. ASSUME Bears(event)
        PROVE  /\ ToldOf(PieceIn(event), event.index, d)
               /\ \A j \in 1..Len(content) : \A k \in 1..content[j].told :
                    Precedes(Piece(j, k), PieceIn(event))
    <3>1. n = 1 /\ PieceIn(event) = Piece(i, 1) /\ 1 \in 1..d[i].told
      BY <1>2, <1>3, <1>10, <1>11, <2>2
    <3>2. ToldOf(PieceIn(event), event.index, d)
      BY <1>7, <1>9, <3>1 DEF ToldOf
    <3> QED BY <1>1, <1>8, <3>1, <3>2, PieceFields DEF Precedes
  <2>3. \A j \in 1..Len(content) : j \in 1..Len(d) /\ \A k \in 1..content[j].told : k \in 1..d[j].told
    BY <1>1, <1>3, <1>8
  <2> QED BY <2>1, <2>2, <2>3 DEF Grows
<1>13. Empty(event) => ~Bears(event)
  BY <1>1, <1>7, <1>10 DEF Empty
<1>14. \A j \in 1..Len(content) : j < event.index
  BY <1>1, <1>7, <1>8
<1> QED BY <1>4, <1>6, <1>7, <1>12, <1>13, <1>14, BlockLaid DEF BlockTypes

LEMMA BlockGoesOnLaid ==
  ASSUME DecoderTypeOK, Written(text, content, upstream), Laid(text, content, stopReason),
         BlockGoesOn
  PROVE  Laid(text, content, stopReason)'
<1> DEFINE i == Begun
           k == content[i].told + 1
           d == [content EXCEPT ![i].told = k]
           event == Event("content_block_delta", i, content[i].kind, Pieces(i, k, k), "")
<1>1. /\ content \in Seq(BlockRecords) /\ i = Len(content) /\ i \in 1..i /\ i \in BlockIndexes
      /\ i \in Nat /\ content[i] \in BlockRecords /\ MaxPieces \in Nat
  BY BlocksTold DEF BlockGoesOn
<1>2. content[i].kind \in BlockKinds /\ k \in 1..MaxPieces /\ k \in Nat /\ content[i].told \in Nat
      /\ k = content[i].told + 1
  <2>1. content[i].kind \in BlockKinds /\ content[i].told \in 0..MaxPieces
    BY <1>1 DEF BlockRecords
  <2>2. content[i].told < MaxPieces
    BY DEF BlockGoesOn
  <2> QED BY <1>1, <2>1, <2>2
<1>3. /\ Len(d) = Len(content) /\ d[i].told = k
      /\ \A j \in 1..Len(content) : j # i => d[j] = content[j]
  <2> DEFINE block == [content[i] EXCEPT !.told = k]
  <2>1. block \in BlockRecords /\ block.told = k
    BY <1>1, <1>2 DEF BlockRecords
  <2>2. d = [content EXCEPT ![i] = block]
    OBVIOUS
  <2> HIDE DEF block, d
  <2>3. /\ d \in Seq(BlockRecords) /\ Len(d) = Len(content)
        /\ \A j \in 1..Len(content) : d[j] = IF j = i THEN block ELSE content[j]
    BY <1>1, <2>1, <2>2, ExceptSeq
  <2> QED BY <1>1, <2>1, <2>3
<1>4. Writes(event) /\ content' = d /\ UNCHANGED stopReason
  BY DEF BlockGoesOn
<1>5. /\ event.type = "content_block_delta" /\ event.index = i
      /\ event.pieces = Pieces(i, k, k)
  BY DEF Event
<1> HIDE DEF d, k
<1>6. Pieces(i, k, k) = <<Piece(i, k)>>
  BY <1>2, PieceSequences
<1>7. event \in BlockEvents
  BY <1>1, <1>2, <1>6, BlockShapes DEF BlockTypes
<1> HIDE DEF i, event
<1>8. Bears(event) /\ PieceIn(event) = Piece(i, k)
  BY <1>5, <1>6 DEF Bears, PieceIn, BlockTypes
<1>9. \A j \in 1..Len(content) : j # i => j < i
  BY <1>1
<1>10. \A l \in 1..content[i].told : l < k /\ l \in 1..d[i].told
  BY <1>2, <1>3
<1>11. \A l \in 1..d[i].told : l \in 1..content[i].told \/ l = k
  BY <1>2, <1>3
<1>12. k \in 1..d[i].told
  BY <1>2, <1>3
<1>13. Grows(content, d, event)
  <2>1. \A j \in 1..Len(content) : j \in 1..Len(d)
          /\ \A l \in 1..content[j].told : l \in 1..d[j].told
    BY <1>3, <1>10
  <2>2. \A j \in 1..Len(d) : \A l \in 1..d[j].told :
          \/ j \in 1..Len(content) /\ l \in 1..content[j].told
          \/ Bears(event) /\ PieceIn(event) = Piece(j, l)
    BY <1>3, <1>8, <1>11
  <2>3. ToldOf(PieceIn(event), event.index, d)
    BY <1>1, <1>3, <1>5, <1>8, <1>12 DEF ToldOf
  <2>4. \A j \in 1..Len(content) : \A l \in 1..content[j].told :
          Precedes(Piece(j, l), PieceIn(event))
    BY <1>8, <1>9, <1>10, PieceFields DEF Precedes
  <2> QED BY <2>1, <2>2, <2>3, <2>4 DEF Grows
<1>14. ~Empty(event) /\ event.type # "content_block_start"
  BY <1>5 DEF Empty
<1> QED BY <1>4, <1>5, <1>7, <1>13, <1>14, BlockLaid DEF BlockTypes

LEMMA BlockStopsLaid ==
  ASSUME DecoderTypeOK, Written(text, content, upstream), Laid(text, content, stopReason),
         BlockStops
  PROVE  Laid(text, content, stopReason)'
<1> DEFINE i == Begun
           d == [content EXCEPT ![i].open = FALSE]
           event == Event("content_block_stop", i, content[i].kind, <<>>, "")
<1>1. /\ content \in Seq(BlockRecords) /\ i = Len(content) /\ i \in 1..i /\ i \in BlockIndexes
      /\ i \in Nat /\ content[i] \in BlockRecords
  BY BlocksTold DEF BlockStops
<1>2. Len(d) = Len(content) /\ \A j \in 1..Len(content) : d[j].told = content[j].told
  <2> DEFINE block == [content[i] EXCEPT !.open = FALSE]
  <2>1. block \in BlockRecords /\ block.told = content[i].told
    BY <1>1 DEF BlockRecords
  <2>2. d = [content EXCEPT ![i] = block]
    OBVIOUS
  <2> HIDE DEF block, d
  <2>3. /\ d \in Seq(BlockRecords) /\ Len(d) = Len(content)
        /\ \A j \in 1..Len(content) : d[j] = IF j = i THEN block ELSE content[j]
    BY <1>1, <2>1, <2>2, ExceptSeq
  <2> QED BY <1>1, <2>1, <2>3
<1>3. Writes(event) /\ content' = d /\ UNCHANGED stopReason
  BY DEF BlockStops
<1>4. event.type = "content_block_stop" /\ event.pieces = <<>>
  BY DEF Event
<1> HIDE DEF d
<1>5. event \in BlockEvents
  BY <1>1, BlockShapes DEF BlockRecords, BlockTypes
<1> HIDE DEF i, event
<1>6. ~Bears(event) /\ event.type # "content_block_start"
  BY <1>4 DEF Bears
<1>7. Grows(content, d, event)
  BY <1>2, <1>6 DEF Grows
<1> QED BY <1>3, <1>4, <1>5, <1>6, <1>7, BlockLaid DEF BlockTypes

LEMMA BodyEndsLaid ==
  ASSUME DecoderTypeOK, Written(text, content, upstream), Laid(text, content, stopReason),
         BodyEnds
  PROVE  Laid(text, content, stopReason)'
<1>1. content' = content /\ stopReason' = stopReason
  BY DEF BodyEnds
<1>2. text \in Seq(Byte) /\ Len(text) \in Nat
  BY LenProperties DEF DecoderTypeOK
<1>3. CASE Write(<<>>, TRUE)
  <2>1. text' = text
    BY <1>2, <1>3, ConcatEmptySeq DEF Write
  <2> QED BY <1>1, <2>1
<1>4. CASE Write(<<Fragment>>, TRUE)
  <2>1. /\ Fragment \in Events /\ Fragment.type = "fragment"
        /\ Fragment \in Byte /\ IsEvent(Fragment)
    <3>1. "fragment" \in PlainTypes
      BY DEF PlainTypes
    <3> QED BY <3>1, PlainShapes, EventsAreEvents DEF Fragment
  <2>2. text' = Append(text, Fragment)
    BY <1>2, <1>4 DEF Write
  <2>3. /\ Len(text') = Len(text) + 1 /\ text'[Len(text) + 1] = Fragment
        /\ \A n \in 1..Len(text) : text'[n] = text[n]
    BY <1>2, <2>1, <2>2, AppendProperties
  <2>4. Wrote(text, text', Fragment)
    BY <1>2, <2>3 DEF Wrote
  <2>5. ~Bears(Fragment) /\ Fragment.type \notin EndTypes \cup {"content_block_start"}
    BY <2>1 DEF Bears, BlockTypes, EndTypes
  <2>6. Grows(content, content, Fragment)
    BY <2>5 DEF Grows
  <2>7. Laid(text', content, stopReason)
    BY <2>1, <2>4, <2>5, <2>6, LaidOn DEF EndTypes
  <2> QED BY <1>1, <2>7
<1> QED BY <1>3, <1>4 DEF BodyEnds

LEMMA EndpointLays ==
  ASSUME DecoderTypeOK, Written(text, content, upstream), Laid(text, content, stopReason),
         EndpointNext
  PROVE  Laid(text, content, stopReason)'
<1>1. \A type \in PlainTypes :
        /\ PlainEvent(type) \in Events /\ PlainEvent(type).type = type
        /\ type \notin BlockTypes \cup {"message_delta"}
  BY PlainShapes DEF PlainTypes, BlockTypes
<1>2. ASSUME NEW type \in PlainTypes, Writes(PlainEvent(type)),
             UNCHANGED <<content, stopReason>>,
             type = "message_stop" => upstream = "ended"
      PROVE  Laid(text, content, stopReason)'
  <2> DEFINE event == PlainEvent(type)
  <2>1. event \in Events /\ event.type = type /\ type \notin BlockTypes \cup {"message_delta"}
    BY <1>1
  <2>2. type = "message_stop" => \E m \in 1..Len(text) : Is(text[m], {"message_delta"})
    BY <1>2 DEF Written, Ended
  <2> HIDE DEF event
  <2>3. Writes(event)
    BY <1>2 DEF event
  <2> QED BY <1>2, <2>1, <2>2, <2>3, PlainLaid
<1>3. ASSUME NEW reason \in StopReasons, MessageEnds(reason)
      PROVE  Laid(text, content, stopReason)'
  <2> DEFINE event == Event("message_delta", 0, "none", <<>>, reason)
  <2>1. event \in Events /\ event.type = "message_delta" /\ event.reason = reason
    BY PlainShapes DEF Event
  <2>2. Writes(event) /\ stopReason' = reason /\ content' = content /\ Running
    BY <1>3 DEF MessageEnds, Between
  <2>3. \A n \in 1..Len(text) : ~Is(text[n], {"message_delta"})
    <3>1. upstream \notin Ended
      BY <2>2 DEF Running, Ended
    <3> QED BY <3>1 DEF Written, Is, EndTypes
  <2> HIDE DEF event
  <2> QED BY <2>1, <2>2, <2>3, PlainLaid DEF BlockTypes
<1>4. CASE MessageStarts
  BY <1>2, <1>4 DEF MessageStarts, PlainTypes
<1>5. CASE Pings
  BY <1>2, <1>5 DEF Pings, PlainTypes
<1>6. CASE MessageStops
  BY <1>2, <1>6 DEF MessageStops, PlainTypes
<1>7. CASE SendsDone
  BY <1>2, <1>7 DEF SendsDone, PlainTypes
<1>8. CASE Fails
  BY <1>2, <1>8 DEF Fails, PlainTypes
<1> QED BY <1>3, <1>4, <1>5, <1>6, <1>7, <1>8, BlockStartsLaid, BlockGoesOnLaid,
           BlockStopsLaid, BodyEndsLaid DEF EndpointNext


-----------------------------------------------------------------------------
(* What is still to come to the client, from step to step. *)

LEMMA NothingBorne ==
  ~Bears(NoFrame) /\ ~Bears(PlainEvent("nodata")) /\ ~Bears(PlainEvent("invalid"))
  /\ ~Bears(Fragment)
BY PlainFrames DEF Bears, BlockTypes

LEMMA ChatInitGiven ==
  ChatInit => GivenInv
<1> SUFFICES ASSUME ChatInit PROVE GivenInv
  OBVIOUS
<1>1. /\ frame = NoFrame /\ sent = <<>> /\ text = <<>> /\ content = <<>> /\ ~flushed
      /\ cuts = <<>> /\ hasToolCalls = FALSE /\ blocks = [i \in BlockIndexes |-> NoBlock]
      /\ Len(text) = 0 /\ Len(content) = 0 /\ Len(sent) = 0
  BY EmptySeq DEF ChatInit, PumpInit, DecoderInit
<1>2. 1..Len(text) = {} /\ 1..Len(content) = {} /\ DeltasIn(sent) = {}
      /\ ToolsIn(sent, Len(sent)) = {}
  BY <1>1 DEF DeltasIn, ToolsIn
<1>3. Done = 0 /\ 1..Done = {}
  <2>1. Len(cuts) = 0
    BY <1>1
  <2> QED BY <1>1, <2>1 DEF Done, LastCut, CutAt
<1>4. Laid(text, content, stopReason)
  <2>1. PiecesLaid(text, content)
    BY <1>2 DEF PiecesLaid
  <2>2. StartsLaid(text) /\ EndLaid(text, stopReason)
    BY <1>2 DEF StartsLaid, EndLaid
  <2> QED BY <1>2, <2>1, <2>2 DEF Laid
<1>5. DeltasInv
  BY <1>2, <1>3 DEF DeltasInv
<1>6. InOrder(sent)
  BY <1>2 DEF InOrder
<1>7. HandInv
  BY <1>1, NothingBorne, PlainFrames DEF HandInv
<1>8. CallsInv
  BY <1>1 DEF CallsInv, NoBlock
<1>9. WholeInv
  BY <1>1 DEF WholeInv
<1> QED BY <1>4, <1>5, <1>6, <1>7, <1>8, <1>9 DEF GivenInv

(* The answer has ended before the client has its finish chunk. *)
LEMMA FinishEnded ==
  ASSUME ChatBridgeInv, output = "open", Len(sent) > 0, sent[Len(sent)].type = "finish"
  PROVE  upstream \in Ended
<1>1. stopped
  <2>1. Len(sent) \in 1..Len(sent)
    BY LenProperties DEF ChatBridgeInv, ChatInv, LegalChat
  <2> QED BY <2>1 DEF ChatBridgeInv, ChatInv
<1>2. PICK m \in 1..Done : Is(text[m], EndTypes)
  BY <1>1 DEF ChatBridgeInv, BridgeInv, StopInv
<1>3. m \in 1..Len(text)
  BY DoneType DEF ChatBridgeInv
<1> QED BY <1>2, <1>3 DEF ChatBridgeInv, Written

(* The endpoint writes on: the client has what it had.                     *)
LEMMA EndpointGiven ==
  ASSUME WholeChatInv, EndpointNext
  PROVE  GivenInv'
<1>1. ChatBridgeInv /\ GivenInv /\ DecoderInv
  BY DEF WholeChatInv, ChatBridgeInv
<1>2. TellsOn
  BY <1>1, EndpointTells DEF ChatBridgeInv, DecoderInv
<1>3. PICK bytes \in Seq(Byte), last \in BOOLEAN : Write(bytes, last)
  BY <1>2 DEF TellsOn
<1>4. /\ Done \in Nat /\ Done <= Len(text) /\ Len(text) \in Nat
      /\ frame' = frame /\ output' = output /\ sent' = sent /\ blocks' = blocks
      /\ hasToolCalls' = hasToolCalls /\ output = "open"
  BY <1>1, <1>2, DoneType DEF TellsOn, pumpVars, bridgeVars, Reading
<1>5. ~flushed /\ flushed' = flushed /\ cuts' = cuts /\ text' = text \o bytes
      /\ text \in Seq(Byte)
  BY <1>1, <1>3 DEF Write, DecoderInv, BufferInv, DecoderTypeOK
<1>6. Done' = Done
  BY <1>5 DEF Done, LastCut, CutAt
<1>7. \A m \in 1..Done : text'[m] = text[m]
  BY <1>4, <1>5, ConcatProperties
<1>8. Laid(text, content, stopReason)'
  BY <1>1, EndpointLays DEF GivenInv, ChatBridgeInv, DecoderInv
<1>9. DeltasInv'
  <2>1. DeltasInv /\ Healthy' = Healthy
    BY <1>1, <1>4 DEF GivenInv, Healthy
  <2>2. DeltasIn(sent)' = DeltasIn(sent)
    BY <1>4
  <2>3. \A m \in 1..Done : (BearsAt(text', m) <=> BearsAt(text, m)) /\ text'[m] = text[m]
    BY <1>7 DEF BearsAt
  <2> QED BY <1>4, <1>6, <2>1, <2>2, <2>3 DEF DeltasInv
<1>10. InOrder(sent)'
  BY <1>1, <1>4 DEF GivenInv
<1>11. HandInv'
  BY <1>1, <1>4 DEF GivenInv, HandInv
<1>12. CallsInv'
  BY <1>1, <1>4 DEF GivenInv, CallsInv
<1>13. WholeInv'
  <2> SUFFICES ASSUME Len(sent) > 0, sent[Len(sent)].type = "finish" PROVE WholeInv'
    BY <1>4 DEF WholeInv
  <2>1. upstream \in Ended
    BY <1>1, <1>4, FinishEnded
  <2>2. UNCHANGED <<content, stopReason>>
    BY <2>1 DEF EndpointNext, MessageStarts, Pings, BlockStarts, BlockGoesOn, BlockStops,
       MessageEnds, MessageStops, SendsDone, Fails, BodyEnds, Between, Running, Ended
  <2>3. WholeInv
    BY <1>1 DEF GivenInv
  <2> QED BY <1>4, <2>2, <2>3 DEF WholeInv
<1> QED BY <1>8, <1>9, <1>10, <1>11, <1>12, <1>13 DEF GivenInv

(* A chunk comes in, the pump stops, or nothing happens.                   *)
LEMMA IdleGiven ==
  ASSUME WholeChatInv, Reads \/ Ends \/ ReadFails \/ UNCHANGED chatVars
  PROVE  GivenInv'
<1>1. /\ text' = text /\ content' = content /\ stopReason' = stopReason /\ frame' = frame
      /\ sent' = sent /\ blocks' = blocks /\ hasToolCalls' = hasToolCalls
      /\ flushed' = flushed /\ cuts' = cuts /\ (output' = output \/ output' # "open")
  BY DEF Reads, Feed, Ends, ReadFails, PumpEnds, PumpFails, ClosesOutput, Reading, chatVars,
     pumpVars, decoderVars, endpointVars, bridgeVars
<1>2. Done' = Done /\ (Healthy' => Healthy)
  BY <1>1 DEF Done, LastCut, CutAt, Healthy
<1>3. GivenInv
  BY DEF WholeChatInv
<1>4. DeltasInv'
  <2>1. DeltasInv
    BY <1>3 DEF GivenInv
  <2> QED BY <1>1, <1>2, <2>1 DEF DeltasInv
<1>5. HandInv' /\ CallsInv' /\ WholeInv'
  BY <1>1, <1>3 DEF GivenInv, HandInv, CallsInv, WholeInv
<1> QED BY <1>1, <1>3, <1>4, <1>5 DEF GivenInv

(* A frame is handed out: it comes after all that the client has.          *)
LEMMA TakesGiven ==
  ASSUME WholeChatInv, TakesFrame \/ TakesTrailing
  PROVE  GivenInv'
<1>1. ChatBridgeInv /\ GivenInv /\ DecoderInv /\ BridgeInv /\ Written(text, content, upstream)
  BY DEF WholeChatInv, ChatBridgeInv
<1>2. /\ Reading /\ UNCHANGED <<text, sent, output, endpointVars, bridgeVars>>
      /\ \E raw : Hands(raw, Done', frame')
  BY <1>1, TakesFrameInv, TakesTrailingInv
<1> DEFINE done == Done'
<1>3. /\ text' = text /\ content' = content /\ stopReason' = stopReason /\ output' = output
      /\ sent' = sent /\ blocks' = blocks /\ hasToolCalls' = hasToolCalls
      /\ frame = NoFrame /\ Healthy
  BY <1>2, PlainFrames DEF endpointVars, bridgeVars, Reading, Healthy, BadTypes
<1>4. PICK raw : Hands(raw, done, frame')
  BY <1>2
<1>5. /\ Done \in Nat /\ done \in Nat /\ Done <= done /\ done <= Len(text) /\ Len(text) \in Nat
      /\ \A m \in 1..Done : m \in 1..done
  BY <1>1, <1>4, DoneType DEF Hands
<1>6. \/ frame' = PlainEvent("invalid")
      \/ /\ frame' \in {NoFrame, PlainEvent("nodata")}
         /\ \A m \in 1..done : m \in 1..Done \/ (IsEvent(text[m]) => text[m] = Fragment)
      \/ \E k \in 1..done :
           /\ IsEvent(text[k]) /\ frame' = text[k] /\ k \notin 1..Done
           /\ \A m \in 1..done : m \in 1..Done \/ m = k \/ ~IsEvent(text[m])
  BY <1>1, <1>4, HandsEvents
<1> HIDE DEF done
<1>7. DeltasInv /\ PiecesLaid(text, content) /\ StartsLaid(text)
  BY <1>1 DEF GivenInv, Laid
<1>8. DeltasInv'
  <2>1. ASSUME NEW n \in DeltasIn(sent)
        PROVE  \E m \in 1..done :
                 /\ BearsAt(text, m) /\ sent[n].content = PieceIn(text[m])
                 /\ sent[n].field = Field(text[m].kind)
                 /\ sent[n].field # "arguments" => sent[n].index = 0
    BY <1>5, <1>7 DEF DeltasInv
  <2>2. ASSUME Healthy', NEW m \in 1..done, BearsAt(text, m)
        PROVE  frame' = text[m] \/ \E n \in DeltasIn(sent) : sent[n].content = PieceIn(text[m])
    <3>1. CASE m \in 1..Done
      <4>1. frame # text[m]
        BY <1>3, <2>2, NothingBorne DEF BearsAt
      <4> QED BY <1>3, <1>7, <2>2, <3>1, <4>1 DEF DeltasInv
    <3>2. CASE m \notin 1..Done
      <4>1. text[m] # Fragment /\ IsEvent(text[m])
        BY <2>2, NothingBorne DEF BearsAt
      <4>2. frame' # PlainEvent("invalid")
        BY <2>2, PlainFrames DEF Healthy, BadTypes
      <4> QED BY <1>6, <2>2, <3>2, <4>1, <4>2
    <3> QED BY <3>1, <3>2
  <2>3. DeltasIn(sent)' = DeltasIn(sent)
    BY <1>3
  <2> QED BY <1>3, <2>1, <2>2, <2>3 DEF DeltasInv, done
<1>9. HandInv'
  <2>1. ASSUME Bears(frame') \/ frame'.type = "content_block_start"
        PROVE  \E k \in 1..done : IsEvent(text[k]) /\ frame' = text[k] /\ k \notin 1..Done
    <3>1. frame' # PlainEvent("invalid") /\ frame' \notin {NoFrame, PlainEvent("nodata")}
      BY <2>1, NothingBorne, PlainFrames
    <3> QED BY <1>6, <3>1
  <2>2. ASSUME Bears(frame'), NEW n \in DeltasIn(sent)
        PROVE  Precedes(sent[n].content, PieceIn(frame'))
    <3>1. PICK k \in 1..done : IsEvent(text[k]) /\ frame' = text[k] /\ k \notin 1..Done
      BY <2>1, <2>2
    <3>2. PICK m \in 1..Done : BearsAt(text, m) /\ sent[n].content = PieceIn(text[m])
      BY <1>7 DEF DeltasInv
    <3>3. m \in 1..Len(text) /\ k \in 1..Len(text) /\ m < k
      BY <1>5, <3>1
    <3>4. BearsAt(text, k)
      BY <2>2, <3>1 DEF BearsAt
    <3> QED BY <1>7, <3>1, <3>2, <3>3, <3>4 DEF PiecesLaid
  <2>3. ASSUME frame'.type = "content_block_start", NEW i \in BlockIndexes, blocks[i] # NoBlock
        PROVE  i < frame'.index
    <3>1. PICK k \in 1..done : IsEvent(text[k]) /\ frame' = text[k] /\ k \notin 1..Done
      BY <2>1, <2>3
    <3>2. i \in 1..Len(content) /\ \E m \in 1..Done : Is(text[m], BlockTypes) /\ text[m].index = i
      BY <1>1, <2>3 DEF BridgeInv, BlocksInv, Begun
    <3>3. PICK m \in 1..Done : Is(text[m], BlockTypes) /\ text[m].index = i
      BY <3>2
    <3>4. PICK q \in 1..Len(text) : Is(text[q], {"content_block_start"}) /\ text[q].index = i
      BY <1>1, <3>2 DEF Written
    <3>5. m \in 1..Len(text) /\ k \in 1..Len(text) /\ m < k
      BY <1>5, <3>1
    <3>6. q <= m
      BY <1>1, <3>3, <3>4, <3>5 DEF Written
    <3>7. q < k /\ Is(text[k], {"content_block_start"})
      BY <2>3, <3>1, <3>5, <3>6 DEF Is
    <3> QED BY <1>7, <3>1, <3>4, <3>5, <3>7 DEF StartsLaid
  <2> QED BY <1>3, <2>2, <2>3 DEF HandInv
<1>10. CallsInv' /\ WholeInv'
  BY <1>1, <1>3 DEF GivenInv, CallsInv, WholeInv
<1> QED BY <1>1, <1>3, <1>8, <1>9, <1>10 DEF GivenInv

(* The client has what it had, and of what is new only c is not the role;  *)
(* and it has c unless it is gone.                                         *)
GoesOnWith(c) ==
  /\ Len(sent) <= Len(sent') /\ \A n \in 1..Len(sent) : sent'[n] = sent[n]
  /\ \A n \in 1..Len(sent') :
       n > Len(sent) => sent'[n] = RoleChunk \/ (sent'[n] = c /\ n = Len(sent'))
  /\ output' = "open" => \E n \in 1..Len(sent') : sent'[n] = c

LEMMA StartAlone ==
  ASSUME ChatInv, output = "open"
  PROVE  /\ Start \in Seq(ChatChunks) /\ sent \in Seq(ChatChunks)
         /\ Len(Start) \in {0, 1} /\ \A n \in 1..Len(Start) : Start[n] = RoleChunk
         /\ \E n \in 1..(Len(sent) + Len(Start)) : (sent \o Start)[n] = RoleChunk
<1>1. sent \in Seq(ChatChunks) /\ Len(sent) \in Nat /\ LegalChat(sent)
  BY LenProperties DEF ChatInv, LegalChat
<1>2. CASE started
  <2>1. Start = <<>> /\ sent \o <<>> = sent
    BY <1>1, <1>2, ConcatEmptySeq DEF Start
  <2>2. 1 \in 1..Len(sent) /\ sent[1] \in ChatChunks
    BY <1>1, <1>2 DEF ChatInv
  <2>3. sent[1] = RoleChunk
    <3>1. sent[1].type = "role"
      BY <1>1, <2>2 DEF LegalChat, LegalAt
    <3> QED BY <2>2, <3>1 DEF ChatChunks, ToolChunks, DeltaChunks, FinishChunks
  <2> QED BY <1>1, <2>1, <2>2, <2>3
<1>3. CASE ~started
  <2>1. Start = <<RoleChunk>> /\ sent = <<>>
    BY <1>3 DEF Start, ChatInv
  <2>2. <<RoleChunk>> \in Seq(ChatChunks) /\ sent \o Start = <<RoleChunk>>
    BY <2>1, ConcatEmptySeq DEF ChatChunks
  <2>3. Len(Start) = 1 /\ Start[1] = RoleChunk /\ Len(sent) = 0
    BY <2>1
  <2> QED BY <1>1, <2>1, <2>2, <2>3
<1> QED BY <1>2, <1>3

LEMMA SentStays ==
  ASSUME NEW S, NEW out \in Seq(S), sent \in Seq(S), Emits(out)
  PROVE  Len(sent) <= Len(sent')
<1>1. Len(sent \o out) = Len(sent) + Len(out) /\ Len(sent) \in Nat /\ Len(out) \in Nat
  BY ConcatProperties, LenProperties
<1>2. ASSUME NEW k \in 0..(Len(out) - 1), sent' = sent \o SubSeq(out, 1, k)
      PROVE  Len(sent) <= Len(sent')
  <2> DEFINE t == SubSeq(out, 1, k)
  <2>1. t \in Seq(S)
    <3>1. k <= Len(out) /\ k \in Nat /\ \A n \in 1..k : out[n] \in S
      BY <1>1, ElementOfSeq
    <3> QED BY <3>1, SubSeqProperties
  <2>2. sent' = sent \o t
    BY <1>2
  <2> HIDE DEF t
  <2> QED BY <1>1, <2>1, <2>2, ConcatProperties, LenProperties
<1> QED BY <1>1, <1>2 DEF Emits

LEMMA OutGoesOn ==
  ASSUME NEW out \in Seq(ChatChunks), sent \in Seq(ChatChunks), output = "open", Emits(out),
         NEW c, \A n \in 1..Len(out) : out[n] = RoleChunk \/ (out[n] = c /\ n = Len(out)),
         \E n \in 1..(Len(sent) + Len(out)) : (sent \o out)[n] = c
  PROVE  GoesOnWith(c)
<1>1. /\ output' \in {output, "failed"} /\ (output' = "open" => sent' = sent \o out)
      /\ sent' \in Seq(ChatChunks) /\ Len(sent') <= Len(sent \o out)
      /\ \A n \in 1..Len(sent') : sent'[n] = (sent \o out)[n]
  BY EmitsPrefix
<1>2. /\ Len(sent \o out) = Len(sent) + Len(out) /\ Len(sent) \in Nat /\ Len(out) \in Nat
      /\ \A n \in 1..Len(sent) + Len(out) :
           (sent \o out)[n] = IF n <= Len(sent) THEN sent[n] ELSE out[n - Len(sent)]
      /\ Len(sent') \in Nat
  BY <1>1, ConcatProperties, LenProperties
<1>3. Len(sent) <= Len(sent')
  BY SentStays
<1>4. \A n \in 1..Len(sent) : sent'[n] = sent[n]
  BY <1>1, <1>2, <1>3
<1>5. ASSUME NEW n \in 1..Len(sent'), n > Len(sent)
      PROVE  sent'[n] = RoleChunk \/ (sent'[n] = c /\ n = Len(sent'))
  <2>1. n - Len(sent) \in 1..Len(out) /\ ~(n <= Len(sent)) /\ n \in 1..Len(sent) + Len(out)
    BY <1>1, <1>2, <1>5
  <2>2. sent'[n] = out[n - Len(sent)]
    BY <1>1, <1>2, <2>1
  <2>3. n - Len(sent) = Len(out) => n = Len(sent')
    BY <1>1, <1>2, <1>5
  <2> QED BY <2>1, <2>2, <2>3
<1>6. output' = "open" => \E n \in 1..Len(sent') : sent'[n] = c
  BY <1>1, <1>2
<1> QED BY <1>3, <1>4, <1>5, <1>6 DEF GoesOnWith

LEMMA RoleGoesOn ==
  ASSUME ChatInv, output = "open", Emits(Start)
  PROVE  GoesOnWith(RoleChunk)
<1> DEFINE out == Start
<1>1. out \in Seq(ChatChunks) /\ sent \in Seq(ChatChunks) /\ Emits(out)
  BY StartAlone
<1>2. \A n \in 1..Len(out) : out[n] = RoleChunk \/ (out[n] = RoleChunk /\ n = Len(out))
  BY StartAlone
<1>3. \E n \in 1..(Len(sent) + Len(out)) : (sent \o out)[n] = RoleChunk
  BY StartAlone
<1> HIDE DEF out
<1> QED BY <1>1, <1>2, <1>3, OutGoesOn

LEMMA ChunkGoesOn ==
  ASSUME ChatInv, output = "open", NEW c \in ChatChunks, Emits(Start \o <<c>>)
  PROVE  GoesOnWith(c)
<1> DEFINE a == Start
           b == <<c>>
           out == a \o b
<1>1. /\ a \in Seq(ChatChunks) /\ sent \in Seq(ChatChunks)
      /\ \A n \in 1..Len(a) : a[n] = RoleChunk
  BY StartAlone
<1>2. b \in Seq(ChatChunks) /\ Len(b) = 1 /\ b[1] = c
  OBVIOUS
<1>3. Emits(out)
  OBVIOUS
<1> HIDE DEF a, b
<1>4. /\ out \in Seq(ChatChunks) /\ Len(out) = Len(a) + 1 /\ Len(a) \in Nat
      /\ \A n \in 1..Len(a) + 1 : out[n] = IF n <= Len(a) THEN a[n] ELSE b[n - Len(a)]
  <2>1. /\ a \o b \in Seq(ChatChunks) /\ Len(a \o b) = Len(a) + Len(b)
        /\ \A n \in 1..Len(a) + Len(b) :
             (a \o b)[n] = IF n <= Len(a) THEN a[n] ELSE b[n - Len(a)]
    BY <1>1, <1>2, ConcatProperties
  <2>2. Len(a) \in Nat
    BY <1>1, LenProperties
  <2> QED BY <1>2, <2>1, <2>2
<1> HIDE DEF out
<1>5. ASSUME NEW n \in 1..Len(out) PROVE out[n] = RoleChunk \/ (out[n] = c /\ n = Len(out))
  <2>1. CASE n <= Len(a)
    BY <1>1, <1>4, <2>1
  <2>2. CASE ~(n <= Len(a))
    <3>1. n = Len(a) + 1 /\ n - Len(a) = 1
      BY <1>4, <2>2
    <3>2. n \in 1..Len(a) + 1 /\ ~(n <= Len(a)) /\ n = Len(out)
      BY <1>4, <2>2, <3>1
    <3>3. out[n] = b[n - Len(a)]
      BY <1>4, <3>2
    <3> QED BY <1>2, <3>1, <3>2, <3>3
  <2> QED BY <2>1, <2>2
<1>6. Len(sent) + Len(out) \in 1..(Len(sent) + Len(out))
      /\ (sent \o out)[Len(sent) + Len(out)] = c
  <2>1. /\ Len(sent) \in Nat
        /\ \A n \in 1..Len(sent) + Len(out) :
             (sent \o out)[n] = IF n <= Len(sent) THEN sent[n] ELSE out[n - Len(sent)]
    BY <1>1, <1>4, ConcatProperties, LenProperties
  <2> DEFINE k == Len(sent) + Len(out)
  <2>2. k \in 1..k /\ ~(k <= Len(sent)) /\ k - Len(sent) = Len(out)
    BY <1>4, <2>1
  <2>3. Len(out) \in 1..Len(a) + 1 /\ ~(Len(out) <= Len(a)) /\ Len(out) - Len(a) = 1
    BY <1>4
  <2>4. out[Len(out)] = c
    BY <1>2, <1>4, <2>3
  <2> QED BY <2>1, <2>2, <2>4
<1> QED BY <1>1, <1>3, <1>4, <1>5, <1>6, OutGoesOn

(* When the endpoint's end is in hand for the first time, the client has   *)
(* all of the answer but its finish reason.                                *)
LEMMA EndInHand ==
  ASSUME WholeChatInv, output = "open", ~stopped, frame.type \in EndTypes
  PROVE  /\ GivesAll(sent, content)
         /\ FinishReason(frame.reason, hasToolCalls) = FinishReason(stopReason, HasCalls(content))
<1>1. /\ ChatBridgeInv /\ GivenInv /\ DecoderInv /\ BridgeInv /\ Written(text, content, upstream)
      /\ DeltasInv /\ PiecesLaid(text, content) /\ EndLaid(text, stopReason) /\ CallsInv
      /\ Healthy
  BY DEF WholeChatInv, ChatBridgeInv, GivenInv, Laid, Healthy, EndTypes, BadTypes
<1>2. Done \in Nat /\ Len(text) \in Nat /\ Done <= Len(text)
  BY <1>1, DoneType
<1>3. PICK k \in 1..Done : IsEvent(text[k]) /\ text[k] = frame
  BY <1>1, PlainFrames DEF BridgeInv, FrameTold, EndTypes
<1>4. k \in 1..Len(text) /\ Is(text[k], EndTypes)
  BY <1>2, <1>3 DEF Is
<1>5. frame.type = "message_delta"
  <2> SUFFICES ASSUME frame.type = "message_stop" PROVE FALSE
    BY DEF EndTypes
  <2>1. PICK m \in 1..Len(text) : m < k /\ Is(text[m], {"message_delta"})
    BY <1>1, <1>3, <1>4 DEF EndLaid, Is
  <2>2. m \in 1..Done
    BY <1>2, <2>1
  <2>3. Handled(text[m])
    BY <1>1, <2>1, <2>2 DEF BridgeInv, HandledInv, Is
  <2> QED BY <2>1, <2>3 DEF Handled, Is
<1>6. frame.reason = stopReason
  BY <1>1, <1>3, <1>4, <1>5 DEF EndLaid, Is
<1>7. ASSUME NEW n \in 1..Len(text), Is(text[n], BlockTypes) PROVE n \in 1..Done /\ text[n] # frame
  <2>1. text[n].type \notin ClosingTypes
    BY <1>7 DEF Is, BlockTypes, ClosingTypes, EndTypes
  <2>2. ~(k < n)
    BY <1>1, <1>4, <1>7, <2>1 DEF Written, Is
  <2>3. text[n] # frame
    BY <2>1 DEF ClosingTypes
  <2> QED BY <1>2, <1>4, <2>2, <2>3
<1>8. ASSUME NEW i \in BlockIndexes
      PROVE  blocks[i].kind = "tool_use" <=> i \in 1..Len(content) /\ content[i].kind = "tool_use"
  <2>1. ASSUME blocks[i].kind = "tool_use"
        PROVE  i \in 1..Len(content) /\ content[i].kind = "tool_use"
    <3>1. blocks[i] # NoBlock
      BY <2>1 DEF NoBlock
    <3> QED BY <1>1, <2>1, <3>1 DEF BridgeInv, BlocksInv, Begun
  <2>2. ASSUME i \in 1..Len(content), content[i].kind = "tool_use"
        PROVE  blocks[i].kind = "tool_use"
    <3>1. PICK m \in 1..Len(text) : Is(text[m], {"content_block_start"}) /\ text[m].index = i
      BY <1>1, <2>2 DEF Written
    <3>2. m \in 1..Done /\ text[m] # frame
      BY <1>7, <3>1 DEF Is, BlockTypes
    <3>3. Handled(text[m])
      BY <1>1, <3>1, <3>2 DEF BridgeInv, HandledInv, Is
    <3>4. blocks[i] # NoBlock
      BY <3>1, <3>2, <3>3 DEF Handled, Is
    <3> QED BY <1>1, <2>2, <3>4 DEF BridgeInv, BlocksInv
  <2> QED BY <2>1, <2>2
<1>9. \A i \in 1..Len(content) : i \in BlockIndexes
  BY <1>1, BlocksTold
<1>10. ASSUME NEW n \in DeltasIn(sent) PROVE DeltaOf(sent[n], content)
  <2>1. PICK m \in 1..Done : /\ BearsAt(text, m) /\ sent[n].content = PieceIn(text[m])
                             /\ sent[n].field = Field(text[m].kind)
    BY <1>1 DEF DeltasInv
  <2>2. m \in 1..Len(text) /\ Is(text[m], BlockTypes)
    BY <1>2, <2>1 DEF BearsAt, Bears, Is
  <2>3. ToldOf(PieceIn(text[m]), text[m].index, content)
    BY <1>1, <2>1, <2>2 DEF PiecesLaid
  <2>4. text[m].index \in 1..Len(content) /\ text[m].kind = content[text[m].index].kind
    BY <1>1, <2>2 DEF Written, FitsBlock
  <2> QED BY <2>1, <2>3, <2>4 DEF DeltaOf
<1>11. ASSUME NEW i \in 1..Len(content), NEW p \in 1..content[i].told
       PROVE  \E n \in DeltasIn(sent) : sent[n].content = Piece(i, p)
  <2>1. PICK n \in 1..Len(text) : BearsAt(text, n) /\ PieceIn(text[n]) = Piece(i, p)
    BY <1>1 DEF PiecesLaid
  <2>2. n \in 1..Done /\ text[n] # frame
    BY <1>7, <2>1 DEF BearsAt, Bears, Is
  <2> QED BY <1>1, <2>1, <2>2 DEF DeltasInv
<1>12. {sent[m].item : m \in ToolsIn(sent, Len(sent))} = {i \in 1..Len(content) : content[i].kind = "tool_use"}
  <2>1. HeadsTold(sent, blocks, nextToolIndex) /\ sent \in Seq(ChatChunks)
    BY <1>1 DEF ChatBridgeInv, ChatInv, LegalChat
  <2>2. ASSUME NEW m \in ToolsIn(sent, Len(sent))
        PROVE  sent[m].item \in 1..Len(content) /\ content[sent[m].item].kind = "tool_use"
    <3>1. m \in 1..Len(sent) /\ sent[m].type = "tool" /\ sent[m] \in ChatChunks
      BY <2>1, <2>2, ElementOfSeq DEF ToolsIn
    <3>2. sent[m].item \in BlockIndexes
      BY <3>1 DEF ChatChunks, RoleChunk, ToolChunks, DeltaChunks, FinishChunks
    <3> QED BY <1>8, <2>1, <2>2, <3>2 DEF HeadsTold
  <2>3. ASSUME NEW i \in 1..Len(content), content[i].kind = "tool_use"
        PROVE  \E m \in ToolsIn(sent, Len(sent)) : sent[m].item = i
    BY <1>8, <1>9, <2>1, <2>3 DEF HeadsTold
  <2> QED BY <2>2, <2>3
<1>13. hasToolCalls <=> HasCalls(content)
  BY <1>1, <1>8, <1>9 DEF CallsInv, HasCalls
<1>14. FinishReason(frame.reason, hasToolCalls) = FinishReason(stopReason, HasCalls(content))
  BY <1>6, <1>13 DEF FinishReason
<1> QED BY <1>10, <1>11, <1>12, <1>14 DEF GivesAll

(* What the bridge makes of the frame in its hands. *)
Made(c) ==
  /\ c.type = "delta" <=> Bears(frame)
  /\ c.type = "delta" => /\ c.content = PieceIn(frame) /\ c.field = Field(frame.kind)
                         /\ c.field # "arguments" => c.index = 0
  /\ c.type = "tool" => frame.type = "content_block_start" /\ c.item = frame.index
  /\ c.type = "finish" =>
       ~stopped /\ frame.type \in EndTypes /\ c.reason = FinishReason(frame.reason, hasToolCalls)

LEMMA GivesOn ==
  ASSUME WholeChatInv, output = "open", frame.type \notin BadTypes,
         NEW c, c \in ChatChunks, Made(c), GoesOnWith(c), sent' \in Seq(ChatChunks),
         frame' = NoFrame, output' \in {output, "failed"}, CallsInv',
         UNCHANGED <<decoderVars, endpointVars>>
  PROVE  GivenInv'
<1>1. /\ ChatBridgeInv /\ DecoderInv /\ BridgeInv /\ Laid(text, content, stopReason) /\ Healthy
      /\ DeltasInv /\ InOrder(sent) /\ HandInv /\ WholeInv /\ sent \in Seq(ChatChunks)
      /\ HeadsTold(sent, blocks, nextToolIndex)
  BY DEF WholeChatInv, ChatBridgeInv, GivenInv, Healthy, ChatInv, LegalChat
<1>2. /\ text' = text /\ content' = content /\ stopReason' = stopReason /\ Done' = Done
  BY DEF decoderVars, endpointVars, Done, LastCut, CutAt
<1>3. Len(sent) \in Nat /\ Len(sent') \in Nat
  BY <1>1, LenProperties
<1>4. /\ Len(sent) <= Len(sent') /\ \A n \in 1..Len(sent) : sent'[n] = sent[n] /\ n \in 1..Len(sent')
      /\ \A n \in 1..Len(sent') : n \in 1..Len(sent) \/ (n > Len(sent) /\ sent'[n] = RoleChunk)
                                  \/ (n > Len(sent) /\ sent'[n] = c /\ n = Len(sent'))
  BY <1>3 DEF GoesOnWith
<1>5. RoleChunk.type = "role"
  BY DEF RoleChunk
<1>6. \A n \in DeltasIn(sent)' :
        \/ n \in DeltasIn(sent) /\ sent'[n] = sent[n]
        \/ n > Len(sent) /\ sent'[n] = c /\ n = Len(sent') /\ c.type = "delta"
  BY <1>4, <1>5 DEF DeltasIn
<1>7. \A n \in DeltasIn(sent) : n \in 1..Len(sent) /\ n \in DeltasIn(sent)' /\ sent'[n] = sent[n]
  BY <1>4 DEF DeltasIn
<1>8. \A n \in ToolsIn(sent', Len(sent')) :
        \/ n \in ToolsIn(sent, Len(sent)) /\ sent'[n] = sent[n]
        \/ n > Len(sent) /\ sent'[n] = c /\ n = Len(sent') /\ c.type = "tool"
  BY <1>4, <1>5 DEF ToolsIn
<1>9. ASSUME Bears(frame) PROVE \E k \in 1..Done : BearsAt(text, k) /\ text[k] = frame
  <2>1. frame \notin {NoFrame, PlainEvent("nodata"), PlainEvent("invalid")}
    BY <1>9, NothingBorne
  <2>2. PICK k \in 1..Done : IsEvent(text[k]) /\ text[k] = frame
    BY <1>1, <2>1 DEF BridgeInv, FrameTold
  <2> QED BY <1>9, <2>2 DEF BearsAt
<1>10. DeltasInv'
  <2>1. ASSUME NEW n \in DeltasIn(sent)'
        PROVE  \E m \in 1..Done :
                 /\ BearsAt(text, m) /\ sent'[n].content = PieceIn(text[m])
                 /\ sent'[n].field = Field(text[m].kind)
                 /\ sent'[n].field # "arguments" => sent'[n].index = 0
    <3>1. CASE n \in DeltasIn(sent) /\ sent'[n] = sent[n]
      BY <1>1, <3>1 DEF DeltasInv
    <3>2. CASE sent'[n] = c /\ c.type = "delta"
      BY <1>9, <3>2 DEF Made
    <3> QED BY <1>6, <3>1, <3>2
  <2>2. ASSUME output' = "open", NEW m \in 1..Done, BearsAt(text, m)
        PROVE  \E n \in DeltasIn(sent)' : sent'[n].content = PieceIn(text[m])
    <3>1. CASE frame = text[m]
      <4>1. c.type = "delta" /\ c.content = PieceIn(text[m])
        BY <2>2, <3>1 DEF BearsAt, Made
      <4>2. PICK n \in 1..Len(sent') : sent'[n] = c
        BY <2>2 DEF GoesOnWith
      <4> QED BY <4>1, <4>2 DEF DeltasIn
    <3>2. CASE frame # text[m]
      <4>1. PICK n \in DeltasIn(sent) : sent[n].content = PieceIn(text[m])
        BY <1>1, <2>2, <3>2 DEF DeltasInv
      <4> QED BY <1>7, <4>1
    <3> QED BY <3>1, <3>2
  <2> QED BY <1>2, <2>1, <2>2 DEF DeltasInv, Healthy
<1>11. InOrder(sent)'
  <2>1. ASSUME NEW m \in DeltasIn(sent)', NEW n \in DeltasIn(sent)', m < n
        PROVE  Precedes(sent'[m].content, sent'[n].content)
    <3>1. m \in DeltasIn(sent) /\ sent'[m] = sent[m]
      <4>1. n \in 1..Len(sent') /\ m \in 1..Len(sent') /\ m # Len(sent')
        BY <1>3, <2>1 DEF DeltasIn
      <4> QED BY <1>3, <1>6, <2>1, <4>1
    <3>2. CASE n \in DeltasIn(sent) /\ sent'[n] = sent[n]
      BY <1>1, <2>1, <3>1, <3>2 DEF InOrder
    <3>3. CASE sent'[n] = c /\ c.type = "delta"
      <4>1. Bears(frame) /\ c.content = PieceIn(frame)
        BY <3>3 DEF Made
      <4> QED BY <1>1, <3>1, <3>3, <4>1 DEF HandInv
    <3> QED BY <1>6, <3>2, <3>3
  <2>2. ASSUME NEW m \in ToolsIn(sent', Len(sent')), NEW n \in ToolsIn(sent', Len(sent')), m < n
        PROVE  sent'[m].item < sent'[n].item
    <3>1. m \in ToolsIn(sent, Len(sent)) /\ sent'[m] = sent[m]
      <4>1. n \in 1..Len(sent') /\ m \in 1..Len(sent') /\ m # Len(sent')
        BY <1>3, <2>2 DEF ToolsIn
      <4> QED BY <1>3, <1>8, <2>2, <4>1
    <3>2. CASE n \in ToolsIn(sent, Len(sent)) /\ sent'[n] = sent[n]
      BY <1>1, <2>2, <3>1, <3>2 DEF InOrder
    <3>3. CASE sent'[n] = c /\ c.type = "tool"
      <4>1. frame.type = "content_block_start" /\ c.item = frame.index
        BY <3>3 DEF Made
      <4>2. m \in 1..Len(sent) /\ sent[m].type = "tool" /\ sent[m] \in ChatChunks
        BY <1>1, <3>1, ElementOfSeq DEF ToolsIn
      <4>3. sent[m].item \in BlockIndexes
        BY <4>2 DEF ChatChunks, RoleChunk, ToolChunks, DeltaChunks, FinishChunks
      <4>4. blocks[sent[m].item] # NoBlock
        BY <1>1, <3>1 DEF HeadsTold, NoBlock
      <4> QED BY <1>1, <3>1, <3>3, <4>1, <4>3, <4>4 DEF HandInv
    <3> QED BY <1>8, <3>2, <3>3
  <2> QED BY <2>1, <2>2 DEF InOrder
<1>12. HandInv'
  BY NothingBorne, PlainFrames DEF HandInv
<1>13. WholeInv'
  <2> SUFFICES ASSUME Len(sent') > 0, sent'[Len(sent')].type = "finish"
               PROVE  /\ GivesAll(sent', content)
                      /\ sent'[Len(sent')].reason = FinishReason(stopReason, HasCalls(content))
    BY <1>2 DEF WholeInv
  <2> DEFINE last == Len(sent')
  <2>1. last \in 1..Len(sent')
    BY <1>3
  <2>2. CASE last \in 1..Len(sent)
    <3>1. Len(sent') = Len(sent)
      BY <1>3, <1>4, <2>2
    <3>2. sent' = sent
      BY <1>1, <1>4, <3>1, SeqEqual
    <3> QED BY <1>1, <3>2 DEF WholeInv
  <2>3. CASE sent'[last] = c
    <3>1. /\ c.type = "finish" /\ ~stopped /\ frame.type \in EndTypes
          /\ c.reason = FinishReason(frame.reason, hasToolCalls)
      BY <2>3 DEF Made
    <3>2. /\ GivesAll(sent, content)
          /\ FinishReason(frame.reason, hasToolCalls) = FinishReason(stopReason, HasCalls(content))
      BY <3>1, EndInHand
    <3>3. /\ \A n \in DeltasIn(sent)' : n \in DeltasIn(sent) /\ sent'[n] = sent[n]
          /\ \A n \in ToolsIn(sent', Len(sent')) :
               n \in ToolsIn(sent, Len(sent)) /\ sent'[n] = sent[n]
      BY <1>6, <1>8, <3>1
    <3>4. \A n \in ToolsIn(sent, Len(sent)) :
            n \in ToolsIn(sent', Len(sent')) /\ sent'[n] = sent[n]
      BY <1>4 DEF ToolsIn
    <3>5. {sent'[m].item : m \in ToolsIn(sent', Len(sent'))}
            = {sent[m].item : m \in ToolsIn(sent, Len(sent))}
      BY <3>3, <3>4
    <3>6. GivesAll(sent', content)
      <4>1. \A n \in DeltasIn(sent') : DeltaOf(sent'[n], content)
        BY <3>2, <3>3 DEF GivesAll
      <4>2. \A i \in 1..Len(content) : \A k \in 1..content[i].told :
              \E n \in DeltasIn(sent') : sent'[n].content = Piece(i, k)
        <5> TAKE i \in 1..Len(content)
        <5> TAKE k \in 1..content[i].told
        <5>1. PICK n \in DeltasIn(sent) : sent[n].content = Piece(i, k)
          BY <3>2 DEF GivesAll
        <5> QED BY <1>7, <5>1
      <4> QED BY <3>2, <3>5, <4>1, <4>2 DEF GivesAll
    <3> QED BY <2>3, <3>1, <3>2, <3>6
  <2> QED BY <1>4, <1>5, <2>1, <2>2, <2>3
<1>14. Laid(text, content, stopReason)'
  BY <1>1, <1>2
<1> QED BY <1>10, <1>11, <1>12, <1>13, <1>14 DEF GivenInv

LEMMA PiecesMade ==
  ASSUME NEW event \in Events, event.type \in BlockTypes, NEW field, NEW index
  PROVE  Chunks(field, index, event.pieces) =
           IF Bears(event) THEN <<PieceChunk(field, index, PieceIn(event))>> ELSE <<>>
<1>1. CASE Bears(event)
  <2> DEFINE p == PieceIn(event)
  <2>1. event.pieces = <<p>>
    BY <1>1, OnePiece
  <2> HIDE DEF p
  <2>2. Len(<<p>>) = 1 /\ <<p>>[1] = p
    OBVIOUS
  <2>3. Chunks(field, index, <<p>>) = <<PieceChunk(field, index, p)>>
    BY <2>2 DEF Chunks
  <2> QED BY <1>1, <2>1, <2>3 DEF p
<1>2. CASE ~Bears(event)
  <2>1. event.pieces = <<>>
    BY <1>2 DEF Bears
  <2> QED BY <1>2, <2>1 DEF Chunks
<1> QED BY <1>1, <1>2

(* The frame that is content, or would be, is one of the events told.      *)
LEMMA FrameIsEvent ==
  ASSUME WholeChatInv, frame.type \in BlockTypes
  PROVE  frame \in Events /\ (Empty(frame) => ~Bears(frame))
<1>1. PICK m \in 1..Done : Is(text[m], BlockTypes) /\ text[m] = frame
  BY BlockInHand DEF WholeChatInv
<1>2. m \in 1..Len(text) /\ IsEvent(text[m])
  BY <1>1, DoneType DEF WholeChatInv, ChatBridgeInv, Is
<1> QED BY <1>1, <1>2 DEF WholeChatInv, GivenInv, Laid, StartsLaid

LEMMA ContentGiven ==
  ASSUME WholeChatInv, frame.type \in BlockTypes,
         NEW field, field = Field(frame.kind), NEW index \in Nat, field # "arguments" => index = 0,
         Emits(Start \o Chunks(field, index, frame.pieces)), Kept, CallsInv',
         UNCHANGED <<decoderVars, endpointVars>>
  PROVE  GivenInv'
<1>1. /\ ChatBridgeInv /\ ChatInv /\ output = "open" /\ FitsBlock(frame, content)
      /\ frame.index \in BlockIndexes /\ frame.kind \in BlockKinds /\ frame.type \notin BadTypes
      /\ frame \in Events
  BY BlockInHand, FrameIsEvent DEF WholeChatInv, ChatBridgeInv, BadTypes, BlockTypes
<1>2. frame' = NoFrame /\ output' \in {output, "failed"} /\ sent' \in Seq(ChatChunks)
  BY DEF Kept, Follows, ChatInv, LegalChat
<1> DEFINE i == frame.index
           pieces == frame.pieces
<1>3. i \in BlockIndexes /\ pieces \in Seq(PiecesOf(i)) /\ field \in Fields
  BY <1>1 DEF FitsBlock, Field, Fields
<1> DEFINE out == Chunks(field, index, pieces)
<1>4. out = IF Bears(frame) THEN <<PieceChunk(field, index, PieceIn(frame))>> ELSE <<>>
  BY <1>1, PiecesMade
<1> HIDE DEF i, pieces
<1>5. out \in Seq(DeltaChunks)
  BY <1>3, ChunksType
<1>6. Emits(Start \o out)
  BY DEF pieces
<1> HIDE DEF out
<1>7. CASE Bears(frame)
  <2> DEFINE c == PieceChunk(field, index, PieceIn(frame))
  <2>1. out = <<c>>
    BY <1>4, <1>7
  <2>2. c.type = "delta" /\ c.field = field /\ c.index = index /\ c.content = PieceIn(frame)
    BY DEF PieceChunk
  <2> HIDE DEF c
  <2>3. c \in ChatChunks
    <3>1. 1 \in 1..Len(out) /\ out[1] = c
      BY <2>1
    <3>2. c \in DeltaChunks
      BY <1>5, <3>1, ElementOfSeq
    <3> QED BY <3>2 DEF ChatChunks
  <2>4. Made(c)
    BY <1>7, <2>2 DEF Made
  <2>5. GoesOnWith(c)
    BY <1>1, <1>6, <2>1, <2>3, ChunkGoesOn
  <2> QED BY <1>1, <1>2, <2>3, <2>4, <2>5, GivesOn
<1>8. CASE ~Bears(frame)
  <2>1. Start \in Seq(ChatChunks) /\ out = <<>> /\ Start \o <<>> = Start
    BY <1>1, <1>4, <1>8, StartAlone, ConcatEmptySeq
  <2>2. GoesOnWith(RoleChunk)
    BY <1>1, <1>6, <2>1, RoleGoesOn
  <2>3. RoleChunk \in ChatChunks /\ Made(RoleChunk)
    BY <1>8 DEF ChatChunks, RoleChunk, Made
  <2> QED BY <1>1, <1>2, <2>2, <2>3, GivesOn
<1> QED BY <1>7, <1>8

LEMMA MessageStartGiven ==
  ASSUME WholeChatInv, OnMessageStart, UNCHANGED <<decoderVars, endpointVars>>
  PROVE  GivenInv'
<1>1. /\ frame.type = "message_start" /\ Emits(Start) /\ blocks' = blocks
      /\ hasToolCalls' = hasToolCalls
  BY DEF OnMessageStart
<1>2. ChatBridgeInv /\ ChatInv /\ output = "open" /\ CallsInv /\ ~Bears(frame)
      /\ frame.type \notin BadTypes
  BY <1>1, PlainFrames DEF WholeChatInv, GivenInv, ChatBridgeInv, BridgeInv, FrameTold, Bears,
     BlockTypes, BadTypes
<1>3. frame' = NoFrame /\ output' \in {output, "failed"} /\ sent' \in Seq(ChatChunks)
  BY <1>2, MessageStartKept DEF Kept, Follows, ChatInv, LegalChat
<1>4. CallsInv'
  BY <1>1, <1>2 DEF CallsInv
<1>5. GoesOnWith(RoleChunk)
  BY <1>1, <1>2, RoleGoesOn
<1>6. RoleChunk \in ChatChunks /\ Made(RoleChunk)
  BY <1>2 DEF ChatChunks, RoleChunk, Made
<1> QED BY <1>2, <1>3, <1>4, <1>5, <1>6, GivesOn

LEMMA BlockStartGiven ==
  ASSUME WholeChatInv, OnBlockStart, UNCHANGED <<decoderVars, endpointVars>>
  PROVE  GivenInv'
<1> DEFINE i == frame.index
           kind == frame.kind
<1>1. /\ frame.type = "content_block_start" /\ frame.type \in BlockTypes
      /\ blocks' = [blocks EXCEPT ![i] = Block(i, kind)]
      /\ hasToolCalls' = (hasToolCalls \/ kind = "tool_use")
      /\ Emits(Start \o IF kind = "tool_use" THEN <<ToolChunk(Block(i, kind).toolIndex, i)>>
                        ELSE StartContent)
  BY DEF OnBlockStart, BlockTypes
<1>2. /\ ChatBridgeInv /\ CallsInv /\ ChatInv /\ output = "open" /\ i \in BlockIndexes
      /\ kind \in BlockKinds /\ blocks[i] = NoBlock /\ frame.type \notin BadTypes
      /\ blocks \in [BlockIndexes -> BlockStates] /\ nextToolIndex \in Nat
      /\ hasToolCalls \in BOOLEAN
  BY <1>1, BlockInHand, BlocksType DEF WholeChatInv, GivenInv, ChatBridgeInv, BridgeInv,
     StopInv, BadTypes
<1>3. Kept
  BY <1>2, BlockStartKept
<1>4. frame' = NoFrame /\ output' \in {output, "failed"} /\ sent' \in Seq(ChatChunks)
  BY <1>3 DEF Kept, Follows, ChatInv, LegalChat
<1>5. Block(i, kind) = IF kind = "tool_use"
                       THEN [kind |-> kind, toolIndex |-> nextToolIndex] ELSE [kind |-> kind]
  BY <1>2 DEF Block
<1>6. Block(i, kind).kind = kind /\ (kind = "tool_use" => Block(i, kind).toolIndex = nextToolIndex)
  BY <1>5
<1>7. CallsInv'
  <2>1. blocks'[i].kind = kind /\ \A k \in BlockIndexes : k # i => blocks'[k] = blocks[k]
    BY <1>1, <1>2, <1>6
  <2>2. blocks[i].kind # "tool_use"
    BY <1>2 DEF NoBlock
  <2> QED BY <1>1, <1>2, <2>1, <2>2 DEF CallsInv
<1>8. CASE kind = "tool_use"
  <2> DEFINE c == ToolChunk(nextToolIndex, i)
  <2>1. c \in ChatChunks /\ c.type = "tool" /\ c.item = i
    BY <1>2 DEF ToolChunk, ToolChunks, ChatChunks
  <2>2. Emits(Start \o <<c>>)
    <3>1. Emits(Start \o <<ToolChunk(Block(i, kind).toolIndex, i)>>)
      BY <1>1, <1>8
    <3> QED BY <1>6, <1>8, <3>1
  <2> HIDE DEF c
  <2>3. ~Bears(frame)
    BY <1>1, <1>8, FrameIsEvent DEF Empty
  <2>4. Made(c)
    BY <1>1, <2>1, <2>3 DEF Made
  <2>5. GoesOnWith(c)
    BY <1>2, <2>1, <2>2, ChunkGoesOn
  <2> QED BY <1>2, <1>4, <1>7, <2>1, <2>4, <2>5, GivesOn
<1>9. CASE kind # "tool_use"
  <2> DEFINE field == Field(kind)
  <2>1. field = Field(frame.kind) /\ 0 \in Nat
    OBVIOUS
  <2>2. Emits(Start \o Chunks(field, 0, frame.pieces))
    BY <1>1, <1>9 DEF StartContent
  <2> HIDE DEF field
  <2> QED BY <1>1, <1>3, <1>7, <2>1, <2>2, ContentGiven
<1> QED BY <1>8, <1>9

LEMMA BlockDeltaGiven ==
  ASSUME WholeChatInv, OnBlockDelta, UNCHANGED <<decoderVars, endpointVars>>
  PROVE  GivenInv'
<1> DEFINE i == frame.index
           kind == frame.kind
           index == IF kind = "tool_use" THEN blocks[i].toolIndex ELSE 0
           field == Field(kind)
<1>1. frame.type = "content_block_delta" /\ frame.type \in BlockTypes
  BY DEF OnBlockDelta, BlockTypes
<1>2. /\ ChatBridgeInv /\ CallsInv /\ i \in BlockIndexes /\ kind \in BlockKinds
      /\ blocks[i] # NoBlock /\ blocks[i].kind = kind
      /\ blocks \in [BlockIndexes -> BlockStates] /\ hasToolCalls \in BOOLEAN
  BY <1>1, BlockInHand, BlockKnown, BlocksType DEF WholeChatInv, GivenInv, ChatBridgeInv
<1>3. Kept
  BY <1>2, BlockDeltaKept
<1>4. Block(i, kind) = blocks[i] /\ [blocks EXCEPT ![i] = blocks[i]] = blocks
  BY <1>2 DEF Block
<1>5. blocks' = blocks /\ hasToolCalls' = (hasToolCalls \/ kind = "tool_use")
  BY <1>2, <1>4 DEF OnBlockDelta
<1>6. CallsInv'
  BY <1>2, <1>5 DEF CallsInv
<1>7. Emits(Start \o Chunks(field, index, frame.pieces))
  <2>1. Emits(Start \o Chunks(Field(kind), IF kind = "tool_use" THEN Block(i, kind).toolIndex
                                           ELSE 0, frame.pieces))
    BY DEF OnBlockDelta
  <2> QED BY <1>4, <2>1
<1>8. index \in Nat
  <2>1. blocks[i] \in BlockStates
    BY <1>2
  <2>2. kind = "tool_use" => blocks[i].toolIndex \in 0..(NumBlocks - 1)
    BY <1>2, <2>1 DEF BlockStates, NoBlock
  <2> QED BY <2>2
<1>9. field # "arguments" => index = 0
  BY DEF Field
<1>10. field = Field(frame.kind)
  OBVIOUS
<1> HIDE DEF i, kind, index, field
<1> QED BY <1>1, <1>3, <1>6, <1>7, <1>8, <1>9, <1>10, ContentGiven

LEMMA MessageEndGiven ==
  ASSUME WholeChatInv, OnMessageEnd, UNCHANGED <<decoderVars, endpointVars>>
  PROVE  GivenInv'
<1>1. /\ frame.type \in EndTypes /\ Emits(Start \o Finishing(frame.reason))
      /\ hasToolCalls' = hasToolCalls /\ blocks' = blocks
  BY DEF OnMessageEnd, EndTypes
<1>2. ChatBridgeInv /\ ChatInv /\ output = "open" /\ CallsInv /\ ~Bears(frame)
      /\ frame.type \notin BadTypes
  BY <1>1, PlainFrames DEF WholeChatInv, GivenInv, ChatBridgeInv, BridgeInv, FrameTold, Bears,
     BlockTypes, BadTypes, EndTypes
<1>3. frame' = NoFrame /\ output' \in {output, "failed"} /\ sent' \in Seq(ChatChunks)
  BY <1>2, MessageEndKept DEF Kept, Follows, ChatInv, LegalChat
<1>4. CallsInv'
  BY <1>1, <1>2 DEF CallsInv
<1>5. CASE stopped
  <2>1. Start \in Seq(ChatChunks) /\ Finishing(frame.reason) = <<>> /\ Start \o <<>> = Start
    BY <1>2, <1>5, StartAlone, ConcatEmptySeq DEF Finishing
  <2>2. GoesOnWith(RoleChunk)
    BY <1>1, <1>2, <2>1, RoleGoesOn
  <2>3. RoleChunk \in ChatChunks /\ Made(RoleChunk)
    BY <1>2 DEF ChatChunks, RoleChunk, Made
  <2> QED BY <1>2, <1>3, <1>4, <2>2, <2>3, GivesOn
<1>6. CASE ~stopped
  <2> DEFINE c == FinishChunk(FinishReason(frame.reason, hasToolCalls))
  <2>1. /\ c \in ChatChunks /\ c.type = "finish"
        /\ c.reason = FinishReason(frame.reason, hasToolCalls)
    BY DEF FinishChunk, FinishReason, FinishChunks, ChatChunks
  <2>2. Emits(Start \o <<c>>)
    BY <1>1, <1>6 DEF Finishing
  <2> HIDE DEF c
  <2>3. Made(c)
    BY <1>1, <1>2, <1>6, <2>1 DEF Made
  <2>4. GoesOnWith(c)
    BY <1>2, <2>1, <2>2, ChunkGoesOn
  <2> QED BY <1>2, <1>3, <1>4, <2>1, <2>3, <2>4, GivesOn
<1> QED BY <1>5, <1>6

LEMMA SilentGiven ==
  ASSUME WholeChatInv, OnNothing \/ OnFailure, UNCHANGED <<decoderVars, endpointVars>>
  PROVE  GivenInv'
<1>1. /\ ChatBridgeInv /\ GivenInv /\ DeltasInv /\ sent \in Seq(ChatChunks)
  BY DEF WholeChatInv, GivenInv, ChatBridgeInv, ChatInv, LegalChat
<1>2. /\ frame' = NoFrame /\ sent' = sent /\ (output' = "open" => OnNothing /\ output = "open")
      /\ blocks' = blocks /\ hasToolCalls' = hasToolCalls
  <2>1. CASE OnNothing
    <3>1. sent \o <<>> = sent /\ 0..(Len(<<>>) - 1) = {}
      BY <1>1, ConcatEmptySeq
    <3> QED BY <2>1, <3>1 DEF OnNothing, Emits, bridgeVars
  <2>2. CASE OnFailure
    BY <2>2 DEF OnFailure, TranslationFails, ClosesOutput, bridgeVars
  <2> QED BY <2>1, <2>2
<1>3. /\ text' = text /\ content' = content /\ stopReason' = stopReason /\ Done' = Done
  BY DEF decoderVars, endpointVars, Done, LastCut, CutAt
<1>4. OnNothing => ~Bears(frame) /\ frame.type \notin BadTypes
  <2>1. frame.type = "content_block_stop" => ~Bears(frame)
    BY FrameIsEvent DEF BlockTypes, Empty
  <2> QED BY <2>1 DEF OnNothing, Bears, BlockTypes, BadTypes
<1>5. DeltasInv'
  <2>1. ASSUME output' = "open", NEW m \in 1..Done, BearsAt(text, m)
        PROVE  \E n \in DeltasIn(sent) : sent[n].content = PieceIn(text[m])
    <3>1. Healthy /\ frame # text[m]
      BY <1>2, <1>4, <2>1 DEF Healthy, BearsAt
    <3> QED BY <1>1, <2>1, <3>1 DEF DeltasInv
  <2>2. DeltasIn(sent)' = DeltasIn(sent)
    BY <1>2
  <2> QED BY <1>1, <1>2, <1>3, <2>1, <2>2 DEF DeltasInv, Healthy
<1>6. HandInv'
  BY <1>2, NothingBorne, PlainFrames DEF HandInv
<1>7. CallsInv' /\ WholeInv'
  BY <1>1, <1>2, <1>3 DEF GivenInv, CallsInv, WholeInv
<1> QED BY <1>1, <1>2, <1>3, <1>5, <1>6, <1>7 DEF GivenInv

LEMMA TranslatesGiven ==
  ASSUME WholeChatInv, Translates
  PROVE  GivenInv'
BY MessageStartGiven, BlockStartGiven, BlockDeltaGiven, MessageEndGiven, SilentGiven
   DEF Translates

LEMMA WholeChatInvHolds ==
  ChatSpec => []WholeChatInv
<1>1. ChatInit => WholeChatInv
  BY ChatInitInv, ChatInitGiven DEF WholeChatInv
<1>2. ASSUME WholeChatInv, [ChatNext]_chatVars PROVE WholeChatInv'
  <2>1. ChatBridgeInv'
    BY <1>2, EndpointInv, DecoderInvStep, TranslatesInv, StopsInv
       DEF WholeChatInv, ChatNext, Returned
  <2>2. GivenInv'
    BY <1>2, EndpointGiven, IdleGiven, TakesGiven, TranslatesGiven DEF ChatNext, Returned
  <2> QED BY <2>1, <2>2 DEF WholeChatInv
<1> QED BY <1>1, <1>2, PTL DEF ChatSpec

-----------------------------------------------------------------------------
(* What that makes of the whole. *)

(* No two calls have the same index, or are of the same block.             *)
LEMMA HeadsDiffer ==
  ASSUME NEW s, LegalChat(s), NEW m \in ToolsIn(s, Len(s)), NEW n \in ToolsIn(s, Len(s)),
         m # n
  PROVE  s[m].index # s[n].index /\ s[m].item # s[n].item
<1>1. Len(s) \in Nat
  BY LenProperties DEF LegalChat
<1>2. ASSUME NEW a \in ToolsIn(s, Len(s)), NEW b \in ToolsIn(s, Len(s)), a < b
      PROVE  s[a].index # s[b].index /\ s[a].item # s[b].item
  <2> DEFINE before == ToolsIn(s, a - 1)
             after == ToolsIn(s, b - 1)
  <2>1. a \in 1..Len(s) /\ b \in 1..Len(s) /\ s[a].type = "tool" /\ s[b].type = "tool"
    BY DEF ToolsIn
  <2>2. s[a].index = Cardinality(before) /\ s[b].index = Cardinality(after)
        /\ \A k \in after : s[k].item # s[b].item
    BY <2>1 DEF LegalChat, LegalAt
  <2>3. before \cup {a} \subseteq after /\ a \notin before /\ after \subseteq 1..(b - 1)
    BY <1>1, <1>2, <2>1 DEF ToolsIn
  <2> HIDE DEF before, after
  <2>4. IsFiniteSet(1..(b - 1))
    BY <1>1, <2>1, FS_Interval
  <2>5. IsFiniteSet(after) /\ IsFiniteSet(before)
    BY <2>3, <2>4, FS_Subset
  <2>6. Cardinality(before \cup {a}) = Cardinality(before) + 1
        /\ Cardinality(before \cup {a}) <= Cardinality(after)
    BY <2>3, <2>5, FS_AddElement, FS_Subset
  <2>7. Cardinality(before) \in Nat /\ Cardinality(after) \in Nat /\ a \in after
    BY <2>3, <2>5, FS_CardinalityType
  <2> QED BY <2>2, <2>6, <2>7
<1>3. m \in 1..Len(s) /\ n \in 1..Len(s)
  BY DEF ToolsIn
<1>4. m < n \/ n < m
  BY <1>1, <1>3
<1> QED BY <1>2, <1>4

(* The client has the whole of the blocks, and nothing else.               *)
WholeGiven ==
  /\ LegalChat(sent) /\ GivesAll(sent, content) /\ InOrder(sent)
  /\ \A n \in DeltasIn(sent) : sent[n].field # "arguments" => sent[n].index = 0
  /\ \A i \in 1..Len(content) : content[i].kind \in {"text", "thinking", "tool_use"}

LEMMA WholeIsGiven ==
  ASSUME WholeChatInv, Len(sent) > 0, At(Len(sent), "finish")
  PROVE  WholeGiven
<1>1. LegalChat(sent) /\ GivesAll(sent, content) /\ InOrder(sent) /\ DeltasInv
  BY DEF WholeChatInv, GivenInv, WholeInv, ChatBridgeInv, ChatInv, At
<1>2. \A n \in DeltasIn(sent) : sent[n].field # "arguments" => sent[n].index = 0
  BY <1>1 DEF DeltasInv
<1>3. \A i \in 1..Len(content) : content[i].kind \in BlockKinds
  BY BlocksTold DEF WholeChatInv, ChatBridgeInv, BlockRecords
<1> QED BY <1>1, <1>2, <1>3 DEF WholeGiven

(* A delta is a piece of the block it says it is of. *)
LEMMA DeltaIs ==
  ASSUME WholeGiven, NEW n \in DeltasIn(sent)
  PROVE  \E i \in 1..Len(content) :
           /\ sent[n].content.item = i /\ sent[n].content \in Content(i)
           /\ sent[n].field = Field(content[i].kind)
<1>1. PICK i \in 1..Len(content) :
        ToldOf(sent[n].content, i, content) /\ sent[n].field = Field(content[i].kind)
  BY DEF WholeGiven, GivesAll, DeltaOf
<1>2. PICK k \in 1..content[i].told : sent[n].content = Piece(i, k)
  BY <1>1 DEF ToldOf
<1>3. sent[n].content \in Content(i)
  BY <1>2 DEF Content
<1> QED BY <1>1, <1>2, <1>3, PieceFields

LEMMA FieldsDiffer ==
  \A k, l \in {"text", "thinking", "tool_use"} : Field(k) = Field(l) => k = l
BY DEF Field

(* Deltas that are those of some blocks give the content of those blocks.  *)
LEMMA BlocksReceived ==
  ASSUME WholeGiven, NEW of, of \subseteq 1..Len(content),
         NEW where, \A n : n \in where <=> n \in DeltasIn(sent) /\ sent[n].content.item \in of
  PROVE  ReceivedInOrder(where, UNION {Content(i) : i \in of})
<1> DEFINE whole == UNION {Content(i) : i \in of}
           given == {sent[n].content : n \in where}
<1>1. ASSUME NEW n \in where PROVE \E i \in of : sent[n].content \in Content(i)
  BY <1>1, DeltaIs
<1>2. ASSUME NEW i \in of, NEW p \in Content(i) PROVE \E n \in where : sent[n].content = p
  <2>1. PICK k \in 1..content[i].told : p = Piece(i, k)
    BY DEF Content
  <2>2. PICK n \in DeltasIn(sent) : sent[n].content = Piece(i, k)
    BY DEF WholeGiven, GivesAll
  <2>3. sent[n].content.item = i
    BY <2>2, PieceFields
  <2> QED BY <2>1, <2>2, <2>3
<1>3. ASSUME NEW p \in given PROVE p \in whole
  BY <1>1
<1>4. ASSUME NEW p \in whole PROVE p \in given
  <2>1. PICK i \in of : p \in Content(i)
    OBVIOUS
  <2> QED BY <1>2, <2>1
<1>5. given = whole
  BY <1>3, <1>4
<1>6. Gives(where, whole)
  BY <1>5 DEF Gives
<1>7. InDocumentOrder(where)
  BY DEF InDocumentOrder, WholeGiven, InOrder
<1> QED BY <1>6, <1>7 DEF ReceivedInOrder

(* Text and reasoning. *)
LEMMA TextReceived ==
  ASSUME WholeGiven, NEW kind \in {"text", "thinking"}
  PROVE  ReceivedInOrder(Deltas(Field(kind), 0), WholeContent(kind))
<1> DEFINE of == {i \in 1..Begun : content[i].kind = kind}
           where == Deltas(Field(kind), 0)
<1>1. of \subseteq 1..Len(content) /\ WholeContent(kind) = UNION {Content(i) : i \in of}
  BY DEF Begun, WholeContent
<1>2. Field(kind) # "arguments"
  BY DEF Field
<1>3. ASSUME NEW n PROVE n \in where <=> n \in DeltasIn(sent) /\ sent[n].content.item \in of
  <2>1. n \in where <=> n \in DeltasIn(sent) /\ sent[n].field = Field(kind)
    BY <1>2 DEF Deltas, DeltasIn, At, WholeGiven
  <2>2. ASSUME n \in DeltasIn(sent)
        PROVE  sent[n].field = Field(kind) <=> sent[n].content.item \in of
    <3>1. PICK i \in 1..Len(content) :
            sent[n].content.item = i /\ sent[n].field = Field(content[i].kind)
      BY <2>2, DeltaIs
    <3>2. content[i].kind \in {"text", "thinking", "tool_use"}
      BY DEF WholeGiven
    <3> QED BY <3>1, <3>2, FieldsDiffer DEF Begun
  <2> QED BY <2>1, <2>2
<1> HIDE DEF of, where
<1>4. ReceivedInOrder(where, UNION {Content(i) : i \in of})
  BY <1>1, <1>3, BlocksReceived
<1> QED BY <1>1, <1>4 DEF where

(* The arguments of a call. *)
LEMMA ArgumentsReceived ==
  ASSUME WholeGiven, NEW m \in Announced(Len(sent))
  PROVE  ReceivedInOrder(Deltas("arguments", sent[m].index), Content(sent[m].item))
<1> DEFINE i == sent[m].item
           where == Deltas("arguments", sent[m].index)
           of == {i}
<1>1. /\ m \in ToolsIn(sent, Len(sent)) /\ LegalChat(sent) /\ Len(sent) \in Nat
  BY LenProperties DEF Announced, ToolsIn, At, WholeGiven, LegalChat
<1>2. i \in 1..Len(content) /\ content[i].kind = "tool_use"
  BY <1>1 DEF WholeGiven, GivesAll
<1>3. ASSUME NEW n \in DeltasIn(sent), sent[n].field = "arguments"
      PROVE  \E k \in ToolsIn(sent, Len(sent)) :
               sent[k].index = sent[n].index /\ sent[k].item = sent[n].content.item
  <2>1. n \in 1..Len(sent) /\ sent[n].type = "delta"
    BY DEF DeltasIn
  <2>2. PICK k \in ToolsIn(sent, n) :
          sent[k].index = sent[n].index /\ sent[k].item = sent[n].content.item
    BY <1>1, <1>3, <2>1 DEF LegalChat, LegalAt
  <2>3. k \in ToolsIn(sent, Len(sent))
    BY <1>1, <2>1 DEF ToolsIn
  <2> QED BY <2>2, <2>3
<1>4. ASSUME NEW n PROVE n \in where <=> n \in DeltasIn(sent) /\ sent[n].content.item \in of
  <2>1. ASSUME n \in where PROVE n \in DeltasIn(sent) /\ sent[n].content.item = i
    <3>1. n \in DeltasIn(sent) /\ sent[n].field = "arguments" /\ sent[n].index = sent[m].index
      BY <2>1 DEF Deltas, DeltasIn, At
    <3>2. PICK k \in ToolsIn(sent, Len(sent)) :
            sent[k].index = sent[n].index /\ sent[k].item = sent[n].content.item
      BY <1>3, <3>1
    <3>3. k = m
      BY <1>1, <3>1, <3>2, HeadsDiffer
    <3> QED BY <3>1, <3>2, <3>3
  <2>2. ASSUME n \in DeltasIn(sent), sent[n].content.item = i PROVE n \in where
    <3>1. sent[n].field = "arguments"
      BY <1>2, <2>2, DeltaIs DEF Field
    <3>2. PICK k \in ToolsIn(sent, Len(sent)) :
            sent[k].index = sent[n].index /\ sent[k].item = sent[n].content.item
      BY <1>3, <2>2, <3>1
    <3>3. k = m
      BY <1>1, <2>2, <3>2, HeadsDiffer
    <3> QED BY <2>2, <3>1, <3>2, <3>3 DEF Deltas, DeltasIn, At
  <2> QED BY <2>1, <2>2
<1>5. of \subseteq 1..Len(content) /\ UNION {Content(j) : j \in of} = Content(i)
  BY <1>2
<1> HIDE DEF of, where
<1>6. ReceivedInOrder(where, UNION {Content(j) : j \in of})
  BY <1>4, <1>5, BlocksReceived
<1> QED BY <1>5, <1>6 DEF where

LEMMA AsWhole ==
  ASSUME WholeChatInv
  PROVE  StreamedAsWhole
<1> SUFFICES ASSUME Len(sent) > 0, At(Len(sent), "finish")
             PROVE  LET last == Len(sent)
                        calls == Announced(last)
                    IN  /\ ReceivedInOrder(Deltas("content", 0), WholeContent("text"))
                        /\ ReceivedInOrder(Deltas("reasoning_content", 0), WholeContent("thinking"))
                        /\ {sent[m].item : m \in calls} = WholeToolCalls
                        /\ \A m, n \in calls : m < n => sent[m].item < sent[n].item
                        /\ \A m \in calls : ArgumentsAsWhole(sent[m].index, sent[m].item)
                        /\ sent[last].reason = WholeFinishReason
  BY DEF StreamedAsWhole
<1>1. WholeGiven
  BY WholeIsGiven
<1>2. Field("text") = "content" /\ Field("thinking") = "reasoning_content"
  BY DEF Field
<1>3. ReceivedInOrder(Deltas("content", 0), WholeContent("text"))
  BY <1>1, <1>2, TextReceived
<1>4. ReceivedInOrder(Deltas("reasoning_content", 0), WholeContent("thinking"))
  BY <1>1, <1>2, TextReceived
<1> DEFINE calls == Announced(Len(sent))
<1>5. calls = ToolsIn(sent, Len(sent))
  BY DEF Announced, ToolsIn, At
<1>6. {sent[m].item : m \in calls} = WholeToolCalls
  BY <1>1, <1>5 DEF WholeGiven, GivesAll, WholeToolCalls, Begun
<1>7. \A m, n \in calls : m < n => sent[m].item < sent[n].item
  BY <1>1, <1>5 DEF WholeGiven, InOrder
<1>8. sent[Len(sent)].reason = WholeFinishReason
  <2>1. sent[Len(sent)].reason = FinishReason(stopReason, HasCalls(content))
    BY DEF WholeChatInv, GivenInv, WholeInv, At
  <2>2. HasCalls(content) <=> WholeToolCalls # {}
    BY DEF HasCalls, WholeToolCalls, Begun
  <2> QED BY <2>1, <2>2 DEF WholeFinishReason, FinishReason
<1>9. ASSUME NEW m \in calls PROVE ArgumentsAsWhole(sent[m].index, sent[m].item)
  <2> DEFINE i == sent[m].item
             where == Deltas("arguments", sent[m].index)
  <2>1. ReceivedInOrder(where, Content(i))
    BY <1>1, ArgumentsReceived
  <2>2. CASE content[i].told = 0
    <3>1. Content(i) = {}
      BY <2>2 DEF Content
    <3>2. where = {}
      BY <2>1, <3>1 DEF ReceivedInOrder, Gives
    <3> QED BY <2>2, <3>2 DEF ArgumentsAsWhole
  <2>3. CASE content[i].told # 0
    <3>1. WholeArguments(i) = Content(i)
      BY <2>3 DEF WholeArguments
    <3> QED BY <2>1, <3>1 DEF ArgumentsAsWhole
  <2> QED BY <2>2, <2>3
<1> QED BY <1>3, <1>4, <1>6, <1>7, <1>8, <1>9
-----------------------------------------------------------------------------
(* Theorems. *)

(* Type correctness: a call's index is below the number of the answer's    *)
(* blocks, and the decoder keeps its own types behind the bridge           *)
(* (claude_openai_stream.go:138-177).                                      *)
THEOREM ChatTypeCorrect ==
  ChatSpec => []ChatTypeOK
<1>1. ChatBridgeInv => ChatTypeOK
  BY DEF ChatBridgeInv
<1> QED BY <1>1, ChatBridgeInvHolds, PTL

(* The decoder of a running stream cuts the body as if it had it whole: the *)
(* endpoint, the pump and the bridge around it change nothing of that      *)
(* (sse/decoder.go:9-25).                                                  *)
THEOREM CutsOfTheWholeInChat ==
  ChatSpec => []CutsOfTheWhole
<1>1. ChatBridgeInv => CutsOfTheWhole
  BY DEF ChatBridgeInv, DecoderInv
<1> QED BY <1>1, ChatBridgeInvHolds, PTL

(* What the client has received is a legal chat stream, or the beginning   *)
(* of one, however the body was cut into chunks and wherever the answer,   *)
(* the read or the client broke off: the role once and first, calls        *)
(* numbered without gaps and announced once before their arguments, one    *)
(* finish reason and nothing after it (claude_openai_stream.go:138-177).   *)
THEOREM LegalChatStreamHolds ==
  ChatSpec => []LegalChatStream
<1>1. ChatBridgeInv => LegalChatStream
  BY LegalSent DEF ChatBridgeInv, ChatInv
<1> QED BY <1>1, ChatBridgeInvHolds, PTL

(* An answer the endpoint has ended reaches the client with its end: no    *)
(* frame of the body is lost between the decoder, its last Flush and the   *)
(* pump, also when the body stops within the blank line of its last event  *)
(* (sse/decoder.go:27-35, executor.go:233-238).                            *)
THEOREM EndNotLostHolds ==
  ChatSpec => []EndNotLost
<1>1. ChatBridgeInv => EndNotLost
  BY DEF ChatBridgeInv, EndInv
<1> QED BY <1>1, ChatBridgeInvHolds, PTL

(* The finish reason is made only of the endpoint's own end, and an answer *)
(* that failed never ends as a success (claude_openai_stream.go:58-62).    *)
THEOREM FailureIsNoSuccessHolds ==
  ChatSpec => []FailureIsNoSuccess
<1>1. ASSUME ChatBridgeInv, stopped PROVE upstream \in {"ended", "stopped", "done"}
  <2>1. PICK m \in 1..Done : Is(text[m], EndTypes)
    BY <1>1 DEF ChatBridgeInv, BridgeInv, StopInv
  <2>2. m \in 1..Len(text)
    BY <1>1, DoneType DEF ChatBridgeInv
  <2> QED BY <1>1, <2>1, <2>2 DEF ChatBridgeInv, Written, Ended
<1>2. ChatBridgeInv => FailureIsNoSuccess
  BY <1>1 DEF ChatBridgeInv, EndInv, FailureIsNoSuccess
<1> QED BY <1>2, ChatBridgeInvHolds, PTL

(* Streamed or not, the client gets the same answer: when the finish chunk *)
(* comes, text, reasoning, tool calls, arguments and finish reason are     *)
(* those that claudeResponseToOpenAI makes of the whole answer, however    *)
(* the body was cut into chunks (openai_responses.go:128-192) - except     *)
(* that a call without arguments has none in the stream and {} there.      *)
THEOREM StreamedAsWholeHolds ==
  ChatSpec => []StreamedAsWhole
<1>1. WholeChatInv => StreamedAsWhole
  BY AsWhole
<1> QED BY <1>1, WholeChatInvHolds, PTL
=============================================================================
