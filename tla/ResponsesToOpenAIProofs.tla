----------------------- MODULE ResponsesToOpenAIProofs -----------------------
(***************************************************************************)
(* Proofs about ResponsesToOpenAI for every number of output items and     *)
(* pieces: whatever the endpoint streams and wherever the client, the read *)
(* or the answer breaks off, the client sees a legal chat stream, every    *)
(* piece once and in turn, and what a whole response would have told it;   *)
(* and a failed answer never ends as a success.                            *)
(***************************************************************************)
EXTENDS ResponsesToOpenAI, ResponsesStreamProofs, FiniteSetTheorems

-----------------------------------------------------------------------------
(* Sequences of chunks. *)

PieceRecords == [item : Items, piece : Nat]
ToolChunks == [type : {"tool"}, index : Nat, item : Items]
DeltaChunks ==
  [type : {"delta"}, field : {"content", "arguments", "reasoning_content"}, index : Nat,
   content : PieceRecords]
FinishChunks ==
  [type : {"finish"}, reason : {"length", "content_filter", "tool_calls", "stop"}]
Chunks == {RoleChunk} \cup ToolChunks \cup DeltaChunks \cup FinishChunks

LEMMA JoinChunks ==
  ASSUME NEW a \in Seq(Chunks), NEW b \in Seq(Chunks), NEW c \in Seq(Chunks)
  PROVE  b \o c \in Seq(Chunks) /\ a \o (b \o c) = (a \o b) \o c
BY ONLY JoinThree

(* LegalChatStream, of any sequence. *)
ToolsIn(s, n) == {m \in 1..n : s[m].type = "tool"}
LegalAt(s, n) ==
  /\ s[n].type = "role" <=> n = 1
  /\ s[n].type = "tool" =>
       /\ s[n].index = Cardinality(ToolsIn(s, n - 1))
       /\ \A m \in ToolsIn(s, n - 1) : s[m].item # s[n].item
  /\ s[n].type = "delta" /\ s[n].field = "arguments" =>
       \E m \in ToolsIn(s, n) :
         s[m].index = s[n].index /\ s[m].item = s[n].content.item
  /\ s[n].type = "finish" => n = Len(s)
LegalChat(s) == s \in Seq(Chunks) /\ \A n \in 1..Len(s) : LegalAt(s, n)

(* It has begun and is not finished. *)
Going(s) == LegalChat(s) /\ s # <<>> /\ \A n \in 1..Len(s) : s[n].type # "finish"

LEMMA LegalSent ==
  ASSUME LegalChat(sent)
  PROVE  LegalChatStream
BY DEF LegalChat, LegalAt, LegalChatStream, ToolsIn, Announced, At

(* What the client has got before it goes away is legal too. *)
LEMMA LegalPrefix ==
  ASSUME NEW s, NEW t \in Seq(Chunks), LegalChat(s), Len(t) <= Len(s),
         \A n \in 1..Len(t) : t[n] = s[n]
  PROVE  LegalChat(t)
<1> SUFFICES ASSUME NEW n \in 1..Len(t) PROVE LegalAt(t, n)
  BY DEF LegalChat
<1>1. Len(t) \in Nat /\ Len(s) \in Nat
  BY DEF LegalChat
<1>2. n \in 1..Len(s) /\ LegalAt(s, n) /\ t[n] = s[n]
  BY <1>1 DEF LegalChat
<1>3. ToolsIn(t, n) = ToolsIn(s, n) /\ ToolsIn(t, n - 1) = ToolsIn(s, n - 1)
  BY <1>1 DEF ToolsIn
<1>4. \A m \in ToolsIn(t, n) : t[m] = s[m]
  BY <1>1 DEF ToolsIn
<1>5. \A m \in ToolsIn(t, n - 1) : t[m] = s[m]
  BY <1>1 DEF ToolsIn
<1>6. s[n].type = "finish" => n = Len(t)
  BY <1>1, <1>2 DEF LegalAt
<1> QED BY <1>2, <1>3, <1>4, <1>5, <1>6 DEF LegalAt

(* The elements of a concatenation, and that the tools of its first part   *)
(* are where they were.                                                    *)
LEMMA Joined ==
  ASSUME NEW s \in Seq(Chunks), NEW t \in Seq(Chunks)
  PROVE  /\ s \o t \in Seq(Chunks) /\ Len(s \o t) = Len(s) + Len(t)
         /\ \A n \in 1..Len(s) : (s \o t)[n] = s[n]
         /\ \A n \in 1..Len(t) : (s \o t)[Len(s) + n] = t[n]
         /\ \A n \in 0..Len(s) : ToolsIn(s \o t, n) = ToolsIn(s, n)
<1>1. /\ s \o t \in Seq(Chunks) /\ Len(s \o t) = Len(s) + Len(t)
      /\ \A n \in 1..Len(s) + Len(t) :
           (s \o t)[n] = IF n <= Len(s) THEN s[n] ELSE t[n - Len(s)]
      /\ Len(s) \in Nat /\ Len(t) \in Nat
  BY ConcatProperties
<1>2. \A n \in 1..Len(s) : (s \o t)[n] = s[n]
  BY <1>1
<1>3. ASSUME NEW n \in 1..Len(t) PROVE (s \o t)[Len(s) + n] = t[n]
  <2>1. Len(s) + n \in 1..Len(s) + Len(t) /\ ~(Len(s) + n <= Len(s))
        /\ (Len(s) + n) - Len(s) = n
    BY <1>1
  <2> QED BY <1>1, <2>1
<1>4. ASSUME NEW n \in 0..Len(s) PROVE ToolsIn(s \o t, n) = ToolsIn(s, n)
  BY <1>1, <1>2 DEF ToolsIn
<1> QED BY <1>1, <1>2, <1>3, <1>4

LEMMA DeltasAreChunks ==
  Seq(DeltaChunks) \subseteq Seq(Chunks)
BY SeqMonotonic DEF Chunks

(* What goes on stays legal up to where it was. *)
LEMMA StillLegal ==
  ASSUME NEW s, Going(s), NEW t \in Seq(Chunks), NEW n \in 1..Len(s)
  PROVE  LegalAt(s \o t, n) /\ (s \o t)[n].type # "finish"
<1>1. /\ Len(s) \in Nat /\ s \in Seq(Chunks) /\ LegalAt(s, n) /\ s[n].type # "finish"
      /\ n \in 0..Len(s) /\ n - 1 \in 0..Len(s)
  BY DEF Going, LegalChat
<1>2. /\ (s \o t)[n] = s[n] /\ ToolsIn(s \o t, n) = ToolsIn(s, n)
      /\ ToolsIn(s \o t, n - 1) = ToolsIn(s, n - 1)
      /\ \A m \in ToolsIn(s, n) : (s \o t)[m] = s[m]
  BY <1>1, Joined DEF ToolsIn
<1>3. \A m \in ToolsIn(s, n - 1) : (s \o t)[m] = s[m]
  BY <1>1, Joined DEF ToolsIn
<1> QED BY <1>1, <1>2, <1>3 DEF LegalAt

LEMMA RoleFirst ==
  Going(<<RoleChunk>>) /\ ToolsIn(<<RoleChunk>>, 1) = {}
BY DEF Going, LegalChat, LegalAt, ToolsIn, RoleChunk, Chunks

(* A call that has no head yet, under the next index. *)
LEMMA HeadFollows ==
  ASSUME NEW s, Going(s), NEW index, index \in Nat, NEW i \in Items,
         index = Cardinality(ToolsIn(s, Len(s))),
         \A m \in ToolsIn(s, Len(s)) : s[m].item # i
  PROVE  LET t == s \o <<ToolChunk(index, i)>>
         IN  /\ Going(t) /\ Len(t) = Len(s) + 1 /\ t[Len(t)] = ToolChunk(index, i)
             /\ \A n \in 1..Len(s) : t[n] = s[n]
             /\ ToolsIn(t, Len(t)) = ToolsIn(s, Len(s)) \cup {Len(t)}
<1> DEFINE c == ToolChunk(index, i)
           t == s \o <<c>>
<1>1. /\ c \in Chunks /\ c.type = "tool" /\ c.index = index /\ c.item = i
      /\ <<c>> \in Seq(Chunks) /\ Len(<<c>>) = 1 /\ <<c>>[1] = c
      /\ s \in Seq(Chunks) /\ Len(s) \in Nat /\ s # <<>>
  BY DEF ToolChunk, ToolChunks, Chunks, Going, LegalChat
<1> HIDE DEF c
<1>2. /\ t \in Seq(Chunks) /\ Len(t) = Len(s) + 1 /\ t[Len(s) + 1] = c
      /\ \A n \in 1..Len(s) : t[n] = s[n]
      /\ ToolsIn(t, Len(s)) = ToolsIn(s, Len(s))
  <2>1. 1 \in 1..Len(<<c>>) /\ Len(s) \in 0..Len(s)
    BY <1>1
  <2> QED BY <1>1, <2>1, Joined
<1>3. \A n \in 1..Len(s) : LegalAt(t, n) /\ t[n].type # "finish"
  BY <1>1, StillLegal
<1>4. Len(s) >= 1
  BY <1>1
<1> HIDE DEF t
<1>5. LegalAt(t, Len(s) + 1)
  <2>1. (Len(s) + 1) - 1 = Len(s)
    BY <1>1
  <2>2. \A m \in ToolsIn(s, Len(s)) : t[m].item # i
    BY <1>2 DEF ToolsIn
  <2> QED BY <1>1, <1>2, <1>4, <2>1, <2>2 DEF LegalAt
<1>6. ToolsIn(t, Len(t)) = ToolsIn(s, Len(s)) \cup {Len(t)}
  <2>1. ToolsIn(t, Len(s) + 1) = ToolsIn(t, Len(s)) \cup {Len(s) + 1}
    <3>1. 1..(Len(s) + 1) = (1..Len(s)) \cup {Len(s) + 1} /\ t[Len(s) + 1].type = "tool"
      BY <1>1, <1>2
    <3> QED BY <3>1 DEF ToolsIn
  <2> QED BY <1>2, <2>1
<1>7. t # <<>> /\ \A n \in 1..Len(t) : LegalAt(t, n) /\ t[n].type # "finish"
  BY <1>1, <1>2, <1>3, <1>5
<1> QED BY <1>2, <1>6, <1>7 DEF Going, LegalChat, c, t

(* Pieces of content, of calls that have a head. *)
LEMMA PiecesFollow ==
  ASSUME NEW s, Going(s), NEW out \in Seq(DeltaChunks),
         \A n \in 1..Len(out) : out[n].field = "arguments" =>
           \E m \in ToolsIn(s, Len(s)) :
             s[m].index = out[n].index /\ s[m].item = out[n].content.item
  PROVE  /\ Going(s \o out)
         /\ Len(s) <= Len(s \o out) /\ \A n \in 1..Len(s) : (s \o out)[n] = s[n]
         /\ ToolsIn(s \o out, Len(s \o out)) = ToolsIn(s, Len(s))
<1> DEFINE t == s \o out
<1>1. /\ out \in Seq(Chunks) /\ s \in Seq(Chunks) /\ Len(s) \in Nat /\ Len(out) \in Nat
      /\ s # <<>>
  BY DEF Chunks, Going, LegalChat
<1>2. /\ t \in Seq(Chunks) /\ Len(t) = Len(s) + Len(out)
      /\ \A n \in 1..Len(s) : t[n] = s[n]
      /\ \A n \in 1..Len(out) : t[Len(s) + n] = out[n]
      /\ ToolsIn(t, Len(s)) = ToolsIn(s, Len(s))
  BY <1>1, Joined
<1>3. \A n \in 1..Len(s) : LegalAt(t, n) /\ t[n].type # "finish"
  BY <1>1, StillLegal
<1> HIDE DEF t
<1>4. ASSUME NEW n \in 1..Len(t), n > Len(s)
      PROVE  LegalAt(t, n) /\ t[n].type \notin {"finish", "tool"}
  <2>1. n - Len(s) \in 1..Len(out) /\ n = Len(s) + (n - Len(s))
    BY <1>1, <1>2, <1>4
  <2> DEFINE c == out[n - Len(s)]
  <2>2. t[n] = c /\ c \in DeltaChunks
    BY <1>2, <2>1, ElementOfSeq
  <2>3. c.type = "delta" /\ n # 1
    BY <1>1, <1>4, <2>2 DEF DeltaChunks
  <2>4. c.field = "arguments" =>
          \E m \in ToolsIn(s, Len(s)) : s[m].index = c.index /\ s[m].item = c.content.item
    BY <2>1
  <2> HIDE DEF c
  <2>5. ASSUME NEW m \in ToolsIn(s, Len(s)) PROVE m \in ToolsIn(t, n) /\ t[m] = s[m]
    BY <1>1, <1>2, <1>4 DEF ToolsIn
  <2>6. c.field = "arguments" =>
          \E m \in ToolsIn(t, n) : t[m].index = c.index /\ t[m].item = c.content.item
    BY <2>4, <2>5
  <2> QED BY <2>2, <2>3, <2>6 DEF LegalAt
<1>5. ToolsIn(t, Len(t)) = ToolsIn(t, Len(s))
  <2>1. \A n \in 1..Len(t) : t[n].type = "tool" => n \in 1..Len(s)
    BY <1>1, <1>2, <1>4
  <2>2. 1..Len(s) \subseteq 1..Len(t)
    BY <1>1, <1>2
  <2> QED BY <2>1, <2>2 DEF ToolsIn
<1>6. \A n \in 1..Len(t) : LegalAt(t, n) /\ t[n].type # "finish"
  BY <1>1, <1>2, <1>3, <1>4
<1>7. t # <<>>
  BY <1>1, <1>2
<1>8. Going(t)
  BY <1>2, <1>6, <1>7 DEF Going, LegalChat
<1> QED BY <1>1, <1>2, <1>5, <1>8 DEF t

LEMMA FinishFollows ==
  ASSUME NEW s, Going(s), NEW c \in FinishChunks
  PROVE  LET t == s \o <<c>>
         IN  /\ LegalChat(t) /\ t # <<>>
             /\ ToolsIn(t, Len(t)) = ToolsIn(s, Len(s)) /\ \A n \in 1..Len(s) : t[n] = s[n]
<1> DEFINE t == s \o <<c>>
<1>1. /\ <<c>> \in Seq(Chunks) /\ s \in Seq(Chunks) /\ Len(s) \in Nat /\ s # <<>>
      /\ Len(<<c>>) = 1 /\ <<c>>[1] = c /\ c.type = "finish"
  BY DEF Chunks, Going, LegalChat, FinishChunks
<1>2. /\ t \in Seq(Chunks) /\ Len(t) = Len(s) + 1 /\ t[Len(s) + 1] = c
      /\ \A n \in 1..Len(s) : t[n] = s[n]
      /\ ToolsIn(t, Len(s)) = ToolsIn(s, Len(s))
  <2>1. 1 \in 1..Len(<<c>>) /\ Len(s) \in 0..Len(s)
    BY <1>1
  <2> QED BY <1>1, <2>1, Joined
<1>3. \A n \in 1..Len(s) : LegalAt(t, n)
  BY <1>1, StillLegal
<1> HIDE DEF t
<1>4. LegalAt(t, Len(s) + 1)
  BY <1>1, <1>2 DEF LegalAt
<1>5. \A n \in 1..Len(t) : LegalAt(t, n)
  BY <1>1, <1>2, <1>3, <1>4
<1>6. ToolsIn(t, Len(t)) = ToolsIn(t, Len(s))
  <2>1. t[Len(t)].type # "tool" /\ 1..Len(t) = (1..Len(s)) \cup {Len(t)}
    BY <1>1, <1>2
  <2> QED BY <2>1 DEF ToolsIn
<1>7. t # <<>>
  BY <1>1, <1>2
<1> QED BY <1>2, <1>5, <1>6, <1>7 DEF LegalChat, t

-----------------------------------------------------------------------------
(* The bridge. *)

Known == {i \in Items : toolItems[i] # NoTool}

(* Every call of the map has its index, and was announced with it.         *)
IndexInv ==
  /\ Cardinality(Known) = nextToolIndex
  /\ \A i \in Known : toolItems[i].announced

(* s is what the client has, or will have, when the map is tools: there is *)
(* one head for each call of the map, with its index.                      *)
HeadsTold(s, tools, next) ==
  /\ Cardinality(ToolsIn(s, Len(s))) = next
  /\ \A i \in Items : tools[i] # NoTool =>
       \E m \in ToolsIn(s, Len(s)) : s[m].item = i /\ s[m].index = tools[i].index
  /\ \A m \in ToolsIn(s, Len(s)) : tools[s[m].item] # NoTool

ChatInv ==
  /\ LegalChat(sent)
  /\ ~stopped => \A n \in 1..Len(sent) : sent[n].type # "finish"
  /\ output = "open" =>
       /\ IF started THEN sent # <<>> ELSE sent = <<>>
       /\ HeadsTold(sent, toolItems, nextToolIndex)

(* The finish chunk is made of the endpoint's end, and nothing but [DONE]  *)
(* comes after it.                                                         *)
StopInv ==
  /\ stopped => Terminated /\ (frame = NoFrame \/ frame.type = "[DONE]")

OpenAIInv == StreamInv /\ OpenAITypeOK /\ IndexInv /\ StopInv /\ ChatInv

LEMMA ItemsFinite ==
  IsFiniteSet(Items) /\ Cardinality(Items) = NumItems
BY FS_Interval, StreamAssumption DEF Items

LEMMA NoToolsIn ==
  ToolsIn(<<>>, 0) = {} /\ Cardinality({}) = 0
BY FS_EmptySet DEF ToolsIn

LEMMA InitInv ==
  OpenAIInit => OpenAIInv
<1> SUFFICES ASSUME OpenAIInit PROVE OpenAIInv
  OBVIOUS
<1>1. StreamInv /\ sent = <<>> /\ frame = NoFrame /\ output = "open"
  BY StreamInitInv DEF OpenAIInit, StreamInit, PumpInit
<1>2. Known = {} /\ nextToolIndex = 0
  BY DEF OpenAIInit, Known
<1>3. IndexInv
  <2>1. Cardinality(Known) = 0
    BY <1>2, NoToolsIn
  <2> QED BY <1>2, <2>1 DEF IndexInv
<1>4. OpenAITypeOK
  <2>1. /\ toolItems \in [Items -> {NoTool}] /\ 0 \in 0..NumItems
        /\ nextToolIndex = 0 /\ ~started /\ ~stopped /\ ~hasToolCalls
    BY StreamAssumption DEF OpenAIInit
  <2> QED BY <1>1, <2>1 DEF OpenAIInit, OpenAITypeOK, StreamInv
<1>5. StopInv
  BY DEF OpenAIInit, StopInv
<1>6. <<>> \in Seq(Chunks) /\ Len(<<>>) = 0
  OBVIOUS
<1>7. LegalChat(<<>>)
  BY <1>6 DEF LegalChat
<1>8. HeadsTold(<<>>, toolItems, nextToolIndex)
  BY <1>2, <1>6, NoToolsIn DEF HeadsTold, Known
<1>9. ChatInv
  BY <1>1, <1>6, <1>7, <1>8 DEF ChatInv, OpenAIInit
<1> QED BY <1>1, <1>3, <1>4, <1>5, <1>9 DEF OpenAIInv

-----------------------------------------------------------------------------
(* What the pump emits.                                                    *)

LEMMA EmitsLegal ==
  ASSUME NEW out \in Seq(Chunks), sent \in Seq(Chunks), LegalChat(sent \o out),
         output = "open", Emits(out)
  PROVE  /\ frame' = NoFrame /\ output' \in {output, "failed"}
         /\ LegalChat(sent') /\ (output' = "open" => sent' = sent \o out)
         /\ output' # "open" => \A n \in 1..Len(sent') : sent'[n].type # "finish"
<1>1. /\ frame' = NoFrame /\ output' \in {output, "failed"}
      /\ output' = "open" => sent' = sent \o out
      /\ sent' \in Seq(Chunks) /\ Len(sent') <= Len(sent \o out)
      /\ output' # "open" => Len(sent') < Len(sent \o out)
      /\ \A n \in 1..Len(sent') : sent'[n] = (sent \o out)[n]
  BY EmitsPrefix
<1>2. ASSUME output' # "open", NEW n \in 1..Len(sent') PROVE sent'[n].type # "finish"
  <2>1. Len(sent') \in Nat /\ Len(sent \o out) \in Nat
    BY <1>1 DEF LegalChat
  <2>2. n \in 1..Len(sent \o out) /\ n # Len(sent \o out)
    BY <1>1, <1>2, <2>1
  <2> QED BY <1>1, <2>2 DEF LegalChat, LegalAt
<1> QED BY <1>1, <1>2, LegalPrefix

LEMMA StartGoes ==
  ASSUME ChatInv, output = "open", ~stopped
  PROVE  /\ Start \in Seq(Chunks) /\ sent \in Seq(Chunks) /\ Going(sent \o Start)
         /\ HeadsTold(sent \o Start, toolItems, nextToolIndex)
<1>1. sent \in Seq(Chunks) /\ LegalChat(sent) /\ HeadsTold(sent, toolItems, nextToolIndex)
  BY DEF ChatInv, LegalChat
<1>2. CASE started
  <2>1. Start = <<>> /\ sent \o <<>> = sent
    BY <1>1, <1>2, ConcatEmptySeq DEF Start
  <2> QED BY <1>1, <1>2, <2>1 DEF ChatInv, Going
<1>3. CASE ~started
  <2>1. Start = <<RoleChunk>> /\ sent = <<>> /\ <<RoleChunk>> \in Seq(Chunks)
    BY <1>3 DEF Start, ChatInv, Chunks
  <2>2. sent \o Start = <<RoleChunk>>
    BY <2>1, ConcatEmptySeq
  <2>3. ToolsIn(sent, Len(sent)) = {}
    BY <2>1 DEF ToolsIn
  <2>4. Len(<<RoleChunk>>) = 1 /\ ToolsIn(<<RoleChunk>>, 1) = {} /\ Going(<<RoleChunk>>)
    BY RoleFirst
  <2>5. HeadsTold(<<RoleChunk>>, toolItems, nextToolIndex)
    BY <1>1, <2>3, <2>4 DEF HeadsTold
  <2> QED BY <1>1, <2>1, <2>2, <2>4, <2>5
<1> QED BY <1>2, <1>3

(* Chunks without a head leave what has been told of the map as it is.     *)
LEMMA HeadsKept ==
  ASSUME NEW s, NEW t, NEW tools, NEW next, HeadsTold(s, tools, next),
         ToolsIn(t, Len(t)) = ToolsIn(s, Len(s)), \A m \in 1..Len(s) : t[m] = s[m]
  PROVE  HeadsTold(t, tools, next)
<1>1. \A m \in ToolsIn(s, Len(s)) : t[m] = s[m]
  BY DEF ToolsIn
<1> QED BY <1>1 DEF HeadsTold

DeltasOf(field, index, i) ==
  [type : {"delta"}, field : {field}, index : {index}, content : PiecesOf(i)]

LEMMA PieceChunksType ==
  ASSUME NEW field, NEW index, NEW i \in Items, NEW pieces \in Seq(PiecesOf(i))
  PROVE  PieceChunks(field, index, pieces) \in Seq(DeltasOf(field, index, i))
<1>1. Len(pieces) \in Nat /\ \A n \in 1..Len(pieces) : pieces[n] \in PiecesOf(i)
  BY ElementOfSeq
<1>2. \A n \in 1..Len(pieces) :
        PieceChunk(field, index, pieces[n]) \in DeltasOf(field, index, i)
  BY <1>1 DEF PieceChunk, DeltasOf
<1> QED BY <1>1, <1>2 DEF PieceChunks

LEMMA DeltasOfType ==
  ASSUME NEW field \in {"content", "arguments", "reasoning_content"}, NEW index \in Nat,
         NEW i \in Items, NEW out \in Seq(DeltasOf(field, index, i))
  PROVE  /\ out \in Seq(DeltaChunks)
         /\ \A n \in 1..Len(out) :
              out[n].field = field /\ out[n].index = index /\ out[n].content.item = i
<1>1. DeltasOf(field, index, i) \subseteq DeltaChunks
  BY DEF DeltasOf, DeltaChunks, PieceRecords, PiecesOf
<1>2. \A n \in 1..Len(out) : out[n] \in DeltasOf(field, index, i)
  BY ElementOfSeq
<1>3. out \in Seq(DeltaChunks)
  BY <1>1, SeqMonotonic
<1> QED BY <1>2, <1>3 DEF DeltasOf, PiecesOf

(* A frame that is not of a tool call: its pieces follow. *)
LEMMA PassesChat ==
  ASSUME ChatInv, output = "open", ~stopped, NEW out \in Seq(DeltaChunks),
         \A n \in 1..Len(out) : out[n].field # "arguments", Passes(out)
  PROVE  ChatInv' /\ frame' = NoFrame /\ output' \in {output, "failed"}
<1> DEFINE s == sent \o Start
<1>1. /\ Start \in Seq(Chunks) /\ sent \in Seq(Chunks) /\ Going(s)
      /\ HeadsTold(s, toolItems, nextToolIndex) /\ out \in Seq(Chunks)
  BY StartGoes DEF Chunks
<1>2. sent \o (Start \o out) = s \o out /\ Start \o out \in Seq(Chunks)
  <2>1. /\ sent \in Seq(Chunks) /\ Start \in Seq(Chunks) /\ out \in Seq(Chunks)
    BY <1>1
  <2> QED BY <2>1, JoinChunks
<1> HIDE DEF s
<1>3. /\ Going(s \o out) /\ \A n \in 1..Len(s) : (s \o out)[n] = s[n]
      /\ ToolsIn(s \o out, Len(s \o out)) = ToolsIn(s, Len(s))
  BY <1>1, PiecesFollow
<1>4. HeadsTold(s \o out, toolItems, nextToolIndex)
  BY <1>1, <1>3, HeadsKept
<1>5. LegalChat(sent \o (Start \o out))
  BY <1>2, <1>3 DEF Going
<1>6. /\ frame' = NoFrame /\ output' \in {output, "failed"} /\ LegalChat(sent')
      /\ output' = "open" => sent' = s \o out
      /\ output' # "open" => \A n \in 1..Len(sent') : sent'[n].type # "finish"
  BY <1>1, <1>2, <1>5, EmitsLegal DEF Passes
<1>7. /\ started' = TRUE /\ stopped' = stopped
      /\ toolItems' = toolItems /\ nextToolIndex' = nextToolIndex
  BY DEF Passes
<1>8. ChatInv'
  <2>1. output' = "open" => HeadsTold(sent', toolItems', nextToolIndex')
    BY <1>4, <1>6, <1>7, Zenon
  <2>2. /\ output' = "open" => sent' # <<>>
        /\ \A n \in 1..Len(sent') : sent'[n].type # "finish"
    BY <1>3, <1>6 DEF Going
  <2> QED BY <1>6, <1>7, <2>1, <2>2 DEF ChatInv
<1> QED BY <1>6, <1>8

-----------------------------------------------------------------------------
(* A frame of a tool call. *)

(* The call has an index afterwards, below the next one, and no other call *)
(* has changed.                                                            *)
LEMMA TakesArgumentsIndex ==
  ASSUME OpenAITypeOK, IndexInv, NEW i \in Items, i = frame.item, NEW pieces,
         TakesArguments(pieces)
  PROVE  IndexInv' /\ nextToolIndex' \in 0..NumItems
         /\ toolItems' \in [Items -> {NoTool} \cup
              [index : 0..(NumItems - 1), announced : BOOLEAN, sawDelta : BOOLEAN]]
<1> DEFINE tool == ToolAt(i)
<1>1. /\ toolItems' = [toolItems EXCEPT ![i] =
           Tool(tool.index, TRUE, SawDelta(tool, pieces))]
      /\ nextToolIndex' = NextIndex(i)
  BY DEF TakesArguments
<1>2. /\ IsFiniteSet(Known) /\ Known \subseteq Items /\ Cardinality(Known) = nextToolIndex
      /\ IsFiniteSet(Items) /\ Cardinality(Items) = NumItems /\ NumItems \in Nat
      /\ nextToolIndex \in Nat
  BY ItemsFinite, FS_Subset, StreamAssumption DEF IndexInv, Known, OpenAITypeOK
<1>3. CASE i \in Known
  <2>1. tool = toolItems[i] /\ tool \in [index : 0..(NumItems - 1), announced : BOOLEAN,
                                         sawDelta : BOOLEAN]
    BY <1>3 DEF ToolAt, Known, OpenAITypeOK
  <2>2. Tool(tool.index, TRUE, SawDelta(tool, pieces)) \in
          [index : 0..(NumItems - 1), announced : BOOLEAN, sawDelta : BOOLEAN]
    BY <2>1 DEF Tool, SawDelta
  <2>3. nextToolIndex' = nextToolIndex
    BY <1>1, <1>3 DEF NextIndex, Known
  <2>4. Known' = Known /\ \A k \in Known : toolItems'[k].announced
    BY <1>1, <1>3 DEF Known, IndexInv, OpenAITypeOK, Tool, NoTool
  <2> QED BY <1>1, <2>2, <2>3, <2>4 DEF OpenAITypeOK, IndexInv
<1>4. CASE i \notin Known
  <2>1. tool = Tool(nextToolIndex, FALSE, FALSE) /\ nextToolIndex' = nextToolIndex + 1
    BY <1>1, <1>4 DEF ToolAt, Known, NextIndex
  <2>2. nextToolIndex + 1 <= NumItems
    <3>1. /\ IsFiniteSet(Known \cup {i}) /\ Cardinality(Known \cup {i}) = nextToolIndex + 1
      BY <1>2, <1>4, FS_AddElement
    <3>2. Cardinality(Known \cup {i}) <= Cardinality(Items)
      BY <1>2, FS_Subset
    <3> QED BY <1>2, <3>1, <3>2
  <2>3. Tool(tool.index, TRUE, SawDelta(tool, pieces)) \in
          [index : 0..(NumItems - 1), announced : BOOLEAN, sawDelta : BOOLEAN]
    BY <1>2, <2>1, <2>2 DEF Tool, SawDelta
  <2>4. Known' = Known \cup {i} /\ \A k \in Known' : toolItems'[k].announced
    BY <1>1, <1>4 DEF Known, IndexInv, OpenAITypeOK, Tool, NoTool
  <2>5. Cardinality(Known') = nextToolIndex'
    BY <1>2, <1>4, <2>1, <2>4, FS_AddElement
  <2>6. nextToolIndex' \in 0..NumItems
    BY <1>2, <2>1, <2>2
  <2>7. toolItems' \in [Items -> {NoTool} \cup
          [index : 0..(NumItems - 1), announced : BOOLEAN, sawDelta : BOOLEAN]]
    BY <1>1, <2>3 DEF OpenAITypeOK
  <2> QED BY <2>4, <2>5, <2>6, <2>7 DEF IndexInv
<1> QED BY <1>3, <1>4

(* What a call has had so far does not matter to the heads. *)
LEMMA HeadsAgree ==
  ASSUME NEW s, NEW tools, NEW others, NEW next, HeadsTold(s, tools, next),
         \A k \in Items :
           /\ others[k] # NoTool <=> tools[k] # NoTool
           /\ others[k] # NoTool => others[k].index = tools[k].index,
         \A m \in ToolsIn(s, Len(s)) : s[m].item \in Items
  PROVE  HeadsTold(s, others, next)
<1>1. ASSUME NEW k \in Items, others[k] # NoTool
      PROVE  \E m \in ToolsIn(s, Len(s)) : s[m].item = k /\ s[m].index = others[k].index
  BY <1>1 DEF HeadsTold
<1>2. \A m \in ToolsIn(s, Len(s)) : others[s[m].item] # NoTool
  BY DEF HeadsTold
<1> QED BY <1>1, <1>2 DEF HeadsTold

(* The head, if the call has none yet. *)
LEMMA AnnouncementFollows ==
  ASSUME ChatInv, OpenAITypeOK, IndexInv, output = "open", ~stopped, NEW i \in Items,
         NEW sawDelta
  PROVE  LET t == sent \o Start \o Announcement(ToolAt(i), i)
             tools == [toolItems EXCEPT ![i] = Tool(ToolAt(i).index, TRUE, sawDelta)]
         IN  /\ Announcement(ToolAt(i), i) \in Seq(Chunks)
             /\ Going(t) /\ HeadsTold(t, tools, NextIndex(i))
             /\ \E m \in ToolsIn(t, Len(t)) : t[m].index = ToolAt(i).index /\ t[m].item = i
<1> DEFINE s == sent \o Start
           tools == [toolItems EXCEPT ![i] = Tool(ToolAt(i).index, TRUE, sawDelta)]
<1>1. Going(s) /\ HeadsTold(s, toolItems, nextToolIndex) /\ s \in Seq(Chunks)
  BY StartGoes DEF Going, LegalChat
<1> HIDE DEF s
<1>2. /\ \A k \in Items : k # i => tools[k] = toolItems[k]
      /\ tools[i] # NoTool /\ tools[i].index = ToolAt(i).index
  BY DEF OpenAITypeOK, Tool, NoTool
<1>3. nextToolIndex \in Nat
  BY StreamAssumption DEF OpenAITypeOK
<1> HIDE DEF tools
<1>4. CASE toolItems[i] # NoTool
  <2>1. ToolAt(i) = toolItems[i] /\ Announcement(ToolAt(i), i) = <<>>
    BY <1>4 DEF ToolAt, Announcement, IndexInv, Known
  <2>2. s \o <<>> = s
    BY <1>1, ConcatEmptySeq, Zenon
  <2>3. HeadsTold(s, tools, NextIndex(i))
    <3>1. NextIndex(i) = nextToolIndex
      BY <1>4 DEF NextIndex
    <3>2. \A k \in Items :
            /\ tools[k] # NoTool <=> toolItems[k] # NoTool
            /\ tools[k] # NoTool => tools[k].index = toolItems[k].index
      BY <1>2, <1>4, <2>1
    <3>3. \A m \in ToolsIn(s, Len(s)) : s[m].item \in Items
      BY <1>1, ElementOfSeq DEF ToolsIn, Chunks, RoleChunk, ToolChunks, DeltaChunks, FinishChunks
    <3> QED BY <1>1, <3>1, <3>2, <3>3, HeadsAgree
  <2>4. \E m \in ToolsIn(s, Len(s)) : s[m].index = ToolAt(i).index /\ s[m].item = i
    BY <1>1, <1>4, <2>1 DEF HeadsTold
  <2>5. <<>> \in Seq(Chunks)
    OBVIOUS
  <2> QED BY <1>1, <2>1, <2>2, <2>3, <2>4, <2>5 DEF s, tools
<1>5. CASE toolItems[i] = NoTool
  <2> DEFINE c == ToolChunk(nextToolIndex, i)
             t == s \o <<c>>
  <2>1. ToolAt(i) = Tool(nextToolIndex, FALSE, FALSE) /\ NextIndex(i) = nextToolIndex + 1
        /\ ToolAt(i).index = nextToolIndex /\ Announcement(ToolAt(i), i) = <<c>>
    BY <1>5 DEF ToolAt, NextIndex, Announcement, Tool
  <2>2. <<c>> \in Seq(Chunks) /\ c.index = nextToolIndex /\ c.item = i
    BY <1>3 DEF ToolChunk, ToolChunks, Chunks
  <2>3. \A m \in ToolsIn(s, Len(s)) : s[m].item # i
    BY <1>1, <1>5 DEF HeadsTold
  <2>4. nextToolIndex = Cardinality(ToolsIn(s, Len(s)))
    BY <1>1 DEF HeadsTold
  <2>5. /\ Going(t) /\ Len(t) = Len(s) + 1 /\ t[Len(t)] = c
        /\ \A n \in 1..Len(s) : t[n] = s[n]
        /\ ToolsIn(t, Len(t)) = ToolsIn(s, Len(s)) \cup {Len(t)}
    BY <1>1, <1>3, <2>3, <2>4, HeadFollows
  <2> HIDE DEF t, c
  <2>6. Len(s) \in Nat /\ IsFiniteSet(ToolsIn(s, Len(s))) /\ Len(t) \notin ToolsIn(s, Len(s))
    <3>1. Len(s) \in Nat /\ IsFiniteSet(1..Len(s)) /\ Len(t) \notin 1..Len(s)
      BY <1>1, <2>5, FS_Interval
    <3> QED BY <3>1, FS_Subset DEF ToolsIn
  <2>7. Cardinality(ToolsIn(t, Len(t))) = nextToolIndex + 1
    BY <2>4, <2>5, <2>6, FS_AddElement
  <2>8. \A m \in ToolsIn(s, Len(s)) : m \in ToolsIn(t, Len(t)) /\ t[m] = s[m]
    BY <2>5 DEF ToolsIn
  <2>9. Len(t) \in ToolsIn(t, Len(t)) /\ t[Len(t)].item = i
        /\ t[Len(t)].index = ToolAt(i).index
    BY <2>1, <2>2, <2>5
  <2>10. HeadsTold(t, tools, NextIndex(i))
    <3>1. ASSUME NEW k \in Items, tools[k] # NoTool
          PROVE  \E m \in ToolsIn(t, Len(t)) : t[m].item = k /\ t[m].index = tools[k].index
      <4>1. CASE k = i
        BY <1>2, <2>9, <4>1
      <4>2. CASE k # i
        BY <1>1, <1>2, <2>8, <3>1, <4>2 DEF HeadsTold
      <4> QED BY <4>1, <4>2
    <3>2. ASSUME NEW m \in ToolsIn(t, Len(t)) PROVE tools[t[m].item] # NoTool
      <4>1. CASE m = Len(t)
        BY <1>2, <2>9, <4>1
      <4>2. CASE m \in ToolsIn(s, Len(s))
        <5>1. t[m] = s[m] /\ s[m].item \in Items
          BY <1>1, <2>8, <4>2, ElementOfSeq DEF ToolsIn, Chunks, RoleChunk, ToolChunks,
             DeltaChunks, FinishChunks
        <5> QED BY <1>1, <1>2, <4>2, <5>1 DEF HeadsTold
      <4> QED BY <2>5, <4>1, <4>2
    <3> QED BY <2>1, <2>7, <3>1, <3>2 DEF HeadsTold
  <2> QED BY <2>1, <2>2, <2>5, <2>9, <2>10 DEF s, tools, t
<1> QED BY <1>4, <1>5

(* The head if need be, then the arguments of the frame. *)
LEMMA TakesArgumentsChat ==
  ASSUME ChatInv, OpenAITypeOK, IndexInv, output = "open", ~stopped, NEW i \in Items,
         i = frame.item, NEW pieces \in Seq(PiecesOf(i)), TakesArguments(pieces)
  PROVE  ChatInv' /\ frame' = NoFrame /\ output' \in {output, "failed"}
<1> DEFINE tool == ToolAt(i)
           head == Announcement(tool, i)
           chunks == PieceChunks("arguments", tool.index, pieces)
           t == sent \o Start \o head
           tools == [toolItems EXCEPT ![i] = Tool(tool.index, TRUE, SawDelta(tool, pieces))]
<1>1. /\ head \in Seq(Chunks) /\ Going(t) /\ HeadsTold(t, tools, NextIndex(i))
      /\ \E m \in ToolsIn(t, Len(t)) : t[m].index = tool.index /\ t[m].item = i
  BY AnnouncementFollows
<1>2. /\ toolItems' = tools /\ nextToolIndex' = NextIndex(i) /\ started' = TRUE
      /\ stopped' = stopped /\ Emits(Start \o head \o chunks)
  BY DEF TakesArguments
<1>3. tool.index \in Nat
  <2>1. /\ nextToolIndex \in Nat
        /\ toolItems[i] # NoTool => toolItems[i].index \in Nat
    BY StreamAssumption DEF OpenAITypeOK
  <2> QED BY <2>1 DEF ToolAt, Tool
<1> HIDE DEF head, tools, tool
<1>4. chunks \in Seq(DeltaChunks)
      /\ \A n \in 1..Len(chunks) : chunks[n].index = tool.index /\ chunks[n].content.item = i
  <2>1. chunks \in Seq(DeltasOf("arguments", tool.index, i))
    BY PieceChunksType
  <2>2. "arguments" \in {"content", "arguments", "reasoning_content"}
    OBVIOUS
  <2> HIDE DEF chunks
  <2> QED BY ONLY <1>3, <2>1, <2>2, i \in Items, DeltasOfType
<1>5. Start \in Seq(Chunks) /\ sent \in Seq(Chunks)
  BY StartGoes
<1> HIDE DEF chunks
<1>6. Start \o head \o chunks \in Seq(Chunks)
      /\ sent \o (Start \o head \o chunks) = t \o chunks
  <2>1. chunks \in Seq(Chunks)
    BY <1>4, DeltasAreChunks, Zenon
  <2>2. head \in Seq(Chunks)
    BY <1>1
  <2> DEFINE both == Start \o head
  <2>3. both \in Seq(Chunks) /\ sent \o both = t
    BY <1>5, <2>2, JoinChunks
  <2> HIDE DEF both, t
  <2>4. both \o chunks \in Seq(Chunks) /\ sent \o (both \o chunks) = (sent \o both) \o chunks
    <3>1. sent \in Seq(Chunks) /\ both \in Seq(Chunks) /\ chunks \in Seq(Chunks)
      BY <1>5, <2>1, <2>3
    <3> QED BY <3>1, JoinChunks
  <2> QED BY <2>3, <2>4 DEF both
<1> HIDE DEF t
<1>8. /\ Going(t \o chunks) /\ \A n \in 1..Len(t) : (t \o chunks)[n] = t[n]
      /\ ToolsIn(t \o chunks, Len(t \o chunks)) = ToolsIn(t, Len(t))
  BY <1>1, <1>4, PiecesFollow
<1>9. HeadsTold(t \o chunks, tools, NextIndex(i))
  BY <1>1, <1>8, HeadsKept
<1>10. /\ frame' = NoFrame /\ output' \in {output, "failed"} /\ LegalChat(sent')
       /\ output' = "open" => sent' = t \o chunks
       /\ output' # "open" => \A n \in 1..Len(sent') : sent'[n].type # "finish"
  <2>1. LegalChat(sent \o (Start \o head \o chunks))
    BY <1>6, <1>8 DEF Going
  <2> QED BY <1>2, <1>5, <1>6, <2>1, EmitsLegal
<1>11. output' = "open" => HeadsTold(sent', toolItems', nextToolIndex')
  BY <1>2, <1>9, <1>10
<1>12. /\ output' = "open" => sent' # <<>>
       /\ \A n \in 1..Len(sent') : sent'[n].type # "finish"
  BY <1>8, <1>10 DEF Going
<1> QED BY <1>2, <1>10, <1>11, <1>12 DEF ChatInv

-----------------------------------------------------------------------------
(* Each frame. *)

(* The pump has something in hand, so its output is open; and nothing but  *)
(* [DONE] follows the finish chunk.                                        *)
LEMMA InHand ==
  ASSUME OpenAIInv, frame.type # "none"
  PROVE  output = "open" /\ (frame.type # "[DONE]" => ~stopped)
BY DEF OpenAIInv, StreamInv, StopInv, NoFrame

(* What a step that handles a frame keeps, whatever the frame. *)
Kept ==
  /\ ChatInv' /\ IndexInv'
  /\ frame' = NoFrame /\ output' \in {output, "failed"}
  /\ frame.type \in Failures => output' = "failed"
  /\ frame.type = "[DONE]" /\ upstream = "cut" => output' = "failed"
  /\ stopped' => stopped \/ frame.type \in Terminals
  /\ started' \in BOOLEAN /\ stopped' \in BOOLEAN /\ hasToolCalls' \in BOOLEAN
  /\ nextToolIndex' \in 0..NumItems
  /\ toolItems' \in [Items -> {NoTool} \cup
       [index : 0..(NumItems - 1), announced : BOOLEAN, sawDelta : BOOLEAN]]

LEMMA PassesKept ==
  ASSUME OpenAIInv, frame.type \in EventTypes \cup {"response.created"},
         NEW out \in Seq(DeltaChunks), \A n \in 1..Len(out) : out[n].field # "arguments",
         Passes(out)
  PROVE  Kept
<1>1. output = "open" /\ ~stopped
  BY InHand DEF EventTypes
<1>2. ChatInv' /\ frame' = NoFrame /\ output' \in {output, "failed"}
  BY <1>1, PassesChat DEF OpenAIInv
<1>3. IndexInv'
  BY DEF OpenAIInv, IndexInv, Known, Passes
<1> QED
  BY <1>1, <1>2, <1>3 DEF Kept, OpenAIInv, OpenAITypeOK, Passes, EventTypes, Failures, Terminals

LEMMA TakesArgumentsKept ==
  ASSUME OpenAIInv, frame.type \in EventTypes, NEW pieces \in Seq(PiecesOf(frame.item)),
         TakesArguments(pieces)
  PROVE  Kept
<1>1. output = "open" /\ ~stopped /\ frame.item \in Items
  BY InHand, EventInHand DEF EventTypes, OpenAIInv, StreamInv
<1>2. ChatInv' /\ frame' = NoFrame /\ output' \in {output, "failed"}
  BY <1>1, TakesArgumentsChat DEF OpenAIInv
<1>3. IndexInv' /\ nextToolIndex' \in 0..NumItems
      /\ toolItems' \in [Items -> {NoTool} \cup
           [index : 0..(NumItems - 1), announced : BOOLEAN, sawDelta : BOOLEAN]]
  BY <1>1, TakesArgumentsIndex DEF OpenAIInv
<1>4. started' = TRUE /\ hasToolCalls' = TRUE /\ stopped' = stopped /\ stopped \in BOOLEAN
  BY DEF TakesArguments, OpenAIInv, OpenAITypeOK
<1>5. frame.type \notin Failures /\ frame.type # "[DONE]"
  BY DEF EventTypes, Failures
<1> QED
  BY <1>2, <1>3, <1>4, <1>5 DEF Kept

(* The frames that are not of a tool call. *)
LEMMA PiecesPassKept ==
  ASSUME OpenAIInv, frame.type \in EventTypes, NEW field \in {"content", "reasoning_content"},
         NEW pieces \in Seq(PiecesOf(frame.item)), Passes(PieceChunks(field, 0, pieces))
  PROVE  Kept
<1>1. frame.item \in Items
  BY EventInHand DEF OpenAIInv, StreamInv
<1> DEFINE out == PieceChunks(field, 0, pieces)
           item == frame.item
<1>2. out \in Seq(DeltasOf(field, 0, item))
  BY <1>1, PieceChunksType
<1> HIDE DEF out, item
<1>3. item \in Items
  BY <1>1 DEF item
<1>4. out \in Seq(DeltaChunks) /\ \A n \in 1..Len(out) : out[n].field = field
  BY <1>2, <1>3, DeltasOfType
<1> QED BY <1>4, PassesKept DEF out

LEMMA NothingPassesKept ==
  ASSUME OpenAIInv, frame.type \in EventTypes \cup {"response.created"}, Passes(<<>>)
  PROVE  Kept
<1> DEFINE out == <<>>
<1>1. out \in Seq(DeltaChunks) /\ 1..Len(out) = {}
  OBVIOUS
<1> HIDE DEF out
<1>2. \A n \in 1..Len(out) : out[n].field # "arguments"
  BY <1>1
<1>3. Passes(out)
  BY DEF out
<1> QED BY <1>1, <1>2, <1>3, PassesKept

LEMMA OtherKept ==
  ASSUME OpenAIInv, OnOther
  PROVE  Kept
BY NothingPassesKept DEF OnOther, EventTypes

LEMMA PartAddedKept ==
  ASSUME OpenAIInv, OnPartAdded
  PROVE  Kept
BY EventInHand, PiecesPassKept DEF OnPartAdded, EventTypes, OpenAIInv, StreamInv

LEMMA TextKept ==
  ASSUME OpenAIInv, OnText
  PROVE  Kept
BY EventInHand, PiecesPassKept DEF OnText, EventTypes, OpenAIInv, StreamInv

LEMMA ReasoningKept ==
  ASSUME OpenAIInv, OnReasoning
  PROVE  Kept
BY EventInHand, PiecesPassKept DEF OnReasoning, EventTypes, OpenAIInv, StreamInv

LEMMA ReasoningDoneKept ==
  ASSUME OpenAIInv, OnReasoningDone
  PROVE  Kept
<1>1. frame.type \in EventTypes
  BY DEF OnReasoningDone, EventTypes
<1>2. frame.pieces \in Seq(PiecesOf(frame.item))
  BY <1>1, EventInHand DEF OpenAIInv, StreamInv
<1>3. CASE ~toolItems[frame.item].sawDelta
  <2>1. Trimmed(frame.pieces) \in Seq(PiecesOf(frame.item))
    BY <1>2, TrimmedType
  <2>2. Passes(PieceChunks("reasoning_content", 0, Trimmed(frame.pieces)))
    BY <1>3 DEF OnReasoningDone
  <2> QED BY <1>1, <2>1, <2>2, PiecesPassKept
<1>4. CASE toolItems[frame.item].sawDelta
  BY <1>1, <1>4, NothingPassesKept DEF OnReasoningDone
<1> QED BY <1>3, <1>4

(* The frames of a tool call. *)
LEMMA ToolKept ==
  ASSUME OpenAIInv, OnToolAdded \/ OnArguments \/ OnToolDone
  PROVE  Kept
<1>1. frame.type \in EventTypes
  BY DEF OnToolAdded, OnArguments, OnToolDone, EventTypes
<1>2. frame.pieces \in Seq(PiecesOf(frame.item)) /\ <<>> \in Seq(PiecesOf(frame.item))
  BY <1>1, EventInHand DEF OpenAIInv, StreamInv
<1>3. \/ TakesArguments(<<>>)
      \/ TakesArguments(frame.pieces)
  BY DEF OnToolAdded, OnArguments, OnToolDone
<1> QED BY <1>1, <1>2, <1>3, TakesArgumentsKept

(* The endpoint's end makes the finish chunk. *)
LEMMA TerminalKept ==
  ASSUME OpenAIInv, OnTerminal
  PROVE  Kept
<1> DEFINE finish == FinishChunk(FinishReason(frame.reason, hasToolCalls))
           s == sent \o Start
<1>1. output = "open" /\ ~stopped /\ ChatInv
  BY InHand DEF OnTerminal, OpenAIInv
<1>2. /\ Start \in Seq(Chunks) /\ sent \in Seq(Chunks) /\ Going(s)
      /\ HeadsTold(s, toolItems, nextToolIndex)
  BY <1>1, StartGoes
<1>3. finish \in FinishChunks /\ <<finish>> \in Seq(Chunks)
  BY DEF FinishChunk, FinishReason, FinishChunks, Chunks
<1>4. /\ Emits(Start \o <<finish>>) /\ started' = TRUE /\ stopped' = TRUE
      /\ UNCHANGED <<nextToolIndex, hasToolCalls, toolItems>> /\ frame.type \in Terminals
  BY DEF OnTerminal, Terminals
<1> HIDE DEF finish
<1>5. Start \o <<finish>> \in Seq(Chunks) /\ sent \o (Start \o <<finish>>) = s \o <<finish>>
  <2>1. sent \in Seq(Chunks) /\ Start \in Seq(Chunks) /\ <<finish>> \in Seq(Chunks)
    BY <1>2, <1>3
  <2> QED BY <2>1, JoinChunks
<1> HIDE DEF s
<1>6. /\ LegalChat(s \o <<finish>>) /\ s \o <<finish>> # <<>>
      /\ ToolsIn(s \o <<finish>>, Len(s \o <<finish>>)) = ToolsIn(s, Len(s))
      /\ \A n \in 1..Len(s) : (s \o <<finish>>)[n] = s[n]
  BY <1>2, <1>3, FinishFollows
<1>7. HeadsTold(s \o <<finish>>, toolItems, nextToolIndex)
  BY <1>2, <1>6, HeadsKept
<1>8. /\ frame' = NoFrame /\ output' \in {output, "failed"} /\ LegalChat(sent')
      /\ output' = "open" => sent' = s \o <<finish>>
  <2>1. LegalChat(sent \o (Start \o <<finish>>))
    BY <1>5, <1>6
  <2> QED BY <1>1, <1>2, <1>4, <1>5, <2>1, EmitsLegal
<1>9. ChatInv'
  <2>1. output' = "open" => HeadsTold(sent', toolItems', nextToolIndex')
    BY <1>4, <1>7, <1>8
  <2> QED BY <1>4, <1>6, <1>8, <2>1 DEF ChatInv
<1>10. IndexInv'
  BY <1>4 DEF OpenAIInv, IndexInv, Known
<1>11. frame.type \notin Failures /\ frame.type # "[DONE]"
  BY <1>4 DEF Failures, Terminals
<1> QED BY <1>4, <1>8, <1>9, <1>10, <1>11 DEF Kept, OpenAIInv, OpenAITypeOK

(* Nothing is sent, and the bridge stays as it is. *)
LEMMA SilentChat ==
  ASSUME ChatInv, IndexInv, UNCHANGED <<sent, bridgeVars>>, output' \in {output, "failed"}
  PROVE  ChatInv' /\ IndexInv'
BY DEF ChatInv, IndexInv, Known, bridgeVars

(* A failed answer, or [DONE] before its end, fails the output. *)
LEMMA FailureKept ==
  ASSUME OpenAIInv, OnFailure
  PROVE  Kept
<1>1. /\ frame' = NoFrame /\ output' = "failed" /\ UNCHANGED <<sent, bridgeVars>>
  BY DEF OnFailure, TranslationFails, ClosesOutput
<1>2. ChatInv' /\ IndexInv'
  BY <1>1, SilentChat DEF OpenAIInv
<1> QED BY <1>1, <1>2 DEF Kept, OpenAIInv, OpenAITypeOK, bridgeVars

LEMMA DoneKept ==
  ASSUME OpenAIInv, OnDone
  PROVE  Kept
<1>1. sent \in Seq(Chunks) /\ frame.type = "[DONE]" /\ UNCHANGED bridgeVars /\ output = "open"
  BY InHand DEF OnDone, OpenAIInv, ChatInv, LegalChat
<1>2. /\ frame' = NoFrame /\ output' \in {output, "failed"} /\ sent' = sent
      /\ ~stopped => output' = "failed"
  <2>1. CASE stopped
    <3>1. Emits(<<>>)
      BY <2>1 DEF OnDone
    <3>2. sent \o <<>> = sent
      BY <1>1, ConcatEmptySeq
    <3>3. 0..(Len(<<>>) - 1) = {}
      OBVIOUS
    <3> QED BY <2>1, <3>1, <3>2, <3>3 DEF Emits
  <2>2. CASE ~stopped
    BY <2>2 DEF OnDone, TranslationFails, ClosesOutput
  <2> QED BY <2>1, <2>2
<1>3. ChatInv' /\ IndexInv'
  BY <1>1, <1>2, SilentChat DEF OpenAIInv
<1>4. upstream = "cut" => ~stopped
  BY DEF OpenAIInv, StopInv, Terminated, Limits
<1>5. frame.type \notin Failures
  BY <1>1 DEF Failures
<1> QED BY <1>1, <1>2, <1>3, <1>4, <1>5 DEF Kept, OpenAIInv, OpenAITypeOK, bridgeVars

-----------------------------------------------------------------------------
(* Each step. *)

LEMMA TranslatesKept ==
  ASSUME OpenAIInv, Translates
  PROVE  Kept /\ frame.type # "none" /\ UNCHANGED <<upstream, items>>
<1>1. frame.type # "none" /\ UNCHANGED <<upstream, items>>
  BY DEF Translates, OnOther, OnToolAdded, OnPartAdded, OnText, OnReasoning, OnArguments,
     OnReasoningDone, OnToolDone, OnTerminal, OnFailure, OnDone
<1> QED
  BY <1>1, OtherKept, PartAddedKept, TextKept, ReasoningKept, ReasoningDoneKept, ToolKept,
     TerminalKept, FailureKept, DoneKept DEF Translates

LEMMA TranslatesInv ==
  ASSUME OpenAIInv, Translates
  PROVE  OpenAIInv'
<1>1. Kept /\ UNCHANGED <<upstream, items>> /\ output = "open"
  BY TranslatesKept, InHand
<1>2. StreamInv'
  BY <1>1, FrameFinished DEF OpenAIInv, Kept
<1>3. StopInv'
  BY <1>1 DEF OpenAIInv, StreamInv, StopInv, FrameFits, Kept, Terminated, Terminals, IsEvent,
     EventTypes, NoFrame
<1> QED BY <1>1, <1>2, <1>3 DEF OpenAIInv, OpenAITypeOK, StreamInv, Kept

LEMMA UpstreamInv ==
  ASSUME OpenAIInv, UpstreamNext \/ UpstreamEnds \/ ReadFails, UNCHANGED bridgeVars
  PROVE  OpenAIInv'
<1>1. /\ StreamInv' /\ UNCHANGED sent /\ output' \in {output, "ended", "failed"}
      /\ stopped => Terminated' /\ (frame' = NoFrame \/ frame'.type = "[DONE]")
  <2>1. CASE UpstreamNext
    BY <2>1, UpstreamTells DEF OpenAIInv, StopInv
  <2>2. CASE UpstreamEnds \/ ReadFails
    BY <2>2, PumpStops DEF OpenAIInv, StopInv, Terminated, StreamInv, StreamTypeOK, PumpTypeOK
  <2> QED BY <2>1, <2>2
<1>2. ChatInv' /\ IndexInv'
  BY <1>1 DEF OpenAIInv, ChatInv, IndexInv, Known, bridgeVars
<1>3. StopInv'
  BY <1>1 DEF StopInv, bridgeVars
<1> QED BY <1>1, <1>2, <1>3 DEF OpenAIInv, OpenAITypeOK, StreamInv, bridgeVars

LEMMA StutterInv ==
  ASSUME OpenAIInv, UNCHANGED openAIVars
  PROVE  OpenAIInv'
<1>1. /\ upstream' = upstream /\ items' = items /\ frame' = frame /\ sent' = sent
      /\ output' = output /\ UNCHANGED bridgeVars
  BY DEF openAIVars, streamVars
<1>2. StreamInv'
  BY <1>1 DEF OpenAIInv, StreamInv, ItemsOK, StreamTypeOK, PumpTypeOK, FrameFits, IsEvent,
     IsWhole, BadNewsHeld, Running, Terminated
<1>3. OpenAITypeOK' /\ StopInv'
  BY <1>1, <1>2 DEF OpenAIInv, StreamInv, OpenAITypeOK, StopInv, Terminated, bridgeVars
<1>4. IndexInv' /\ ChatInv'
  BY <1>1 DEF OpenAIInv, IndexInv, Known, ChatInv, bridgeVars
<1> QED BY <1>2, <1>3, <1>4 DEF OpenAIInv

LEMMA OpenAIInvHolds ==
  OpenAISpec => []OpenAIInv
<1>1. ASSUME OpenAIInv, [OpenAINext]_openAIVars PROVE OpenAIInv'
  BY <1>1, TranslatesInv, UpstreamInv, StutterInv DEF OpenAINext, Returned
<1> QED BY <1>1, InitInv, PTL DEF OpenAISpec

-----------------------------------------------------------------------------
(* Every answer once.  While the pump runs, the map knows of a tool call   *)
(* whose arguments may still come whole whether the client has some of     *)
(* them, and it has no other item.                                         *)

Heard(i) == toolItems[i].sawDelta
HeardInv ==
  output = "open" =>
    \A i \in Items : Active(i) =>
      /\ items[i].kind # "tool" => ~Heard(i)
      /\ items[i].kind \in {"none", "tool"} => (Heard(i) <=> Got(sent, Len(sent), i) # {})

OpenAIPieces == PiecesInv(TRUE) /\ HeardInv

LEMMA OpenStart ==
  ASSUME OpenAIInv
  PROVE  sent \in Seq(Chunks) /\ Start \in Seq(Chunks) /\ Quiet(Start)
<1>1. sent \in Seq(Chunks)
  BY DEF OpenAIInv, ChatInv, LegalChat
<1>2. RoleChunk \in Chunks /\ RoleChunk.type # "delta"
  BY DEF RoleChunk, Chunks
<1>3. <<RoleChunk>> \in Seq(Chunks) /\ Quiet(<<RoleChunk>>)
  BY <1>2, FrameQuiet
<1> QED BY <1>1, <1>3, NoneQuiet DEF Start

(* A frame of the whole response sends no piece. *)
LEMMA QuietPieces ==
  ASSUME OpenAIInv, OpenAIPieces, output = "open", frame.type \notin EventTypes,
         NEW out \in Seq(Chunks), Quiet(out), Emits(out), UNCHANGED <<items, toolItems>>
  PROVE  OpenAIPieces'
<1>1. sent \in Seq(Chunks)
  BY OpenStart
<1>2. \A i \in Items : Full(sent \o out, i, TRUE)
  BY <1>1, QuietFull DEF OpenAIPieces
<1>3. PiecesInv(TRUE)'
  BY <1>1, <1>2, PumpedPieces
<1>4. HeardInv'
  <2> SUFFICES ASSUME output' = "open", NEW i \in Items, Active(i)'
               PROVE  /\ items[i].kind # "tool" => ~Heard(i)
                      /\ items[i].kind \in {"none", "tool"} =>
                           (Heard(i) <=> Got(sent', Len(sent'), i) # {})
    BY DEF HeardInv, Heard
  <2>1. frame' = NoFrame /\ sent' = sent \o out
    BY <1>1, EmitsPrefix
  <2>2. Active(i)
    BY <2>1 DEF Active, Pending, NoFrame, EventTypes
  <2>3. Got(sent', Len(sent'), i) = Got(sent, Len(sent), i)
    BY <1>1, <2>1, GotQuiet
  <2> QED BY <2>2, <2>3 DEF OpenAIPieces, HeardInv
<1> QED BY <1>3, <1>4 DEF OpenAIPieces

(* A frame of an item sends pieces of it, and a call of the map is known   *)
(* to have some afterwards.                                                *)
HeardNext(i, more) ==
  /\ \A j \in Items : j # i => toolItems'[j] = toolItems[j]
  /\ toolItems'[i] = toolItems[i] \/ items[i].kind = "tool"
  /\ items[i].kind = "tool" => (Heard(i)' <=> Heard(i) \/ more # <<>>)

LEMMA ItemPieces ==
  ASSUME OpenAIInv, OpenAIPieces, output = "open", frame.type \in EventTypes, UNCHANGED items,
         NEW i, i = frame.item, NEW more \in Seq(PiecesOf(i)), FitsHand(more, TRUE),
         NEW out \in Seq(Chunks), Brings(Chunks, out, more), Emits(out),
         HeardNext(i, more), items[i].kind # "none"
  PROVE  OpenAIPieces'
<1>1. sent \in Seq(Chunks) /\ ItemsOK /\ FrameFits /\ i \in Items
  BY OpenStart, EventInHand DEF OpenAIInv, StreamInv
<1>2. \A j \in Items : Full(sent \o out, j, TRUE)
  BY <1>1, AllFull DEF OpenAIPieces
<1>3. PiecesInv(TRUE)'
  BY <1>1, <1>2, PumpedPieces
<1>4. HeardInv'
  <2> SUFFICES ASSUME output' = "open", NEW j \in Items, Active(j)'
               PROVE  /\ items[j].kind # "tool" => ~Heard(j)'
                      /\ items[j].kind \in {"none", "tool"} =>
                           (Heard(j)' <=> Got(sent', Len(sent'), j) # {})
    BY DEF HeardInv, Heard
  <2>1. frame' = NoFrame /\ sent' = sent \o out
    BY <1>1, EmitsPrefix
  <2>2. Active(j)
    BY <2>1 DEF Active, Pending, NoFrame, EventTypes
  <2>3. /\ items[j].kind # "tool" => ~Heard(j)
        /\ items[j].kind \in {"none", "tool"} => (Heard(j) <=> Got(sent, Len(sent), j) # {})
    BY <2>2 DEF OpenAIPieces, HeardInv
  <2>4. Got(sent', Len(sent'), j)
          = Got(sent, Len(sent), j) \cup (IF j = i THEN Leading(more, Len(more)) ELSE {})
    BY <1>1, <2>1, GotBrought
  <2>5. CASE j = i
    <3>1. Leading(more, Len(more)) = {} <=> more = <<>>
      BY NothingLeading
    <3>2. items[i].kind # "tool" => (Heard(i)' <=> Heard(i))
      BY DEF HeardNext, Heard
    <3>3. items[i].kind = "tool" => (Heard(i)' <=> Heard(i) \/ more # <<>>)
      BY DEF HeardNext
    <3> QED BY <2>3, <2>4, <2>5, <3>1, <3>2, <3>3
  <2>6. CASE j # i
    BY <2>3, <2>4, <2>6 DEF HeardNext, Heard
  <2> QED BY <2>5, <2>6
<1> QED BY <1>3, <1>4 DEF OpenAIPieces

(* Some chunks without a piece, and those of the pieces. *)
LEMMA ChunksBring ==
  ASSUME NEW front \in Seq(Chunks), Quiet(front), NEW i \in Items,
         NEW pieces \in Seq(PiecesOf(i)), NEW index \in Nat,
         NEW field \in {"content", "arguments", "reasoning_content"}
  PROVE  /\ front \o PieceChunks(field, index, pieces) \in Seq(Chunks)
         /\ Brings(Chunks, front \o PieceChunks(field, index, pieces), pieces)
<1>1. PieceChunks(field, index, pieces) \in Seq(DeltaChunks)
  <2> DEFINE chunks == PieceChunks(field, index, pieces)
  <2>1. chunks \in Seq(DeltasOf(field, index, i))
    BY PieceChunksType
  <2> HIDE DEF chunks
  <2>2. chunks \in Seq(DeltaChunks)
    BY <2>1, DeltasOfType
  <2> QED BY <2>2 DEF chunks
<1>2. Len(pieces) \in Nat
  BY LenProperties
<1>3. /\ Len(PieceChunks(field, index, pieces)) = Len(pieces)
      /\ \A n \in 1..Len(pieces) :
           /\ PieceChunks(field, index, pieces)[n].type = "delta"
           /\ PieceChunks(field, index, pieces)[n].content = pieces[n]
  BY <1>2 DEF PieceChunks, PieceChunk
<1>4. PICK run \in Seq(Chunks) : run = PieceChunks(field, index, pieces)
  BY <1>1, DeltasAreChunks
<1>5. front \o run \in Seq(Chunks)
  BY ConcatProperties
<1>6. PICK rear \in Seq(Chunks) : rear = <<>> /\ Quiet(rear)
  BY NoneQuiet
<1>7. front \o run = (front \o run) \o rear
  BY <1>5, <1>6, ConcatEmptySeq
<1>8. /\ Len(run) = Len(pieces)
      /\ \A n \in 1..Len(run) : run[n].type = "delta" /\ run[n].content = pieces[n]
  BY <1>3, <1>4
<1>9. Brings(Chunks, front \o run, pieces)
  BY <1>6, <1>7, <1>8 DEF Brings
<1> QED BY <1>4, <1>5, <1>9

(* What the frame of an item comes with. *)
LEMMA HandIs ==
  ASSUME OpenAIInv, OpenAIPieces, frame.type \in EventTypes, NEW i, i = frame.item
  PROVE  /\ i \in Items /\ output = "open" /\ FrameGives(i)
         /\ frame.kind \in Kinds /\ items[i].kind = frame.kind
         /\ frame.pieces \in Seq(PiecesOf(i))
         /\ frame.kind # "tool" => ~Heard(i)
         /\ frame.kind = "tool" => (Heard(i) <=> Got(sent, Len(sent), i) # {})
<1>1. frame.type # "none"
  BY DEF EventTypes
<1>2. /\ i \in Items /\ Pending(i) /\ output = "open" /\ Active(i)
      /\ frame.kind \in Kinds /\ frame.pieces \in Seq(PiecesOf(i))
  BY <1>1, EventInHand, InHand DEF OpenAIInv, StreamInv, Pending, Active
<1>3. PieceInv(i, TRUE)
  BY <1>2 DEF OpenAIPieces, PiecesInv
<1>4. FrameGives(i)
  BY <1>2, <1>3 DEF PieceInv
<1>5. items[i].kind = frame.kind
  BY <1>4 DEF FrameGives
<1> QED BY <1>2, <1>4, <1>5 DEF OpenAIPieces, HeardInv

(* The frames that are not of a tool call. *)
LEMMA PassPieces ==
  ASSUME OpenAIInv, OpenAIPieces, frame.type \in EventTypes, UNCHANGED items,
         NEW field \in {"content", "reasoning_content"}, NEW i, i = frame.item,
         NEW pieces \in Seq(PiecesOf(i)), Passes(PieceChunks(field, 0, pieces)),
         FitsHand(pieces, TRUE), frame.kind # "tool"
  PROVE  OpenAIPieces'
<1>1. /\ i \in Items /\ output = "open" /\ items[i].kind = frame.kind
      /\ frame.kind \in Kinds
  BY HandIs
<1>2. /\ Start \o PieceChunks(field, 0, pieces) \in Seq(Chunks)
      /\ Brings(Chunks, Start \o PieceChunks(field, 0, pieces), pieces)
  BY <1>1, OpenStart, ChunksBring
<1>3. PICK out \in Seq(Chunks) :
        out = Start \o PieceChunks(field, 0, pieces) /\ Brings(Chunks, out, pieces)
  BY <1>2
<1>4. Emits(out) /\ toolItems' = toolItems
  BY <1>3 DEF Passes
<1>5. HeardNext(i, pieces) /\ items[i].kind # "none"
  BY <1>1, <1>4 DEF HeardNext, Kinds
<1> QED BY <1>1, <1>3, <1>4, <1>5, ItemPieces

LEMMA NothingPasses ==
  ASSUME OpenAIInv, OpenAIPieces, frame.type \in EventTypes, UNCHANGED items, Passes(<<>>),
         frame.kind # "tool", FitsHand(<<>>, TRUE)
  PROVE  OpenAIPieces'
<1>1. PICK i : i = frame.item
  OBVIOUS
<1>2. PICK none \in Seq(PiecesOf(i)) : none = <<>>
  BY NoneQuiet
<1>3. PieceChunks("content", 0, none) = <<>>
  BY <1>2 DEF PieceChunks
<1>4. Passes(PieceChunks("content", 0, none)) /\ FitsHand(none, TRUE)
  BY <1>2, <1>3
<1> QED BY <1>1, <1>4, PassPieces

(* The frames of a tool call. *)
LEMMA TakesPieces ==
  ASSUME OpenAIInv, OpenAIPieces, frame.type \in EventTypes, UNCHANGED items,
         NEW i, i = frame.item, NEW pieces \in Seq(PiecesOf(i)), TakesArguments(pieces),
         FitsHand(pieces, TRUE), frame.kind = "tool"
  PROVE  OpenAIPieces'
<1> DEFINE tool == ToolAt(i)
           head == Announcement(tool, i)
<1>1. /\ i \in Items /\ output = "open" /\ items[i].kind = "tool"
      /\ frame.type # "none" /\ frame.type # "[DONE]"
  BY HandIs DEF EventTypes
<1>2. head \in Seq(Chunks) /\ tool.index \in Nat
  <2>1. /\ nextToolIndex \in Nat
        /\ toolItems[i] # NoTool => toolItems[i].index \in Nat
    BY <1>1, StreamAssumption DEF OpenAIInv, OpenAITypeOK
  <2>2. tool.index \in Nat
    BY <2>1 DEF ToolAt, Tool
  <2> HIDE DEF tool
  <2>3. ToolChunk(tool.index, i) \in Chunks
    BY <1>1, <2>2 DEF ToolChunk, Chunks, ToolChunks
  <2> QED BY <2>2, <2>3 DEF Announcement
<1>3. Quiet(head)
  <2>1. ToolChunk(tool.index, i).type # "delta"
    BY DEF ToolChunk
  <2>2. CASE head = <<>>
    BY <2>2, NoneQuiet
  <2>3. CASE head = <<ToolChunk(tool.index, i)>>
    <3> HIDE DEF tool
    <3>1. Len(head) = 1 /\ head[1] = ToolChunk(tool.index, i) /\ 1..Len(head) = {1}
      BY <2>3
    <3> QED BY <2>1, <3>1 DEF Quiet
  <2> QED BY <2>2, <2>3 DEF Announcement
<1>4. /\ toolItems' = [toolItems EXCEPT ![i] =
           Tool(tool.index, TRUE, SawDelta(tool, pieces))]
      /\ Emits(Start \o head \o PieceChunks("arguments", tool.index, pieces))
  BY DEF TakesArguments
<1>5. tool.sawDelta <=> Heard(i)
  BY DEF ToolAt, NoTool, Tool, Heard
<1> HIDE DEF tool, head
<1>6. Start \o head \in Seq(Chunks) /\ Quiet(Start \o head)
  BY <1>2, <1>3, OpenStart, QuietTwo, ConcatProperties
<1>7. PICK front \in Seq(Chunks), index \in Nat : front = Start \o head /\ index = tool.index
  BY <1>2, <1>6
<1>8. /\ front \o PieceChunks("arguments", index, pieces) \in Seq(Chunks)
      /\ Brings(Chunks, front \o PieceChunks("arguments", index, pieces), pieces)
  BY <1>1, <1>6, <1>7, ChunksBring
<1>9. PICK out \in Seq(Chunks) :
        /\ out = front \o PieceChunks("arguments", index, pieces)
        /\ Brings(Chunks, out, pieces)
  BY <1>8
<1>10. Emits(out)
  BY <1>4, <1>7, <1>9
<1>11. HeardNext(i, pieces)
  <2>1. /\ \A j \in Items : j # i => toolItems'[j] = toolItems[j]
        /\ toolItems'[i] = Tool(tool.index, TRUE, SawDelta(tool, pieces))
    BY <1>1, <1>4 DEF OpenAIInv, OpenAITypeOK
  <2>2. Tool(tool.index, TRUE, SawDelta(tool, pieces)).sawDelta
          <=> tool.sawDelta \/ pieces # <<>>
    BY DEF Tool, SawDelta
  <2> QED BY <1>1, <1>5, <2>1, <2>2 DEF HeardNext, Heard
<1> QED BY <1>1, <1>9, <1>10, <1>11, ItemPieces

LEMMA OtherPieces ==
  ASSUME OpenAIInv, OpenAIPieces, OnOther, UNCHANGED items
  PROVE  OpenAIPieces'
<1>1. Passes(<<>>)
  BY DEF OnOther
<1>2. CASE frame.type = "response.created"
  <2>1. frame.type \notin EventTypes /\ frame.type # "none"
    BY <1>2 DEF EventTypes
  <2>2. output = "open"
    BY <2>1, InHand
  <2>3. Start \o <<>> = Start
    BY OpenStart, ConcatEmptySeq
  <2>4. PICK out \in Seq(Chunks) : out = Start /\ Quiet(out)
    BY OpenStart
  <2>5. Emits(out) /\ toolItems' = toolItems
    BY <1>1, <2>3, <2>4 DEF Passes
  <2> QED BY <2>1, <2>2, <2>4, <2>5, QuietPieces
<1>3. CASE frame.type # "response.created"
  <2>1. frame.type \in EventTypes
    BY <1>3 DEF OnOther, EventTypes
  <2>2. frame.kind # "tool" /\ FitsHand(<<>>, TRUE)
    <3>1. frame.type = "content_part.done" => frame.kind = "message"
      BY <2>1, HandIs DEF FrameGives
    <3> QED BY <1>3, <3>1 DEF OnOther, FitsHand
  <2> QED BY <1>1, <2>1, <2>2, NothingPasses
<1> QED BY <1>2, <1>3

LEMMA ContentPieces ==
  ASSUME OpenAIInv, OpenAIPieces, OnPartAdded \/ OnText \/ OnReasoning, UNCHANGED items
  PROVE  OpenAIPieces'
<1>1. PICK i : i = frame.item
  OBVIOUS
<1>2. frame.type \in {"content_part.added", "delta"} /\ frame.type \in EventTypes
  BY DEF OnPartAdded, OnText, OnReasoning, EventTypes
<1>3. frame.pieces \in Seq(PiecesOf(i)) /\ frame.kind # "tool"
  BY <1>1, <1>2, HandIs DEF FrameGives, OnPartAdded, OnText, OnReasoning
<1>4. PICK pieces \in Seq(PiecesOf(i)) : pieces = frame.pieces
  BY <1>3
<1>5. FitsHand(pieces, TRUE)
  BY <1>2, <1>4 DEF FitsHand
<1>6. \/ Passes(PieceChunks("content", 0, pieces))
      \/ Passes(PieceChunks("reasoning_content", 0, pieces))
  BY <1>4 DEF OnPartAdded, OnText, OnReasoning
<1> QED BY <1>1, <1>2, <1>3, <1>5, <1>6, PassPieces

(* The reasoning text comes whole, whether or not it has come before.      *)
LEMMA ReasoningDonePieces ==
  ASSUME OpenAIInv, OpenAIPieces, OnReasoningDone, UNCHANGED items
  PROVE  OpenAIPieces'
<1>1. PICK i : i = frame.item
  OBVIOUS
<1>2. /\ frame.type = "output_item.done" /\ frame.type \in EventTypes
      /\ frame.kind = "reasoning"
  BY DEF OnReasoningDone, EventTypes
<1>3. frame.pieces \in Seq(PiecesOf(i)) /\ ~toolItems[i].sawDelta
  BY <1>1, <1>2, HandIs DEF Heard
<1>4. PICK pieces \in Seq(PiecesOf(i)) : pieces = Trimmed(frame.pieces)
  BY <1>3, TrimmedType
<1>5. FitsHand(pieces, TRUE)
  BY <1>2, <1>4 DEF FitsHand
<1>6. Passes(PieceChunks("reasoning_content", 0, pieces))
  BY <1>1, <1>3, <1>4 DEF OnReasoningDone
<1> QED BY <1>1, <1>2, <1>5, <1>6, PassPieces

LEMMA ToolPieces ==
  ASSUME OpenAIInv, OpenAIPieces, OnToolAdded \/ OnArguments \/ OnToolDone, UNCHANGED items
  PROVE  OpenAIPieces'
<1>1. PICK i : i = frame.item
  OBVIOUS
<1>2. frame.type \in EventTypes /\ frame.kind = "tool"
  BY DEF OnToolAdded, OnArguments, OnToolDone, EventTypes
<1>3. /\ frame.pieces \in Seq(PiecesOf(i)) /\ <<>> \in Seq(PiecesOf(i))
      /\ Heard(i) <=> Got(sent, Len(sent), i) # {}
  BY <1>1, <1>2, HandIs, NoneQuiet
<1>4. PICK none \in Seq(PiecesOf(i)), all \in Seq(PiecesOf(i)) :
        none = <<>> /\ all = frame.pieces
  BY <1>3
<1>5. CASE OnToolAdded
  <2>1. FitsHand(none, TRUE) /\ TakesArguments(none)
    BY <1>4, <1>5 DEF OnToolAdded, FitsHand
  <2> QED BY <1>1, <1>2, <2>1, TakesPieces
<1>6. CASE OnArguments
  <2>1. FitsHand(all, TRUE) /\ TakesArguments(all)
    BY <1>4, <1>6 DEF OnArguments, FitsHand
  <2> QED BY <1>1, <1>2, <2>1, TakesPieces
<1>7. CASE OnToolDone
  <2>1. ToolAt(i).sawDelta <=> Heard(i)
    BY DEF ToolAt, NoTool, Tool, Heard
  <2>2. TakesArguments(IF ToolAt(i).sawDelta THEN <<>> ELSE frame.pieces)
    BY <1>1, <1>7 DEF OnToolDone
  <2>3. CASE Heard(i)
    <3>1. FitsHand(none, TRUE) /\ TakesArguments(none)
      BY <1>1, <1>3, <1>4, <1>7, <2>1, <2>2, <2>3 DEF OnToolDone, FitsHand
    <3> QED BY <1>1, <1>2, <3>1, TakesPieces
  <2>4. CASE ~Heard(i)
    <3>1. FitsHand(all, TRUE) /\ TakesArguments(all)
      BY <1>1, <1>3, <1>4, <1>7, <2>1, <2>2, <2>4 DEF OnToolDone, FitsHand
    <3> QED BY <1>1, <1>2, <3>1, TakesPieces
  <2> QED BY <2>3, <2>4
<1> QED BY <1>5, <1>6, <1>7

LEMMA TerminalPieces ==
  ASSUME OpenAIInv, OpenAIPieces, OnTerminal, UNCHANGED items
  PROVE  OpenAIPieces'
<1>1. frame.type \notin EventTypes /\ frame.type # "none"
  BY DEF OnTerminal, EventTypes
<1>2. output = "open" /\ toolItems' = toolItems
  BY <1>1, InHand DEF OnTerminal
<1> DEFINE end == FinishChunk(FinishReason(frame.reason, hasToolCalls))
<1>3. end \in Chunks /\ end.type # "delta"
  BY DEF FinishChunk, FinishReason, Chunks, FinishChunks
<1>4. Emits(Start \o <<end>>)
  BY DEF OnTerminal
<1> HIDE DEF end
<1>5. <<end>> \in Seq(Chunks) /\ Quiet(<<end>>)
  BY <1>3, FrameQuiet
<1>6. PICK out \in Seq(Chunks) : out = Start \o <<end>> /\ Quiet(out)
  BY <1>5, OpenStart, QuietTwo, ConcatProperties
<1>7. Emits(out)
  BY <1>4, <1>6
<1> QED BY <1>1, <1>2, <1>6, <1>7, QuietPieces

LEMMA FailurePieces ==
  ASSUME OpenAIInv, OpenAIPieces, OnFailure \/ OnDone, UNCHANGED items
  PROVE  OpenAIPieces'
<1>1. /\ frame.type \notin EventTypes /\ frame.type # "none" /\ toolItems' = toolItems
      /\ TranslationFails \/ Emits(<<>>)
  BY DEF OnFailure, OnDone, EventTypes, bridgeVars
<1>2. output = "open"
  BY <1>1, InHand
<1>3. CASE Emits(<<>>)
  <2>1. PICK out \in Seq(Chunks) : out = <<>> /\ Quiet(out)
    BY NoneQuiet
  <2>2. Emits(out)
    BY <1>3, <2>1
  <2> QED BY <1>1, <1>2, <2>1, <2>2, QuietPieces
<1>4. CASE TranslationFails
  <2>1. output' = "failed"
    BY <1>4 DEF TranslationFails, ClosesOutput
  <2>2. PiecesInv(TRUE)'
    BY <1>2, <1>4, FailedPieces DEF OpenAIPieces, OpenAIInv, StreamInv
  <2>3. HeardInv'
    BY <2>1 DEF HeardInv
  <2> QED BY <2>2, <2>3 DEF OpenAIPieces
<1> QED BY <1>1, <1>3, <1>4

LEMMA TranslatesPieces ==
  ASSUME OpenAIInv, OpenAIPieces, Translates
  PROVE  OpenAIPieces'
BY OtherPieces, ContentPieces, ReasoningDonePieces, ToolPieces, TerminalPieces,
   FailurePieces DEF Translates

LEMMA InitPieces ==
  OpenAIInit => OpenAIPieces
<1> SUFFICES ASSUME OpenAIInit PROVE OpenAIPieces
  OBVIOUS
<1>1. PiecesInv(TRUE)
  BY StreamInitPieces DEF OpenAIInit
<1>2. sent = <<>> /\ toolItems = [i \in Items |-> NoTool]
  BY DEF OpenAIInit, StreamInit, PumpInit
<1>3. \A i : Got(sent, Len(sent), i) = {}
  <2>1. Len(sent) = 0 /\ 1..Len(sent) = {}
    BY <1>2
  <2> QED BY <2>1 DEF Got
<1>4. \A i \in Items : ~Heard(i)
  BY <1>2 DEF Heard, NoTool
<1> QED BY <1>1, <1>3, <1>4 DEF HeardInv, OpenAIPieces

LEMMA UpstreamKeepsPieces ==
  ASSUME OpenAIInv, OpenAIPieces, UpstreamNext \/ UpstreamEnds \/ ReadFails,
         UNCHANGED bridgeVars
  PROVE  OpenAIPieces'
<1>1. PiecesInv(TRUE)'
  BY UpstreamPieces DEF OpenAIPieces, OpenAIInv
<1>2. sent' = sent /\ toolItems' = toolItems /\ (output' = "open" => output = "open")
  <2>1. CASE UpstreamNext
    BY <2>1, UpstreamTells DEF OpenAIInv, bridgeVars
  <2>2. CASE UpstreamEnds \/ ReadFails
    BY <2>2, PumpStops DEF OpenAIInv, bridgeVars
  <2> QED BY <2>1, <2>2
<1>3. HeardInv'
  <2> SUFFICES ASSUME output' = "open", NEW i \in Items, Active(i)'
               PROVE  /\ items'[i].kind # "tool" => ~Heard(i)'
                      /\ items'[i].kind \in {"none", "tool"} =>
                           (Heard(i)' <=> Got(sent', Len(sent'), i) # {})
    BY DEF HeardInv
  <2>1. Active(i) /\ items[i].kind \in {"none", items'[i].kind}
    BY UpstreamActive DEF OpenAIInv
  <2>2. /\ items[i].kind # "tool" => ~Heard(i)
        /\ items[i].kind \in {"none", "tool"} => (Heard(i) <=> Got(sent, Len(sent), i) # {})
    BY <1>2, <2>1 DEF OpenAIPieces, HeardInv
  <2>3. Heard(i)' <=> Heard(i)
    BY <1>2 DEF Heard
  <2> QED BY <1>2, <2>1, <2>2, <2>3
<1> QED BY <1>1, <1>3 DEF OpenAIPieces

LEMMA StutterPieces ==
  ASSUME OpenAIInv, OpenAIPieces, UNCHANGED openAIVars
  PROVE  OpenAIPieces'
<1>1. PiecesInv(TRUE)'
  BY PiecesUnmoved DEF OpenAIPieces, openAIVars
<1>2. /\ items' = items /\ frame' = frame /\ sent' = sent /\ output' = output
      /\ toolItems' = toolItems
  BY DEF openAIVars, streamVars, bridgeVars
<1>3. HeardInv'
  BY <1>2 DEF OpenAIPieces, HeardInv, Heard, Active, Pending
<1> QED BY <1>1, <1>3 DEF OpenAIPieces

LEMMA OpenAIPiecesHold ==
  OpenAISpec => []OpenAIPieces
<1>1. ASSUME OpenAIInv, OpenAIPieces, [OpenAINext]_openAIVars PROVE OpenAIPieces'
  BY <1>1, TranslatesPieces, UpstreamKeepsPieces, StutterPieces DEF OpenAINext, Returned
<1> QED BY <1>1, InitPieces, OpenAIInvHolds, PTL DEF OpenAISpec

(* What it says of the chunks the client has. *)
LEMMA OnceOrAgain ==
  ASSUME NEW i \in Items, NEW pieces, AllFine(sent, i, pieces, Again(i, pieces, TRUE))
  PROVE  \A n \in 1..Len(sent) : Carries(n, i) =>
           \/ InTurn(n, i, pieces)
           \/ /\ Kind(i) = "reasoning" /\ pieces = WholePieces(i)
              /\ AllReceived(i, pieces, n - 1)
BY InTurnIn DEF AllFine, FineIn, Again, Kind, AllReceived

LEMMA PiecesOnce ==
  ASSUME OpenAIInv, OpenAIPieces
  PROVE  AnswerOnce
<1> SUFFICES ASSUME NEW i \in Items
             PROVE  \E pieces \in Contents(i) :
                      /\ AllFine(sent, i, pieces, Again(i, pieces, TRUE))
                      /\ Settled => AllReceived(i, pieces, Len(sent))
  BY OnceOrAgain DEF AnswerOnce
<1>1. PieceInv(i, TRUE)
  BY DEF OpenAIPieces, PiecesInv
<1>2. CASE output = "failed"
  BY <1>1, <1>2 DEF PieceInv, InOrder, Settled
<1>3. CASE output # "failed" /\ ~Pending(i)
  <2>1. PICK pieces \in Contents(i) :
          Delivered(sent, i, pieces, Len(pieces), Again(i, pieces, TRUE))
    BY <1>1, <1>3 DEF PieceInv, Full
  <2> QED BY <2>1, InTurnIn DEF Delivered, AllReceived
<1>4. CASE output # "failed" /\ Pending(i)
  <2>1. PICK k : Due(i, k) /\ Delivered(sent, i, WholePieces(i), k, FALSE)
    BY <1>1, <1>4 DEF PieceInv, PartGiven
  <2>2. WholePieces(i) \in Contents(i)
    BY WholeIs DEF OpenAIInv, StreamInv
  <2>3. ASSUME NEW again PROVE AllFine(sent, i, WholePieces(i), again)
    BY <2>1 DEF Delivered, AllFine, FineIn
  <2>4. ~Settled
    BY <1>4 DEF Settled, Pending, NoFrame, EventTypes
  <2> QED BY <2>2, <2>3, <2>4
<1> QED BY <1>2, <1>3, <1>4

-----------------------------------------------------------------------------
(* The answer as one document.  The calls of the map are the tool items of *)
(* the answer; the one that is missing has its first frame in hand, and no *)
(* item has appeared after it.                                             *)

FitsItem(c) ==
  LET kind == items[c.content.item].kind
  IN  /\ kind # "none"
      /\ c.field = "content" <=> kind = "message"
      /\ c.field = "arguments" <=> kind = "tool"
      /\ c.field = "content" => c.index = 0
OrderedAt(s, n) ==
  /\ s[n].type = "tool" =>
       /\ items[s[n].item].kind = "tool"
       /\ \A m \in ToolsIn(s, n - 1) : s[m].item < s[n].item
  /\ s[n].type = "delta" => FitsItem(s[n])
Ordered(s) == \A n \in 1..Len(s) : OrderedAt(s, n)

CallsInv ==
  /\ BirthInv
  /\ hasToolCalls <=> Known # {}
  /\ \A i \in Known : items[i].kind = "tool"
  /\ \A i \in Items : items[i].kind = "tool" =>
       \/ i \in Known
       \/ Pending(i) /\ \A j \in Items : j > i => items[j] = NoItem
  /\ Ordered(sent)

(* When the finish chunk has come, the client has all that it ends.        *)
EndInv ==
  sent # <<>> /\ sent[Len(sent)].type = "finish" =>
    /\ HeadsTold(sent, toolItems, nextToolIndex)
    /\ \A i \in Items : Full(sent, i, TRUE)
    /\ sent[Len(sent)].reason = WholeFinishReason

LEMMA OrderedPrefix ==
  ASSUME NEW s, NEW t, Ordered(s), Len(s) \in Nat, Len(t) \in Nat, Len(t) <= Len(s),
         \A n \in 1..Len(t) : t[n] = s[n]
  PROVE  Ordered(t)
<1> SUFFICES ASSUME NEW n \in 1..Len(t) PROVE OrderedAt(t, n)
  BY DEF Ordered
<1>1. n \in 1..Len(s) /\ t[n] = s[n]
  OBVIOUS
<1>2. OrderedAt(s, n)
  BY <1>1 DEF Ordered
<1>3. \A m \in ToolsIn(t, n - 1) : m \in ToolsIn(s, n - 1) /\ t[m] = s[m]
  BY <1>1 DEF ToolsIn
<1> QED BY <1>1, <1>2, <1>3 DEF OrderedAt

LEMMA OrderedJoin ==
  ASSUME NEW s \in Seq(Chunks), NEW out \in Seq(Chunks), Ordered(s),
         \A n \in 1..Len(out) : OrderedAt(s \o out, Len(s) + n)
  PROVE  Ordered(s \o out)
<1> DEFINE t == s \o out
<1>1. /\ Len(s) \in Nat /\ Len(out) \in Nat /\ Len(t) = Len(s) + Len(out)
      /\ \A n \in 1..Len(s) : t[n] = s[n]
      /\ \A n \in 0..Len(s) : ToolsIn(t, n) = ToolsIn(s, n)
  BY Joined, LenProperties
<1>2. \A n \in 1..Len(out) : OrderedAt(t, Len(s) + n)
  OBVIOUS
<1> HIDE DEF t
<1>3. ASSUME NEW n \in 1..Len(t) PROVE OrderedAt(t, n)
  <2>1. CASE n <= Len(s)
    <3>1. n \in 1..Len(s) /\ n - 1 \in 0..Len(s) /\ t[n] = s[n]
      BY <1>1, <2>1
    <3>2. ToolsIn(t, n - 1) = ToolsIn(s, n - 1)
      BY <1>1, <3>1
    <3>3. \A m \in ToolsIn(s, n - 1) : t[m] = s[m]
      BY <1>1, <3>1 DEF ToolsIn
    <3>4. OrderedAt(s, n)
      BY <3>1 DEF Ordered
    <3> QED BY <3>1, <3>2, <3>3, <3>4 DEF OrderedAt
  <2>2. CASE ~(n <= Len(s))
    <3>1. n - Len(s) \in 1..Len(out) /\ Len(s) + (n - Len(s)) = n
      BY <1>1, <2>2
    <3>2. OrderedAt(t, Len(s) + (n - Len(s)))
      BY <1>2, <3>1
    <3> QED BY <3>1, <3>2
  <2> QED BY <2>1, <2>2
<1> QED BY <1>3 DEF Ordered, t

(* Chunks without a head, whose pieces are in the field of their item.     *)
LEMMA OrderedMore ==
  ASSUME NEW s \in Seq(Chunks), NEW out \in Seq(Chunks), Ordered(s),
         \A n \in 1..Len(out) :
           out[n].type # "tool" /\ (out[n].type = "delta" => FitsItem(out[n]))
  PROVE  Ordered(s \o out)
<1>1. ASSUME NEW n \in 1..Len(out) PROVE OrderedAt(s \o out, Len(s) + n)
  <2>1. (s \o out)[Len(s) + n] = out[n]
    BY Joined
  <2> QED BY <2>1 DEF OrderedAt
<1> QED BY <1>1, OrderedJoin

(* The head of a call after those of all the others. *)
LEMMA OrderedHead ==
  ASSUME NEW s \in Seq(Chunks), Ordered(s), NEW c \in Chunks, c.type = "tool",
         items[c.item].kind = "tool", \A m \in ToolsIn(s, Len(s)) : s[m].item < c.item
  PROVE  Ordered(s \o <<c>>)
<1>1. <<c>> \in Seq(Chunks) /\ Len(<<c>>) = 1 /\ <<c>>[1] = c
  OBVIOUS
<1>2. PICK out \in Seq(Chunks) : out = <<c>>
  BY <1>1
<1>3. /\ Len(s) \in Nat /\ (s \o out)[Len(s) + 1] = c
      /\ ToolsIn(s \o out, Len(s)) = ToolsIn(s, Len(s))
      /\ \A n \in 1..Len(s) : (s \o out)[n] = s[n]
  <2>1. 1 \in 1..Len(out) /\ Len(s) \in 0..Len(s) /\ out[1] = c
    BY <1>1, <1>2, LenProperties
  <2> QED BY <2>1, Joined
<1>4. ASSUME NEW n \in 1..Len(out) PROVE OrderedAt(s \o out, Len(s) + n)
  <2>1. n = 1 /\ (Len(s) + n) - 1 = Len(s)
    BY <1>1, <1>2, <1>3
  <2>2. \A m \in ToolsIn(s, Len(s)) : (s \o out)[m] = s[m]
    BY <1>3 DEF ToolsIn
  <2>3. (s \o out)[Len(s) + n] = c /\ ToolsIn(s \o out, (Len(s) + n) - 1) = ToolsIn(s, Len(s))
    BY <1>3, <2>1
  <2> QED BY <2>2, <2>3 DEF OrderedAt
<1> QED BY <1>2, <1>4, OrderedJoin

LEMMA OrderedStart ==
  ASSUME OpenAIInv, CallsInv
  PROVE  /\ sent \in Seq(Chunks) /\ Start \in Seq(Chunks) /\ sent \o Start \in Seq(Chunks)
         /\ Ordered(sent \o Start)
<1>1. sent \in Seq(Chunks) /\ Start \in Seq(Chunks)
  BY OpenStart
<1>2. PICK s \in Seq(Chunks), start \in Seq(Chunks) : s = sent /\ start = Start
  BY <1>1
<1>3. ASSUME NEW n \in 1..Len(start) PROVE start[n].type \notin {"tool", "delta"}
  BY <1>2 DEF Start, RoleChunk
<1>4. Ordered(s)
  BY <1>2 DEF CallsInv
<1>5. Ordered(s \o start) /\ s \o start \in Seq(Chunks)
  BY <1>3, <1>4, OrderedMore, ConcatProperties
<1> QED BY <1>1, <1>2, <1>5

LEMMA EmitsOrdered ==
  ASSUME NEW out \in Seq(Chunks), sent \in Seq(Chunks), Ordered(sent \o out),
         output = "open", Emits(out), UNCHANGED items
  PROVE  Ordered(sent)' /\ frame' = NoFrame
<1>1. /\ frame' = NoFrame /\ sent' \in Seq(Chunks) /\ Len(sent') <= Len(sent \o out)
      /\ \A n \in 1..Len(sent') : sent'[n] = (sent \o out)[n]
  BY EmitsPrefix
<1>2. PICK t \in Seq(Chunks) : t = sent'
  BY <1>1
<1>3. PICK s \in Seq(Chunks) : s = sent \o out
  BY ConcatProperties
<1>4. Ordered(s) /\ Len(s) \in Nat /\ Len(t) \in Nat /\ Len(t) <= Len(s)
      /\ \A n \in 1..Len(t) : t[n] = s[n]
  BY <1>1, <1>2, <1>3, LenProperties
<1>5. Ordered(t)
  BY <1>4, OrderedPrefix
<1> QED BY <1>1, <1>2, <1>5 DEF Ordered, OrderedAt, FitsItem

(* No call has its first frame in hand any more.                           *)
LEMMA BirthKept ==
  ASSUME BirthInv, UNCHANGED <<upstream, items>>, frame' = NoFrame
  PROVE  BirthInv'
<1>1. frame'.type \notin Terminals
  BY DEF NoFrame, Terminals
<1> QED BY <1>1 DEF BirthInv

LEMMA CallsKept ==
  ASSUME OpenAIInv, OpenAIPieces, CallsInv, frame.type \in EventTypes => frame.kind # "tool",
         UNCHANGED <<upstream, items, toolItems, hasToolCalls>>, frame' = NoFrame,
         Ordered(sent)'
  PROVE  CallsInv'
<1>1. ASSUME NEW i \in Items, items[i].kind = "tool" PROVE i \in Known
  <2>1. ~Pending(i)
    BY <1>1, HandIs DEF Pending
  <2> QED BY <1>1, <2>1 DEF CallsInv
<1>2. Known' = Known
  BY DEF Known
<1>3. BirthInv'
  BY BirthKept DEF CallsInv
<1> QED BY <1>1, <1>2, <1>3 DEF CallsInv

(* A frame that is not of a call. *)
LEMMA PassesCalls ==
  ASSUME OpenAIInv, OpenAIPieces, CallsInv, output = "open",
         frame.type \in EventTypes => frame.kind # "tool", UNCHANGED <<upstream, items>>,
         NEW out \in Seq(Chunks), Passes(out),
         \A n \in 1..Len(out) :
           out[n].type # "tool" /\ (out[n].type = "delta" => FitsItem(out[n]))
  PROVE  CallsInv'
<1>1. PICK s \in Seq(Chunks), start \in Seq(Chunks) :
        start = Start /\ s = sent \o start /\ Ordered(s)
  BY OrderedStart
<1>2. Ordered(s \o out)
  BY <1>1, OrderedMore
<1>3. start \o out \in Seq(Chunks) /\ sent \o (start \o out) = s \o out
  <2>1. sent \in Seq(Chunks)
    BY OrderedStart
  <2> QED BY <1>1, <2>1, JoinChunks
<1>4. PICK all \in Seq(Chunks) : all = start \o out
  BY <1>3
<1>5. Emits(all) /\ UNCHANGED <<toolItems, hasToolCalls>>
  BY <1>1, <1>4 DEF Passes
<1>6. Ordered(sent)' /\ frame' = NoFrame
  <2>1. Ordered(sent \o all) /\ sent \in Seq(Chunks)
    BY <1>2, <1>3, <1>4, OrderedStart
  <2> QED BY <1>5, <2>1, EmitsOrdered
<1> QED BY <1>5, <1>6, CallsKept

(* The chunks of pieces are in their field. *)
LEMMA ChunksFit ==
  ASSUME NEW i \in Items, NEW pieces \in Seq(PiecesOf(i)), NEW index \in Nat,
         NEW field \in {"content", "arguments", "reasoning_content"},
         items[i].kind \in Kinds,
         field = "content" <=> items[i].kind = "message",
         field = "arguments" <=> items[i].kind = "tool",
         field = "content" => index = 0
  PROVE  /\ PieceChunks(field, index, pieces) \in Seq(Chunks)
         /\ \A n \in 1..Len(PieceChunks(field, index, pieces)) :
              /\ PieceChunks(field, index, pieces)[n].type = "delta"
              /\ FitsItem(PieceChunks(field, index, pieces)[n])
<1>1. PieceChunks(field, index, pieces) \in Seq(DeltasOf(field, index, i))
  BY PieceChunksType
<1>2. PICK out \in Seq(DeltasOf(field, index, i)) : out = PieceChunks(field, index, pieces)
  BY <1>1
<1>3. out \in Seq(Chunks)
  BY DeltasOfType, DeltasAreChunks
<1>4. ASSUME NEW n \in 1..Len(out) PROVE out[n].type = "delta" /\ FitsItem(out[n])
  <2>1. out[n] \in DeltasOf(field, index, i)
    BY ElementOfSeq
  <2>2. /\ out[n].type = "delta" /\ out[n].field = field /\ out[n].index = index
        /\ out[n].content.item = i
    BY <2>1 DEF DeltasOf, PiecesOf
  <2> QED BY <2>2 DEF FitsItem, Kinds
<1> QED BY <1>2, <1>3, <1>4

LEMMA PiecesCalls ==
  ASSUME OpenAIInv, OpenAIPieces, CallsInv, frame.type \in EventTypes,
         UNCHANGED <<upstream, items>>, NEW i, i = frame.item,
         NEW pieces \in Seq(PiecesOf(i)),
         \/ frame.kind = "message" /\ Passes(PieceChunks("content", 0, pieces))
         \/ frame.kind = "reasoning" /\ Passes(PieceChunks("reasoning_content", 0, pieces))
  PROVE  CallsInv'
<1>1. i \in Items /\ output = "open" /\ items[i].kind = frame.kind /\ frame.kind \in Kinds
  BY HandIs
<1>2. PICK field \in {"content", "reasoning_content"} :
        /\ Passes(PieceChunks(field, 0, pieces))
        /\ field = "content" <=> frame.kind = "message"
        /\ frame.kind # "tool"
  OBVIOUS
<1>3. /\ PieceChunks(field, 0, pieces) \in Seq(Chunks)
      /\ \A n \in 1..Len(PieceChunks(field, 0, pieces)) :
           /\ PieceChunks(field, 0, pieces)[n].type = "delta"
           /\ FitsItem(PieceChunks(field, 0, pieces)[n])
  BY <1>1, <1>2, ChunksFit
<1>4. PICK out \in Seq(Chunks) : out = PieceChunks(field, 0, pieces)
  BY <1>3
<1>5. \A n \in 1..Len(out) :
        out[n].type # "tool" /\ (out[n].type = "delta" => FitsItem(out[n]))
  BY <1>3, <1>4
<1> QED BY <1>1, <1>2, <1>4, <1>5, PassesCalls

LEMMA NothingCalls ==
  ASSUME OpenAIInv, OpenAIPieces, CallsInv, output = "open",
         frame.type \in EventTypes => frame.kind # "tool",
         UNCHANGED <<upstream, items>>, Passes(<<>>)
  PROVE  CallsInv'
<1>1. PICK out \in Seq(Chunks) : out = <<>>
  BY NoneQuiet
<1>2. Len(out) = 0 /\ 1..Len(out) = {}
  BY <1>1
<1> QED BY <1>1, <1>2, PassesCalls

(* A frame of a call: its head, if it is new, is after those of the calls  *)
(* before it, because every item that has appeared since is yet to come.   *)
LEMMA AnnouncementOrdered ==
  ASSUME OpenAIInv, OpenAIPieces, CallsInv, frame.type \in EventTypes, frame.kind = "tool",
         NEW i, i = frame.item
  PROVE  /\ Announcement(ToolAt(i), i) \in Seq(Chunks)
         /\ sent \o Start \o Announcement(ToolAt(i), i) \in Seq(Chunks)
         /\ Ordered(sent \o Start \o Announcement(ToolAt(i), i))
<1>1. /\ i \in Items /\ output = "open" /\ items[i].kind = "tool" /\ Pending(i)
      /\ frame.type # "none" /\ frame.type # "[DONE]"
  BY HandIs DEF EventTypes, Pending
<1>2. PICK s \in Seq(Chunks) : s = sent \o Start /\ Ordered(s)
  BY OrderedStart
<1>3. ~stopped /\ ChatInv /\ IndexInv /\ OpenAITypeOK
  BY <1>1, InHand DEF OpenAIInv
<1>4. HeadsTold(s, toolItems, nextToolIndex)
  BY <1>1, <1>2, <1>3, StartGoes
<1>5. CASE toolItems[i] # NoTool
  <2>1. Announcement(ToolAt(i), i) = <<>>
    BY <1>1, <1>3, <1>5 DEF ToolAt, Announcement, IndexInv, Known
  <2>2. s \o <<>> = s
    BY ConcatEmptySeq
  <2>3. <<>> \in Seq(Chunks)
    BY NoneQuiet
  <2> QED BY <1>2, <2>1, <2>2, <2>3
<1>6. CASE toolItems[i] = NoTool
  <2>1. PICK index \in Nat : index = nextToolIndex
    BY <1>3, StreamAssumption DEF OpenAITypeOK
  <2>2. PICK c \in Chunks : c = ToolChunk(index, i)
    BY <1>1, <2>1 DEF ToolChunk, ToolChunks, Chunks
  <2>3. Announcement(ToolAt(i), i) = <<c>>
    BY <1>6, <2>1, <2>2 DEF ToolAt, Announcement, Tool
  <2>4. c.type = "tool" /\ c.item = i
    BY <2>2 DEF ToolChunk
  <2>5. \A j \in Items : j > i => items[j] = NoItem
    BY <1>1, <1>6 DEF CallsInv, Known
  <2>6. ASSUME NEW m \in ToolsIn(s, Len(s)) PROVE s[m].item < c.item
    <3>1. PICK j \in Items : j = s[m].item
      BY <2>6, ElementOfSeq DEF ToolsIn, Chunks, RoleChunk, ToolChunks, DeltaChunks,
         FinishChunks
    <3>2. toolItems[j] # NoTool
      BY <1>4, <3>1 DEF HeadsTold
    <3>3. items[j].kind = "tool" /\ j # i
      BY <1>6, <3>2 DEF CallsInv, Known
    <3>4. items[j] # NoItem
      BY <3>3 DEF NoItem
    <3>5. ~(j > i)
      BY <2>5, <3>4
    <3> QED BY <1>1, <2>4, <3>1, <3>3, <3>5 DEF Items
  <2>7. Ordered(s \o <<c>>)
    BY <1>1, <1>2, <2>4, <2>6, OrderedHead
  <2>8. <<c>> \in Seq(Chunks) /\ s \o <<c>> \in Seq(Chunks)
    BY ConcatProperties
  <2> QED BY <1>2, <2>3, <2>7, <2>8
<1> QED BY <1>5, <1>6

LEMMA TakesCalls ==
  ASSUME OpenAIInv, OpenAIPieces, CallsInv, frame.type \in EventTypes, frame.kind = "tool",
         UNCHANGED <<upstream, items>>, NEW i, i = frame.item,
         NEW pieces \in Seq(PiecesOf(i)), TakesArguments(pieces)
  PROVE  CallsInv'
<1>1. i \in Items /\ output = "open" /\ items[i].kind = "tool" /\ Pending(i)
  BY HandIs DEF Pending
<1>2. PICK index \in Nat : index = ToolAt(i).index
  <2>1. /\ nextToolIndex \in Nat
        /\ toolItems[i] # NoTool => toolItems[i].index \in Nat
    BY <1>1, StreamAssumption DEF OpenAIInv, OpenAITypeOK
  <2> QED BY <2>1 DEF ToolAt, Tool
<1>3. PICK start, head : /\ start \in Seq(Chunks) /\ start = Start
                       /\ head \in Seq(Chunks) /\ head = Announcement(ToolAt(i), i)
  BY AnnouncementOrdered, OrderedStart
<1>4. PICK front, t : /\ front \in Seq(Chunks) /\ front = start \o head
                    /\ t \in Seq(Chunks) /\ t = sent \o front /\ Ordered(t)
  <2>1. sent \in Seq(Chunks)
    BY OrderedStart
  <2>2. start \o head \in Seq(Chunks) /\ sent \o (start \o head) = (sent \o start) \o head
    BY <1>3, <2>1, JoinChunks
  <2>3. Ordered(sent \o Start \o Announcement(ToolAt(i), i))
        /\ sent \o Start \o Announcement(ToolAt(i), i) \in Seq(Chunks)
    BY AnnouncementOrdered
  <2> QED BY <1>3, <2>2, <2>3
<1>5. /\ PieceChunks("arguments", index, pieces) \in Seq(Chunks)
      /\ \A n \in 1..Len(PieceChunks("arguments", index, pieces)) :
           /\ PieceChunks("arguments", index, pieces)[n].type = "delta"
           /\ FitsItem(PieceChunks("arguments", index, pieces)[n])
  BY <1>1, ChunksFit DEF Kinds
<1>6. PICK run : run \in Seq(Chunks) /\ run = PieceChunks("arguments", index, pieces)
  BY <1>5
<1>7. Ordered(t \o run)
  <2>1. \A n \in 1..Len(run) :
          run[n].type # "tool" /\ (run[n].type = "delta" => FitsItem(run[n]))
    BY <1>5, <1>6
  <2> QED BY <1>4, <1>6, <2>1, OrderedMore
<1>8. front \o run \in Seq(Chunks) /\ sent \o (front \o run) = t \o run
  <2>1. sent \in Seq(Chunks) /\ front \in Seq(Chunks) /\ run \in Seq(Chunks)
    BY <1>4, <1>6, OrderedStart
  <2>2. front \o run \in Seq(Chunks) /\ sent \o (front \o run) = (sent \o front) \o run
    BY ONLY <2>1, JoinChunks
  <2>3. t = sent \o front
    BY ONLY <1>4
  <2> QED BY ONLY <2>2, <2>3
<1>9. PICK all \in Seq(Chunks) : all = front \o run
  BY <1>8
<1>10. Ordered(sent)' /\ frame' = NoFrame
  <2>1. Ordered(sent \o all) /\ sent \in Seq(Chunks)
    BY <1>7, <1>8, <1>9, OrderedStart
  <2>2. Emits(all)
    BY <1>2, <1>3, <1>4, <1>6, <1>9 DEF TakesArguments
  <2> QED BY <1>1, <2>1, <2>2, EmitsOrdered
<1>11. Known' = Known \cup {i} /\ hasToolCalls'
  <2>1. toolItems' = [toolItems EXCEPT ![i] =
             Tool(ToolAt(i).index, TRUE, SawDelta(ToolAt(i), pieces))]
    BY DEF TakesArguments
  <2>2. Tool(ToolAt(i).index, TRUE, SawDelta(ToolAt(i), pieces)) # NoTool
    BY DEF Tool, NoTool
  <2>3. toolItems'[i] # NoTool /\ \A j \in Items : j # i => toolItems'[j] = toolItems[j]
    BY <1>1, <2>1, <2>2 DEF OpenAIInv, OpenAITypeOK
  <2>4. hasToolCalls' = TRUE
    BY DEF TakesArguments
  <2> QED BY <1>1, <2>3, <2>4 DEF Known
<1>12. BirthInv'
  BY <1>10, BirthKept DEF CallsInv
<1>13. ASSUME NEW j \in Items, items[j].kind = "tool" PROVE j \in Known'
  <2>1. CASE j = i
    BY <1>11, <2>1
  <2>2. CASE j # i
    <3>1. ~Pending(j)
      BY <2>2 DEF Pending
    <3> QED BY <1>11, <1>13, <3>1 DEF CallsInv
  <2> QED BY <2>1, <2>2
<1>14. \A j \in Known' : items[j].kind = "tool"
  BY <1>1, <1>11 DEF CallsInv
<1> QED BY <1>10, <1>11, <1>12, <1>13, <1>14 DEF CallsInv

LEMMA TerminalCalls ==
  ASSUME OpenAIInv, OpenAIPieces, CallsInv, OnTerminal, UNCHANGED <<upstream, items>>
  PROVE  CallsInv'
<1>1. frame.type \notin EventTypes /\ frame.type # "none"
  BY DEF OnTerminal, EventTypes
<1>2. output = "open" /\ UNCHANGED <<toolItems, hasToolCalls>>
  BY <1>1, InHand DEF OnTerminal
<1>3. PICK s \in Seq(Chunks), start \in Seq(Chunks) :
        start = Start /\ s = sent \o start /\ Ordered(s)
  BY OrderedStart
<1>4. PICK end \in Chunks :
        end = FinishChunk(FinishReason(frame.reason, hasToolCalls)) /\ end.type = "finish"
  <2>1. FinishChunk(FinishReason(frame.reason, hasToolCalls)) \in FinishChunks
    BY DEF FinishChunk, FinishReason, FinishChunks
  <2> QED BY <2>1 DEF Chunks, FinishChunks
<1>5. PICK out \in Seq(Chunks) : out = <<end>>
  BY <1>4, FrameQuiet
<1>6. Ordered(s \o out)
  <2>1. \A n \in 1..Len(out) : out[n].type = "finish"
    BY <1>4, <1>5
  <2> QED BY <1>3, <2>1, OrderedMore
<1>7. sent \in Seq(Chunks) /\ start \o out \in Seq(Chunks) /\ sent \o (start \o out) = s \o out
  <2>1. sent \in Seq(Chunks)
    BY OrderedStart
  <2> QED BY <1>3, <2>1, JoinChunks
<1>8. PICK all \in Seq(Chunks) : all = start \o out
  BY <1>7
<1>9. Emits(all)
  BY <1>3, <1>4, <1>5, <1>8 DEF OnTerminal
<1>10. Ordered(sent)' /\ frame' = NoFrame
  BY <1>2, <1>6, <1>7, <1>8, <1>9, EmitsOrdered
<1> QED BY <1>1, <1>2, <1>10, CallsKept

LEMMA FailureCalls ==
  ASSUME OpenAIInv, OpenAIPieces, CallsInv, OnFailure \/ OnDone, UNCHANGED <<upstream, items>>
  PROVE  CallsInv'
<1>0. TranslationFails \/ Emits(<<>>)
  BY DEF OnFailure, OnDone
<1>1. /\ frame.type \notin EventTypes /\ frame.type # "none"
      /\ UNCHANGED <<upstream, items, toolItems, hasToolCalls>>
  BY DEF OnFailure, OnDone, EventTypes, bridgeVars
<1>2. output = "open" /\ sent \in Seq(Chunks) /\ Ordered(sent)
  BY <1>1, InHand, OrderedStart DEF CallsInv
<1>3. CASE Emits(<<>>)
  <2>1. PICK out \in Seq(Chunks) : out = <<>>
    BY NoneQuiet
  <2>2. Emits(out) /\ sent \o out = sent
    BY <1>2, <1>3, <2>1, ConcatEmptySeq
  <2>3. Ordered(sent \o out)
    BY <1>2, <2>2
  <2>4. Ordered(sent)' /\ frame' = NoFrame
    BY <1>2, <2>2, <2>3, EmitsOrdered
  <2> QED BY <1>1, <2>4, CallsKept
<1>4. CASE TranslationFails
  <2>1. frame' = NoFrame /\ sent' = sent
    BY <1>4 DEF TranslationFails, ClosesOutput
  <2>2. Ordered(sent)'
    BY <1>2, <2>1 DEF Ordered, OrderedAt, FitsItem
  <2> QED BY <1>1, <2>1, <2>2, CallsKept
<1> QED BY <1>0, <1>3, <1>4

LEMMA TranslatesCalls ==
  ASSUME OpenAIInv, OpenAIPieces, CallsInv, Translates
  PROVE  CallsInv'
<1>1. UNCHANGED <<upstream, items>>
  BY DEF Translates
<1>2. PICK i : i = frame.item
  OBVIOUS
<1>3. ASSUME frame.type \in EventTypes
      PROVE  /\ frame.pieces \in Seq(PiecesOf(i)) /\ output = "open" /\ FrameGives(i)
             /\ frame.kind = "tool" \/ ~toolItems[i].sawDelta
  BY <1>2, <1>3, HandIs DEF Heard
<1>4. PICK none \in Seq(PiecesOf(i)) : none = <<>>
  BY NoneQuiet
<1>5. CASE OnOther
  <2>1. Passes(<<>>) /\ frame.type # "none"
    BY <1>5 DEF OnOther
  <2>2. frame.type \in EventTypes => frame.kind # "tool"
    BY <1>3, <1>5 DEF OnOther, FrameGives, EventTypes
  <2>3. output = "open"
    BY <2>1, InHand
  <2> QED BY <1>1, <2>1, <2>2, <2>3, NothingCalls
<1>6. CASE OnPartAdded \/ OnText \/ OnReasoning
  <2>1. frame.type \in EventTypes
    BY <1>6 DEF OnPartAdded, OnText, OnReasoning, EventTypes
  <2>2. PICK pieces \in Seq(PiecesOf(i)) : pieces = frame.pieces
    BY <1>3, <2>1
  <2>3. \/ frame.kind = "message" /\ Passes(PieceChunks("content", 0, pieces))
        \/ frame.kind = "reasoning" /\ Passes(PieceChunks("reasoning_content", 0, pieces))
    BY <1>3, <1>6, <2>1, <2>2 DEF OnPartAdded, OnText, OnReasoning, FrameGives
  <2> QED BY <1>1, <1>2, <2>1, <2>2, <2>3, PiecesCalls
<1>7. CASE OnReasoningDone
  <2>1. frame.type \in EventTypes /\ frame.kind = "reasoning"
    BY <1>7 DEF OnReasoningDone, EventTypes
  <2>2. PICK pieces \in Seq(PiecesOf(i)) : pieces = Trimmed(frame.pieces)
    BY <1>3, <2>1, TrimmedType
  <2>3. Passes(PieceChunks("reasoning_content", 0, pieces))
    BY <1>2, <1>3, <1>7, <2>1, <2>2 DEF OnReasoningDone
  <2> QED BY <1>1, <1>2, <2>1, <2>2, <2>3, PiecesCalls
<1>8. CASE OnToolAdded \/ OnArguments \/ OnToolDone
  <2>1. frame.type \in EventTypes /\ frame.kind = "tool"
    BY <1>8 DEF OnToolAdded, OnArguments, OnToolDone, EventTypes
  <2>2. PICK pieces \in Seq(PiecesOf(i)) : TakesArguments(pieces)
    <3>1. TakesArguments(none) \/ TakesArguments(frame.pieces)
      BY <1>4, <1>8 DEF OnToolAdded, OnArguments, OnToolDone
    <3> QED BY <1>3, <2>1, <3>1
  <2> QED BY <1>1, <1>2, <2>1, <2>2, TakesCalls
<1> QED BY <1>1, <1>5, <1>6, <1>7, <1>8, TerminalCalls, FailureCalls DEF Translates

LEMMA UpstreamKeepsCalls ==
  ASSUME OpenAIInv, CallsInv, UpstreamNext \/ UpstreamEnds \/ ReadFails, UNCHANGED bridgeVars
  PROVE  CallsInv'
<1>1. /\ BirthInv' /\ KindsKept /\ \A i \in Items : ~Pending(i)
  BY UpstreamBirth DEF OpenAIInv, CallsInv
<1>2. sent' = sent
  BY UpstreamTells, PumpStops DEF OpenAIInv
<1>3. Known' = Known /\ hasToolCalls' = hasToolCalls
  BY DEF Known, bridgeVars
<1>4. ASSUME NEW i \in Items, items[i].kind # "none" PROVE items'[i].kind = items[i].kind
  BY <1>1, <1>4 DEF KindsKept, Appears
<1>5. \A i \in Known : items'[i].kind = "tool"
  BY <1>4 DEF CallsInv, Known
<1>6. ASSUME NEW i \in Items, items'[i].kind = "tool"
      PROVE  \/ i \in Known
             \/ Pending(i)' /\ \A j \in Items : j > i => items'[j] = NoItem
  BY <1>1, <1>6 DEF CallsInv, KindsKept, Appears
<1>7. Ordered(sent)'
  <2> SUFFICES ASSUME NEW n \in 1..Len(sent) PROVE OrderedAt(sent, n)'
    BY <1>2 DEF Ordered
  <2>1. OrderedAt(sent, n) /\ sent[n] \in Chunks
    <3>1. sent \in Seq(Chunks)
      BY DEF OpenAIInv, ChatInv, LegalChat
    <3> QED BY <3>1, ElementOfSeq DEF CallsInv, Ordered
  <2>2. CASE sent[n].type = "tool"
    <3>1. sent[n].item \in Items
      BY <2>1, <2>2 DEF Chunks, RoleChunk, ToolChunks, DeltaChunks, FinishChunks
    <3> QED BY <1>2, <1>4, <2>1, <2>2, <3>1 DEF OrderedAt
  <2>3. CASE sent[n].type = "delta"
    <3>1. sent[n].content.item \in Items
      BY <2>1, <2>3 DEF Chunks, RoleChunk, ToolChunks, DeltaChunks, FinishChunks, PieceRecords
    <3>2. items[sent[n].content.item].kind # "none" /\ FitsItem(sent[n])
      BY <2>1, <2>3 DEF OrderedAt, FitsItem
    <3>3. items'[sent[n].content.item].kind = items[sent[n].content.item].kind
      BY <1>4, <3>1, <3>2
    <3>4. FitsItem(sent[n])'
      BY <1>2, <3>2, <3>3 DEF FitsItem
    <3> QED BY <1>2, <2>3, <3>4 DEF OrderedAt
  <2>4. CASE sent[n].type \notin {"tool", "delta"}
    BY <1>2, <2>4 DEF OrderedAt
  <2> QED BY <2>2, <2>3, <2>4
<1> QED BY <1>1, <1>3, <1>5, <1>6, <1>7 DEF CallsInv

LEMMA InitCalls ==
  OpenAIInit => CallsInv /\ EndInv
<1> SUFFICES ASSUME OpenAIInit PROVE CallsInv /\ EndInv
  OBVIOUS
<1>1. BirthInv
  BY InitBirth DEF OpenAIInit
<1>2. /\ sent = <<>> /\ Known = {} /\ ~hasToolCalls /\ \A i \in Items : items[i] = NoItem
  BY DEF OpenAIInit, StreamInit, PumpInit, Known
<1>3. \A i \in Items : items[i].kind # "tool"
  BY <1>2 DEF NoItem
<1>4. Len(sent) = 0 /\ 1..Len(sent) = {}
  BY <1>2
<1>5. Ordered(sent)
  BY <1>4 DEF Ordered
<1> QED BY <1>1, <1>2, <1>3, <1>5 DEF CallsInv, EndInv

LEMMA StutterCalls ==
  ASSUME CallsInv, EndInv, UNCHANGED openAIVars
  PROVE  CallsInv' /\ EndInv'
<1>1. /\ upstream' = upstream /\ items' = items /\ frame' = frame /\ sent' = sent
      /\ toolItems' = toolItems /\ nextToolIndex' = nextToolIndex
      /\ hasToolCalls' = hasToolCalls
  BY DEF openAIVars, streamVars, bridgeVars
<1>2. BirthInv'
  BY <1>1 DEF CallsInv, BirthInv, ReasonTold
<1>3. Ordered(sent)'
  BY <1>1 DEF CallsInv, Ordered, OrderedAt, FitsItem
<1>4. CallsInv'
  BY <1>1, <1>2, <1>3 DEF CallsInv, Known, Pending
<1>5. \A i \in Items : Full(sent, i, TRUE)' = Full(sent, i, TRUE)
  BY <1>1 DEF Full, Contents, Again, WholePieces
<1>6. EndInv'
  BY <1>1, <1>5 DEF EndInv, WholeFinishReason, ReasonTold, WholeToolCalls
<1> QED BY <1>4, <1>6

(* The finish chunk is the last: the bridge has stopped. *)
LEMMA FinishStops ==
  ASSUME ChatInv, sent # <<>>, sent[Len(sent)].type = "finish"
  PROVE  stopped
<1>1. sent \in Seq(Chunks)
  BY DEF ChatInv, LegalChat
<1>2. Len(sent) \in 1..Len(sent)
  BY <1>1, LenProperties, EmptySeq
<1> QED BY <1>2 DEF ChatInv

(* What the finish chunk ended stays as it is. *)
LEMMA EndKept ==
  ASSUME EndInv, UNCHANGED <<sent, items, upstream, toolItems, nextToolIndex>>
  PROVE  EndInv'
<1>1. \A i \in Items : Full(sent, i, TRUE)' = Full(sent, i, TRUE)
  BY DEF Full, Contents, Again, WholePieces
<1> QED BY <1>1 DEF EndInv, WholeFinishReason, ReasonTold, WholeToolCalls

LEMMA UpstreamKeepsEnd ==
  ASSUME OpenAIInv, EndInv, UpstreamNext \/ UpstreamEnds \/ ReadFails, UNCHANGED bridgeVars
  PROVE  EndInv'
<1>1. sent' = sent
  BY UpstreamTells, PumpStops DEF OpenAIInv
<1>2. CASE sent # <<>> /\ sent[Len(sent)].type = "finish"
  <2>1. Terminated
    BY <1>2, FinishStops DEF OpenAIInv, StopInv
  <2>2. UNCHANGED <<upstream, items>>
    BY <2>1, TerminatedStays, PumpStops DEF OpenAIInv
  <2> QED BY <1>1, <2>2, EndKept DEF bridgeVars
<1>3. CASE ~(sent # <<>> /\ sent[Len(sent)].type = "finish")
  BY <1>1, <1>3 DEF EndInv
<1> QED BY <1>2, <1>3

LEMMA TerminalEnd ==
  ASSUME OpenAIInv, OpenAIPieces, CallsInv, OnTerminal, UNCHANGED <<upstream, items>>,
         ChatInv'
  PROVE  EndInv'
<1>1. frame.type \notin EventTypes /\ frame.type \in Terminals
      /\ frame.type # "none" /\ frame.type # "[DONE]"
  BY DEF OnTerminal, EventTypes, Terminals
<1>2. output = "open" /\ ~stopped /\ ChatInv /\ UNCHANGED <<toolItems, hasToolCalls>>
  BY <1>1, InHand DEF OnTerminal, OpenAIInv
<1>3. PICK s \in Seq(Chunks), start \in Seq(Chunks) :
        start = Start /\ s = sent \o start /\ Going(s) /\ Quiet(start)
  BY <1>2, StartGoes, OpenStart, OrderedStart
<1>4. PICK end \in Chunks :
        /\ end = FinishChunk(FinishReason(frame.reason, hasToolCalls))
        /\ end.type = "finish" /\ end.reason = FinishReason(frame.reason, hasToolCalls)
  <2>1. FinishChunk(FinishReason(frame.reason, hasToolCalls)) \in FinishChunks
    BY DEF FinishChunk, FinishReason, FinishChunks
  <2>2. FinishChunk(FinishReason(frame.reason, hasToolCalls)).reason
          = FinishReason(frame.reason, hasToolCalls)
    BY DEF FinishChunk
  <2> QED BY <2>1, <2>2 DEF Chunks, FinishChunks
<1>5. PICK out \in Seq(Chunks) : out = <<end>> /\ Quiet(out)
  BY <1>4, FrameQuiet
<1>6. PICK all \in Seq(Chunks) : all = start \o out /\ Quiet(all)
  BY <1>3, <1>5, QuietTwo, ConcatProperties
<1>7. sent \in Seq(Chunks) /\ sent \o all = s \o out
  <2>1. sent \in Seq(Chunks)
    BY OrderedStart
  <2> QED BY <1>3, <1>6, <2>1, JoinChunks
<1>8. /\ Len(s) \in Nat /\ Len(s \o out) = Len(s) + 1 /\ (s \o out)[Len(s) + 1] = end
      /\ \A n \in 1..Len(s) : (s \o out)[n] = s[n]
  <2>1. Len(out) = 1 /\ out[1] = end
    BY <1>5
  <2>2. 1 \in 1..Len(out) /\ Len(s) \in Nat
    BY <2>1, LenProperties
  <2>3. Len(s \o out) = Len(s) + Len(out) /\ (s \o out)[Len(s) + 1] = out[1]
    BY <2>2, Joined
  <2> QED BY <2>1, <2>2, <2>3, Joined
<1>9. Emits(all)
  BY <1>3, <1>4, <1>5, <1>6 DEF OnTerminal
<1>10. /\ sent' \in Seq(Chunks) /\ output' \in {"open", "failed"}
       /\ output' = "open" => sent' = s \o out
       /\ output' # "open" => Len(sent') < Len(s \o out)
       /\ \A n \in 1..Len(sent') : sent'[n] = (s \o out)[n]
  BY <1>2, <1>7, <1>9, EmitsPrefix
<1>11. CASE output' = "open"
  <2>1. HeadsTold(sent, toolItems, nextToolIndex)'
    BY <1>11 DEF ChatInv
  <2>2. \A i \in Items : Full(sent \o all, i, TRUE)
    BY <1>1, <1>2, <1>6, <1>7, QuietFull DEF OpenAIPieces
  <2>3. \A i \in Items : Full(sent, i, TRUE)'
    BY <1>7, <1>10, <1>11, <2>2 DEF Full, Contents, Again, WholePieces
  <2>4. sent'[Len(sent')] = end
    BY <1>8, <1>10, <1>11
  <2>5. hasToolCalls <=> WholeToolCalls # {}
    <3>1. \A i \in Items : ~Pending(i)
      BY <1>1 DEF Pending
    <3>2. Known = WholeToolCalls
      BY <3>1 DEF CallsInv, Known, WholeToolCalls
    <3> QED BY <3>2 DEF CallsInv
  <2>6. frame.reason = ReasonTold
    BY <1>1 DEF CallsInv, BirthInv
  <2>7. WholeFinishReason' = WholeFinishReason
    BY DEF WholeFinishReason, ReasonTold, WholeToolCalls
  <2>8. FinishReason(frame.reason, hasToolCalls) = WholeFinishReason
    BY <2>5, <2>6 DEF FinishReason, WholeFinishReason
  <2> QED BY <1>4, <2>1, <2>3, <2>4, <2>7, <2>8 DEF EndInv
<1>12. CASE output' # "open"
  <2>1. Len(sent') \in Nat /\ Len(sent') <= Len(s)
    BY <1>8, <1>10, <1>12, LenProperties
  <2>2. ASSUME NEW n \in 1..Len(sent') PROVE sent'[n].type # "finish"
    <3>1. n \in 1..Len(s)
      BY <1>8, <2>1
    <3>2. sent'[n] = s[n]
      BY <1>8, <1>10, <3>1
    <3> QED BY <1>3, <3>1, <3>2 DEF Going
  <2>3. sent' # <<>> => Len(sent') \in 1..Len(sent')
    BY <1>10, <2>1, EmptySeq
  <2> QED BY <2>2, <2>3 DEF EndInv
<1> QED BY <1>11, <1>12

LEMMA TranslatesEnd ==
  ASSUME OpenAIInv, OpenAIPieces, CallsInv, EndInv, Translates
  PROVE  EndInv'
<1>1. UNCHANGED <<upstream, items>> /\ frame.type # "none" /\ ChatInv'
  BY TranslatesKept, TranslatesInv DEF OpenAIInv
<1>2. CASE OnTerminal
  BY <1>1, <1>2, TerminalEnd
<1>3. CASE stopped
  <2>1. frame.type = "[DONE]"
    BY <1>1, <1>3 DEF OpenAIInv, StopInv, NoFrame
  <2>2. OnDone
    BY <2>1 DEF Translates, OnOther, OnToolAdded, OnPartAdded, OnText, OnReasoning,
       OnArguments, OnReasoningDone, OnToolDone, OnTerminal, OnFailure
  <2>3. Emits(<<>>) /\ UNCHANGED <<toolItems, nextToolIndex>>
    BY <1>3, <2>2 DEF OnDone, bridgeVars
  <2>4. sent' = sent
    <3>1. sent \in Seq(Chunks) /\ 0..(Len(<<>>) - 1) = {}
      BY OrderedStart
    <3>2. sent \o <<>> = sent
      BY <3>1, ConcatEmptySeq
    <3> QED BY <2>3, <3>1, <3>2 DEF Emits
  <2> QED BY <1>1, <2>3, <2>4, EndKept
<1>4. CASE ~stopped /\ ~OnTerminal
  <2>1. ~stopped'
    BY <1>4 DEF Translates, OnOther, OnToolAdded, OnPartAdded, OnText, OnReasoning,
       OnArguments, OnReasoningDone, OnToolDone, OnFailure, OnDone, Passes, TakesArguments,
       bridgeVars
  <2>2. ~(sent' # <<>> /\ sent'[Len(sent')].type = "finish")
    <3>1. sent' \in Seq(Chunks) /\ \A n \in 1..Len(sent') : sent'[n].type # "finish"
      BY <1>1, <2>1 DEF ChatInv, LegalChat
    <3>2. sent' # <<>> => Len(sent') \in 1..Len(sent')
      BY <3>1, LenProperties, EmptySeq
    <3> QED BY <3>1, <3>2
  <2> QED BY <2>2 DEF EndInv
<1> QED BY <1>2, <1>3, <1>4

LEMMA CallsAndEndHold ==
  OpenAISpec => [](CallsInv /\ EndInv)
<1>1. ASSUME OpenAIInv, OpenAIPieces, CallsInv /\ EndInv, [OpenAINext]_openAIVars
      PROVE  (CallsInv /\ EndInv)'
  BY <1>1, TranslatesCalls, TranslatesEnd, UpstreamKeepsCalls, UpstreamKeepsEnd, StutterCalls
     DEF OpenAINext, Returned
<1> QED BY <1>1, InitCalls, OpenAIInvHolds, OpenAIPiecesHold, PTL DEF OpenAISpec

(* No two heads have the same index. *)
LEMMA HeadsDiffer ==
  ASSUME NEW s, LegalChat(s), NEW m \in ToolsIn(s, Len(s)), NEW n \in ToolsIn(s, Len(s)),
         m # n
  PROVE  s[m].index # s[n].index /\ s[m].item # s[n].item
<1>1. Len(s) \in Nat
  BY DEF LegalChat
<1>2. ASSUME NEW a \in ToolsIn(s, Len(s)), NEW b \in ToolsIn(s, Len(s)), a < b
      PROVE  s[a].index # s[b].index /\ s[a].item # s[b].item
  <2> DEFINE before == ToolsIn(s, a - 1)
             after == ToolsIn(s, b - 1)
  <2>1. a \in 1..Len(s) /\ b \in 1..Len(s) /\ s[a].type = "tool" /\ s[b].type = "tool"
    BY DEF ToolsIn
  <2>2. s[a].index = Cardinality(before) /\ s[b].index = Cardinality(after)
        /\ \A k \in after : s[k].item # s[b].item
    BY <2>1 DEF LegalChat, LegalAt
  <2>3. before \cup {a} \subseteq after /\ a \notin before /\ after \subseteq 1..(b - 1)
    BY <1>1, <1>2, <2>1 DEF ToolsIn
  <2> HIDE DEF before, after
  <2>4. IsFiniteSet(1..(b - 1))
    BY <2>1, FS_Interval
  <2>5. IsFiniteSet(after) /\ IsFiniteSet(before)
    BY <2>3, <2>4, FS_Subset
  <2>6. Cardinality(before \cup {a}) = Cardinality(before) + 1
        /\ Cardinality(before \cup {a}) <= Cardinality(after)
    BY <2>3, <2>5, FS_AddElement, FS_Subset
  <2>7. Cardinality(before) \in Nat /\ Cardinality(after) \in Nat
    BY <2>5, FS_CardinalityType
  <2>8. a \in after
    BY <2>3
  <2> QED BY <2>2, <2>6, <2>7, <2>8
<1>3. m \in 1..Len(s) /\ n \in 1..Len(s)
  BY DEF ToolsIn
<1>4. m < n \/ n < m
  BY <1>1, <1>3
<1> QED BY <1>2, <1>4

(* What the client has of a message or a call. *)
LEMMA ItemWhole ==
  ASSUME ItemsOK, NEW i \in Items, items[i].kind # "reasoning", Full(sent, i, TRUE)
  PROVE  InDocument(sent, i, Content(i))
<1>1. PICK pieces \in Contents(i) :
        Delivered(sent, i, pieces, Len(pieces), Again(i, pieces, TRUE))
  BY DEF Full
<1>2. pieces = WholePieces(i) /\ Again(i, pieces, TRUE) = FALSE
  BY DEF Contents, Again
<1>3. Delivered(sent, i, WholePieces(i), items[i].told, FALSE)
  BY <1>1, <1>2, WholeIs
<1>4. PICK s : s = sent
  OBVIOUS
<1>5. Delivered(s, i, WholePieces(i), items[i].told, FALSE)
  BY <1>3, <1>4
<1>6. InDocument(s, i, Content(i))
  BY <1>5, ItemInOrder
<1> QED BY <1>4, <1>6

(* The arguments under the index of a head are the pieces of its call.     *)
LEMMA ArgumentsOf ==
  ASSUME OpenAIInv, CallsInv, NEW m \in Announced(Len(sent))
  PROVE  Deltas("arguments", sent[m].index) = CarriedBy(sent, sent[m].item)
<1>1. LegalChat(sent) /\ sent \in Seq(Chunks) /\ Len(sent) \in Nat
  BY DEF OpenAIInv, ChatInv, LegalChat
<1>2. m \in ToolsIn(sent, Len(sent)) /\ items[sent[m].item].kind = "tool"
  BY DEF Announced, ToolsIn, At, CallsInv, Ordered, OrderedAt
<1>3. ASSUME NEW n \in 1..Len(sent), sent[n].type = "delta", sent[n].field = "arguments"
      PROVE  \E k \in ToolsIn(sent, Len(sent)) :
               sent[k].index = sent[n].index /\ sent[k].item = sent[n].content.item
  <2>1. PICK k \in ToolsIn(sent, n) :
          sent[k].index = sent[n].index /\ sent[k].item = sent[n].content.item
    BY <1>1, <1>3 DEF LegalChat, LegalAt
  <2>2. k \in ToolsIn(sent, Len(sent))
    BY <1>1 DEF ToolsIn
  <2> QED BY <2>1, <2>2
<1>4. ASSUME NEW n \in 1..Len(sent)
      PROVE  n \in Deltas("arguments", sent[m].index) <=> n \in CarriedBy(sent, sent[m].item)
  <2>1. ASSUME n \in Deltas("arguments", sent[m].index)
        PROVE  n \in CarriedBy(sent, sent[m].item)
    <3>1. /\ sent[n].type = "delta" /\ sent[n].field = "arguments"
          /\ sent[n].index = sent[m].index
      BY <2>1 DEF Deltas, At
    <3>2. PICK k \in ToolsIn(sent, Len(sent)) :
            sent[k].index = sent[n].index /\ sent[k].item = sent[n].content.item
      BY <1>3, <3>1
    <3>3. k = m
      BY <1>1, <1>2, <3>1, <3>2, HeadsDiffer
    <3> QED BY <3>1, <3>2, <3>3 DEF CarriedBy, CarriesIn
  <2>2. ASSUME n \in CarriedBy(sent, sent[m].item)
        PROVE  n \in Deltas("arguments", sent[m].index)
    <3>1. sent[n].type = "delta" /\ sent[n].content.item = sent[m].item
      BY <2>2 DEF CarriedBy, CarriesIn
    <3>2. sent[n].field = "arguments"
      BY <1>2, <3>1 DEF CallsInv, Ordered, OrderedAt, FitsItem
    <3>3. PICK k \in ToolsIn(sent, Len(sent)) :
            sent[k].index = sent[n].index /\ sent[k].item = sent[n].content.item
      BY <1>3, <3>1, <3>2
    <3>4. k = m
      BY <1>1, <1>2, <3>1, <3>3, HeadsDiffer
    <3> QED BY <3>1, <3>2, <3>3, <3>4 DEF Deltas, At
  <2> QED BY <2>1, <2>2
<1> QED BY <1>4 DEF Deltas, CarriedBy

(* The text is what the messages hold. *)
LEMMA TextOf ==
  ASSUME OpenAIInv, CallsInv, NEW n \in 1..Len(sent)
  PROVE  n \in Deltas("content", 0) <=>
           /\ sent[n].type = "delta" /\ sent[n].content.item \in Items
           /\ items[sent[n].content.item].kind = "message"
<1>1. sent[n] \in Chunks
  BY ElementOfSeq DEF OpenAIInv, ChatInv, LegalChat
<1>2. sent[n].type = "delta" => FitsItem(sent[n]) /\ sent[n].content.item \in Items
  BY <1>1 DEF CallsInv, Ordered, OrderedAt, Chunks, RoleChunk, ToolChunks, DeltaChunks,
     FinishChunks, PieceRecords
<1> QED BY <1>2 DEF Deltas, At, FitsItem

LEMMA AsWhole ==
  ASSUME OpenAIInv, CallsInv, EndInv
  PROVE  StreamedAsWhole
<1> SUFFICES ASSUME Len(sent) > 0, At(Len(sent), "finish")
             PROVE  LET calls == Announced(Len(sent))
                        text  == Deltas("content", 0)
                    IN  /\ {sent[m].item : m \in calls} = WholeToolCalls
                        /\ \A m, n \in calls : m < n => sent[m].item < sent[n].item
                        /\ \A m \in calls :
                             LET arguments == Deltas("arguments", sent[m].index)
                             IN  /\ Gives(arguments, Content(sent[m].item))
                                 /\ InDocumentOrder(arguments)
                        /\ sent[Len(sent)].reason = WholeFinishReason
                        /\ Gives(text, WholeText)
                        /\ InItemOrder(text) => InDocumentOrder(text)
  BY DEF StreamedAsWhole
<1> DEFINE calls == Announced(Len(sent))
           text  == Deltas("content", 0)
<1>1. sent \in Seq(Chunks) /\ Len(sent) \in Nat /\ sent # <<>> /\ ItemsOK
  BY DEF OpenAIInv, ChatInv, LegalChat, StreamInv
<1>2. /\ HeadsTold(sent, toolItems, nextToolIndex) /\ \A i \in Items : Full(sent, i, TRUE)
      /\ sent[Len(sent)].reason = WholeFinishReason
  BY <1>1 DEF EndInv, At
<1>3. Known = WholeToolCalls
  <2>1. stopped
    BY <1>1, FinishStops DEF At, OpenAIInv
  <2>2. \A i \in Items : ~Pending(i)
    BY <2>1 DEF OpenAIInv, StopInv, Pending, EventTypes, NoFrame
  <2> QED BY <2>2 DEF CallsInv, Known, WholeToolCalls
<1>4. /\ calls = ToolsIn(sent, Len(sent))
      /\ \A m \in calls : sent[m].item \in Items /\ items[sent[m].item].kind = "tool"
  <2>1. calls = ToolsIn(sent, Len(sent))
    BY DEF Announced, ToolsIn, At
  <2>2. ASSUME NEW m \in calls PROVE sent[m].item \in Items /\ items[sent[m].item].kind = "tool"
    <3>1. m \in 1..Len(sent) /\ sent[m] \in Chunks /\ sent[m].type = "tool"
      BY <1>1, <2>1, ElementOfSeq DEF ToolsIn
    <3> QED BY <3>1 DEF CallsInv, Ordered, OrderedAt, Chunks, RoleChunk, ToolChunks,
          DeltaChunks, FinishChunks
  <2> QED BY <2>1, <2>2
<1>5. {sent[m].item : m \in calls} = WholeToolCalls
  <2>1. ASSUME NEW i \in WholeToolCalls PROVE i \in {sent[m].item : m \in calls}
    BY <1>2, <1>3, <1>4, <2>1 DEF HeadsTold, Known
  <2>2. ASSUME NEW m \in calls PROVE sent[m].item \in WholeToolCalls
    BY <1>4, <2>2 DEF WholeToolCalls
  <2> QED BY <2>1, <2>2
<1>6. ASSUME NEW m \in calls, NEW n \in calls, m < n PROVE sent[m].item < sent[n].item
  <2>1. m \in ToolsIn(sent, n - 1) /\ n \in 1..Len(sent) /\ sent[n].type = "tool"
    BY <1>1, <1>4, <1>6 DEF ToolsIn
  <2> QED BY <2>1 DEF CallsInv, Ordered, OrderedAt
<1>7. ASSUME NEW m \in calls
      PROVE  LET arguments == Deltas("arguments", sent[m].index)
             IN  Gives(arguments, Content(sent[m].item)) /\ InDocumentOrder(arguments)
  <2>1. PICK i \in Items : i = sent[m].item /\ items[i].kind = "tool"
    BY <1>4
  <2>2. Deltas("arguments", sent[m].index) = CarriedBy(sent, i)
    BY <2>1, ArgumentsOf
  <2>3. /\ {sent[n].content : n \in CarriedBy(sent, i)} = Content(i)
        /\ \A k, n \in CarriedBy(sent, i) : k < n => Precedes(sent[k].content, sent[n].content)
    BY <1>1, <1>2, <2>1, ItemWhole DEF InDocument
  <2> QED BY <2>1, <2>2, <2>3 DEF Gives, InDocumentOrder
<1>8. ASSUME NEW n \in text
      PROVE  \E i \in Items : items[i].kind = "message" /\ n \in CarriedBy(sent, i)
                              /\ sent[n].content.item = i
  BY <1>8, TextOf DEF Deltas, CarriedBy, CarriesIn
<1>9. ASSUME NEW i \in Items, items[i].kind = "message", NEW n \in CarriedBy(sent, i)
      PROVE  n \in text
  BY <1>9, TextOf DEF CarriedBy, CarriesIn
<1>10. ASSUME NEW i \in Items, items[i].kind = "message"
       PROVE  /\ {sent[n].content : n \in CarriedBy(sent, i)} = Content(i)
              /\ \A m, n \in CarriedBy(sent, i) :
                   m < n => Precedes(sent[m].content, sent[n].content)
  BY <1>1, <1>2, <1>10, ItemWhole DEF InDocument
<1>11. Gives(text, WholeText)
  <2>1. ASSUME NEW n \in text PROVE sent[n].content \in WholeText
    <3>1. PICK i \in Items : items[i].kind = "message" /\ n \in CarriedBy(sent, i)
      BY <1>8
    <3> QED BY <1>10, <3>1 DEF WholeText
  <2>2. ASSUME NEW p \in WholeText PROVE \E n \in text : p = sent[n].content
    <3>1. PICK i \in Items : items[i].kind = "message" /\ p \in Content(i)
      BY DEF WholeText
    <3>2. PICK n \in CarriedBy(sent, i) : p = sent[n].content
      BY <1>10, <3>1
    <3> QED BY <1>9, <3>1, <3>2
  <2> QED BY <2>1, <2>2 DEF Gives
<1>12. ASSUME InItemOrder(text), NEW m \in text, NEW n \in text, m < n
       PROVE  Precedes(sent[m].content, sent[n].content)
  <2>1. PICK i \in Items : items[i].kind = "message" /\ m \in CarriedBy(sent, i)
                           /\ sent[m].content.item = i
    BY <1>8
  <2>2. PICK j \in Items : items[j].kind = "message" /\ n \in CarriedBy(sent, j)
                           /\ sent[n].content.item = j
    BY <1>8
  <2>3. i <= j
    BY <1>12, <2>1, <2>2 DEF InItemOrder
  <2>4. CASE i = j
    BY <1>10, <1>12, <2>1, <2>2, <2>4
  <2>5. CASE i # j
    BY <2>1, <2>2, <2>3, <2>5 DEF Precedes, Items
  <2> QED BY <2>4, <2>5
<1>13. InItemOrder(text) => InDocumentOrder(text)
  BY <1>12 DEF InDocumentOrder
<1> QED BY <1>2, <1>5, <1>6, <1>7, <1>11, <1>13

-----------------------------------------------------------------------------
(* Theorems. *)

(* Type correctness: a call's index is below the number of the answer's    *)
(* items, whatever the frames and their order (openai_responses_stream.go: *)
(* 162-210).                                                               *)
THEOREM OpenAITypeCorrect ==
  OpenAISpec => []OpenAITypeOK
<1>1. OpenAIInv => OpenAITypeOK
  BY DEF OpenAIInv
<1> QED BY <1>1, OpenAIInvHolds, PTL

(* What the client has received is a legal chat stream, or the beginning   *)
(* of one, wherever the answer, the read or the client broke off: the role *)
(* once and first, calls numbered without gaps and announced once before   *)
(* their arguments, nothing after the finish reason                        *)
(* (openai_responses_stream.go:162-210, executor.go's pumpStream).         *)
THEOREM LegalChatStreamHolds ==
  OpenAISpec => []LegalChatStream
<1>1. OpenAIInv => LegalChatStream
  BY LegalSent DEF OpenAIInv, ChatInv
<1> QED BY <1>1, OpenAIInvHolds, PTL

(* The finish reason is made only of the endpoint's own end, and an answer *)
(* that failed or was cut off by [DONE] never ends as a success            *)
(* (openai_responses_stream.go:45-50, 62-72, 152-156).                     *)
THEOREM FailureIsNoSuccessHolds ==
  OpenAISpec => []FailureIsNoSuccess
<1>1. OpenAIInv => FailureIsNoSuccess
  BY BadNewsTold DEF OpenAIInv, StopInv, FailureIsNoSuccess
<1> QED BY <1>1, OpenAIInvHolds, PTL

(* Text and arguments reach the client piece by piece, once and in order,  *)
(* whether they are streamed or come with the done frame; reasoning text   *)
(* does at first, and nothing of it comes again before all of it has       *)
(* (openai_responses_stream.go:104-149).                                   *)
THEOREM AnswerOnceHolds ==
  OpenAISpec => []AnswerOnce
<1> QED BY PiecesOnce, OpenAIInvHolds, OpenAIPiecesHold, PTL

(* Streamed or not, the client gets the same answer: when the finish chunk *)
(* comes, the calls, their arguments, the finish reason and the text are   *)
(* those that responsesResponseToOpenAI makes of the whole answer          *)
(* (openai_responses.go:54-126).                                           *)
THEOREM StreamedAsWholeHolds ==
  OpenAISpec => []StreamedAsWhole
<1>1. OpenAIInv /\ CallsInv /\ EndInv => StreamedAsWhole
  BY AsWhole
<1> QED BY <1>1, OpenAIInvHolds, CallsAndEndHold, PTL

=============================================================================
