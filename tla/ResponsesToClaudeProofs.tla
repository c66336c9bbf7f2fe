----------------------- MODULE ResponsesToClaudeProofs -----------------------
(***************************************************************************)
(* Proofs about ResponsesToClaude for every number of output items and     *)
(* pieces: whatever the endpoint streams and wherever the client, the read *)
(* or the answer breaks off, the client sees a legal Messages stream and   *)
(* every piece once and in turn, a failed answer never ends as a success,  *)
(* and a message that ends is the one the whole answer would have made.    *)
(***************************************************************************)
EXTENDS ResponsesToClaude, ResponsesStreamProofs, FiniteSetTheorems

-----------------------------------------------------------------------------
(* Sequences of Claude's frames. *)

BlockKinds == {"text", "thinking", "tool_use"}
Frames ==
  {MessageStart, MessageStop}
    \cup [type : {"content_block_start"}, index : Nat, kind : BlockKinds, item : Items]
    \cup [type : {"delta"}, index : Nat, kind : BlockKinds,
          content : [item : Items, piece : Nat]]
    \cup [type : {"content_block_stop", "signature_delta"}, index : Nat]
    \cup [type : {"message_delta"},
          reason : {"max_tokens", "refusal", "tool_use", "end_turn"}]
Ends == {"message_delta", "message_stop"}
MessageTypes ==
  {"message_start", "content_block_start", "delta", "content_block_stop",
   "signature_delta"} \cup Ends

(* LegalMessagesStream, of any sequence: block index is open after the     *)
(* first n frames, and frame n may come where it does.                     *)
StartsIn(s, n) == {m \in 1..n : s[m].type = "content_block_start"}
OpenIn(s, n, index) ==
  \E m \in 1..n :
    /\ s[m].type = "content_block_start" /\ s[m].index = index
    /\ \A k \in m..n : ~(s[k].type = "content_block_stop" /\ s[k].index = index)
LegalAt(s, n) ==
  /\ s[n].type \in MessageTypes
  /\ s[n].type = "message_start" => n = 1
  /\ s[n].type = "content_block_start" =>
       n > 1 /\ s[n].index = Cardinality(StartsIn(s, n - 1))
  /\ s[n].type = "delta" =>
       \E m \in StartsIn(s, n) : s[m].index = s[n].index /\ s[m].kind = s[n].kind
  /\ s[n].type \in {"delta", "signature_delta", "content_block_stop"} =>
       OpenIn(s, n - 1, s[n].index)
  /\ s[n].type = "message_delta" =>
       n > 1 /\ \A m \in StartsIn(s, n) : ~OpenIn(s, n - 1, s[m].index)
  /\ s[n].type = "message_stop" => n > 1 /\ s[n - 1].type = "message_delta"
  /\ n < Len(s) =>
       /\ s[n].type # "message_stop"
       /\ s[n].type = "message_delta" => s[n + 1].type = "message_stop"
LegalMessage(s) == s \in Seq(Frames) /\ \A n \in 1..Len(s) : LegalAt(s, n)

(* It has begun and is not being ended. *)
Going(s) == LegalMessage(s) /\ s # <<>> /\ \A n \in 1..Len(s) : s[n].type \notin Ends

LEMMA LegalSent ==
  ASSUME LegalMessage(sent)
  PROVE  LegalMessagesStream
<1>1. Len(sent) \in Nat
  BY DEF LegalMessage
<1>2. ASSUME NEW n \in 1..Len(sent) PROVE Legal(n)
  <2>1. LegalAt(sent, n)
    BY DEF LegalMessage
  <2>2. Starts(n) = StartsIn(sent, n) /\ Starts(n - 1) = StartsIn(sent, n - 1)
    BY DEF Starts, StartsIn, At
  <2>3. \A index : OpenAt(n, index) <=> OpenIn(sent, n - 1, index)
    BY DEF OpenAt, OpenIn, At
  <2> QED BY <2>1, <2>2, <2>3 DEF LegalAt, Legal, At, MessageTypes, Ends
<1>3. ASSUME NEW n \in 1..(Len(sent) - 1)
      PROVE  ~At(n, "message_stop") /\ (At(n, "message_delta") => At(n + 1, "message_stop"))
  <2>1. n \in 1..Len(sent) /\ n < Len(sent)
    BY <1>1
  <2> QED BY <2>1 DEF LegalMessage, LegalAt, At
<1> QED BY <1>2, <1>3 DEF LegalMessagesStream

(* Sequences that agree up to n. *)
LEMMA SameBeginning ==
  ASSUME NEW s, NEW t, NEW n \in Nat, \A m \in 1..n : t[m] = s[m]
  PROVE  /\ StartsIn(t, n) = StartsIn(s, n)
         /\ \A index : OpenIn(t, n, index) <=> OpenIn(s, n, index)
<1>1. \A m \in 1..n : \A k \in m..n : k \in 1..n
  OBVIOUS
<1> QED BY <1>1 DEF StartsIn, OpenIn

LEMMA SameLegality ==
  ASSUME NEW s, NEW t, NEW n \in Nat, n >= 1, \A m \in 1..n : t[m] = s[m], LegalAt(s, n),
         n < Len(t) =>
           /\ t[n].type # "message_stop"
           /\ t[n].type = "message_delta" => t[n + 1].type = "message_stop"
  PROVE  LegalAt(t, n)
<1>1. t[n] = s[n] /\ (n > 1 => t[n - 1] = s[n - 1])
  OBVIOUS
<1>2. /\ StartsIn(t, n) = StartsIn(s, n) /\ StartsIn(t, n - 1) = StartsIn(s, n - 1)
      /\ \A index : OpenIn(t, n - 1, index) <=> OpenIn(s, n - 1, index)
  <2>1. n - 1 \in Nat /\ \A m \in 1..(n - 1) : t[m] = s[m]
    OBVIOUS
  <2>2. StartsIn(t, n) = StartsIn(s, n)
    BY SameBeginning
  <2> QED BY <2>1, <2>2, SameBeginning
<1>3. \A m \in StartsIn(s, n) : t[m] = s[m]
  BY DEF StartsIn
<1>4. t[n].type = "message_stop" => t[n - 1].type = "message_delta"
  BY <1>1 DEF LegalAt
<1> QED BY <1>1, <1>2, <1>3, <1>4 DEF LegalAt

(* What the client has got before it goes away is legal too. *)
LEMMA LegalPrefix ==
  ASSUME NEW s, NEW t \in Seq(Frames), LegalMessage(s), Len(t) <= Len(s),
         \A n \in 1..Len(t) : t[n] = s[n]
  PROVE  LegalMessage(t)
<1> SUFFICES ASSUME NEW n \in 1..Len(t) PROVE LegalAt(t, n)
  BY DEF LegalMessage
<1>1. Len(t) \in Nat /\ Len(s) \in Nat /\ n \in Nat /\ n >= 1 /\ n \in 1..Len(s)
  BY DEF LegalMessage
<1>2. LegalAt(s, n) /\ \A m \in 1..n : t[m] = s[m]
  BY <1>1 DEF LegalMessage
<1>3. ASSUME n < Len(t)
      PROVE  /\ t[n].type # "message_stop"
             /\ t[n].type = "message_delta" => t[n + 1].type = "message_stop"
  <2>1. n < Len(s) /\ t[n + 1] = s[n + 1] /\ t[n] = s[n]
    BY <1>1, <1>3
  <2> QED BY <1>2, <2>1 DEF LegalAt
<1> QED BY <1>1, <1>2, <1>3, SameLegality

(* t is s and then out. *)
Joins(t, s, out) ==
  /\ t \in Seq(Frames) /\ s \in Seq(Frames) /\ out \in Seq(Frames)
  /\ Len(t) = Len(s) + Len(out)
  /\ \A n \in 1..Len(s) : t[n] = s[n]
  /\ \A n \in 1..Len(out) : t[Len(s) + n] = out[n]

LEMMA Joined ==
  ASSUME NEW s \in Seq(Frames), NEW out \in Seq(Frames)
  PROVE  Joins(s \o out, s, out)
<1>1. /\ s \o out \in Seq(Frames) /\ Len(s \o out) = Len(s) + Len(out)
      /\ \A n \in 1..Len(s) + Len(out) :
           (s \o out)[n] = IF n <= Len(s) THEN s[n] ELSE out[n - Len(s)]
      /\ Len(s) \in Nat /\ Len(out) \in Nat
  BY ConcatProperties
<1>2. \A n \in 1..Len(s) : (s \o out)[n] = s[n]
  BY <1>1
<1>3. ASSUME NEW n \in 1..Len(out) PROVE (s \o out)[Len(s) + n] = out[n]
  <2>1. Len(s) + n \in 1..Len(s) + Len(out) /\ ~(Len(s) + n <= Len(s))
        /\ (Len(s) + n) - Len(s) = n
    BY <1>1
  <2> QED BY <1>1, <2>1
<1> QED BY <1>1, <1>2, <1>3 DEF Joins

(* What goes on stays legal up to where it was. *)
LEMMA StillLegal ==
  ASSUME NEW s, NEW t, NEW out, Going(s), Joins(t, s, out)
  PROVE  /\ Len(s) \in Nat /\ Len(s) >= 1 /\ Len(t) \in Nat /\ Len(out) \in Nat
         /\ \A n \in 1..Len(s) : LegalAt(t, n) /\ t[n].type \notin Ends
         /\ StartsIn(t, Len(s)) = StartsIn(s, Len(s))
         /\ \A index : OpenIn(t, Len(s), index) <=> OpenIn(s, Len(s), index)
<1>1. Len(s) \in Nat /\ Len(s) >= 1 /\ Len(t) \in Nat /\ Len(out) \in Nat
  BY DEF Going, LegalMessage, Joins
<1>2. ASSUME NEW n \in 1..Len(s) PROVE LegalAt(t, n) /\ t[n].type \notin Ends
  <2>1. /\ n \in Nat /\ n >= 1 /\ \A m \in 1..n : t[m] = s[m]
        /\ LegalAt(s, n) /\ t[n].type \notin Ends
    BY <1>1 DEF Going, LegalMessage, Joins
  <2> QED BY <2>1, SameLegality DEF Ends
<1>3. /\ StartsIn(t, Len(s)) = StartsIn(s, Len(s))
      /\ \A index : OpenIn(t, Len(s), index) <=> OpenIn(s, Len(s), index)
  BY <1>1, SameBeginning DEF Joins
<1> QED BY <1>1, <1>2, <1>3

LEMMA MessageFirst ==
  /\ <<MessageStart>> \in Seq(Frames) /\ Len(<<MessageStart>>) = 1
  /\ Going(<<MessageStart>>) /\ StartsIn(<<MessageStart>>, 1) = {}
<1>1. MessageStart \in Frames /\ MessageStart.type = "message_start"
  BY DEF Frames, MessageStart
<1> DEFINE s == <<MessageStart>>
<1>2. s \in Seq(Frames) /\ Len(s) = 1 /\ s[1] = MessageStart /\ s # <<>>
  BY <1>1
<1> HIDE DEF s
<1>3. LegalAt(s, 1)
  BY <1>1, <1>2 DEF LegalAt, MessageTypes
<1>4. \A n \in 1..Len(s) : n = 1
  BY <1>2
<1>5. StartsIn(s, 1) = {}
  BY <1>1, <1>2 DEF StartsIn
<1> QED BY <1>1, <1>2, <1>3, <1>4, <1>5 DEF Going, LegalMessage, Ends, s

(* A block that has the next index opens. *)
LEMMA BlockFollows ==
  ASSUME NEW s, NEW t, NEW c, Going(s), Joins(t, s, <<c>>),
         c.type = "content_block_start", c.index = Cardinality(StartsIn(s, Len(s)))
  PROVE  /\ Going(t) /\ t[Len(t)] = c
         /\ StartsIn(t, Len(t)) = StartsIn(s, Len(s)) \cup {Len(t)}
         /\ Len(t) \notin StartsIn(s, Len(s)) /\ \A n \in 1..Len(s) : t[n] = s[n]
         /\ \A index : OpenIn(t, Len(t), index) <=> OpenIn(s, Len(s), index) \/ index = c.index
<1> DEFINE n == Len(s) + 1
<1>1. /\ Len(s) \in Nat /\ Len(s) >= 1
      /\ \A m \in 1..Len(s) : LegalAt(t, m) /\ t[m].type \notin Ends
      /\ StartsIn(t, Len(s)) = StartsIn(s, Len(s))
      /\ \A index : OpenIn(t, Len(s), index) <=> OpenIn(s, Len(s), index)
  BY StillLegal
<1>2. Len(t) = n /\ t[n] = c /\ (\A m \in 1..Len(s) : t[m] = s[m]) /\ t \in Seq(Frames)
  BY <1>1 DEF Joins
<1>3. LegalAt(t, n)
  BY <1>1, <1>2 DEF LegalAt, MessageTypes
<1>4. 1..n = (1..Len(s)) \cup {n} /\ n \notin 1..Len(s) /\ n \in Nat /\ n - 1 = Len(s)
  BY <1>1
<1> HIDE DEF n
<1>5. Going(t)
  <2>1. \A m \in 1..Len(t) : LegalAt(t, m) /\ t[m].type \notin Ends
    BY <1>1, <1>2, <1>3, <1>4 DEF Ends
  <2>2. t # <<>>
    BY <1>1, <1>2 DEF n
  <2> QED BY <1>2, <2>1, <2>2 DEF Going, LegalMessage
<1>6. StartsIn(t, n) = StartsIn(s, Len(s)) \cup {n} /\ n \notin StartsIn(s, Len(s))
  BY <1>1, <1>2, <1>4 DEF StartsIn
<1>7. ASSUME NEW index
      PROVE  OpenIn(t, n, index) <=> OpenIn(t, Len(s), index) \/ index = c.index
  <2>1. ASSUME index = c.index PROVE OpenIn(t, n, index)
    <3>1. n \in 1..n /\ t[n].type = "content_block_start" /\ t[n].index = index
          /\ \A k \in n..n : k = n
      BY <1>1, <1>2, <1>4, <2>1
    <3> QED BY <3>1 DEF OpenIn
  <2>2. ASSUME OpenIn(t, Len(s), index) PROVE OpenIn(t, n, index)
    <3>1. PICK m \in 1..Len(s) :
            /\ t[m].type = "content_block_start" /\ t[m].index = index
            /\ \A k \in m..Len(s) : ~(t[k].type = "content_block_stop" /\ t[k].index = index)
      BY <2>2 DEF OpenIn
    <3>2. \A k \in m..n : k \in m..Len(s) \/ k = n
      BY <1>1, <1>4
    <3>3. m \in 1..n
      BY <1>4
    <3> QED BY <1>2, <3>1, <3>2, <3>3 DEF OpenIn
  <2>3. ASSUME OpenIn(t, n, index), index # c.index PROVE OpenIn(t, Len(s), index)
    <3>1. PICK m \in 1..n :
            /\ t[m].type = "content_block_start" /\ t[m].index = index
            /\ \A k \in m..n : ~(t[k].type = "content_block_stop" /\ t[k].index = index)
      BY <2>3 DEF OpenIn
    <3>2. m \in 1..Len(s) /\ \A k \in m..Len(s) : k \in m..n
      BY <1>1, <1>2, <1>4, <2>3, <3>1
    <3> QED BY <3>1, <3>2 DEF OpenIn
  <2> QED BY <2>1, <2>2, <2>3
<1> QED BY <1>1, <1>2, <1>5, <1>6, <1>7

(* Where no block opens, those that were open and are not closed stay so.  *)
LEMMA NoneOpens ==
  ASSUME NEW t, NEW m \in Nat, NEW n \in Nat, m <= n,
         \A j \in (m + 1)..n : t[j].type # "content_block_start"
  PROVE  /\ StartsIn(t, n) = StartsIn(t, m)
         /\ \A index : OpenIn(t, n, index) <=>
              /\ OpenIn(t, m, index)
              /\ \A j \in (m + 1)..n :
                   ~(t[j].type = "content_block_stop" /\ t[j].index = index)
<1>1. 1..n = (1..m) \cup ((m + 1)..n)
  OBVIOUS
<1>2. StartsIn(t, n) = StartsIn(t, m)
  BY <1>1 DEF StartsIn
<1> DEFINE Stops(k, index) == t[k].type = "content_block_stop" /\ t[k].index = index
           Opens(k, index) == t[k].type = "content_block_start" /\ t[k].index = index
<1>3. \A index, k : OpenIn(t, k, index) <=>
        \E h \in 1..k : Opens(h, index) /\ \A g \in h..k : ~Stops(g, index)
  BY DEF OpenIn
<1>4. \A index : \A h \in 1..n : Opens(h, index) => h \in 1..m
  BY <1>1
<1> HIDE DEF Stops, Opens
<1>5. ASSUME NEW index, NEW h \in 1..m
      PROVE  (\A g \in h..n : ~Stops(g, index)) <=>
               (\A g \in h..m : ~Stops(g, index)) /\ (\A g \in (m + 1)..n : ~Stops(g, index))
  <2>1. h..n = (h..m) \cup ((m + 1)..n)
    OBVIOUS
  <2> QED BY <2>1
<1>6. 1..m \subseteq 1..n
  OBVIOUS
<1>7. ASSUME NEW index
      PROVE  OpenIn(t, n, index) <=>
               OpenIn(t, m, index) /\ \A j \in (m + 1)..n : ~Stops(j, index)
  BY <1>3, <1>4, <1>5, <1>6
<1> QED BY <1>2, <1>7 DEF Stops

(* Deltas and signatures, of one open block and of its kind. *)
AreInner(out, index, kind) ==
  \A n \in 1..Len(out) :
    /\ out[n].type \in {"delta", "signature_delta"} /\ out[n].index = index
    /\ out[n].type = "delta" => out[n].kind = kind
Begun(s, index, kind) ==
  \E m \in StartsIn(s, Len(s)) : s[m].index = index /\ s[m].kind = kind

LEMMA InnerFollows ==
  ASSUME NEW s, NEW t, NEW out, NEW index, NEW kind, Going(s), Joins(t, s, out),
         OpenIn(s, Len(s), index), Begun(s, index, kind), AreInner(out, index, kind)
  PROVE  /\ Going(t) /\ StartsIn(t, Len(t)) = StartsIn(s, Len(s))
         /\ \A n \in 1..Len(s) : t[n] = s[n]
         /\ \A i : OpenIn(t, Len(t), i) <=> OpenIn(s, Len(s), i)
<1>1. /\ Len(s) \in Nat /\ Len(s) >= 1 /\ Len(t) \in Nat /\ Len(out) \in Nat
      /\ \A m \in 1..Len(s) : LegalAt(t, m) /\ t[m].type \notin Ends
      /\ StartsIn(t, Len(s)) = StartsIn(s, Len(s))
      /\ \A i : OpenIn(t, Len(s), i) <=> OpenIn(s, Len(s), i)
  BY StillLegal
<1>2. /\ Len(t) = Len(s) + Len(out) /\ t \in Seq(Frames) /\ \A n \in 1..Len(s) : t[n] = s[n]
      /\ \A n \in 1..Len(out) : t[Len(s) + n] = out[n]
  BY DEF Joins
<1>3. ASSUME NEW n \in (Len(s) + 1)..Len(t)
      PROVE  /\ t[n].type \in {"delta", "signature_delta"} /\ t[n].index = index
             /\ t[n].type = "delta" => t[n].kind = kind
  <2>1. n - Len(s) \in 1..Len(out) /\ n = Len(s) + (n - Len(s))
    BY <1>1, <1>2
  <2> QED BY <1>2, <2>1 DEF AreInner
<1>4. ASSUME NEW n \in Len(s)..Len(t)
      PROVE  /\ StartsIn(t, n) = StartsIn(s, Len(s))
             /\ \A i : OpenIn(t, n, i) <=> OpenIn(s, Len(s), i)
  <2>1. n \in Nat /\ Len(s) <= n
    BY <1>1
  <2>2. \A j \in (Len(s) + 1)..n :
          t[j].type # "content_block_start" /\ t[j].type # "content_block_stop"
    BY <1>1, <1>3
  <2> QED BY <1>1, <2>1, <2>2, NoneOpens
<1>5. ASSUME NEW n \in (Len(s) + 1)..Len(t) PROVE LegalAt(t, n) /\ t[n].type \notin Ends
  <2>1. n \in Len(s)..Len(t) /\ n - 1 \in Len(s)..Len(t)
    BY <1>1
  <2>2. \E m \in StartsIn(t, n) : t[m].index = index /\ t[m].kind = kind
    <3>1. \A m \in StartsIn(s, Len(s)) : t[m] = s[m]
      BY <1>2 DEF StartsIn
    <3> QED BY <1>4, <2>1, <3>1 DEF Begun
  <2>3. OpenIn(t, n - 1, index)
    BY <1>4, <2>1
  <2> QED BY <1>3, <2>2, <2>3 DEF LegalAt, Ends, MessageTypes
<1>6. Going(t)
  <2>1. \A n \in 1..Len(t) : n \in 1..Len(s) \/ n \in (Len(s) + 1)..Len(t)
    BY <1>1
  <2>2. t # <<>>
    BY <1>1, <1>2
  <2> QED BY <1>1, <1>2, <1>5, <2>1, <2>2 DEF Going, LegalMessage
<1>7. Len(t) \in Len(s)..Len(t)
  BY <1>1, <1>2
<1> QED BY <1>2, <1>4, <1>6, <1>7

(* Stops of different open blocks. *)
LEMMA StopsFollow ==
  ASSUME NEW s, NEW t, NEW out, Going(s), Joins(t, s, out),
         \A n \in 1..Len(out) :
           out[n].type = "content_block_stop" /\ OpenIn(s, Len(s), out[n].index),
         \A m, n \in 1..Len(out) : m # n => out[m].index # out[n].index
  PROVE  /\ Going(t) /\ StartsIn(t, Len(t)) = StartsIn(s, Len(s))
         /\ \A n \in 1..Len(s) : t[n] = s[n]
         /\ \A i : OpenIn(t, Len(t), i) <=>
              OpenIn(s, Len(s), i) /\ \A n \in 1..Len(out) : out[n].index # i
<1>1. /\ Len(s) \in Nat /\ Len(s) >= 1 /\ Len(t) \in Nat /\ Len(out) \in Nat
      /\ \A m \in 1..Len(s) : LegalAt(t, m) /\ t[m].type \notin Ends
      /\ StartsIn(t, Len(s)) = StartsIn(s, Len(s))
      /\ \A i : OpenIn(t, Len(s), i) <=> OpenIn(s, Len(s), i)
  BY StillLegal
<1>2. /\ Len(t) = Len(s) + Len(out) /\ t \in Seq(Frames) /\ \A n \in 1..Len(s) : t[n] = s[n]
      /\ \A n \in 1..Len(out) : t[Len(s) + n] = out[n]
  BY DEF Joins
<1>3. ASSUME NEW n \in (Len(s) + 1)..Len(t)
      PROVE  n - Len(s) \in 1..Len(out) /\ t[n] = out[n - Len(s)]
  <2>1. n - Len(s) \in 1..Len(out) /\ n = Len(s) + (n - Len(s))
    BY <1>1, <1>2
  <2> QED BY <1>2, <2>1
<1>4. ASSUME NEW n \in Len(s)..Len(t)
      PROVE  /\ StartsIn(t, n) = StartsIn(s, Len(s))
             /\ \A i : OpenIn(t, n, i) <=>
                  OpenIn(s, Len(s), i) /\ \A j \in (Len(s) + 1)..n : t[j].index # i
  <2>1. n \in Nat /\ Len(s) <= n
    BY <1>1
  <2>2. \A j \in (Len(s) + 1)..n : t[j].type = "content_block_stop"
    BY <1>1, <1>3
  <2>3. \A j \in (Len(s) + 1)..n : t[j].type # "content_block_start"
    BY <2>2
  <2>4. /\ StartsIn(t, n) = StartsIn(t, Len(s))
        /\ \A i : OpenIn(t, n, i) <=>
             /\ OpenIn(t, Len(s), i)
             /\ \A j \in (Len(s) + 1)..n :
                  ~(t[j].type = "content_block_stop" /\ t[j].index = i)
    BY <1>1, <2>1, <2>3, NoneOpens
  <2> QED BY <1>1, <2>2, <2>4
<1>5. ASSUME NEW n \in (Len(s) + 1)..Len(t) PROVE LegalAt(t, n) /\ t[n].type \notin Ends
  <2>1. n \in Len(s)..Len(t) /\ n - 1 \in Len(s)..Len(t)
    BY <1>1
  <2>2. t[n].type = "content_block_stop" /\ OpenIn(s, Len(s), t[n].index)
    BY <1>3
  <2>3. ASSUME NEW j \in (Len(s) + 1)..(n - 1) PROVE t[j].index # t[n].index
    <3>1. j \in (Len(s) + 1)..Len(t) /\ j - Len(s) # n - Len(s)
      BY <1>1
    <3> QED BY <1>3, <3>1
  <2>4. OpenIn(t, n - 1, t[n].index)
    BY <1>4, <2>1, <2>2, <2>3
  <2> QED BY <2>2, <2>4 DEF LegalAt, Ends, MessageTypes
<1>6. Going(t)
  <2>1. \A n \in 1..Len(t) : n \in 1..Len(s) \/ n \in (Len(s) + 1)..Len(t)
    BY <1>1
  <2>2. t # <<>>
    BY <1>1, <1>2
  <2> QED BY <1>1, <1>2, <1>5, <2>1, <2>2 DEF Going, LegalMessage
<1>7. Len(t) \in Len(s)..Len(t)
  BY <1>1, <1>2
<1>8. ASSUME NEW i
      PROVE  (\A j \in (Len(s) + 1)..Len(t) : t[j].index # i) <=>
               \A n \in 1..Len(out) : out[n].index # i
  <2>1. \A n \in 1..Len(out) : Len(s) + n \in (Len(s) + 1)..Len(t) /\ t[Len(s) + n] = out[n]
    BY <1>1, <1>2
  <2> QED BY <1>3, <2>1
<1> QED BY <1>2, <1>4, <1>6, <1>7, <1>8

(* The end, when every block is closed. *)
LEMMA EndFollows ==
  ASSUME NEW s, NEW t, NEW end, Going(s), Joins(t, s, <<end, MessageStop>>),
         end.type = "message_delta", \A m \in StartsIn(s, Len(s)) : ~OpenIn(s, Len(s), s[m].index)
  PROVE  LegalMessage(t)
<1> DEFINE n == Len(s) + 1
<1>1. /\ Len(s) \in Nat /\ Len(s) >= 1
      /\ \A m \in 1..Len(s) : LegalAt(t, m) /\ t[m].type \notin Ends
      /\ StartsIn(t, Len(s)) = StartsIn(s, Len(s))
      /\ \A index : OpenIn(t, Len(s), index) <=> OpenIn(s, Len(s), index)
  BY StillLegal
<1>2. /\ Len(t) = n + 1 /\ t[n] = end /\ t[n + 1].type = "message_stop"
      /\ \A m \in 1..Len(s) : t[m] = s[m]
      /\ t \in Seq(Frames)
  BY <1>1 DEF Joins, MessageStop
<1>3. n \in Nat /\ n > 1 /\ n - 1 = Len(s) /\ (n + 1) - 1 = n
  BY <1>1
<1> HIDE DEF n
<1>4. LegalAt(t, n)
  <2>1. Len(s) \in Nat /\ Len(s) <= n /\ \A j \in (Len(s) + 1)..n : j = n
    BY <1>1, <1>3
  <2>2. StartsIn(t, n) = StartsIn(t, Len(s))
    BY <1>2, <1>3, <2>1, NoneOpens
  <2>3. \A m \in StartsIn(s, Len(s)) : t[m] = s[m]
    BY <1>2 DEF StartsIn
  <2> QED BY <1>1, <1>2, <1>3, <2>2, <2>3 DEF LegalAt, MessageTypes, Ends
<1>5. LegalAt(t, n + 1)
  <2>1. n + 1 > 1 /\ ~(n + 1 < Len(t)) /\ t[(n + 1) - 1].type = "message_delta"
    BY <1>2, <1>3
  <2> QED BY <1>2, <2>1 DEF LegalAt, MessageTypes, Ends
<1>6. \A m \in 1..Len(t) : m \in 1..Len(s) \/ m = n \/ m = n + 1
  BY <1>1, <1>2, <1>3
<1> QED BY <1>1, <1>2, <1>4, <1>5, <1>6 DEF LegalMessage

-----------------------------------------------------------------------------
(* The bridge. *)

Known == {key \in Keys : blocks[key] # NoBlock}

(* Every block of the map has an index of its own. *)
Distinct(map) ==
  \A key, other \in Keys :
    map[key] # NoBlock /\ map[other] # NoBlock /\ key # other =>
      map[key].index # map[other].index
BlocksInv ==
  /\ Cardinality(Known) = nextBlock
  /\ \A key \in Known : blocks[key].index < nextBlock
  /\ Distinct(blocks)

(* s is what the client has, or will have, when the map is map: each block *)
(* of it was begun once, and is open for the client while it is open.      *)
Told(s, map, next) ==
  /\ Cardinality(StartsIn(s, Len(s))) = next
  /\ \A key \in Keys : map[key] # NoBlock =>
       /\ \E m \in StartsIn(s, Len(s)) :
            s[m].index = map[key].index /\ s[m].kind = map[key].kind
       /\ OpenIn(s, Len(s), map[key].index) <=> map[key].open
  /\ \A m \in StartsIn(s, Len(s)) :
       \E key \in Keys : map[key] # NoBlock /\ map[key].index = s[m].index

MessageInv ==
  /\ LegalMessage(sent)
  /\ ~stopped => \A n \in 1..Len(sent) : sent[n].type \notin Ends
  /\ output = "open" =>
       /\ IF started THEN sent # <<>> ELSE sent = <<>>
       /\ ~stopped => Told(sent, blocks, nextBlock)

(* Message_stop is made of the endpoint's end, and nothing but [DONE]      *)
(* comes after it.                                                         *)
StopInv ==
  /\ stopped => Terminated /\ (frame = NoFrame \/ frame.type = "[DONE]")

(* A frame of an item comes with the item's move. *)
Fits(type, kind, phase) ==
  /\ type = "output_item.added" => phase = "open"
  /\ type = "content_part.added" => kind = "message" /\ phase = "part"
  /\ type = "delta" => phase = IF kind = "message" THEN "part" ELSE "open"
  /\ type = "content_part.done" => kind = "message" /\ phase = "parted"
  /\ type = "output_item.done" => phase = "done"
FrameTold ==
  frame.type \in EventTypes =>
    items[frame.item].kind = frame.kind
      /\ Fits(frame.type, frame.kind, items[frame.item].phase)

(* A block is of its item's kind, and one that is closed will not be       *)
(* written again: the endpoint has told all of its content.                *)
BlocksFit ==
  \A i \in Items :
    /\ blocks[<<"item", i>>] # NoBlock =>
         /\ items[i].kind \in {"reasoning", "tool"}
         /\ blocks[<<"item", i>>].kind =
              IF items[i].kind = "tool" THEN "tool_use" ELSE "thinking"
         /\ stopped \/ blocks[<<"item", i>>].open \/ (items[i].phase = "done" /\ ~Pending(i))
    /\ blocks[<<"content", i>>] # NoBlock =>
         /\ items[i].kind = "message" /\ blocks[<<"content", i>>].kind = "text"
         /\ \/ stopped \/ blocks[<<"content", i>>].open
            \/ /\ items[i].phase \in {"parted", "done"}
               /\ Pending(i) => frame.type = "output_item.done"

ClaudeInv ==
  /\ StreamInv /\ ClaudeTypeOK /\ BlocksInv /\ FrameTold /\ BlocksFit /\ StopInv
  /\ MessageInv

LEMMA KeysFinite ==
  IsFiniteSet(Keys) /\ Cardinality(Keys) = 2 * NumItems
<1>1. IsFiniteSet(Items) /\ Cardinality(Items) = NumItems
  BY FS_Interval, StreamAssumption DEF Items
<1>2. IsFiniteSet({"item", "content"}) /\ Cardinality({"item", "content"}) = 2
  <2>1. IsFiniteSet({"item"}) /\ Cardinality({"item"}) = 1
    BY FS_Singleton
  <2>2. {"item", "content"} = {"item"} \cup {"content"} /\ "content" \notin {"item"}
    OBVIOUS
  <2> QED BY <2>1, <2>2, FS_AddElement
<1> QED BY <1>1, <1>2, FS_Product DEF Keys

LEMMA KeysOf ==
  ASSUME NEW i \in Items
  PROVE  <<"item", i>> \in Keys /\ <<"content", i>> \in Keys
BY DEF Keys

LEMMA InitInv ==
  ClaudeInit => ClaudeInv
<1> SUFFICES ASSUME ClaudeInit PROVE ClaudeInv
  OBVIOUS
<1>1. StreamInv /\ sent = <<>> /\ frame = NoFrame /\ output = "open"
  BY StreamInitInv DEF ClaudeInit, StreamInit, PumpInit
<1>2. /\ blocks = [key \in Keys |-> NoBlock] /\ nextBlock = 0 /\ ~started /\ ~stopped
      /\ started \in BOOLEAN /\ stopped \in BOOLEAN
  BY DEF ClaudeInit
<1>3. \A key \in Keys : blocks[key] = NoBlock
  BY <1>2
<1>4. BlocksInv
  <2>1. Known = {} /\ Cardinality({}) = 0
    BY <1>3, FS_EmptySet DEF Known
  <2> QED BY <1>2, <1>3, <2>1 DEF BlocksInv, Distinct
<1>5. ClaudeTypeOK
  <2>1. 0 \in 0..(2 * NumItems) /\ blocks \in [Keys -> {NoBlock}]
    BY <1>2, StreamAssumption
  <2> QED BY <1>1, <1>2, <2>1 DEF ClaudeTypeOK, StreamInv
<1>6. FrameTold
  BY <1>1 DEF FrameTold, NoFrame, EventTypes
<1>7. BlocksFit
  BY <1>3, KeysOf DEF BlocksFit
<1>8. StopInv
  BY <1>2 DEF StopInv
<1>9. MessageInv
  <2>1. <<>> \in Seq(Frames) /\ Len(<<>>) = 0
    OBVIOUS
  <2>2. LegalMessage(<<>>)
    BY <2>1 DEF LegalMessage
  <2>3. StartsIn(<<>>, 0) = {} /\ Cardinality({}) = 0
    BY FS_EmptySet DEF StartsIn
  <2>4. Told(<<>>, blocks, 0)
    BY <1>3, <2>1, <2>3 DEF Told
  <2> QED BY <1>1, <1>2, <2>1, <2>2, <2>4 DEF MessageInv
<1> QED BY <1>1, <1>4, <1>5, <1>6, <1>7, <1>8, <1>9 DEF ClaudeInv

-----------------------------------------------------------------------------
(* The map of blocks. *)

BlockRecords ==
  [index : 0..(2 * NumItems), kind : BlockKinds, open : BOOLEAN, sawDelta : BOOLEAN,
   encrypted : BOOLEAN]

LEMMA BlockAtType ==
  ASSUME ClaudeTypeOK, NEW key \in Keys, NEW kind \in BlockKinds
  PROVE  /\ BlockAt(key, kind) \in BlockRecords /\ nextBlock \in Nat
         /\ blocks[key] # NoBlock => blocks[key] \in BlockRecords
         /\ blocks[key] = NoBlock => BlockAt(key, kind) = Block(nextBlock, kind, FALSE, FALSE, FALSE)
<1>1. nextBlock \in 0..(2 * NumItems) /\ 2 * NumItems \in Nat
  BY StreamAssumption DEF ClaudeTypeOK
<1>2. blocks[key] # NoBlock => blocks[key] \in BlockRecords
  BY DEF ClaudeTypeOK, BlockRecords, BlockKinds
<1>3. Block(nextBlock, kind, FALSE, FALSE, FALSE) \in BlockRecords
  BY <1>1 DEF Block, BlockRecords
<1>4. nextBlock \in Nat
  BY <1>1
<1>5. CASE blocks[key] = NoBlock
  <2>1. BlockAt(key, kind) = Block(nextBlock, kind, FALSE, FALSE, FALSE)
    BY <1>5 DEF BlockAt
  <2> QED BY <1>3, <1>5, <1>4, <2>1
<1>6. CASE blocks[key] # NoBlock
  <2>1. BlockAt(key, kind) = blocks[key]
    BY <1>6 DEF BlockAt
  <2> QED BY <1>2, <1>6, <1>4, <2>1
<1> QED BY <1>5, <1>6

(* The block under key, new or not, has an index below the next one        *)
(* afterwards, and no other block has changed.                             *)
LEMMA BlockCounted ==
  ASSUME ClaudeTypeOK, BlocksInv, NEW key \in Keys, NEW kind \in BlockKinds,
         NEW open \in BOOLEAN, NEW sawDelta \in BOOLEAN, NEW encrypted \in BOOLEAN,
         blocks' = [blocks EXCEPT ![key] =
           Block(BlockAt(key, kind).index, BlockAt(key, kind).kind, open, sawDelta, encrypted)],
         nextBlock' = Counted(key)
  PROVE  /\ BlocksInv' /\ nextBlock' \in 0..(2 * NumItems)
         /\ blocks' \in [Keys -> {NoBlock} \cup
              [index : 0..(2 * NumItems), kind : {"text", "thinking", "tool_use"},
               open : BOOLEAN, sawDelta : BOOLEAN, encrypted : BOOLEAN]]
<1> DEFINE b == BlockAt(key, kind)
           new == Block(b.index, b.kind, open, sawDelta, encrypted)
<1>1. /\ b \in BlockRecords /\ nextBlock \in Nat
      /\ blocks[key] # NoBlock => b = blocks[key]
      /\ blocks[key] = NoBlock => b = Block(nextBlock, kind, FALSE, FALSE, FALSE)
  BY BlockAtType DEF BlockAt
<1>2. new \in BlockRecords /\ new # NoBlock /\ new.index = b.index
  BY <1>1 DEF Block, BlockRecords, NoBlock
<1> HIDE DEF b, new
<1>3. blocks' = [blocks EXCEPT ![key] = new]
  BY DEF new, b
<1>4. /\ blocks \in [Keys -> {NoBlock} \cup BlockRecords]
      /\ nextBlock \in 0..(2 * NumItems) /\ 2 * NumItems \in Nat
  BY StreamAssumption DEF ClaudeTypeOK, BlockRecords, BlockKinds
<1>5. /\ blocks' \in [Keys -> {NoBlock} \cup BlockRecords]
      /\ blocks'[key] = new /\ \A k \in Keys : k # key => blocks'[k] = blocks[k]
  BY <1>2, <1>3, <1>4
<1>6. /\ IsFiniteSet(Known) /\ Known \subseteq Keys /\ Cardinality(Known) = nextBlock
      /\ IsFiniteSet(Keys) /\ Cardinality(Keys) = 2 * NumItems
  BY KeysFinite, FS_Subset DEF BlocksInv, Known
<1>7. Known' = Known \cup {key}
  BY <1>2, <1>5 DEF Known
<1>8. CASE blocks[key] # NoBlock
  <2>1. nextBlock' = nextBlock /\ Known' = Known /\ b = blocks[key]
    BY <1>1, <1>7, <1>8 DEF Counted, Known
  <2>2. \A k \in Keys : blocks'[k] # NoBlock =>
          blocks[k] # NoBlock /\ blocks'[k].index = blocks[k].index
    BY <1>2, <1>5, <1>8, <2>1
  <2>3. BlocksInv'
    BY <1>6, <2>1, <2>2 DEF BlocksInv, Known, Distinct
  <2> QED BY <1>4, <1>5, <2>1, <2>3 DEF BlockRecords, BlockKinds
<1>9. CASE blocks[key] = NoBlock
  <2>1. nextBlock' = nextBlock + 1 /\ key \notin Known /\ new.index = nextBlock
    BY <1>1, <1>2, <1>9 DEF Counted, Known, Block
  <2>2. Cardinality(Known') = nextBlock + 1 /\ nextBlock + 1 <= 2 * NumItems
    <3>1. IsFiniteSet(Known \cup {key}) /\ Cardinality(Known \cup {key}) = nextBlock + 1
      BY <1>6, <2>1, FS_AddElement
    <3>2. Cardinality(Known \cup {key}) <= Cardinality(Keys)
      BY <1>6, FS_Subset
    <3> QED BY <1>4, <1>6, <1>7, <3>1, <3>2
  <2>3. \A k \in Known : blocks[k].index < nextBlock /\ blocks[k].index \in Nat
    BY <1>4 DEF BlocksInv, Known, BlockRecords
  <2>4. \A k \in Keys : blocks'[k] # NoBlock =>
          \/ k = key /\ blocks'[k].index = nextBlock
          \/ k \in Known /\ k # key /\ blocks'[k].index = blocks[k].index
    BY <1>5, <2>1 DEF Known
  <2>5. Distinct(blocks')
    BY <1>1, <2>3, <2>4 DEF BlocksInv, Distinct, Known
  <2>6. \A k \in Known' : blocks'[k].index < nextBlock'
    BY <1>1, <2>1, <2>3, <2>4 DEF Known
  <2>7. nextBlock' \in 0..(2 * NumItems)
    BY <1>4, <2>1, <2>2
  <2>8. BlocksInv'
    BY <2>1, <2>2, <2>5, <2>6 DEF BlocksInv, Distinct
  <2> QED BY <1>5, <2>7, <2>8 DEF BlockRecords, BlockKinds
<1> QED BY <1>8, <1>9

-----------------------------------------------------------------------------
(* What the client has been told of the map. *)

(* Frames that neither open nor close a block. *)
LEMMA ToldKept ==
  ASSUME NEW s, NEW t, NEW map, NEW next, Told(s, map, next),
         StartsIn(t, Len(t)) = StartsIn(s, Len(s)), \A n \in 1..Len(s) : t[n] = s[n],
         \A index : OpenIn(t, Len(t), index) <=> OpenIn(s, Len(s), index)
  PROVE  Told(t, map, next)
<1>1. \A m \in StartsIn(s, Len(s)) : t[m] = s[m]
  BY DEF StartsIn
<1> QED BY <1>1 DEF Told

(* The rest of a block's record does not matter. *)
LEMMA ToldAgree ==
  ASSUME NEW s, NEW map, NEW other, NEW next, Told(s, map, next),
         \A key \in Keys :
           /\ other[key] # NoBlock <=> map[key] # NoBlock
           /\ other[key] # NoBlock =>
                /\ other[key].index = map[key].index /\ other[key].kind = map[key].kind
                /\ other[key].open <=> map[key].open
  PROVE  Told(s, other, next)
<1>1. ASSUME NEW key \in Keys, other[key] # NoBlock
      PROVE  /\ \E m \in StartsIn(s, Len(s)) :
                  s[m].index = other[key].index /\ s[m].kind = other[key].kind
             /\ OpenIn(s, Len(s), other[key].index) <=> other[key].open
  BY <1>1 DEF Told
<1>2. ASSUME NEW m \in StartsIn(s, Len(s))
      PROVE  \E key \in Keys : other[key] # NoBlock /\ other[key].index = s[m].index
  BY DEF Told
<1> QED BY <1>1, <1>2 DEF Told

(* A new block, under the next index: c starts it, and other is the map    *)
(* with it under key.                                                      *)
Starting(s, t, map, other, next, key, c) ==
  /\ next \in Nat /\ key \in Keys
  /\ Going(s) /\ Joins(t, s, <<c>>) /\ Told(s, map, next)
  /\ map[key] = NoBlock
  /\ \A k \in Keys : map[k] # NoBlock => map[k].index # next
  /\ c.type = "content_block_start" /\ c.index = next
  /\ \A k \in Keys : k # key => other[k] = map[k]
  /\ other[key] # NoBlock /\ other[key].index = next /\ other[key].kind = c.kind
  /\ other[key].open

LEMMA NewBlockTold ==
  ASSUME NEW s, NEW t, NEW map, NEW other, NEW next, NEW key, NEW c,
         Starting(s, t, map, other, next, key, c)
  PROVE  Going(t) /\ Told(t, other, next + 1)
<1> USE DEF Starting
<1>1. /\ Going(t) /\ t[Len(t)] = c
      /\ StartsIn(t, Len(t)) = StartsIn(s, Len(s)) \cup {Len(t)}
      /\ Len(t) \notin StartsIn(s, Len(s)) /\ \A n \in 1..Len(s) : t[n] = s[n]
      /\ \A index : OpenIn(t, Len(t), index) <=> OpenIn(s, Len(s), index) \/ index = next
  BY BlockFollows DEF Told
<1>2. \A m \in StartsIn(s, Len(s)) : m \in StartsIn(t, Len(t)) /\ t[m] = s[m]
  BY <1>1 DEF StartsIn
<1>3. Cardinality(StartsIn(t, Len(t))) = next + 1
  <2>1. IsFiniteSet(StartsIn(s, Len(s)))
    <3>1. Len(s) \in Nat
      BY DEF Going, LegalMessage
    <3>2. IsFiniteSet(1..Len(s))
      BY <3>1, FS_Interval
    <3> QED BY <3>2, FS_Subset DEF StartsIn
  <2>2. Cardinality(StartsIn(s, Len(s))) = next
    BY DEF Told
  <2> DEFINE S == StartsIn(s, Len(s))
             x == Len(t)
  <2>3. x \notin S /\ StartsIn(t, Len(t)) = S \cup {x}
    BY <1>1
  <2> HIDE DEF S, x
  <2>4. Cardinality(S \cup {x}) = Cardinality(S) + 1
    BY ONLY <2>1, <2>3, FS_AddElement DEF S
  <2> QED BY <2>2, <2>3, <2>4 DEF S
<1>4. ASSUME NEW k \in Keys, other[k] # NoBlock
      PROVE  /\ \E m \in StartsIn(t, Len(t)) :
                  t[m].index = other[k].index /\ t[m].kind = other[k].kind
             /\ OpenIn(t, Len(t), other[k].index) <=> other[k].open
  <2>1. CASE k = key
    <3>1. Len(t) \in StartsIn(t, Len(t))
      BY <1>1
    <3> QED BY <1>1, <2>1, <3>1
  <2>2. CASE k # key
    <3>1. other[k] = map[k] /\ map[k] # NoBlock
      BY <1>4, <2>2
    <3>2. PICK m \in StartsIn(s, Len(s)) :
            s[m].index = map[k].index /\ s[m].kind = map[k].kind
      BY <3>1 DEF Told
    <3>3. OpenIn(t, Len(t), map[k].index) <=> map[k].open
      BY <1>1, <3>1 DEF Told
    <3> QED BY <1>2, <3>1, <3>2, <3>3
  <2> QED BY <2>1, <2>2
<1>5. ASSUME NEW m \in StartsIn(t, Len(t))
      PROVE  \E k \in Keys : other[k] # NoBlock /\ other[k].index = t[m].index
  <2>1. CASE m = Len(t)
    BY <1>1, <2>1
  <2>2. CASE m \in StartsIn(s, Len(s))
    <3>1. PICK k \in Keys : map[k] # NoBlock /\ map[k].index = s[m].index
      BY <2>2 DEF Told
    <3> QED BY <1>2, <2>2, <3>1
  <2> QED BY <1>1, <2>1, <2>2
<1> QED BY <1>1, <1>3, <1>4, <1>5 DEF Told

(* Blocks are closed, each of a set of open ones once. *)
StopEach(out, map, closed) ==
  /\ closed \subseteq Keys /\ \A key \in closed : map[key] # NoBlock /\ map[key].open
  /\ \A n \in 1..Len(out) :
       /\ out[n].type = "content_block_stop"
       /\ \E key \in closed : out[n].index = map[key].index
  /\ \A key \in closed : \E n \in 1..Len(out) : out[n].index = map[key].index
  /\ \A m, n \in 1..Len(out) : m # n => out[m].index # out[n].index
WithClosed(other, map, closed) ==
  \A key \in Keys :
    /\ other[key] # NoBlock <=> map[key] # NoBlock
    /\ other[key] # NoBlock =>
         /\ other[key].index = map[key].index /\ other[key].kind = map[key].kind
         /\ other[key].open <=> map[key].open /\ key \notin closed

LEMMA ClosedTold ==
  ASSUME NEW s, NEW t, NEW out, NEW map, NEW other, NEW next, NEW closed, Going(s),
         Joins(t, s, out), Told(s, map, next), Distinct(map), StopEach(out, map, closed),
         WithClosed(other, map, closed)
  PROVE  Going(t) /\ Told(t, other, next)
<1>1. \A n \in 1..Len(out) : OpenIn(s, Len(s), out[n].index)
  BY DEF Told, StopEach
<1>2. /\ Going(t) /\ StartsIn(t, Len(t)) = StartsIn(s, Len(s))
      /\ \A n \in 1..Len(s) : t[n] = s[n]
      /\ \A i : OpenIn(t, Len(t), i) <=>
           OpenIn(s, Len(s), i) /\ \A n \in 1..Len(out) : out[n].index # i
  BY <1>1, StopsFollow DEF StopEach
<1>3. \A m \in StartsIn(s, Len(s)) : t[m] = s[m]
  BY <1>2 DEF StartsIn
<1>4. ASSUME NEW key \in Keys, other[key] # NoBlock
      PROVE  /\ \E m \in StartsIn(t, Len(t)) :
                  t[m].index = other[key].index /\ t[m].kind = other[key].kind
             /\ OpenIn(t, Len(t), other[key].index) <=> other[key].open
  <2>1. /\ map[key] # NoBlock /\ other[key].index = map[key].index
        /\ other[key].kind = map[key].kind
        /\ other[key].open <=> map[key].open /\ key \notin closed
    BY <1>4 DEF WithClosed
  <2>2. \E m \in StartsIn(t, Len(t)) :
          t[m].index = other[key].index /\ t[m].kind = other[key].kind
    <3>1. PICK m \in StartsIn(s, Len(s)) :
            s[m].index = map[key].index /\ s[m].kind = map[key].kind
      BY <2>1 DEF Told
    <3> QED BY <1>2, <1>3, <2>1, <3>1
  <2>3. (\A n \in 1..Len(out) : out[n].index # map[key].index) <=> key \notin closed
    BY <2>1 DEF Distinct, StopEach
  <2>4. OpenIn(s, Len(s), map[key].index) <=> map[key].open
    BY <2>1 DEF Told
  <2> QED BY <1>2, <1>4, <2>1, <2>2, <2>3, <2>4
<1>5. ASSUME NEW m \in StartsIn(t, Len(t))
      PROVE  \E key \in Keys : other[key] # NoBlock /\ other[key].index = t[m].index
  <2>1. PICK key \in Keys : map[key] # NoBlock /\ map[key].index = s[m].index
    BY <1>2 DEF Told
  <2> QED BY <1>2, <1>3, <2>1 DEF WithClosed
<1>6. Cardinality(StartsIn(t, Len(t))) = next
  BY <1>2 DEF Told
<1> QED BY <1>2, <1>4, <1>5, <1>6 DEF Told

-----------------------------------------------------------------------------
(* What the bridge makes of a frame, part by part. *)

LEMMA JoinFrames ==
  ASSUME NEW a \in Seq(Frames), NEW b \in Seq(Frames), NEW c \in Seq(Frames)
  PROVE  b \o c \in Seq(Frames) /\ a \o (b \o c) = (a \o b) \o c
BY ONLY JoinThree

(* Once the pump has emitted out, the client is told of map. *)
Reaches(out, map, next) ==
  out \in Seq(Frames) /\ Going(sent \o out) /\ Told(sent \o out, map, next)

LEMMA Further ==
  ASSUME sent \in Seq(Frames), NEW out \in Seq(Frames), NEW more \in Seq(Frames)
  PROVE  /\ out \o more \in Seq(Frames)
         /\ Joins(sent \o (out \o more), sent \o out, more)
<1>1. out \o more \in Seq(Frames) /\ sent \o (out \o more) = (sent \o out) \o more
  BY JoinFrames
<1>2. sent \o out \in Seq(Frames)
  BY ConcatProperties
<1> DEFINE s == sent \o out
<1> HIDE DEF s
<1>3. Joins(s \o more, s, more)
  BY <1>2, Joined DEF s
<1> QED BY <1>1, <1>3 DEF s

LEMMA StartReaches ==
  ASSUME MessageInv, output = "open", ~stopped
  PROVE  Reaches(Start, blocks, nextBlock)
<1>1. sent \in Seq(Frames) /\ LegalMessage(sent) /\ Told(sent, blocks, nextBlock)
  BY DEF MessageInv, LegalMessage
<1>2. CASE started
  <2>1. Start = <<>> /\ sent \o <<>> = sent /\ <<>> \in Seq(Frames)
    BY <1>1, <1>2, ConcatEmptySeq DEF Start
  <2> QED BY <1>1, <1>2, <2>1 DEF MessageInv, Going, Reaches
<1>3. CASE ~started
  <2> DEFINE s == <<MessageStart>>
  <2>1. Start = s /\ sent = <<>>
    BY <1>3 DEF Start, MessageInv
  <2>2. s \in Seq(Frames) /\ Len(s) = 1 /\ Going(s) /\ StartsIn(s, 1) = {}
    BY MessageFirst
  <2> HIDE DEF s
  <2>3. <<>> \o s = s /\ Len(<<>>) = 0
    BY <2>2, ConcatEmptySeq
  <2>4. StartsIn(sent, Len(sent)) = {} /\ \A index : ~OpenIn(sent, Len(sent), index)
    BY <2>1, <2>3 DEF StartsIn, OpenIn
  <2>5. \A index : ~OpenIn(s, Len(s), index)
    BY <2>2 DEF StartsIn, OpenIn
  <2>6. \A n \in 1..Len(sent) : s[n] = sent[n]
    BY <2>1, <2>3
  <2>7. Told(s, blocks, nextBlock)
    BY <1>1, <2>2, <2>4, <2>5, <2>6, ToldKept
  <2> QED BY <2>1, <2>2, <2>3, <2>7 DEF Reaches
<1> QED BY <1>2, <1>3

(* The block under key, opened if it is new. *)
LEMMA OpenedReaches ==
  ASSUME ClaudeTypeOK, BlocksInv, sent \in Seq(Frames), NEW out, Reaches(out, blocks, nextBlock),
         NEW key \in Keys, NEW kind \in BlockKinds, NEW map,
         blocks[key] # NoBlock => blocks[key].open,
         \A k \in Keys : k # key => map[k] = blocks[k],
         map[key] # NoBlock, map[key].index = BlockAt(key, kind).index,
         map[key].kind = BlockAt(key, kind).kind, map[key].open = TRUE, frame.item \in Items
  PROVE  Reaches(out \o (IF blocks[key] # NoBlock THEN <<>>
                         ELSE <<BlockStart(BlockAt(key, kind))>>), map, Counted(key))
<1>1. /\ nextBlock \in Nat /\ out \in Seq(Frames)
      /\ Going(sent \o out) /\ Told(sent \o out, blocks, nextBlock)
  BY BlockAtType DEF Reaches
<1>2. CASE blocks[key] # NoBlock
  <2>1. out \o <<>> = out /\ Counted(key) = nextBlock /\ BlockAt(key, kind) = blocks[key]
    BY <1>1, <1>2, ConcatEmptySeq DEF Counted, BlockAt
  <2>2. \A k \in Keys :
          /\ map[k] # NoBlock <=> blocks[k] # NoBlock
          /\ map[k] # NoBlock =>
               /\ map[k].index = blocks[k].index /\ map[k].kind = blocks[k].kind
               /\ map[k].open <=> blocks[k].open
    BY <1>2, <2>1
  <2>3. Told(sent \o out, map, nextBlock)
    BY <1>1, <2>2, ToldAgree
  <2> QED BY <1>1, <1>2, <2>1, <2>3 DEF Reaches
<1>3. CASE blocks[key] = NoBlock
  <2> DEFINE c == BlockStart(BlockAt(key, kind))
             s == sent \o out
             t == sent \o (out \o <<c>>)
  <2>1. /\ c.type = "content_block_start" /\ c.index = nextBlock /\ c.kind = kind
        /\ <<c>> \in Seq(Frames)
        /\ map[key].index = nextBlock /\ map[key].kind = kind
    <3>1. BlockAt(key, kind) = Block(nextBlock, kind, FALSE, FALSE, FALSE)
      BY <1>3, BlockAtType
    <3>2. BlockAt(key, kind).index = nextBlock /\ BlockAt(key, kind).kind = kind
      BY <3>1 DEF Block
    <3> QED BY <1>1, <3>2 DEF BlockStart, Frames
  <2>2. Counted(key) = nextBlock + 1
    BY <1>3 DEF Counted
  <2>3. \A k \in Keys : blocks[k] # NoBlock => blocks[k].index # nextBlock
    <3>1. \A k \in Keys : blocks[k] # NoBlock => blocks[k].index \in Nat
      <4>1. \A k \in Keys : blocks[k] # NoBlock => blocks[k] \in BlockRecords
        BY BlockAtType
      <4> QED BY <4>1, StreamAssumption DEF BlockRecords
    <3> QED BY <1>1, <3>1 DEF BlocksInv, Known
  <2> HIDE DEF c
  <2>4. out \o <<c>> \in Seq(Frames) /\ Joins(t, s, <<c>>)
    BY <1>1, <2>1, Further
  <2>5. Going(s) /\ Told(s, blocks, nextBlock)
    BY <1>1
  <2> HIDE DEF s, t
  <2>6. map[key].kind = c.kind /\ map[key].open /\ nextBlock \in Nat
    BY <1>1, <2>1
  <2>7. Going(t) /\ Told(t, map, nextBlock + 1)
    <3>1. Starting(s, t, blocks, map, nextBlock, key, c)
      BY <1>3, <2>1, <2>3, <2>4, <2>5, <2>6 DEF Starting
    <3> QED BY <3>1, NewBlockTold
  <2> QED BY <1>3, <2>2, <2>4, <2>7 DEF Reaches, c, t
<1> QED BY <1>2, <1>3

(* Deltas and signatures of a block. *)
InnerOf(index, kind) ==
  [type : {"delta"}, index : {index}, kind : {kind}, content : [item : Items, piece : Nat]]
    \cup [type : {"signature_delta"}, index : {index}]

LEMMA DeltasType ==
  ASSUME NEW b, NEW kind, NEW i \in Items, NEW pieces \in Seq(PiecesOf(i))
  PROVE  Deltas(b, kind, pieces) \in Seq(InnerOf(b.index, kind))
<1>1. Len(pieces) \in Nat /\ \A n \in 1..Len(pieces) : pieces[n] \in PiecesOf(i)
  BY ElementOfSeq
<1>2. \A n \in 1..Len(pieces) : BlockDelta(b, kind, pieces[n]) \in InnerOf(b.index, kind)
  BY <1>1 DEF BlockDelta, InnerOf, PiecesOf
<1> QED BY <1>1, <1>2 DEF Deltas

LEMMA InnerOfType ==
  ASSUME NEW index \in Nat, NEW kind \in BlockKinds, NEW out \in Seq(InnerOf(index, kind))
  PROVE  out \in Seq(Frames) /\ AreInner(out, index, kind)
<1>1. InnerOf(index, kind) \subseteq Frames
  BY DEF InnerOf, Frames
<1>2. \A n \in 1..Len(out) : out[n] \in InnerOf(index, kind)
  BY ElementOfSeq
<1>3. out \in Seq(Frames)
  BY <1>1, SeqMonotonic
<1> QED BY <1>2, <1>3 DEF InnerOf, AreInner

LEMMA InnerReaches ==
  ASSUME sent \in Seq(Frames), NEW out, NEW map, NEW next, Reaches(out, map, next),
         NEW key \in Keys, map[key] # NoBlock, map[key].open, NEW index \in Nat,
         NEW kind \in BlockKinds, map[key].index = index, map[key].kind = kind,
         NEW inner \in Seq(InnerOf(index, kind))
  PROVE  Reaches(out \o inner, map, next)
<1> DEFINE s == sent \o out
           t == sent \o (out \o inner)
<1>1. inner \in Seq(Frames) /\ AreInner(inner, index, kind)
  BY InnerOfType
<1>2. /\ out \o inner \in Seq(Frames) /\ Joins(t, s, inner)
      /\ Going(s) /\ Told(s, map, next)
  BY <1>1, Further DEF Reaches
<1> HIDE DEF s, t
<1>3. OpenIn(s, Len(s), index) /\ Begun(s, index, kind)
  BY <1>2 DEF Told, Begun
<1>4. /\ Going(t) /\ StartsIn(t, Len(t)) = StartsIn(s, Len(s))
      /\ \A n \in 1..Len(s) : t[n] = s[n]
      /\ \A i : OpenIn(t, Len(t), i) <=> OpenIn(s, Len(s), i)
  BY <1>1, <1>2, <1>3, InnerFollows
<1>5. Told(t, map, next)
  BY <1>2, <1>4, ToldKept
<1> QED BY <1>2, <1>4, <1>5 DEF Reaches, t

(* What the client gets of it. *)
LEMMA EmitsLegal ==
  ASSUME NEW out \in Seq(Frames), sent \in Seq(Frames), LegalMessage(sent \o out),
         output = "open", Emits(out)
  PROVE  /\ frame' = NoFrame /\ output' \in {output, "failed"}
         /\ LegalMessage(sent') /\ (output' = "open" => sent' = sent \o out)
<1>1. /\ frame' = NoFrame /\ output' \in {output, "failed"}
      /\ output' = "open" => sent' = sent \o out
      /\ sent' \in Seq(Frames) /\ Len(sent') <= Len(sent \o out)
      /\ \A n \in 1..Len(sent') : sent'[n] = (sent \o out)[n]
  BY EmitsPrefix
<1> QED BY <1>1, LegalPrefix

LEMMA EmitsReached ==
  ASSUME MessageInv, output = "open", NEW out, Reaches(out, blocks', nextBlock'), Emits(out),
         started' = TRUE, stopped' = stopped
  PROVE  MessageInv' /\ frame' = NoFrame /\ output' \in {output, "failed"}
<1>1. /\ out \in Seq(Frames) /\ Going(sent \o out)
      /\ Told(sent \o out, blocks', nextBlock') /\ LegalMessage(sent \o out)
  BY DEF Reaches, Going
<1>2. /\ frame' = NoFrame /\ output' \in {output, "failed"} /\ LegalMessage(sent')
      /\ output' = "open" => sent' = sent \o out
  <2>1. sent \in Seq(Frames)
    BY DEF MessageInv, LegalMessage
  <2> QED BY <1>1, <2>1, EmitsLegal
<1>3. output' = "open" => Told(sent', blocks', nextBlock')
  BY <1>1, <1>2
<1>4. output' = "open" => sent' # <<>>
  BY <1>1, <1>2 DEF Going
<1>5. \A n \in 1..Len(sent') : sent'[n].type \notin Ends
  <2>1. sent \in Seq(Frames) /\ sent \o out \in Seq(Frames)
    BY <1>1 DEF MessageInv, LegalMessage
  <2>2. /\ sent' \in Seq(Frames) /\ Len(sent') <= Len(sent \o out)
        /\ \A n \in 1..Len(sent') : sent'[n] = (sent \o out)[n]
    BY <1>1, <2>1, EmitsPrefix
  <2>3. Len(sent') \in Nat /\ Len(sent \o out) \in Nat
    BY <2>1, <2>2, LenProperties
  <2> QED BY <1>1, <2>2, <2>3 DEF Going
<1> QED BY <1>2, <1>3, <1>4, <1>5 DEF MessageInv

LEMMA ClosingReaches ==
  ASSUME sent \in Seq(Frames), NEW out, NEW map, NEW other, NEW next, NEW closed,
         Reaches(out, map, next), NEW stops \in Seq(Frames), Distinct(map),
         StopEach(stops, map, closed), WithClosed(other, map, closed)
  PROVE  Reaches(out \o stops, other, next)
<1> DEFINE s == sent \o out
           t == sent \o (out \o stops)
<1>1. /\ out \o stops \in Seq(Frames) /\ Joins(t, s, stops)
      /\ Going(s) /\ Told(s, map, next)
  BY Further DEF Reaches
<1> HIDE DEF s, t
<1>2. Going(t) /\ Told(t, other, next)
  BY <1>1, ClosedTold
<1> QED BY <1>1, <1>2 DEF Reaches, t

-----------------------------------------------------------------------------
(* What a step that handles a frame keeps, whatever the frame. *)

TypesKept ==
  /\ started' \in BOOLEAN /\ stopped' \in BOOLEAN
  /\ nextBlock' \in 0..(2 * NumItems)
  /\ blocks' \in [Keys -> {NoBlock} \cup
       [index : 0..(2 * NumItems), kind : {"text", "thinking", "tool_use"},
        open : BOOLEAN, sawDelta : BOOLEAN, encrypted : BOOLEAN]]
Kept ==
  /\ MessageInv' /\ BlocksInv' /\ BlocksFit' /\ TypesKept
  /\ frame' = NoFrame /\ output' \in {output, "failed"}
  /\ frame.type \in Failures => output' = "failed"
  /\ frame.type = "[DONE]" /\ upstream = "cut" => output' = "failed"
  /\ stopped' => stopped \/ frame.type \in Terminals

(* The pump has something in hand, so its output is open; and nothing but  *)
(* [DONE] follows the end of the message.                                  *)
LEMMA InHand ==
  ASSUME ClaudeInv, frame.type # "none"
  PROVE  output = "open" /\ (frame.type # "[DONE]" => ~stopped)
BY DEF ClaudeInv, StreamInv, StopInv, NoFrame

LEMMA Unstarted ==
  ASSUME ClaudeInv
  PROVE  sent \in Seq(Frames)
BY DEF ClaudeInv, MessageInv, LegalMessage

(* The block of an item has taken a frame of it. *)
LEMMA ItemFits ==
  ASSUME BlocksFit, NEW i \in Items, frame' = NoFrame, UNCHANGED <<items, stopped>>,
         items[i].kind \in {"reasoning", "tool"},
         \A key \in Keys : key # <<"item", i>> => blocks'[key] = blocks[key],
         blocks'[<<"item", i>>].kind = IF items[i].kind = "tool" THEN "tool_use" ELSE "thinking",
         blocks'[<<"item", i>>].open \/ items[i].phase = "done"
  PROVE  BlocksFit'
<1>1. \A j \in Items : ~(Pending(j)')
  BY DEF Pending, NoFrame, EventTypes
<1>2. \A j \in Items : Pending(j)' => Pending(j)
  BY <1>1
<1> SUFFICES ASSUME NEW j \in Items
             PROVE  /\ blocks'[<<"item", j>>] # NoBlock =>
                         /\ items[j].kind \in {"reasoning", "tool"}
                         /\ blocks'[<<"item", j>>].kind =
                              IF items[j].kind = "tool" THEN "tool_use" ELSE "thinking"
                         /\ \/ stopped \/ blocks'[<<"item", j>>].open
                            \/ items[j].phase = "done"
                    /\ blocks'[<<"content", j>>] # NoBlock =>
                         /\ items[j].kind = "message"
                         /\ blocks'[<<"content", j>>].kind = "text"
                         /\ \/ stopped \/ blocks'[<<"content", j>>].open
                            \/ items[j].phase \in {"parted", "done"}
  BY <1>1 DEF BlocksFit
<1>3. blocks'[<<"content", j>>] = blocks[<<"content", j>>]
  BY KeysOf
<1>4. CASE j = i
  BY <1>3, <1>4 DEF BlocksFit
<1>5. CASE j # i
  <2>1. blocks'[<<"item", j>>] = blocks[<<"item", j>>]
    BY <1>5, KeysOf
  <2> QED BY <1>3, <2>1 DEF BlocksFit
<1> QED BY <1>4, <1>5

(* The block of a content part has. *)
LEMMA PartFits ==
  ASSUME BlocksFit, NEW i \in Items, frame' = NoFrame, UNCHANGED <<items, stopped>>,
         items[i].kind = "message",
         \A key \in Keys : key # <<"content", i>> => blocks'[key] = blocks[key],
         blocks'[<<"content", i>>].kind = "text",
         blocks'[<<"content", i>>].open \/ items[i].phase \in {"parted", "done"}
  PROVE  BlocksFit'
<1>1. \A j \in Items : ~(Pending(j)')
  BY DEF Pending, NoFrame, EventTypes
<1> SUFFICES ASSUME NEW j \in Items
             PROVE  /\ blocks'[<<"item", j>>] # NoBlock =>
                         /\ items[j].kind \in {"reasoning", "tool"}
                         /\ blocks'[<<"item", j>>].kind =
                              IF items[j].kind = "tool" THEN "tool_use" ELSE "thinking"
                         /\ \/ stopped \/ blocks'[<<"item", j>>].open
                            \/ items[j].phase = "done"
                    /\ blocks'[<<"content", j>>] # NoBlock =>
                         /\ items[j].kind = "message"
                         /\ blocks'[<<"content", j>>].kind = "text"
                         /\ \/ stopped \/ blocks'[<<"content", j>>].open
                            \/ items[j].phase \in {"parted", "done"}
  BY <1>1 DEF BlocksFit
<1>3. blocks'[<<"item", j>>] = blocks[<<"item", j>>]
  BY KeysOf
<1>4. CASE j = i
  BY <1>3, <1>4 DEF BlocksFit
<1>5. CASE j # i
  <2>1. blocks'[<<"content", j>>] = blocks[<<"content", j>>]
    BY <1>5, KeysOf
  <2> QED BY <1>3, <2>1 DEF BlocksFit
<1> QED BY <1>4, <1>5

(* No block has changed. *)
LEMMA NoneFits ==
  ASSUME BlocksFit, frame' = NoFrame, UNCHANGED <<items, stopped, blocks>>
  PROVE  BlocksFit'
<1>1. \A j \in Items : ~(Pending(j)')
  BY DEF Pending, NoFrame, EventTypes
<1> QED BY <1>1 DEF BlocksFit

-----------------------------------------------------------------------------
(* A frame that fills a block. *)

LEMMA FillsKept ==
  ASSUME ClaudeInv, frame.type \in EventTypes, NEW key \in Keys, NEW kind \in BlockKinds,
         NEW encrypted \in BOOLEAN, Fills(key, kind, encrypted),
         blocks[key] # NoBlock => blocks[key].open /\ blocks[key].kind = kind
  PROVE  /\ frame' = NoFrame /\ stopped' = stopped
         /\ \A k \in Keys : k # key => blocks'[k] = blocks[k]
         /\ blocks'[key].kind = kind /\ blocks'[key].open
         /\ BlocksFit' => Kept
<1> DEFINE b == BlockAt(key, kind)
           head == IF blocks[key] # NoBlock THEN <<>> ELSE <<BlockStart(b)>>
           deltas == Deltas(b, kind, frame.pieces)
           sawDelta == SawDelta(b, frame.pieces)
<1>1. /\ output = "open" /\ ~stopped /\ frame.item \in Items /\ sent \in Seq(Frames)
      /\ frame.pieces \in Seq(PiecesOf(frame.item))
  BY InHand, EventInHand, Unstarted DEF EventTypes, ClaudeInv, StreamInv
<1>2. /\ b \in BlockRecords /\ b.index \in Nat /\ b.kind = kind /\ sawDelta \in BOOLEAN
      /\ Opening(b) = head
  <2>1. /\ b \in BlockRecords
        /\ blocks[key] # NoBlock => b = blocks[key]
        /\ blocks[key] = NoBlock => b = Block(nextBlock, kind, FALSE, FALSE, FALSE)
    BY BlockAtType DEF ClaudeInv, BlockAt
  <2>2. b.kind = kind /\ (b.open <=> blocks[key] # NoBlock)
    BY <2>1 DEF Block
  <2>3. b.index \in Nat /\ sawDelta \in BOOLEAN
    BY <2>1, StreamAssumption DEF BlockRecords, SawDelta
  <2> HIDE DEF b
  <2> QED BY <2>1, <2>2, <2>3 DEF Opening
<1>3. /\ blocks' = [blocks EXCEPT ![key] = Block(b.index, b.kind, TRUE, sawDelta, encrypted)]
      /\ nextBlock' = Counted(key) /\ started' = TRUE /\ stopped' = stopped
      /\ Emits(Start \o head \o deltas)
  BY <1>2 DEF Fills
<1>4. BlocksInv' /\ nextBlock' \in 0..(2 * NumItems)
      /\ blocks' \in [Keys -> {NoBlock} \cup
           [index : 0..(2 * NumItems), kind : {"text", "thinking", "tool_use"},
            open : BOOLEAN, sawDelta : BOOLEAN, encrypted : BOOLEAN]]
  BY <1>2, <1>3, BlockCounted DEF ClaudeInv
<1>5. /\ \A k \in Keys : k # key => blocks'[k] = blocks[k]
      /\ blocks'[key] # NoBlock /\ blocks'[key].index = b.index /\ blocks'[key].kind = kind
      /\ blocks'[key].open = TRUE
  BY <1>2, <1>3 DEF ClaudeInv, ClaudeTypeOK, Block, NoBlock
<1>6. deltas \in Seq(InnerOf(b.index, kind))
  BY <1>1, DeltasType
<1>7. Reaches(Start, blocks, nextBlock)
  BY <1>1, StartReaches DEF ClaudeInv
<1>8. Reaches(Start \o head, blocks', nextBlock')
  BY <1>1, <1>2, <1>3, <1>5, <1>7, OpenedReaches DEF ClaudeInv
<1> HIDE DEF b, head, deltas, sawDelta
<1>9. Reaches((Start \o head) \o deltas, blocks', nextBlock')
  BY <1>1, <1>2, <1>5, <1>6, <1>8, InnerReaches
<1>10. MessageInv' /\ frame' = NoFrame /\ output' \in {output, "failed"}
  BY <1>1, <1>3, <1>9, EmitsReached DEF ClaudeInv
<1>11. frame.type \notin Failures /\ frame.type # "[DONE]"
  BY DEF EventTypes, Failures
<1>12. TypesKept
  <2>1. started' \in BOOLEAN /\ stopped' \in BOOLEAN
    BY <1>3 DEF ClaudeInv, ClaudeTypeOK
  <2> QED BY <1>4, <2>1 DEF TypesKept
<1>13. BlocksInv' /\ stopped' = stopped
  BY <1>3, <1>4
<1>14. BlocksFit' => Kept
  BY <1>10, <1>11, <1>12, <1>13 DEF Kept
<1> QED BY <1>5, <1>10, <1>13, <1>14

(* Of a reasoning item or a tool call: one that is not done. *)
LEMMA ItemFillsKept ==
  ASSUME ClaudeInv, frame.type \in {"output_item.added", "delta"}, UNCHANGED items,
         NEW kind, \/ frame.kind = "reasoning" /\ kind = "thinking"
                   \/ frame.kind = "tool" /\ kind = "tool_use",
         NEW encrypted \in BOOLEAN, Fills(ItemKey, kind, encrypted)
  PROVE  Kept
<1> DEFINE i == frame.item
<1>1. frame.type \in EventTypes /\ i \in Items /\ ItemKey \in Keys /\ ~stopped
  <2>1. frame.type \in EventTypes
    BY DEF EventTypes
  <2> QED BY <2>1, EventInHand, InHand, KeysOf DEF ItemKey, EventTypes, ClaudeInv, StreamInv
<1>2. items[i].kind = frame.kind /\ items[i].phase = "open" /\ kind \in BlockKinds
  BY <1>1 DEF ClaudeInv, FrameTold, Fits, BlockKinds
<1>3. blocks[ItemKey] # NoBlock => blocks[ItemKey].open /\ blocks[ItemKey].kind = kind
  BY <1>1, <1>2 DEF ClaudeInv, BlocksFit, ItemKey
<1>4. /\ frame' = NoFrame /\ stopped' = stopped
      /\ \A k \in Keys : k # ItemKey => blocks'[k] = blocks[k]
      /\ blocks'[ItemKey].kind = kind /\ blocks'[ItemKey].open
      /\ BlocksFit' => Kept
  BY <1>1, <1>2, <1>3, FillsKept
<1>5. BlocksFit'
  <2>1. /\ items[i].kind \in {"reasoning", "tool"}
        /\ \A k \in Keys : k # <<"item", i>> => blocks'[k] = blocks[k]
        /\ blocks'[<<"item", i>>].kind = IF items[i].kind = "tool" THEN "tool_use" ELSE "thinking"
        /\ blocks'[<<"item", i>>].open
    BY <1>2, <1>4 DEF ItemKey
  <2>2. BlocksFit
    BY DEF ClaudeInv
  <2> HIDE DEF i
  <2> QED BY <1>1, <1>4, <2>1, <2>2, ItemFits
<1> QED BY <1>4, <1>5

(* Of a content part: one that is not done. *)
LEMMA PartFillsKept ==
  ASSUME ClaudeInv, frame.type \in {"content_part.added", "delta"}, UNCHANGED items,
         frame.kind = "message", Fills(ContentKey, "text", FALSE)
  PROVE  Kept
<1> DEFINE i == frame.item
<1>1. frame.type \in EventTypes /\ i \in Items /\ ContentKey \in Keys /\ ~stopped
  <2>1. frame.type \in EventTypes
    BY DEF EventTypes
  <2> QED BY <2>1, EventInHand, InHand, KeysOf DEF ContentKey, EventTypes, ClaudeInv, StreamInv
<1>2. items[i].kind = "message" /\ items[i].phase = "part" /\ "text" \in BlockKinds
  BY <1>1 DEF ClaudeInv, FrameTold, Fits, BlockKinds
<1>3. blocks[ContentKey] # NoBlock =>
        blocks[ContentKey].open /\ blocks[ContentKey].kind = "text"
  BY <1>1, <1>2 DEF ClaudeInv, BlocksFit, ContentKey
<1>4. /\ frame' = NoFrame /\ stopped' = stopped
      /\ \A k \in Keys : k # ContentKey => blocks'[k] = blocks[k]
      /\ blocks'[ContentKey].kind = "text" /\ blocks'[ContentKey].open
      /\ BlocksFit' => Kept
  BY <1>1, <1>2, <1>3, FillsKept
<1>5. BlocksFit'
  <2>1. /\ \A k \in Keys : k # <<"content", i>> => blocks'[k] = blocks[k]
        /\ blocks'[<<"content", i>>].kind = "text" /\ blocks'[<<"content", i>>].open
    BY <1>4 DEF ContentKey
  <2>2. BlocksFit
    BY DEF ClaudeInv
  <2> HIDE DEF i
  <2> QED BY <1>1, <1>2, <1>4, <2>1, <2>2, PartFits
<1> QED BY <1>4, <1>5

LEMMA ItemAddedKept ==
  ASSUME ClaudeInv, OnItemAdded, UNCHANGED items
  PROVE  Kept
<1>1. frame.encrypted \in BOOLEAN
  BY EventInHand DEF OnItemAdded, EventTypes, ClaudeInv, StreamInv
<1> QED BY <1>1, ItemFillsKept DEF OnItemAdded

LEMMA PartAddedKept ==
  ASSUME ClaudeInv, OnPartAdded, UNCHANGED items
  PROVE  Kept
<1>1. frame.type \in EventTypes /\ frame.item \in Items
  BY EventInHand DEF OnPartAdded, EventTypes, ClaudeInv, StreamInv
<1>2. frame.kind = "message"
  BY <1>1 DEF OnPartAdded, ClaudeInv, FrameTold, Fits
<1> QED BY <1>2, PartFillsKept DEF OnPartAdded

LEMMA DeltaKept ==
  ASSUME ClaudeInv, OnDelta, UNCHANGED items
  PROVE  Kept
<1>1. BlockAt(ItemKey, "thinking").encrypted \in BOOLEAN
  <2>1. ItemKey \in Keys
    BY EventInHand, KeysOf DEF OnDelta, EventTypes, ClaudeInv, StreamInv, ItemKey
  <2> QED BY <2>1, BlockAtType DEF ClaudeInv, BlockRecords, BlockKinds
<1> QED BY <1>1, PartFillsKept, ItemFillsKept DEF OnDelta

-----------------------------------------------------------------------------
(* A frame that opens none. *)

LEMMA OtherKept ==
  ASSUME ClaudeInv, OnOther, UNCHANGED items
  PROVE  Kept
<1>1. /\ frame.type \notin Failures \cup {"[DONE]", "none"}
      /\ Emits(Start \o <<>>) /\ started' = TRUE /\ stopped' = stopped
      /\ nextBlock' = nextBlock /\ blocks' = blocks
  BY DEF OnOther, Unmoved, Failures
<1>2. output = "open" /\ ~stopped
  BY <1>1, InHand
<1>3. Reaches(Start, blocks, nextBlock)
  BY <1>2, StartReaches DEF ClaudeInv
<1>4. Start \in Seq(Frames) /\ Start \o <<>> = Start
  BY <1>3, ConcatEmptySeq DEF Reaches
<1>5. MessageInv' /\ frame' = NoFrame /\ output' \in {output, "failed"}
  BY <1>1, <1>2, <1>3, <1>4, EmitsReached DEF ClaudeInv
<1>6. BlocksInv'
  BY <1>1 DEF ClaudeInv, BlocksInv, Known
<1>7. BlocksFit'
  BY <1>1, <1>5, NoneFits DEF ClaudeInv
<1>8. TypesKept
  BY <1>1 DEF ClaudeInv, ClaudeTypeOK, TypesKept
<1> QED BY <1>1, <1>5, <1>6, <1>7, <1>8 DEF Kept

(* Closing blocks leaves their indexes as they are. *)
LEMMA ClosedCounted ==
  ASSUME BlocksInv, NEW closed, WithClosed(blocks', blocks, closed), nextBlock' = nextBlock
  PROVE  BlocksInv'
<1>1. Known' = Known
  BY DEF Known, WithClosed
<1>2. \A key \in Known : blocks'[key].index = blocks[key].index
  BY DEF Known, WithClosed
<1>3. Distinct(blocks')
  BY DEF BlocksInv, Distinct, WithClosed
<1> QED BY <1>1, <1>2, <1>3 DEF BlocksInv

LEMMA ClosedType ==
  ASSUME ClaudeTypeOK, NEW key \in Keys, blocks[key].open
  PROVE  /\ blocks[key] # NoBlock /\ Closed(blocks[key]) # NoBlock
         /\ Closed(blocks[key]).index = blocks[key].index
         /\ Closed(blocks[key]).kind = blocks[key].kind
         /\ Closed(blocks[key]).open = FALSE /\ Closed(blocks[key]) \in BlockRecords
         /\ BlockStop(blocks[key]) \in Frames
<1>1. blocks[key] # NoBlock
  BY DEF NoBlock
<1>2. blocks[key] \in BlockRecords /\ 2 * NumItems \in Nat
  <2>1. "text" \in BlockKinds /\ 2 * NumItems \in Nat
    BY StreamAssumption DEF BlockKinds
  <2>2. blocks[key] \in BlockRecords
    BY <1>1, <2>1, BlockAtType
  <2> QED BY <2>1, <2>2
<1> DEFINE b == blocks[key]
<1> HIDE DEF b
<1>3. ASSUME b \in BlockRecords
      PROVE  /\ Closed(b) # NoBlock /\ Closed(b).index = b.index /\ Closed(b).kind = b.kind
             /\ Closed(b).open = FALSE /\ Closed(b) \in BlockRecords
             /\ BlockStop(b) \in Frames
  <2>1. b.index \in Nat
    BY <1>2, <1>3 DEF BlockRecords
  <2> QED BY <1>3, <2>1 DEF Closed, Block, NoBlock, BlockRecords, BlockStop, Frames
<1> QED BY <1>1, <1>2, <1>3 DEF b

LEMMA PartDoneKept ==
  ASSUME ClaudeInv, OnPartDone, UNCHANGED items
  PROVE  Kept
<1> DEFINE i == frame.item
           b == blocks[ContentKey]
<1>1. /\ frame.type \in EventTypes /\ frame.type \notin Failures \cup {"[DONE]", "none"}
      /\ i \in Items /\ ContentKey \in Keys
  <2>1. /\ frame.type = "content_part.done"
        /\ frame.type \in EventTypes /\ frame.type \notin Failures \cup {"[DONE]", "none"}
    BY DEF OnPartDone, EventTypes, Failures
  <2> QED BY <2>1, EventInHand, KeysOf DEF ClaudeInv, StreamInv, ContentKey
<1>2. output = "open" /\ ~stopped
  BY <1>1, InHand
<1>3. Reaches(Start, blocks, nextBlock) /\ sent \in Seq(Frames)
  BY <1>2, StartReaches, Unstarted DEF ClaudeInv
<1>4. /\ Emits(Start \o Closing(b)) /\ started' = TRUE /\ stopped' = stopped
      /\ nextBlock' = nextBlock
      /\ IF b.open THEN blocks' = [blocks EXCEPT ![ContentKey] = Closed(b)]
         ELSE blocks' = blocks
  BY DEF OnPartDone, Unmoved
<1>5. items[i].kind = "message" /\ items[i].phase = "parted"
  BY <1>1 DEF OnPartDone, ClaudeInv, FrameTold, Fits
<1>6. CASE ~b.open
  <2>1. Closing(b) = <<>> /\ blocks' = blocks
    BY <1>4, <1>6 DEF Closing
  <2>2. Start \in Seq(Frames) /\ Start \o <<>> = Start
    BY <1>3, ConcatEmptySeq DEF Reaches
  <2>3. MessageInv' /\ frame' = NoFrame /\ output' \in {output, "failed"}
    BY <1>2, <1>3, <1>4, <2>1, <2>2, EmitsReached DEF ClaudeInv
  <2>4. BlocksInv'
    BY <1>4, <2>1 DEF ClaudeInv, BlocksInv, Known
  <2>5. BlocksFit'
    BY <1>4, <2>1, <2>3, NoneFits DEF ClaudeInv
  <2>6. TypesKept
    BY <1>4, <2>1 DEF ClaudeInv, ClaudeTypeOK, TypesKept
  <2> QED BY <1>1, <1>4, <2>3, <2>4, <2>5, <2>6 DEF Kept
<1>7. CASE b.open
  <2>1. /\ b # NoBlock /\ Closed(b) # NoBlock /\ Closed(b).index = b.index
        /\ Closed(b).kind = b.kind /\ Closed(b).open = FALSE /\ Closed(b) \in BlockRecords
        /\ BlockStop(b) \in Frames
    BY <1>1, <1>7, ClosedType DEF ClaudeInv
  <2>2. /\ blocks' \in [Keys -> {NoBlock} \cup BlockRecords]
        /\ blocks'[ContentKey] = Closed(b)
        /\ \A k \in Keys : k # ContentKey => blocks'[k] = blocks[k]
    BY <1>1, <1>4, <1>7, <2>1 DEF ClaudeInv, ClaudeTypeOK, BlockRecords, BlockKinds
  <2>3. WithClosed(blocks', blocks, {ContentKey})
    BY <1>7, <2>1, <2>2 DEF WithClosed
  <2> DEFINE c == BlockStop(b)
  <2>4. /\ <<c>> \in Seq(Frames) /\ Closing(b) = <<c>>
        /\ StopEach(<<c>>, blocks, {ContentKey})
    <3>1. c.type = "content_block_stop" /\ c.index = b.index /\ c \in Frames
      BY <2>1 DEF BlockStop
    <3>2. Closing(b) = <<c>>
      BY <1>7 DEF Closing
    <3> HIDE DEF c
    <3>3. Len(<<c>>) = 1 /\ <<c>>[1] = c /\ <<c>> \in Seq(Frames)
      BY <3>1
    <3>4. 1 \in 1..Len(<<c>>) /\ \A n \in 1..Len(<<c>>) : n = 1
      BY <3>3
    <3> QED BY <1>1, <1>7, <2>1, <3>1, <3>2, <3>3, <3>4 DEF StopEach
  <2> HIDE DEF c
  <2>5. Reaches(Start \o <<c>>, blocks', nextBlock)
    <3>1. Distinct(blocks)
      BY DEF ClaudeInv, BlocksInv
    <3> QED BY <1>3, <2>3, <2>4, <3>1, ClosingReaches
  <2>6. MessageInv' /\ frame' = NoFrame /\ output' \in {output, "failed"}
    BY <1>2, <1>4, <2>4, <2>5, EmitsReached DEF ClaudeInv
  <2>7. BlocksInv'
    BY <1>4, <2>3, ClosedCounted DEF ClaudeInv
  <2>8. BlocksFit'
    <3>1. BlocksFit /\ (b # NoBlock => b.kind = "text")
      BY <1>1 DEF ClaudeInv, BlocksFit, ContentKey
    <3>2. /\ \A k \in Keys : k # <<"content", i>> => blocks'[k] = blocks[k]
          /\ blocks'[<<"content", i>>].kind = "text"
      BY <2>1, <2>2, <3>1 DEF ContentKey
    <3> HIDE DEF i, b
    <3> QED BY <1>1, <1>4, <1>5, <2>6, <3>1, <3>2, PartFits
  <2>9. TypesKept
    BY <1>4, <2>2 DEF ClaudeInv, ClaudeTypeOK, TypesKept, BlockRecords, BlockKinds
  <2> QED BY <1>1, <1>4, <2>6, <2>7, <2>8, <2>9 DEF Kept
<1> QED BY <1>6, <1>7

-----------------------------------------------------------------------------
(* The frame that ends an item. *)

(* The block of a done item takes what it has not had, and is closed.      *)
LEMMA DoneReaches ==
  ASSUME ClaudeTypeOK, BlocksInv, MessageInv, output = "open", ~stopped,
         NEW key \in Keys, NEW kind \in BlockKinds, NEW sawDelta \in BOOLEAN,
         NEW encrypted \in BOOLEAN, BlockAt(key, kind).kind = kind,
         blocks[key] # NoBlock => blocks[key].open, BlocksInv',
         blocks' = [blocks EXCEPT ![key] =
           Block(BlockAt(key, kind).index, kind, FALSE, sawDelta, encrypted)],
         nextBlock' = Counted(key),
         NEW deltas \in Seq(InnerOf(BlockAt(key, kind).index, kind)),
         NEW signature \in Seq(InnerOf(BlockAt(key, kind).index, kind)),
         NEW stop, stop = BlockStop(BlockAt(key, kind)), frame.item \in Items
  PROVE  Reaches(Start \o (IF blocks[key] # NoBlock THEN <<>>
                           ELSE <<BlockStart(BlockAt(key, kind))>>)
                   \o deltas \o signature \o <<stop>>, blocks', nextBlock')
<1> DEFINE b == BlockAt(key, kind)
           index == b.index
           head == IF blocks[key] # NoBlock THEN <<>> ELSE <<BlockStart(b)>>
           map == [blocks EXCEPT ![key] = Block(index, kind, TRUE, sawDelta, encrypted)]
           new == Block(index, kind, FALSE, sawDelta, encrypted)
<1>1. sent \in Seq(Frames) /\ index \in Nat /\ Reaches(Start, blocks, nextBlock)
  <2>1. b \in BlockRecords
    BY BlockAtType
  <2>2. index \in Nat
    BY <2>1, StreamAssumption DEF BlockRecords
  <2> QED BY <2>2, StartReaches DEF MessageInv, LegalMessage
<1>2. /\ \A k \in Keys : k # key => map[k] = blocks[k] /\ blocks'[k] = blocks[k]
      /\ map[key] # NoBlock /\ map[key].index = index /\ map[key].kind = kind
      /\ map[key].open = TRUE /\ blocks'[key] = new
      /\ new # NoBlock /\ new.index = index /\ new.kind = kind /\ new.open = FALSE
  BY DEF ClaudeTypeOK, Block, NoBlock
<1> HIDE DEF map, new
<1>3. Reaches(Start \o head, map, Counted(key))
  BY <1>1, <1>2, OpenedReaches
<1>4. Distinct(map)
  <2>1. \A k \in Keys :
          /\ map[k] # NoBlock <=> blocks'[k] # NoBlock
          /\ map[k] # NoBlock => map[k].index = blocks'[k].index
    BY <1>2
  <2> SUFFICES ASSUME NEW k \in Keys, NEW other \in Keys, map[k] # NoBlock,
                      map[other] # NoBlock, k # other
               PROVE  map[k].index # map[other].index
    BY DEF Distinct
  <2>2. blocks'[k].index # blocks'[other].index
    BY <2>1 DEF BlocksInv, Distinct
  <2> QED BY <2>1, <2>2
<1>5. WithClosed(blocks', map, {key})
  <2>1. ASSUME NEW k \in Keys
        PROVE  /\ blocks'[k] # NoBlock <=> map[k] # NoBlock
               /\ blocks'[k] # NoBlock =>
                    /\ blocks'[k].index = map[k].index /\ blocks'[k].kind = map[k].kind
                    /\ blocks'[k].open <=> map[k].open /\ k \notin {key}
    <3>1. CASE k = key
      BY <1>2, <3>1
    <3>2. CASE k # key
      BY <1>2, <3>2
    <3> QED BY <3>1, <3>2
  <2> QED BY <2>1 DEF WithClosed
<1>6. <<stop>> \in Seq(Frames) /\ StopEach(<<stop>>, map, {key})
  <2>1. stop.type = "content_block_stop" /\ stop.index = index /\ stop \in Frames
    BY <1>1 DEF BlockStop, Frames
  <2>2. Len(<<stop>>) = 1 /\ <<stop>>[1] = stop /\ <<stop>> \in Seq(Frames)
    BY <2>1
  <2>3. 1 \in 1..Len(<<stop>>) /\ \A n \in 1..Len(<<stop>>) : n = 1
    BY <2>2
  <2> QED BY <1>2, <2>1, <2>2, <2>3 DEF StopEach
<1> HIDE DEF head, b, index
<1>7. deltas \in Seq(InnerOf(index, kind)) /\ signature \in Seq(InnerOf(index, kind))
  BY DEF index, b
<1>8. Reaches((Start \o head) \o deltas, map, Counted(key))
  BY <1>1, <1>2, <1>3, <1>7, InnerReaches
<1>9. Reaches(((Start \o head) \o deltas) \o signature, map, Counted(key))
  BY <1>1, <1>2, <1>7, <1>8, InnerReaches
<1>10. Reaches((((Start \o head) \o deltas) \o signature) \o <<stop>>, blocks', Counted(key))
  BY <1>1, <1>4, <1>5, <1>6, <1>9, ClosingReaches
<1> QED BY <1>10 DEF head, b

LEMMA ItemDoneKept ==
  ASSUME ClaudeInv, OnItemDone, UNCHANGED items
  PROVE  Kept
<1> DEFINE i == frame.item
           known == blocks[ItemKey] # NoBlock
           kind == IF frame.kind = "tool" THEN "tool_use" ELSE "thinking"
           b == BlockAt(ItemKey, kind)
           opened == Block(b.index, b.kind, known => b.open, b.sawDelta, b.encrypted)
           pieces == IF b.sawDelta THEN <<>>
                     ELSE IF kind = "thinking" THEN Trimmed(frame.pieces) ELSE frame.pieces
           encrypted == frame.encrypted \/ b.encrypted
           signature == IF kind = "thinking" /\ encrypted
                        THEN <<[type |-> "signature_delta", index |-> b.index]>> ELSE <<>>
           sawDelta == SawDelta(b, pieces \o signature)
           head == IF known THEN <<>> ELSE Opening(b)
           stop == BlockStop(b)
<1>1. /\ frame.type = "output_item.done" /\ frame.type \in EventTypes
      /\ frame.type \notin Failures \cup {"[DONE]", "none"} /\ frame.kind # "message"
  BY DEF OnItemDone, EventTypes, Failures
<1>2. /\ i \in Items /\ ItemKey \in Keys /\ frame.pieces \in Seq(PiecesOf(i))
      /\ frame.encrypted \in BOOLEAN /\ frame.kind \in {"reasoning", "tool"}
  BY <1>1, EventInHand, KeysOf DEF ClaudeInv, StreamInv, ItemKey, Kinds
<1>3. output = "open" /\ ~stopped
  BY <1>1, InHand
<1>4. items[i].kind = frame.kind /\ items[i].phase = "done" /\ kind \in BlockKinds
  BY <1>1 DEF ClaudeInv, FrameTold, Fits, BlockKinds
<1>5. known => blocks[ItemKey].open /\ blocks[ItemKey].kind = kind
  BY <1>1, <1>2, <1>3, <1>4 DEF ClaudeInv, BlocksFit, ItemKey, Pending
<1>6. /\ b \in BlockRecords /\ b.kind = kind /\ b.index \in Nat
      /\ known => b = blocks[ItemKey]
      /\ ~known => ~b.open
  <2>1. /\ b \in BlockRecords
        /\ known => b = blocks[ItemKey]
        /\ ~known => b = Block(nextBlock, kind, FALSE, FALSE, FALSE)
    BY <1>2, <1>4, BlockAtType DEF ClaudeInv, BlockAt
  <2>2. b.kind = kind /\ (~known => ~b.open)
    BY <1>5, <2>1 DEF Block
  <2>3. b.index \in Nat
    BY <2>1, StreamAssumption DEF BlockRecords
  <2> QED BY <2>1, <2>2, <2>3
<1>7. /\ blocks' = [blocks EXCEPT ![ItemKey] =
           Closed(Block(b.index, b.kind, FALSE, sawDelta, encrypted))]
      /\ nextBlock' = Counted(ItemKey) /\ started' = TRUE /\ stopped' = stopped
      /\ Emits(Start \o head \o Deltas(b, kind, pieces) \o signature \o Closing(opened))
  BY DEF OnItemDone
<1>8. sawDelta \in BOOLEAN /\ encrypted \in BOOLEAN
  BY <1>2, <1>6 DEF SawDelta, BlockRecords
<1>9. blocks' = [blocks EXCEPT ![ItemKey] = Block(b.index, kind, FALSE, sawDelta, encrypted)]
  <2>1. Closed(Block(b.index, b.kind, FALSE, sawDelta, encrypted))
          = Block(b.index, kind, FALSE, sawDelta, encrypted)
    BY <1>6 DEF Closed, Block
  <2> HIDE DEF b, kind, sawDelta, encrypted
  <2> QED BY <1>7, <2>1
<1>10. Deltas(b, kind, pieces) \in Seq(InnerOf(b.index, kind))
  <2>1. pieces \in Seq(PiecesOf(i))
    <3>1. Trimmed(frame.pieces) \in Seq(PiecesOf(i)) /\ <<>> \in Seq(PiecesOf(i))
      BY <1>2, TrimmedType
    <3> HIDE DEF i, b, kind
    <3> QED BY <1>2, <3>1
  <2> HIDE DEF pieces, b, kind
  <2> QED BY <1>2, <2>1, DeltasType
<1>11. signature \in Seq(InnerOf(b.index, kind))
  <2> DEFINE sign == [type |-> "signature_delta", index |-> b.index]
  <2>1. sign \in InnerOf(b.index, kind)
    BY DEF InnerOf
  <2> HIDE DEF sign
  <2>2. <<sign>> \in Seq(InnerOf(b.index, kind)) /\ <<>> \in Seq(InnerOf(b.index, kind))
    BY <2>1
  <2> QED BY <2>2 DEF sign
<1>12. /\ head = (IF known THEN <<>> ELSE <<BlockStart(b)>>)
       /\ Closing(opened) = <<stop>>
  <2>1. known => b.open
    BY <1>5, <1>6
  <2>2. opened.open /\ BlockStop(opened) = stop
    BY <2>1 DEF Block, BlockStop
  <2> QED BY <1>6, <2>2 DEF Opening, Closing
<1>13. BlocksInv' /\ nextBlock' \in 0..(2 * NumItems)
       /\ blocks' \in [Keys -> {NoBlock} \cup
            [index : 0..(2 * NumItems), kind : {"text", "thinking", "tool_use"},
             open : BOOLEAN, sawDelta : BOOLEAN, encrypted : BOOLEAN]]
  <2>1. blocks' = [blocks EXCEPT ![ItemKey] =
          Block(BlockAt(ItemKey, kind).index, BlockAt(ItemKey, kind).kind, FALSE, sawDelta,
                encrypted)]
    BY <1>6, <1>9
  <2> HIDE DEF sawDelta, encrypted, kind
  <2> QED BY <1>2, <1>4, <1>7, <1>8, <2>1, BlockCounted DEF ClaudeInv
<1> HIDE DEF sawDelta, encrypted, kind, signature, pieces, opened
<1>14. Reaches(Start \o (IF known THEN <<>> ELSE <<BlockStart(b)>>)
                 \o Deltas(b, kind, pieces) \o signature \o <<stop>>, blocks', nextBlock')
  <2>1. \A deltas \in Seq(InnerOf(b.index, kind)) :
          Reaches(Start \o (IF known THEN <<>> ELSE <<BlockStart(b)>>)
                    \o deltas \o signature \o <<stop>>, blocks', nextBlock')
    BY <1>2, <1>3, <1>4, <1>5, <1>6, <1>7, <1>8, <1>9, <1>11, <1>13, DoneReaches DEF ClaudeInv
  <2> QED BY <1>10, <2>1
<1>15. MessageInv' /\ frame' = NoFrame /\ output' \in {output, "failed"}
  BY <1>3, <1>7, <1>12, <1>14, EmitsReached DEF ClaudeInv
<1>16. BlocksFit'
  <2>1. /\ \A k \in Keys : k # <<"item", i>> => blocks'[k] = blocks[k]
        /\ blocks'[<<"item", i>>].kind = kind
    BY <1>2, <1>9 DEF ClaudeInv, ClaudeTypeOK, Block, ItemKey
  <2>2. BlocksFit /\ kind = IF items[i].kind = "tool" THEN "tool_use" ELSE "thinking"
    BY <1>4 DEF ClaudeInv, kind
  <2> HIDE DEF i
  <2> QED BY <1>2, <1>4, <1>7, <1>15, <2>1, <2>2, ItemFits
<1>17. TypesKept
  BY <1>7, <1>13 DEF ClaudeInv, ClaudeTypeOK, TypesKept
<1> QED BY <1>1, <1>7, <1>13, <1>15, <1>16, <1>17 DEF Kept

-----------------------------------------------------------------------------
(* The frame that ends the answer. *)

(* An order of a whole set names each of its elements once. *)
Orders(order, S) ==
  /\ Len(order) \in Nat /\ \A n \in 1..Len(order) : order[n] \in S
  /\ \A m, n \in 1..Len(order) : m # n => order[m] # order[n]
  /\ \A element \in S : \E n \in 1..Len(order) : order[n] = element

LEMMA OrderOfAll ==
  ASSUME NEW S, IsFiniteSet(S), NEW order \in SetToAllKPermutations(S),
         Len(order) = Cardinality(S)
  PROVE  Orders(order, S)
<1>1. PICK T \in SUBSET S : order \in SetToSeqs(T)
  BY DEF SetToAllKPermutations
<1> DEFINE size == Cardinality(T)
<1>2. IsFiniteSet(T) /\ size \in Nat
  BY FS_Subset, FS_CardinalityType
<1>3. /\ order \in [1..size -> T]
      /\ \A m, n \in 1..size : m # n => order[m] # order[n]
  BY <1>1 DEF SetToSeqs
<1>4. Len(order) = size
  <2> HIDE DEF size
  <2>1. order \in Seq(T) /\ DOMAIN order = 1..size
    BY <1>2, <1>3
  <2> QED BY <1>2, <2>1, LenProperties
<1>5. S = T
  BY <1>4, FS_Subset
<1>6. IsFiniteSet(1..size) /\ Cardinality(1..size) = size
  <2> HIDE DEF size
  <2> QED BY <1>2, FS_Interval
<1>7. order \in Injection(1..size, S)
  <2> HIDE DEF size
  <2> QED BY <1>3, <1>5 DEF Injection, IsInjective
<1>8. order \in Surjection(1..size, S)
  BY <1>5, <1>6, <1>7, FS_Injection
<1> HIDE DEF size
<1> QED BY <1>2, <1>3, <1>4, <1>5, <1>8 DEF Surjection, Orders

(* Every open block is closed, in any order. *)
LEMMA AllClosed ==
  ASSUME ClaudeTypeOK, BlocksInv, NEW order,
         order \in SetToAllKPermutations({key \in Keys : blocks[key].open}),
         Len(order) = Cardinality({key \in Keys : blocks[key].open}),
         NEW stops, stops = [n \in 1..Len(order) |-> BlockStop(blocks[order[n]])]
  PROVE  stops \in Seq(Frames) /\ StopEach(stops, blocks, {key \in Keys : blocks[key].open})
<1> DEFINE open == {key \in Keys : blocks[key].open}
<1>1. IsFiniteSet(open)
  BY KeysFinite, FS_Subset
<1>2. \A key \in open : blocks[key] # NoBlock /\ BlockStop(blocks[key]) \in Frames
  <2> TAKE key \in open
  <2>1. key \in Keys /\ blocks[key].open
    OBVIOUS
  <2> QED BY <2>1, ClosedType
<1>3. /\ open \subseteq Keys /\ \A key \in open : blocks[key].open
      /\ order \in SetToAllKPermutations(open) /\ Len(order) = Cardinality(open)
  OBVIOUS
<1> HIDE DEF open
<1>4. Orders(order, open)
  BY <1>1, <1>3, OrderOfAll
<1>5. \A n \in 1..Len(order) : BlockStop(blocks[order[n]]) \in Frames
  BY <1>2, <1>4 DEF Orders
<1>6. stops \in Seq(Frames) /\ Len(stops) = Len(order)
      /\ \A n \in 1..Len(order) : stops[n] = BlockStop(blocks[order[n]])
  BY <1>4, <1>5 DEF Orders
<1>7. \A n \in 1..Len(stops) :
        stops[n].type = "content_block_stop" /\ stops[n].index = blocks[order[n]].index
  BY <1>6 DEF BlockStop
<1>8. \A key \in open : \E n \in 1..Len(stops) : stops[n].index = blocks[key].index
  BY <1>4, <1>6, <1>7 DEF Orders
<1>9. ASSUME NEW m \in 1..Len(stops), NEW n \in 1..Len(stops), m # n
      PROVE  stops[m].index # stops[n].index
  <2>1. order[m] \in open /\ order[n] \in open /\ order[m] # order[n]
    BY <1>4, <1>6, <1>9 DEF Orders
  <2>2. blocks[order[m]].index # blocks[order[n]].index
    BY <1>2, <1>3, <2>1 DEF BlocksInv, Distinct
  <2> QED BY <1>7, <2>2
<1>10. \A n \in 1..Len(stops) :
         /\ stops[n].type = "content_block_stop"
         /\ \E key \in open : stops[n].index = blocks[key].index
  BY <1>4, <1>6, <1>7 DEF Orders
<1>11. StopEach(stops, blocks, open)
  BY <1>2, <1>3, <1>8, <1>9, <1>10 DEF StopEach
<1> QED BY <1>6, <1>11 DEF open

(* Frames that begin a block or carry a piece, each of the item that the   *)
(* map has the block for.                                                  *)
Placed == {"delta", "content_block_start"}
ItemOf(f) == IF f.type = "delta" THEN f.content.item ELSE f.item
IsOwned(f, map) ==
  \E key \in Keys :
    map[key] # NoBlock /\ map[key].index = f.index /\ key[2] = ItemOf(f)
Owned(s, map) == \A n \in 1..Len(s) : s[n].type \in Placed => IsOwned(s[n], map)

LEMMA OwnedMore ==
  ASSUME NEW S, NEW s \in Seq(S), NEW out \in Seq(S), NEW map, Owned(s, map), Owned(out, map)
  PROVE  Owned(s \o out, map)
<1>1. Follows(s \o out, s, out)
  BY Following
<1> DEFINE t == s \o out
<1>2. /\ Len(s) \in Nat /\ Len(out) \in Nat /\ Len(t) = Len(s) + Len(out)
      /\ \A n \in 1..Len(s) : t[n] = s[n]
      /\ \A n \in 1..Len(out) : t[Len(s) + n] = out[n]
  BY <1>1 DEF Follows
<1> HIDE DEF t
<1>3. ASSUME NEW n \in 1..Len(t), t[n].type \in Placed PROVE IsOwned(t[n], map)
  <2>1. CASE n <= Len(s)
    BY <1>2, <1>3, <2>1 DEF Owned
  <2>2. CASE ~(n <= Len(s))
    <3>1. n - Len(s) \in 1..Len(out) /\ Len(s) + (n - Len(s)) = n
      BY <1>2, <2>2
    <3>2. t[n] = out[n - Len(s)]
      BY <1>2, <3>1
    <3> QED BY <1>3, <3>1, <3>2 DEF Owned
  <2> QED BY <2>1, <2>2
<1> QED BY <1>3 DEF Owned, t

LEMMA OwnedNone ==
  ASSUME NEW map
  PROVE  Owned(<<>>, map)
<1>1. 1..Len(<<>>) = {}
  OBVIOUS
<1> QED BY <1>1 DEF Owned

LEMMA OwnedFrame ==
  ASSUME NEW f, NEW map, f.type \in Placed => IsOwned(f, map)
  PROVE  Owned(<<f>>, map)
<1>1. Len(<<f>>) = 1 /\ <<f>>[1] = f
  OBVIOUS
<1>2. 1..Len(<<f>>) = {1}
  BY <1>1
<1> QED BY <1>1, <1>2 DEF Owned

LEMMA OwnedStart ==
  ASSUME NEW map
  PROVE  Owned(Start, map)
<1>1. MessageStart.type \notin Placed
  BY DEF MessageStart, Placed
<1> QED BY <1>1, OwnedFrame, OwnedNone DEF Start

LEMMA StartQuiet ==
  Start \in Seq(Frames) /\ Quiet(Start)
<1>1. MessageStart \in Frames /\ MessageStart.type # "delta"
  BY DEF MessageStart, Frames
<1> QED BY <1>1, FrameQuiet, NoneQuiet DEF Start

(* The map then: every block is closed, and is the same otherwise. *)
LEMMA TerminalBlocks ==
  ASSUME ClaudeTypeOK, OnTerminal, NEW key \in Keys
  PROVE  /\ blocks'[key] # NoBlock <=> blocks[key] # NoBlock
         /\ ~blocks'[key].open /\ blocks'[key] \in {NoBlock} \cup BlockRecords
         /\ blocks'[key] # NoBlock =>
              /\ blocks'[key].index = blocks[key].index /\ blocks'[key].kind = blocks[key].kind
              /\ blocks'[key].sawDelta <=> blocks[key].sawDelta
<1>1. blocks'[key] = IF blocks[key].open THEN Closed(blocks[key]) ELSE blocks[key]
  BY DEF OnTerminal
<1>2. CASE blocks[key].open
  <2>1. /\ blocks[key] # NoBlock /\ Closed(blocks[key]) # NoBlock
        /\ Closed(blocks[key]).index = blocks[key].index
        /\ Closed(blocks[key]).kind = blocks[key].kind
        /\ Closed(blocks[key]).open = FALSE /\ Closed(blocks[key]) \in BlockRecords
    BY <1>2, ClosedType
  <2>2. Closed(blocks[key]).sawDelta = blocks[key].sawDelta
    BY DEF Closed, Block
  <2> QED BY <1>1, <1>2, <2>1, <2>2
<1>3. CASE ~blocks[key].open
  <2>1. blocks'[key] = blocks[key] /\ blocks[key] \in {NoBlock} \cup BlockRecords
    BY <1>1, <1>3 DEF ClaudeTypeOK, BlockRecords, BlockKinds
  <2> QED BY <1>3, <2>1
<1> QED BY <1>2, <1>3

(* What is made of it: the stops, and the two frames that end the message. *)
LEMMA TerminalMakes ==
  ASSUME ClaudeInv, OnTerminal
  PROVE  \E front \in Seq(Frames), end \in Frames :
           /\ end.type = "message_delta" /\ end.reason = StopReason(frame.reason, HasToolUse)
           /\ Reaches(front, blocks', nextBlock) /\ Quiet(front) /\ Owned(front, blocks')
           /\ Emits(front \o <<end, MessageStop>>)
<1> DEFINE open == {key \in Keys : blocks[key].open}
           end == MessageDelta(StopReason(frame.reason, HasToolUse))
<1>1. PICK order \in SetToAllKPermutations(open) :
        /\ Len(order) = Cardinality(open)
        /\ Emits(Start \o [n \in 1..Len(order) |-> BlockStop(blocks[order[n]])]
                   \o <<end, MessageStop>>)
  BY DEF OnTerminal
<1> DEFINE stops == [n \in 1..Len(order) |-> BlockStop(blocks[order[n]])]
<1>2. output = "open" /\ ~stopped /\ sent \in Seq(Frames) /\ Distinct(blocks)
  BY InHand, Unstarted DEF OnTerminal, ClaudeInv, BlocksInv
<1>3. Reaches(Start, blocks, nextBlock)
  BY <1>2, StartReaches DEF ClaudeInv
<1>4. stops \in Seq(Frames) /\ StopEach(stops, blocks, open)
  BY <1>1, AllClosed DEF ClaudeInv
<1>5. end \in Frames /\ end.type = "message_delta"
      /\ end.reason = StopReason(frame.reason, HasToolUse)
  <2>1. end.reason = StopReason(frame.reason, HasToolUse)
    BY DEF MessageDelta
  <2> QED BY <2>1 DEF MessageDelta, StopReason, Frames
<1>6. WithClosed(blocks', blocks, open)
  <2>1. \A key \in Keys : key \in open <=> blocks[key].open
    OBVIOUS
  <2> HIDE DEF open
  <2> QED BY <2>1, TerminalBlocks DEF WithClosed, ClaudeInv
<1> HIDE DEF open, end
<1>7. Quiet(stops) /\ Owned(stops, blocks')
  <2> HIDE DEF stops
  <2> QED BY <1>4 DEF StopEach, Quiet, Owned, Placed
<1> HIDE DEF stops
<1>8. Reaches(Start \o stops, blocks', nextBlock)
  BY <1>2, <1>3, <1>4, <1>6, ClosingReaches
<1>9. Start \o stops \in Seq(Frames) /\ Quiet(Start \o stops)
  BY <1>4, <1>7, StartQuiet, QuietTwo, ConcatProperties
<1>11. Owned(Start \o stops, blocks')
  BY <1>4, <1>7, StartQuiet, OwnedStart, OwnedMore
<1>10. Emits((Start \o stops) \o <<end, MessageStop>>)
  BY <1>1 DEF stops
<1> QED BY <1>5, <1>8, <1>9, <1>10, <1>11

(* None of it is a piece, or begins a block. *)
LEMMA EndQuiet ==
  ASSUME NEW front \in Seq(Frames), Quiet(front), NEW end \in Frames,
         end.type = "message_delta", NEW map, Owned(front, map)
  PROVE  /\ <<end, MessageStop>> \in Seq(Frames)
         /\ front \o <<end, MessageStop>> \in Seq(Frames)
         /\ Quiet(front \o <<end, MessageStop>>)
         /\ Owned(front \o <<end, MessageStop>>, map)
<1>1. MessageStop \in Frames /\ MessageStop.type = "message_stop"
  BY DEF MessageStop, Frames
<1>2. <<end, MessageStop>> \in Seq(Frames) /\ 1..Len(<<end, MessageStop>>) = {1, 2}
  BY <1>1
<1>3. Quiet(<<end, MessageStop>>)
  BY <1>1, <1>2 DEF Quiet
<1>4. Owned(<<end, MessageStop>>, map)
  BY <1>1, <1>2 DEF Owned, Placed
<1> QED BY <1>2, <1>3, <1>4, QuietTwo, OwnedMore, ConcatProperties

LEMMA TerminalKept ==
  ASSUME ClaudeInv, OnTerminal, UNCHANGED items
  PROVE  Kept
<1>1. /\ frame.type \in Terminals /\ frame.type \notin Failures \cup {"[DONE]", "none"}
      /\ blocks' \in [Keys -> {blocks'[key] : key \in Keys}]
      /\ started' = TRUE /\ stopped' = TRUE /\ nextBlock' = nextBlock
  BY DEF OnTerminal, Terminals, Failures
<1>2. PICK front \in Seq(Frames), end \in Frames :
        /\ end.type = "message_delta" /\ Reaches(front, blocks', nextBlock)
        /\ Emits(front \o <<end, MessageStop>>)
  BY TerminalMakes
<1>3. output = "open" /\ ~stopped /\ sent \in Seq(Frames)
  BY <1>1, InHand, Unstarted
<1>4. \A key \in Keys :
        /\ blocks'[key] # NoBlock <=> blocks[key] # NoBlock
        /\ ~blocks'[key].open /\ blocks'[key] \in {NoBlock} \cup BlockRecords
        /\ blocks'[key] # NoBlock =>
             blocks'[key].index = blocks[key].index /\ blocks'[key].kind = blocks[key].kind
  BY TerminalBlocks DEF ClaudeInv
<1>5. <<end, MessageStop>> \in Seq(Frames) /\ Len(<<end, MessageStop>>) = 2
  BY DEF Frames
<1> DEFINE s == sent \o front
           out == front \o <<end, MessageStop>>
           t == sent \o out
<1>6. Going(s) /\ Told(s, blocks', nextBlock)
  BY <1>2 DEF Reaches
<1>7. out \in Seq(Frames) /\ Joins(t, s, <<end, MessageStop>>)
  BY <1>3, <1>5, Further
<1> HIDE DEF s, out, t
<1>8. \A m \in StartsIn(s, Len(s)) : ~OpenIn(s, Len(s), s[m].index)
  <2> TAKE m \in StartsIn(s, Len(s))
  <2>1. PICK key \in Keys : blocks'[key] # NoBlock /\ blocks'[key].index = s[m].index
    BY <1>6 DEF Told
  <2>2. OpenIn(s, Len(s), blocks'[key].index) <=> blocks'[key].open
    BY <1>6, <2>1 DEF Told
  <2> QED BY <1>4, <2>1, <2>2
<1>9. LegalMessage(t)
  BY <1>2, <1>5, <1>6, <1>7, <1>8, EndFollows
<1>10. /\ frame' = NoFrame /\ output' \in {output, "failed"} /\ LegalMessage(sent')
       /\ output' = "open" => sent' = t
  BY <1>2, <1>3, <1>7, <1>9, EmitsLegal DEF t, out
<1>11. MessageInv'
  <2>1. t # <<>>
    <3>1. Len(t) = Len(s) + 2 /\ Len(s) \in Nat
      BY <1>5, <1>7 DEF Joins
    <3> QED BY <3>1
  <2> QED BY <1>1, <1>10, <2>1 DEF MessageInv
<1>12. BlocksInv'
  <2>1. Known' = Known /\ \A key \in Known : blocks'[key].index = blocks[key].index
    BY <1>4 DEF Known
  <2>2. Distinct(blocks')
    BY <1>4 DEF ClaudeInv, BlocksInv, Distinct
  <2> QED BY <1>1, <2>1, <2>2 DEF ClaudeInv, BlocksInv
<1>13. BlocksFit'
  <2>1. BlocksFit
    BY DEF ClaudeInv
  <2> QED BY <1>1, <1>4, <2>1, KeysOf DEF BlocksFit
<1>14. TypesKept
  <2>1. blocks' \in [Keys -> {NoBlock} \cup BlockRecords]
    BY <1>1, <1>4
  <2> QED BY <1>1, <2>1 DEF ClaudeInv, ClaudeTypeOK, TypesKept, BlockRecords, BlockKinds
<1> QED BY <1>1, <1>10, <1>11, <1>12, <1>13, <1>14 DEF Kept

-----------------------------------------------------------------------------
(* The frames of which nothing is sent. *)

LEMMA SilentMessage ==
  ASSUME ClaudeInv, UNCHANGED <<sent, bridgeVars, items>>, frame' = NoFrame,
         output' \in {output, "failed"}
  PROVE  MessageInv' /\ BlocksInv' /\ BlocksFit' /\ TypesKept /\ stopped' = stopped
<1>1. /\ sent' = sent /\ started' = started /\ stopped' = stopped
      /\ nextBlock' = nextBlock /\ blocks' = blocks /\ items' = items
  BY DEF bridgeVars
<1>2. MessageInv'
  BY <1>1 DEF ClaudeInv, MessageInv
<1>3. BlocksInv'
  BY <1>1 DEF ClaudeInv, BlocksInv, Known
<1>4. BlocksFit'
  BY <1>1, NoneFits DEF ClaudeInv
<1>5. TypesKept
  BY <1>1 DEF ClaudeInv, ClaudeTypeOK, TypesKept
<1> QED BY <1>1, <1>2, <1>3, <1>4, <1>5

(* A failed answer, or [DONE] before its end, fails the output. *)
LEMMA FailureKept ==
  ASSUME ClaudeInv, OnFailure, UNCHANGED items
  PROVE  Kept
<1>1. /\ frame' = NoFrame /\ output' = "failed" /\ UNCHANGED <<sent, bridgeVars>>
  BY DEF OnFailure, TranslationFails, ClosesOutput
<1>2. MessageInv' /\ BlocksInv' /\ BlocksFit' /\ TypesKept /\ stopped' = stopped
  BY <1>1, SilentMessage
<1> QED BY <1>1, <1>2 DEF Kept

LEMMA DoneKept ==
  ASSUME ClaudeInv, OnDone, UNCHANGED items
  PROVE  Kept
<1>1. sent \in Seq(Frames) /\ frame.type = "[DONE]" /\ UNCHANGED bridgeVars /\ output = "open"
  BY InHand, Unstarted DEF OnDone
<1>2. /\ frame' = NoFrame /\ output' \in {output, "failed"} /\ sent' = sent
      /\ ~stopped => output' = "failed"
  <2>1. CASE stopped
    <3>1. Emits(<<>>)
      BY <2>1 DEF OnDone
    <3>2. sent \o <<>> = sent
      BY <1>1, ConcatEmptySeq
    <3>3. 0..(Len(<<>>) - 1) = {}
      OBVIOUS
    <3> QED BY <2>1, <3>1, <3>2, <3>3 DEF Emits
  <2>2. CASE ~stopped
    BY <2>2 DEF OnDone, TranslationFails, ClosesOutput
  <2> QED BY <2>1, <2>2
<1>3. MessageInv' /\ BlocksInv' /\ BlocksFit' /\ TypesKept /\ stopped' = stopped
  BY <1>1, <1>2, SilentMessage
<1>4. upstream = "cut" => ~stopped
  BY DEF ClaudeInv, StopInv, Terminated, Limits
<1>5. frame.type \notin Failures
  BY <1>1 DEF Failures
<1> QED BY <1>1, <1>2, <1>3, <1>4, <1>5 DEF Kept

-----------------------------------------------------------------------------
(* Each step. *)

LEMMA TranslatesKept ==
  ASSUME ClaudeInv, Translates
  PROVE  Kept /\ frame.type # "none" /\ UNCHANGED <<upstream, items>>
<1>1. frame.type # "none" /\ UNCHANGED <<upstream, items>> /\ UNCHANGED items
  BY DEF Translates, OnOther, OnItemAdded, OnPartAdded, OnDelta, OnPartDone, OnItemDone,
     OnTerminal, OnFailure, OnDone
<1> QED
  BY <1>1, OtherKept, ItemAddedKept, PartAddedKept, DeltaKept, PartDoneKept, ItemDoneKept,
     TerminalKept, FailureKept, DoneKept DEF Translates

LEMMA TranslatesInv ==
  ASSUME ClaudeInv, Translates
  PROVE  ClaudeInv'
<1>1. Kept /\ UNCHANGED <<upstream, items>> /\ output = "open"
  BY TranslatesKept, InHand
<1>2. StreamInv'
  BY <1>1, FrameFinished DEF ClaudeInv, Kept
<1>3. StopInv'
  BY <1>1 DEF ClaudeInv, StreamInv, StopInv, FrameFits, Kept, Terminated, Terminals, IsEvent,
     EventTypes, NoFrame
<1>4. FrameTold'
  BY <1>1 DEF Kept, FrameTold, NoFrame, EventTypes
<1>5. ClaudeTypeOK'
  BY <1>1, <1>2 DEF Kept, TypesKept, ClaudeTypeOK, StreamInv
<1> QED BY <1>1, <1>2, <1>3, <1>4, <1>5 DEF ClaudeInv, Kept

(* The endpoint goes on with an item it has not finished, so a block that  *)
(* is closed stays one that will not be written again.                     *)
LEMMA SendsFits ==
  ASSUME ItemsOK, BlocksFit, frame = NoFrame, UNCHANGED bridgeVars, NEW i \in Items,
         NEW type \in EventTypes, NEW kind, NEW phase, NEW told, NEW pieces, NEW encrypted,
         frame' = Event(type, i, kind, pieces, encrypted), Tells(i, Item(kind, phase, told)),
         Fits(type, kind, phase),
         \/ items[i] = NoItem
         \/ /\ items[i].kind = kind /\ items[i].phase # "done"
            /\ items[i].phase = "parted" => type = "output_item.done"
  PROVE  FrameTold' /\ BlocksFit'
<1>1. /\ frame'.type = type /\ frame'.item = i /\ frame'.kind = kind
      /\ items'[i].kind = kind /\ items'[i].phase = phase
      /\ \A j \in Items : j # i => items'[j] = items[j]
      /\ blocks' = blocks /\ stopped' = stopped
  BY DEF Event, Item, Tells, ItemsOK, bridgeVars
<1>2. FrameTold'
  BY <1>1 DEF FrameTold, Fits
<1>3. \A j \in Items : Pending(j)' <=> j = i
  BY <1>1 DEF Pending
<1>4. \A j \in Items : ~Pending(j)
  BY DEF Pending, NoFrame, EventTypes
<1>5. type = "output_item.done" => phase = "done"
  BY DEF Fits
<1>6. ASSUME NEW j \in Items
      PROVE  /\ blocks[<<"item", j>>] # NoBlock =>
                  /\ items'[j].kind \in {"reasoning", "tool"}
                  /\ blocks[<<"item", j>>].kind =
                       IF items'[j].kind = "tool" THEN "tool_use" ELSE "thinking"
                  /\ \/ stopped \/ blocks[<<"item", j>>].open
                     \/ items'[j].phase = "done" /\ ~Pending(j)'
             /\ blocks[<<"content", j>>] # NoBlock =>
                  /\ items'[j].kind = "message" /\ blocks[<<"content", j>>].kind = "text"
                  /\ \/ stopped \/ blocks[<<"content", j>>].open
                     \/ /\ items'[j].phase \in {"parted", "done"}
                        /\ Pending(j)' => type = "output_item.done"
  <2>1. CASE j # i
    BY <1>1, <1>3, <1>4, <2>1 DEF BlocksFit
  <2>2. CASE j = i /\ items[i] = NoItem
    <3>1. items[i].kind = "none"
      BY <2>2 DEF NoItem
    <3> QED BY <2>2, <3>1 DEF BlocksFit
  <2>3. CASE j = i /\ items[i] # NoItem
    <3>1. /\ items[i].kind = kind /\ items[i].phase # "done"
          /\ items[i].phase = "parted" => type = "output_item.done"
      BY <2>3
    <3> QED BY <1>1, <1>4, <1>5, <2>3, <3>1 DEF BlocksFit
  <2> QED BY <2>1, <2>2, <2>3
<1>7. BlocksFit'
  BY <1>1, <1>6 DEF BlocksFit
<1> QED BY <1>2, <1>7

LEMMA EventsFit ==
  ASSUME ClaudeInv, UNCHANGED bridgeVars,
         \/ \E i \in Items, kind \in ItemKinds, encrypted \in BOOLEAN :
              ItemAdded(i, kind, encrypted)
         \/ \E i \in Items, n \in 0..MaxPieces : PartAdded(i, n)
         \/ \E i \in Items, kind \in ItemKinds : Delta(i, kind)
         \/ \E i \in Items : PartDone(i)
         \/ \E i \in Items, kind \in ItemKinds, n \in 0..MaxPieces, encrypted \in BOOLEAN :
              ItemDone(i, kind, n, encrypted)
  PROVE  FrameTold' /\ BlocksFit'
<1>1. ItemsOK /\ BlocksFit
  BY DEF ClaudeInv, StreamInv
<1>2. ASSUME NEW i \in Items, NEW kind \in ItemKinds, NEW encrypted \in BOOLEAN,
             ItemAdded(i, kind, encrypted)
      PROVE  FrameTold' /\ BlocksFit'
  <2>1. /\ items[i] = NoItem /\ frame = NoFrame
        /\ frame' = Event("output_item.added", i, kind, <<>>, encrypted)
        /\ Tells(i, Item(kind, "open", 0))
    BY <1>2 DEF ItemAdded, MayBegin, Sends, Reading
  <2>2. Fits("output_item.added", kind, "open") /\ "output_item.added" \in EventTypes
    BY DEF Fits, EventTypes
  <2> QED BY <1>1, <2>1, <2>2, SendsFits
<1>3. ASSUME NEW i \in Items, NEW n \in 0..MaxPieces, PartAdded(i, n)
      PROVE  FrameTold' /\ BlocksFit'
  <2>1. /\ items[i].kind = "message" /\ items[i].phase = "open" /\ frame = NoFrame
        /\ frame' = Event("content_part.added", i, "message", Pieces(i, 1, n), FALSE)
        /\ Tells(i, Item("message", "part", n))
    BY <1>3 DEF PartAdded, Sends, Reading
  <2>2. Fits("content_part.added", "message", "part") /\ "content_part.added" \in EventTypes
    BY DEF Fits, EventTypes
  <2> QED BY <1>1, <2>1, <2>2, SendsFits
<1>4. ASSUME NEW i \in Items, NEW kind \in ItemKinds, Delta(i, kind)
      PROVE  FrameTold' /\ BlocksFit'
  <2> DEFINE k == items[i].told + 1
             phase == IF kind = "message" THEN "part" ELSE "open"
  <2>1. /\ \/ items[i] = NoItem
           \/ items[i].kind = kind /\ items[i].phase \in {"open", "part"}
        /\ frame = NoFrame
        /\ frame' = Event("delta", i, kind, Pieces(i, k, k), FALSE)
        /\ Tells(i, Item(kind, phase, k))
    BY <1>4 DEF Delta, MayBegin, Sends, Reading
  <2>2. Fits("delta", kind, phase) /\ "delta" \in EventTypes
    BY DEF Fits, EventTypes
  <2> HIDE DEF k, phase
  <2> QED BY <1>1, <2>1, <2>2, SendsFits
<1>5. ASSUME NEW i \in Items, PartDone(i)
      PROVE  FrameTold' /\ BlocksFit'
  <2>1. /\ items[i].kind = "message" /\ items[i].phase = "part" /\ frame = NoFrame
        /\ frame' = Event("content_part.done", i, "message", Pieces(i, 1, items[i].told), FALSE)
        /\ Tells(i, Item("message", "parted", items[i].told))
    BY <1>5 DEF PartDone, Sends, Reading
  <2>2. Fits("content_part.done", "message", "parted") /\ "content_part.done" \in EventTypes
    BY DEF Fits, EventTypes
  <2> QED BY <1>1, <2>1, <2>2, SendsFits
<1>6. ASSUME NEW i \in Items, NEW kind \in ItemKinds, NEW n \in 0..MaxPieces,
             NEW encrypted \in BOOLEAN, ItemDone(i, kind, n, encrypted)
      PROVE  FrameTold' /\ BlocksFit'
  <2>1. /\ \/ items[i] = NoItem
           \/ items[i].kind = kind /\ items[i].phase \in {"open", "parted"}
        /\ frame = NoFrame
        /\ frame' = Event("output_item.done", i, kind, Pieces(i, 1, n), encrypted)
        /\ Tells(i, Item(kind, "done", n))
    BY <1>6 DEF ItemDone, MayBegin, Sends, Reading
  <2>2. Fits("output_item.done", kind, "done") /\ "output_item.done" \in EventTypes
    BY DEF Fits, EventTypes
  <2> QED BY <1>1, <2>1, <2>2, SendsFits
<1> QED BY <1>2, <1>3, <1>4, <1>5, <1>6

(* A frame of the whole response, or none. *)
LEMMA WholeFits ==
  ASSUME BlocksFit, UNCHANGED <<bridgeVars, items>>, frame'.type \notin EventTypes
  PROVE  FrameTold' /\ BlocksFit'
<1>1. \A j \in Items : ~(Pending(j)')
  BY DEF Pending
<1>2. blocks' = blocks /\ stopped' = stopped /\ items' = items
  BY DEF bridgeVars
<1> QED BY <1>1, <1>2 DEF FrameTold, BlocksFit

LEMMA UpstreamFits ==
  ASSUME ClaudeInv, UpstreamNext, UNCHANGED bridgeVars
  PROVE  FrameTold' /\ BlocksFit'
<1>1. CASE \/ \E i \in Items, kind \in ItemKinds, encrypted \in BOOLEAN :
                ItemAdded(i, kind, encrypted)
           \/ \E i \in Items, n \in 0..MaxPieces : PartAdded(i, n)
           \/ \E i \in Items, kind \in ItemKinds : Delta(i, kind)
           \/ \E i \in Items : PartDone(i)
           \/ \E i \in Items, kind \in ItemKinds, n \in 0..MaxPieces,
                 encrypted \in BOOLEAN : ItemDone(i, kind, n, encrypted)
  BY <1>1, EventsFit
<1>2. CASE \/ Created \/ Fails \/ SendsDone
           \/ \E reason \in Reasons : Completes(reason)
  <2>1. frame'.type \notin EventTypes /\ items' = items
    <3>1. \A type, reason : Sends(Whole(type, reason)) => frame'.type = type
      BY DEF Sends, Whole
    <3>2. CASE Created
      BY <3>1, <3>2 DEF Created, EventTypes
    <3>3. CASE Fails
      BY <3>1, <3>3 DEF Fails, EventTypes
    <3>4. CASE SendsDone
      BY <3>1, <3>4 DEF SendsDone, EventTypes
    <3>5. CASE \E reason \in Reasons : Completes(reason)
      BY <3>1, <3>5 DEF Completes, EventTypes
    <3> QED BY <1>2, <3>2, <3>3, <3>4, <3>5
  <2> QED BY <2>1, WholeFits DEF ClaudeInv
<1> QED BY <1>1, <1>2, Zenon DEF UpstreamNext

LEMMA UpstreamInv ==
  ASSUME ClaudeInv, UpstreamNext \/ UpstreamEnds \/ ReadFails, UNCHANGED bridgeVars
  PROVE  ClaudeInv'
<1>1. /\ StreamInv' /\ UNCHANGED sent /\ output' \in {output, "ended", "failed"}
      /\ stopped => Terminated' /\ (frame' = NoFrame \/ frame'.type = "[DONE]")
  <2>1. CASE UpstreamNext
    BY <2>1, UpstreamTells DEF ClaudeInv, StopInv
  <2>2. CASE UpstreamEnds \/ ReadFails
    BY <2>2, PumpStops DEF ClaudeInv, StopInv, Terminated, StreamInv, StreamTypeOK, PumpTypeOK
  <2> QED BY <2>1, <2>2
<1>2. FrameTold' /\ BlocksFit'
  <2>1. CASE UpstreamNext
    BY <2>1, UpstreamFits
  <2>2. CASE UpstreamEnds \/ ReadFails
    <3>1. frame' = NoFrame /\ items' = items
      BY <2>2, PumpStops DEF ClaudeInv
    <3> QED BY <3>1, WholeFits DEF ClaudeInv, NoFrame, EventTypes
  <2> QED BY <2>1, <2>2
<1>3. /\ sent' = sent /\ started' = started /\ stopped' = stopped
      /\ nextBlock' = nextBlock /\ blocks' = blocks
  BY <1>1 DEF bridgeVars
<1>4. MessageInv'
  BY <1>1, <1>3 DEF ClaudeInv, MessageInv
<1>5. BlocksInv' /\ StopInv'
  BY <1>1, <1>3 DEF ClaudeInv, BlocksInv, Known, StopInv
<1>6. ClaudeTypeOK'
  BY <1>1, <1>3 DEF ClaudeInv, ClaudeTypeOK, StreamInv
<1> QED BY <1>1, <1>2, <1>4, <1>5, <1>6 DEF ClaudeInv

LEMMA StutterInv ==
  ASSUME ClaudeInv, UNCHANGED claudeVars
  PROVE  ClaudeInv'
<1>1. /\ upstream' = upstream /\ items' = items /\ frame' = frame /\ sent' = sent
      /\ output' = output /\ started' = started /\ stopped' = stopped
      /\ nextBlock' = nextBlock /\ blocks' = blocks
  BY DEF claudeVars, streamVars, bridgeVars
<1>2. StreamInv'
  BY <1>1 DEF ClaudeInv, StreamInv, ItemsOK, StreamTypeOK, PumpTypeOK, FrameFits, IsEvent,
     IsWhole, BadNewsHeld, Running, Terminated
<1>3. ClaudeTypeOK' /\ BlocksInv' /\ StopInv'
  BY <1>1, <1>2 DEF ClaudeInv, StreamInv, ClaudeTypeOK, BlocksInv, Known, StopInv, Terminated
<1>4. MessageInv' /\ FrameTold' /\ BlocksFit'
  BY <1>1 DEF ClaudeInv, MessageInv, FrameTold, BlocksFit, Pending
<1> QED BY <1>2, <1>3, <1>4 DEF ClaudeInv

LEMMA ClaudeInvHolds ==
  ClaudeSpec => []ClaudeInv
<1>1. ASSUME ClaudeInv, [ClaudeNext]_claudeVars PROVE ClaudeInv'
  BY <1>1, TranslatesInv, UpstreamInv, StutterInv DEF ClaudeNext, Returned
<1> QED BY <1>1, InitInv, PTL DEF ClaudeSpec

-----------------------------------------------------------------------------
(* Every piece once.  While the pump runs, the bridge knows of an item     *)
(* whose content may still come whole whether the client has some of it;   *)
(* and every block of the client, and every delta, is one of its own item. *)

Heard(i) == blocks[<<"item", i>>] # NoBlock /\ blocks[<<"item", i>>].sawDelta
HeardInv ==
  output = "open" =>
    \A i \in Items : items[i].kind # "message" /\ Active(i) =>
      (Heard(i) <=> Got(sent, Len(sent), i) # {})

ClaudePieces == PiecesInv(FALSE) /\ HeardInv /\ Owned(sent, blocks)

(* No block is dropped, and none changes its index. *)
Persist(map) ==
  \A key \in Keys : blocks[key] # NoBlock =>
    map[key] # NoBlock /\ map[key].index = blocks[key].index

LEMMA OwnedPrefix ==
  ASSUME NEW s, NEW t, NEW map, Owned(s, map), Len(s) \in Nat, Len(t) \in Nat,
         Len(t) <= Len(s), \A n \in 1..Len(t) : t[n] = s[n]
  PROVE  Owned(t, map)
<1>1. \A n \in 1..Len(t) : n \in 1..Len(s)
  OBVIOUS
<1> QED BY <1>1 DEF Owned

LEMMA OwnedPersist ==
  ASSUME NEW s, NEW map, Owned(s, blocks), Persist(map)
  PROVE  Owned(s, map)
<1> SUFFICES ASSUME NEW n \in 1..Len(s), s[n].type \in Placed PROVE IsOwned(s[n], map)
  BY DEF Owned
<1>1. PICK key \in Keys :
        blocks[key] # NoBlock /\ blocks[key].index = s[n].index /\ key[2] = ItemOf(s[n])
  BY DEF Owned, IsOwned
<1> QED BY <1>1 DEF Persist, IsOwned

(* What the client then owns, all of it or the beginning. *)
LEMMA EmitsOwned ==
  ASSUME NEW out \in Seq(Frames), sent \in Seq(Frames), output = "open", Emits(out),
         Owned(sent, blocks), Persist(blocks'), Owned(out, blocks')
  PROVE  Owned(sent, blocks)'
<1>1. Owned(sent \o out, blocks')
  BY OwnedMore, OwnedPersist
<1>2. /\ sent' \in Seq(Frames) /\ Len(sent') <= Len(sent \o out)
      /\ \A n \in 1..Len(sent') : sent'[n] = (sent \o out)[n]
  BY EmitsPrefix
<1>3. sent \o out \in Seq(Frames)
  BY ConcatProperties
<1>4. Len(sent \o out) \in Nat /\ Len(sent') \in Nat
  BY <1>2, <1>3, LenProperties
<1> QED BY <1>1, <1>2, <1>4, OwnedPrefix

(* A frame of the whole response sends no piece. *)
LEMMA QuietPieces ==
  ASSUME ClaudeInv, ClaudePieces, output = "open", frame.type \notin EventTypes,
         NEW out \in Seq(Frames), Quiet(out), Owned(out, blocks'), Emits(out),
         UNCHANGED items, Persist(blocks'), \A i \in Items : Heard(i)' <=> Heard(i)
  PROVE  ClaudePieces'
<1>1. sent \in Seq(Frames)
  BY Unstarted
<1>2. \A i \in Items : Full(sent \o out, i, FALSE)
  BY <1>1, QuietFull DEF ClaudePieces
<1>3. PiecesInv(FALSE)'
  BY <1>1, <1>2, PumpedPieces
<1>4. Owned(sent, blocks)'
  BY <1>1, EmitsOwned DEF ClaudePieces
<1>5. HeardInv'
  <2> SUFFICES ASSUME output' = "open", NEW i \in Items, items[i].kind # "message", Active(i)'
               PROVE  Heard(i)' <=> Got(sent', Len(sent'), i) # {}
    BY DEF HeardInv
  <2>1. frame' = NoFrame /\ sent' = sent \o out
    BY <1>1, EmitsPrefix
  <2>2. Active(i)
    BY <2>1 DEF Active, Pending, NoFrame, EventTypes
  <2>3. Got(sent', Len(sent'), i) = Got(sent, Len(sent), i)
    BY <1>1, <2>1, GotQuiet
  <2> QED BY <2>2, <2>3 DEF ClaudePieces, HeardInv
<1> QED BY <1>3, <1>4, <1>5 DEF ClaudePieces

(* Deltas of the block under key, one for each of the pieces. *)
RunOf(out, more, map, key) ==
  /\ Len(out) = Len(more)
  /\ \A n \in 1..Len(out) :
       /\ out[n].type = "delta" /\ out[n].content = more[n]
       /\ map[key] # NoBlock /\ out[n].index = map[key].index

(* A frame of an item sends pieces of it, which its block takes.           *)
LEMMA BlockPieces ==
  ASSUME ClaudeInv, ClaudePieces, output = "open", frame.type \in EventTypes, UNCHANGED items,
         NEW i, i = frame.item, NEW key \in {<<"item", i>>, <<"content", i>>}, Persist(blocks'),
         \A k \in Keys : k # key => blocks'[k] = blocks[k],
         NEW more \in Seq(PiecesOf(i)), FitsHand(more, FALSE),
         NEW a \in Seq(Frames), NEW b \in Seq(Frames), NEW c \in Seq(Frames),
         Quiet(a), Quiet(c), Owned(a, blocks'), Owned(c, blocks'),
         RunOf(b, more, blocks', key),
         Emits((a \o b) \o c),
         \/ items[i].kind = "message" \/ items[i].phase = "done"
         \/ Heard(i)' <=> Heard(i) \/ more # <<>>
  PROVE  ClaudePieces'
<1> DEFINE out == (a \o b) \o c
<1>1. sent \in Seq(Frames) /\ ItemsOK /\ FrameFits /\ i \in Items /\ key \in Keys /\ key[2] = i
  <2>1. i \in Items
    BY EventInHand DEF ClaudeInv, StreamInv
  <2>2. key \in Keys
    BY <2>1, KeysOf
  <2>3. key[2] = i
    BY DEF Keys
  <2> QED BY <2>1, <2>2, <2>3, Unstarted DEF ClaudeInv, StreamInv
<1>2. a \o b \in Seq(Frames) /\ out \in Seq(Frames)
  BY ConcatProperties
<1>3. Brings(Frames, out, more)
  BY DEF Brings, RunOf
<1> HIDE DEF out
<1>4. \A j \in Items : Full(sent \o out, j, FALSE)
  BY <1>1, <1>3, AllFull DEF ClaudePieces
<1>5. PiecesInv(FALSE)'
  BY <1>1, <1>2, <1>4, PumpedPieces DEF out
<1>6. Owned(b, blocks')
  <2> SUFFICES ASSUME NEW n \in 1..Len(b) PROVE IsOwned(b[n], blocks')
    BY DEF Owned
  <2>1. b[n].content \in PiecesOf(i)
    BY ElementOfSeq DEF RunOf
  <2> QED BY <1>1, <2>1 DEF IsOwned, ItemOf, PiecesOf, RunOf
<1>7. Owned(out, blocks')
  BY <1>2, <1>6, OwnedMore DEF out
<1>8. Owned(sent, blocks)'
  BY <1>1, <1>2, <1>7, EmitsOwned DEF ClaudePieces, out
<1>9. HeardInv'
  <2> SUFFICES ASSUME output' = "open", NEW j \in Items, items[j].kind # "message", Active(j)'
               PROVE  Heard(j)' <=> Got(sent', Len(sent'), j) # {}
    BY DEF HeardInv
  <2>1. frame' = NoFrame /\ sent' = sent \o out
    BY <1>1, <1>2, EmitsPrefix DEF out
  <2>2. Active(j) /\ items[j].phase # "done"
    BY <2>1 DEF Active, Pending, NoFrame, EventTypes
  <2>3. Heard(j) <=> Got(sent, Len(sent), j) # {}
    BY <2>2 DEF ClaudePieces, HeardInv
  <2>4. Got(sent', Len(sent'), j)
          = Got(sent, Len(sent), j) \cup (IF j = i THEN Leading(more, Len(more)) ELSE {})
    BY <1>1, <1>3, <2>1, GotBrought
  <2>5. CASE j = i
    <3>1. Leading(more, Len(more)) = {} <=> more = <<>>
      BY NothingLeading
    <3>2. Heard(i)' <=> Heard(i) \/ more # <<>>
      BY <2>2, <2>5
    <3> QED BY <2>3, <2>4, <2>5, <3>1, <3>2
  <2>6. CASE j # i
    <3>1. <<"item", j>> # key /\ <<"item", j>> \in Keys
      <4>1. <<"item", j>>[2] = j
        OBVIOUS
      <4> QED BY <1>1, <2>6, <4>1, KeysOf
    <3> QED BY <2>3, <2>4, <2>6, <3>1 DEF Heard
  <2> QED BY <2>5, <2>6
<1> QED BY <1>5, <1>8, <1>9 DEF ClaudePieces

LEMMA DeltasAre ==
  ASSUME NEW b, b.index \in Nat, NEW kind \in BlockKinds, NEW i \in Items,
         NEW pieces \in Seq(PiecesOf(i))
  PROVE  /\ Deltas(b, kind, pieces) \in Seq(Frames)
         /\ Len(Deltas(b, kind, pieces)) = Len(pieces)
         /\ \A n \in 1..Len(pieces) :
              /\ Deltas(b, kind, pieces)[n].type = "delta"
              /\ Deltas(b, kind, pieces)[n].content = pieces[n]
              /\ Deltas(b, kind, pieces)[n].index = b.index
<1>1. Len(pieces) \in Nat
  BY LenProperties
<1>2. Deltas(b, kind, pieces) \in Seq(Frames)
  BY DeltasType, InnerOfType
<1> QED BY <1>1, <1>2 DEF Deltas, BlockDelta

(* What the frame of an item comes with. *)
LEMMA HandIs ==
  ASSUME ClaudeInv, ClaudePieces, frame.type \in EventTypes, NEW i, i = frame.item
  PROVE  /\ i \in Items /\ Pending(i) /\ output = "open" /\ Active(i) /\ FrameGives(i)
         /\ <<"item", i>> \in Keys /\ <<"content", i>> \in Keys
         /\ frame.kind \in Kinds /\ items[i].kind = frame.kind
         /\ frame.pieces \in Seq(PiecesOf(i)) /\ frame.encrypted \in BOOLEAN
         /\ Fits(frame.type, frame.kind, items[i].phase)
         /\ frame.kind # "message" => (Heard(i) <=> Got(sent, Len(sent), i) # {})
<1>1. frame.type # "none"
  BY DEF EventTypes
<1>2. i \in Items /\ Pending(i) /\ output = "open" /\ Active(i)
  BY <1>1, EventInHand, InHand DEF ClaudeInv, StreamInv, Pending, Active
<1>3. PieceInv(i, FALSE)
  BY <1>2 DEF ClaudePieces, PiecesInv
<1>4. items[i].kind = frame.kind /\ Fits(frame.type, frame.kind, items[i].phase)
  BY DEF ClaudeInv, FrameTold
<1>5. frame.kind # "message" => (Heard(i) <=> Got(sent, Len(sent), i) # {})
  BY <1>2, <1>4 DEF ClaudePieces, HeardInv
<1> QED BY <1>2, <1>3, <1>4, <1>5, EventInHand, KeysOf DEF ClaudeInv, StreamInv, PieceInv

(* A block that begins, of the item in hand. *)
LEMMA StartOwned ==
  ASSUME NEW i, i = frame.item, NEW key \in Keys, key[2] = i, NEW b,
         blocks'[key] # NoBlock, blocks'[key].index = b.index
  PROVE  Owned(Opening(b), blocks')
<1>1. BlockStart(b).index = b.index /\ ItemOf(BlockStart(b)) = i
  BY DEF BlockStart, ItemOf
<1>2. IsOwned(BlockStart(b), blocks')
  BY <1>1 DEF IsOwned
<1> QED BY <1>2, OwnedFrame, OwnedNone DEF Opening

LEMMA FillsPieces ==
  ASSUME ClaudeInv, ClaudePieces, frame.type \in EventTypes, NEW i, i = frame.item,
         NEW key \in {<<"item", i>>, <<"content", i>>}, NEW kind \in BlockKinds,
         NEW encrypted \in BOOLEAN, Fills(key, kind, encrypted), UNCHANGED items,
         FitsHand(frame.pieces, FALSE), frame.kind = "message" \/ key = <<"item", i>>
  PROVE  ClaudePieces'
<1> DEFINE b == BlockAt(key, kind)
           new == Block(b.index, b.kind, TRUE, SawDelta(b, frame.pieces), encrypted)
<1>1. PICK more : more = frame.pieces
  OBVIOUS
<1>2. /\ i \in Items /\ key \in Keys /\ output = "open" /\ more \in Seq(PiecesOf(i))
      /\ items[i].kind = frame.kind
  BY <1>1, HandIs
<1>3. /\ blocks' = [blocks EXCEPT ![key] = new]
      /\ Emits(Start \o Opening(b) \o Deltas(b, kind, more))
  BY <1>1 DEF Fills
<1>4. /\ b \in BlockRecords /\ b.index \in Nat
      /\ blocks[key] # NoBlock => b = blocks[key]
      /\ blocks[key] = NoBlock => ~b.sawDelta
  <2>1. /\ b \in BlockRecords
        /\ blocks[key] # NoBlock => b = blocks[key]
        /\ blocks[key] = NoBlock => b = Block(nextBlock, kind, FALSE, FALSE, FALSE)
    BY <1>2, BlockAtType DEF ClaudeInv, BlockAt
  <2>2. b.index \in Nat
    BY <2>1, StreamAssumption DEF BlockRecords
  <2> HIDE DEF b
  <2> QED BY <2>1, <2>2 DEF Block
<1>5. /\ new # NoBlock /\ new.index = b.index
      /\ new.sawDelta <=> b.sawDelta \/ more # <<>>
  BY <1>1 DEF Block, NoBlock, SawDelta
<1> HIDE DEF b, new
<1>6. /\ \A k \in Keys : k # key => blocks'[k] = blocks[k]
      /\ blocks'[key] = new
  BY <1>2, <1>3 DEF ClaudeInv, ClaudeTypeOK
<1>7. Persist(blocks')
  BY <1>4, <1>5, <1>6 DEF Persist
<1>8. Opening(b) \in Seq(Frames) /\ Quiet(Opening(b))
  <2>1. BlockStart(b) \in Frames /\ BlockStart(b).type # "delta"
    BY <1>1, <1>2, <1>4 DEF BlockStart, Frames, BlockRecords
  <2> QED BY <2>1, FrameQuiet, NoneQuiet DEF Opening
<1>19. Owned(Opening(b), blocks')
  BY <1>1, <1>2, <1>5, <1>6, StartOwned
<1>9. /\ Start \o Opening(b) \in Seq(Frames) /\ Quiet(Start \o Opening(b))
      /\ Owned(Start \o Opening(b), blocks')
  BY <1>8, <1>19, StartQuiet, OwnedStart, QuietTwo, OwnedMore, ConcatProperties
<1>10. /\ Deltas(b, kind, more) \in Seq(Frames)
       /\ Len(Deltas(b, kind, more)) = Len(more)
       /\ \A n \in 1..Len(more) :
            /\ Deltas(b, kind, more)[n].type = "delta"
            /\ Deltas(b, kind, more)[n].content = more[n]
            /\ Deltas(b, kind, more)[n].index = b.index
  BY <1>2, <1>4, DeltasAre
<1>11. Emits(((Start \o Opening(b)) \o Deltas(b, kind, more)) \o <<>>)
  <2>1. (Start \o Opening(b)) \o Deltas(b, kind, more) \in Seq(Frames)
    BY <1>9, <1>10, ConcatProperties
  <2>2. ((Start \o Opening(b)) \o Deltas(b, kind, more)) \o <<>>
          = (Start \o Opening(b)) \o Deltas(b, kind, more)
    BY <2>1, ConcatEmptySeq
  <2> QED BY <1>3, <2>2
<1>12. items[i].kind = "message" \/ (Heard(i)' <=> Heard(i) \/ more # <<>>)
  <2>1. CASE key = <<"item", i>>
    BY <1>4, <1>5, <1>6, <2>1 DEF Heard
  <2>2. CASE key # <<"item", i>>
    BY <1>2, <2>2
  <2> QED BY <2>1, <2>2
<1>13. FitsHand(more, FALSE)
  BY <1>1
<1>14. \A n \in 1..Len(Deltas(b, kind, more)) :
         /\ Deltas(b, kind, more)[n].type = "delta"
         /\ Deltas(b, kind, more)[n].content = more[n]
         /\ blocks'[key] # NoBlock /\ Deltas(b, kind, more)[n].index = blocks'[key].index
  BY <1>5, <1>6, <1>10
<1>15. PICK front \in Seq(Frames), run \in Seq(Frames) :
         front = Start \o Opening(b) /\ run = Deltas(b, kind, more)
  BY <1>9, <1>10
<1>16. /\ Quiet(front) /\ Owned(front, blocks')
       /\ RunOf(run, more, blocks', key) /\ Emits((front \o run) \o <<>>)
  BY <1>9, <1>10, <1>11, <1>14, <1>15 DEF RunOf
<1>17. PICK rear \in Seq(Frames) : rear = <<>> /\ Quiet(rear) /\ Owned(rear, blocks')
  BY NoneQuiet, OwnedNone
<1>18. Emits((front \o run) \o rear)
  BY <1>16, <1>17
<1> QED BY <1>2, <1>6, <1>7, <1>12, <1>13, <1>16, <1>17, <1>18, BlockPieces

LEMMA ItemAddedPieces ==
  ASSUME ClaudeInv, ClaudePieces, OnItemAdded, UNCHANGED items
  PROVE  ClaudePieces'
<1>1. PICK i : i = frame.item
  OBVIOUS
<1>2. frame.type = "output_item.added" /\ frame.type \in EventTypes
  BY DEF OnItemAdded, EventTypes
<1>3. FrameGives(i) /\ frame.encrypted \in BOOLEAN
  BY <1>1, <1>2, HandIs
<1>4. FitsHand(frame.pieces, FALSE)
  BY <1>2, <1>3 DEF FrameGives, FitsHand
<1>5. ItemKey = <<"item", i>> /\ "thinking" \in BlockKinds /\ "tool_use" \in BlockKinds
  BY <1>1 DEF ItemKey, BlockKinds
<1> QED BY <1>1, <1>2, <1>3, <1>4, <1>5, FillsPieces DEF OnItemAdded

LEMMA PartAddedPieces ==
  ASSUME ClaudeInv, ClaudePieces, OnPartAdded, UNCHANGED items
  PROVE  ClaudePieces'
<1>1. PICK i : i = frame.item
  OBVIOUS
<1>2. frame.type = "content_part.added" /\ frame.type \in EventTypes
  BY DEF OnPartAdded, EventTypes
<1>3. frame.kind = "message"
  BY <1>1, <1>2, HandIs DEF Fits
<1>4. FitsHand(frame.pieces, FALSE)
  BY <1>2 DEF FitsHand
<1>5. ContentKey = <<"content", i>> /\ "text" \in BlockKinds /\ FALSE \in BOOLEAN
  BY <1>1 DEF ContentKey, BlockKinds
<1> QED BY <1>1, <1>2, <1>3, <1>4, <1>5, FillsPieces DEF OnPartAdded

LEMMA DeltaPieces ==
  ASSUME ClaudeInv, ClaudePieces, OnDelta, UNCHANGED items
  PROVE  ClaudePieces'
<1>1. PICK i : i = frame.item
  OBVIOUS
<1>2. frame.type = "delta" /\ frame.type \in EventTypes
  BY DEF OnDelta, EventTypes
<1>3. FitsHand(frame.pieces, FALSE)
  BY <1>2 DEF FitsHand
<1>4. /\ ContentKey = <<"content", i>> /\ ItemKey = <<"item", i>> /\ BlockKinds # {}
      /\ {"text", "thinking", "tool_use"} \subseteq BlockKinds /\ FALSE \in BOOLEAN
  BY <1>1 DEF ContentKey, ItemKey, BlockKinds
<1>5. BlockAt(ItemKey, "thinking").encrypted \in BOOLEAN
  <2>1. ItemKey \in Keys
    BY <1>1, <1>2, <1>4, HandIs
  <2> QED BY <2>1, BlockAtType DEF ClaudeInv, BlockRecords, BlockKinds
<1> QED BY <1>1, <1>2, <1>3, <1>4, <1>5, FillsPieces DEF OnDelta

(* A frame that fills no block. *)
LEMMA StillPieces ==
  ASSUME ClaudeInv, ClaudePieces, frame.type \in EventTypes, NEW i, i = frame.item,
         NEW key \in {<<"item", i>>, <<"content", i>>}, Persist(blocks'),
         \A k \in Keys : k # key => blocks'[k] = blocks[k],
         frame.kind = "message", UNCHANGED items,
         frame.type \notin {"delta", "content_part.added"},
         NEW out \in Seq(Frames), Quiet(out), Owned(out, blocks'), Emits(Start \o out)
  PROVE  ClaudePieces'
<1>1. FitsHand(<<>>, FALSE)
  BY DEF FitsHand
<1>2. <<>> \in Seq(PiecesOf(i)) /\ RunOf(<<>>, <<>>, blocks', key)
  <2>1. 1..Len(<<>>) = {}
    OBVIOUS
  <2> QED BY <2>1 DEF RunOf
<1>3. Emits((Start \o <<>>) \o out)
  <2>1. Start \o <<>> = Start
    BY StartQuiet, ConcatEmptySeq
  <2> QED BY <2>1
<1>4. output = "open" /\ items[i].kind = "message"
  BY HandIs
<1>5. PICK start \in Seq(Frames) : start = Start
  BY StartQuiet
<1> QED BY <1>1, <1>2, <1>3, <1>4, <1>5, StartQuiet, OwnedStart, NoneQuiet, BlockPieces

LEMMA OtherPieces ==
  ASSUME ClaudeInv, ClaudePieces, OnOther, UNCHANGED items
  PROVE  ClaudePieces'
<1>1. PICK i : i = frame.item
  OBVIOUS
<1>2. Emits(Start \o <<>>) /\ blocks' = blocks
  BY DEF OnOther, Unmoved
<1>3. Persist(blocks')
  BY <1>2 DEF Persist
<1>4. CASE frame.type \in {"output_item.added", "output_item.done"} /\ frame.kind = "message"
  <2>1. frame.type \in EventTypes /\ frame.type \notin {"delta", "content_part.added"}
    BY <1>4 DEF EventTypes
  <2> QED BY <1>1, <1>2, <1>3, <1>4, <2>1, NoneQuiet, OwnedNone, StillPieces
<1>5. CASE frame.type = "response.created"
  <2>1. frame.type \notin EventTypes /\ output = "open"
    BY <1>5, InHand DEF EventTypes
  <2>2. Emits(Start)
    BY <1>2, StartQuiet, ConcatEmptySeq
  <2>3. PICK start \in Seq(Frames) : start = Start
    BY StartQuiet
  <2>4. \A j \in Items : Heard(j)' <=> Heard(j)
    BY <1>2 DEF Heard
  <2> QED BY <1>3, <2>1, <2>2, <2>3, <2>4, StartQuiet, OwnedStart, QuietPieces
<1> QED BY <1>4, <1>5 DEF OnOther

LEMMA PartDonePieces ==
  ASSUME ClaudeInv, ClaudePieces, OnPartDone, UNCHANGED items
  PROVE  ClaudePieces'
<1>1. PICK i : i = frame.item
  OBVIOUS
<1>2. PICK key : key = ContentKey
  OBVIOUS
<1> DEFINE b == blocks[key]
<1>3. frame.type = "content_part.done" /\ frame.type \in EventTypes
  BY DEF OnPartDone, EventTypes
<1>4. frame.kind = "message" /\ key = <<"content", i>> /\ key \in Keys
  BY <1>1, <1>2, <1>3, HandIs DEF Fits, ContentKey
<1>5. /\ IF b.open THEN blocks' = [blocks EXCEPT ![key] = Closed(b)] ELSE blocks' = blocks
      /\ Emits(Start \o Closing(b))
  BY <1>2 DEF OnPartDone, Unmoved
<1>6. b.open => /\ b # NoBlock /\ Closed(b) # NoBlock /\ Closed(b).index = b.index
                /\ BlockStop(b) \in Frames
  BY <1>4, ClosedType DEF ClaudeInv
<1>7. Closing(b) \in Seq(Frames) /\ Quiet(Closing(b)) /\ Owned(Closing(b), blocks')
  <2>1. BlockStop(b).type # "delta" /\ BlockStop(b).type \notin Placed
    BY DEF BlockStop, Placed
  <2> HIDE DEF b
  <2> QED BY <1>6, <2>1, FrameQuiet, NoneQuiet, OwnedFrame, OwnedNone DEF Closing
<1>8. Persist(blocks') /\ \A k \in Keys : k # key => blocks'[k] = blocks[k]
  BY <1>4, <1>5, <1>6 DEF Persist, ClaudeInv, ClaudeTypeOK
<1>9. PICK out \in Seq(Frames) : out = Closing(b)
  BY <1>7
<1> HIDE DEF b
<1> QED BY <1>1, <1>3, <1>4, <1>5, <1>7, <1>8, <1>9, StillPieces

LEMMA ItemDonePieces ==
  ASSUME ClaudeInv, ClaudePieces, OnItemDone, UNCHANGED items
  PROVE  ClaudePieces'
<1>1. PICK i, key : i = frame.item /\ key = ItemKey
  OBVIOUS
<1> DEFINE known == blocks[key] # NoBlock
           kind == IF frame.kind = "tool" THEN "tool_use" ELSE "thinking"
           b == BlockAt(key, kind)
           opened == Block(b.index, b.kind, known => b.open, b.sawDelta, b.encrypted)
           pieces == IF b.sawDelta THEN <<>>
                     ELSE IF kind = "thinking" THEN Trimmed(frame.pieces) ELSE frame.pieces
           encrypted == frame.encrypted \/ b.encrypted
           signature == IF kind = "thinking" /\ encrypted
                        THEN <<[type |-> "signature_delta", index |-> b.index]>> ELSE <<>>
           sawDelta == SawDelta(b, pieces \o signature)
           head == IF known THEN <<>> ELSE Opening(b)
           new == Closed(Block(b.index, b.kind, FALSE, sawDelta, encrypted))
<1>2. /\ frame.type = "output_item.done" /\ frame.type \in EventTypes /\ frame.kind # "message"
      /\ key = <<"item", i>> /\ kind \in BlockKinds
  BY <1>1 DEF OnItemDone, EventTypes, ItemKey, BlockKinds
<1>3. /\ i \in Items /\ key \in Keys /\ output = "open" /\ frame.kind \in Kinds
      /\ frame.pieces \in Seq(PiecesOf(i)) /\ items[i].phase = "done"
      /\ Heard(i) <=> Got(sent, Len(sent), i) # {}
  BY <1>1, <1>2, HandIs DEF Fits
<1>4. /\ blocks' = [blocks EXCEPT ![key] = new]
      /\ Emits(Start \o head \o Deltas(b, kind, pieces) \o signature \o Closing(opened))
  BY <1>1 DEF OnItemDone
<1>5. /\ b \in BlockRecords /\ b.index \in Nat
      /\ known => b = blocks[key]
      /\ ~known => ~b.sawDelta
  <2>1. /\ b \in BlockRecords
        /\ known => b = blocks[key]
        /\ ~known => b = Block(nextBlock, kind, FALSE, FALSE, FALSE)
    BY <1>2, <1>3, BlockAtType DEF ClaudeInv, BlockAt
  <2>2. b.index \in Nat
    BY <2>1, StreamAssumption DEF BlockRecords
  <2> HIDE DEF b
  <2> QED BY <2>1, <2>2 DEF Block
<1>6. Heard(i) <=> b.sawDelta
  BY <1>2, <1>5 DEF Heard
<1>7. new # NoBlock /\ new.index = b.index
  BY DEF Closed, Block, NoBlock
<1>8. pieces \in Seq(PiecesOf(i))
  <2>1. Trimmed(frame.pieces) \in Seq(PiecesOf(i)) /\ <<>> \in Seq(PiecesOf(i))
    BY <1>3, TrimmedType
  <2> HIDE DEF b, kind
  <2> QED BY <1>3, <2>1
<1>9. FitsHand(pieces, FALSE)
  <2>1. kind = "thinking" => frame.kind = "reasoning"
    BY <1>2, <1>3 DEF Kinds
  <2> HIDE DEF b, kind
  <2>2. CASE b.sawDelta
    <3>1. pieces = <<>>
      BY <2>2
    <3> QED BY <1>1, <1>2, <1>3, <1>6, <2>2, <3>1 DEF FitsHand
  <2>3. CASE ~b.sawDelta
    <3>1. pieces = frame.pieces \/ (frame.kind = "reasoning" /\ pieces = Trimmed(frame.pieces))
      BY <2>1, <2>3
    <3> QED BY <1>1, <1>2, <1>3, <1>6, <2>3, <3>1 DEF FitsHand
  <2> QED BY <2>2, <2>3
<1>10. signature \in Seq(Frames) /\ Quiet(signature) /\ Owned(signature, blocks')
  <2> DEFINE sign == [type |-> "signature_delta", index |-> b.index]
  <2>1. sign \in Frames /\ sign.type # "delta" /\ sign.type \notin Placed
    BY <1>5 DEF Frames, Placed
  <2> HIDE DEF sign
  <2>2. <<sign>> \in Seq(Frames) /\ Quiet(<<sign>>) /\ Owned(<<sign>>, blocks')
    BY <2>1, FrameQuiet, OwnedFrame
  <2> QED BY <2>2, NoneQuiet, OwnedNone DEF sign
<1>11. /\ Closing(opened) \in Seq(Frames) /\ Quiet(Closing(opened))
       /\ Owned(Closing(opened), blocks')
  <2>1. /\ BlockStop(opened) \in Frames /\ BlockStop(opened).type # "delta"
        /\ BlockStop(opened).type \notin Placed
    BY <1>5 DEF BlockStop, Block, Frames, Placed
  <2> HIDE DEF opened
  <2> QED BY <2>1, FrameQuiet, NoneQuiet, OwnedFrame, OwnedNone DEF Closing
<1>12. head \in Seq(Frames) /\ Quiet(head)
  <2>1. BlockStart(b) \in Frames /\ BlockStart(b).type # "delta"
    BY <1>1, <1>3, <1>5 DEF BlockStart, Frames, BlockRecords
  <2> HIDE DEF b
  <2> QED BY <2>1, FrameQuiet, NoneQuiet DEF Opening
<1> HIDE DEF new, head, signature, opened, pieces, b, kind
<1>13. \A k \in Keys : k # key => blocks'[k] = blocks[k]
  BY <1>3, <1>4
<1>14. blocks'[key] = new
  BY <1>3, <1>4 DEF ClaudeInv, ClaudeTypeOK
<1>15. Persist(blocks')
  BY <1>5, <1>7, <1>13, <1>14 DEF Persist
<1>16. /\ Deltas(b, kind, pieces) \in Seq(Frames)
       /\ Len(Deltas(b, kind, pieces)) = Len(pieces)
       /\ \A n \in 1..Len(pieces) :
            /\ Deltas(b, kind, pieces)[n].type = "delta"
            /\ Deltas(b, kind, pieces)[n].content = pieces[n]
            /\ Deltas(b, kind, pieces)[n].index = b.index
  BY <1>2, <1>3, <1>5, <1>8, DeltasAre
<1>22. Owned(head, blocks')
  BY <1>1, <1>2, <1>3, <1>7, <1>14, StartOwned, OwnedNone DEF head
<1>17. /\ Start \o head \in Seq(Frames) /\ Quiet(Start \o head)
       /\ Owned(Start \o head, blocks')
  BY <1>12, <1>22, StartQuiet, OwnedStart, QuietTwo, OwnedMore, ConcatProperties
<1>18. /\ signature \o Closing(opened) \in Seq(Frames) /\ Quiet(signature \o Closing(opened))
       /\ Owned(signature \o Closing(opened), blocks')
  BY <1>10, <1>11, QuietTwo, OwnedMore, ConcatProperties
<1>19. PICK front, run, rear, more :
         /\ front \in Seq(Frames) /\ front = Start \o head
         /\ run \in Seq(Frames) /\ run = Deltas(b, kind, pieces)
         /\ rear \in Seq(Frames) /\ rear = signature \o Closing(opened)
         /\ more \in Seq(PiecesOf(i)) /\ more = pieces
  BY <1>8, <1>16, <1>17, <1>18
<1>20. Emits((front \o run) \o rear)
  <2>1. front \o run \in Seq(Frames)
    BY <1>19, ConcatProperties
  <2>2. (front \o run) \o (signature \o Closing(opened))
          = ((front \o run) \o signature) \o Closing(opened)
    <3>1. PICK one, two, three :
            /\ one \in Seq(Frames) /\ two \in Seq(Frames) /\ three \in Seq(Frames)
            /\ one = front \o run /\ two = signature /\ three = Closing(opened)
      BY <1>10, <1>11, <2>1
    <3>2. one \in Seq(Frames) /\ two \in Seq(Frames) /\ three \in Seq(Frames)
      BY ONLY <3>1
    <3>3. one \o (two \o three) = (one \o two) \o three
      BY ONLY <3>2, JoinFrames
    <3> QED BY ONLY <3>1, <3>3
  <2> QED BY <1>4, <1>19, <2>2
<1>21. /\ Quiet(front) /\ Quiet(rear) /\ FitsHand(more, FALSE)
       /\ Owned(front, blocks') /\ Owned(rear, blocks')
       /\ RunOf(run, more, blocks', key)
  BY <1>7, <1>9, <1>14, <1>16, <1>17, <1>18, <1>19 DEF RunOf
<1> QED BY <1>1, <1>2, <1>3, <1>13, <1>15, <1>19, <1>20, <1>21, BlockPieces

LEMMA TerminalPieces ==
  ASSUME ClaudeInv, ClaudePieces, OnTerminal, UNCHANGED items
  PROVE  ClaudePieces'
<1>1. frame.type \notin EventTypes /\ frame.type # "none" /\ output = "open"
  BY InHand DEF OnTerminal, EventTypes
<1>2. PICK front \in Seq(Frames), end \in Frames :
        /\ end.type = "message_delta" /\ Quiet(front) /\ Owned(front, blocks')
        /\ Emits(front \o <<end, MessageStop>>)
  BY TerminalMakes
<1>3. PICK out \in Seq(Frames) :
        out = front \o <<end, MessageStop>> /\ Quiet(out) /\ Owned(out, blocks')
  BY <1>2, EndQuiet
<1>4. Persist(blocks') /\ \A i \in Items : Heard(i)' <=> Heard(i)
  BY TerminalBlocks, KeysOf DEF Persist, Heard, ClaudeInv
<1> QED BY <1>1, <1>2, <1>3, <1>4, QuietPieces

LEMMA FailurePieces ==
  ASSUME ClaudeInv, ClaudePieces, OnFailure \/ OnDone, UNCHANGED items
  PROVE  ClaudePieces'
<1>1. /\ frame.type \notin EventTypes /\ frame.type # "none" /\ blocks' = blocks
      /\ TranslationFails \/ Emits(<<>>)
  BY DEF OnFailure, OnDone, EventTypes, bridgeVars
<1>2. output = "open"
  BY <1>1, InHand
<1>3. Persist(blocks') /\ \A j \in Items : Heard(j)' <=> Heard(j)
  BY <1>1 DEF Persist, Heard
<1>4. CASE Emits(<<>>)
  BY <1>1, <1>2, <1>3, <1>4, NoneQuiet, OwnedNone, QuietPieces
<1>5. CASE TranslationFails
  <2>1. output' = "failed" /\ sent' = sent
    BY <1>5 DEF TranslationFails, ClosesOutput
  <2>2. PiecesInv(FALSE)'
    BY <1>2, <1>5, FailedPieces DEF ClaudePieces, ClaudeInv, StreamInv
  <2>3. HeardInv' /\ Owned(sent, blocks)'
    BY <1>1, <2>1 DEF ClaudePieces, HeardInv
  <2> QED BY <2>2, <2>3 DEF ClaudePieces
<1> QED BY <1>1, <1>4, <1>5

LEMMA TranslatesPieces ==
  ASSUME ClaudeInv, ClaudePieces, Translates
  PROVE  ClaudePieces'
BY OtherPieces, ItemAddedPieces, PartAddedPieces, DeltaPieces, PartDonePieces,
   ItemDonePieces, TerminalPieces, FailurePieces DEF Translates

LEMMA InitPieces ==
  ClaudeInit => ClaudePieces
<1> SUFFICES ASSUME ClaudeInit PROVE ClaudePieces
  OBVIOUS
<1>1. PiecesInv(FALSE)
  BY StreamInitPieces DEF ClaudeInit
<1>2. sent = <<>> /\ blocks = [key \in Keys |-> NoBlock]
  BY DEF ClaudeInit, StreamInit, PumpInit
<1>3. Len(sent) = 0 /\ 1..Len(sent) = {}
  BY <1>2
<1>4. HeardInv
  <2>1. \A i : Got(sent, Len(sent), i) = {}
    BY <1>3 DEF Got
  <2>2. \A i \in Items : ~Heard(i)
    BY <1>2, KeysOf DEF Heard
  <2> QED BY <2>1, <2>2 DEF HeardInv
<1>5. Owned(sent, blocks)
  BY <1>3 DEF Owned
<1> QED BY <1>1, <1>4, <1>5 DEF ClaudePieces

LEMMA UpstreamKeepsPieces ==
  ASSUME ClaudeInv, ClaudePieces, UpstreamNext \/ UpstreamEnds \/ ReadFails,
         UNCHANGED bridgeVars
  PROVE  ClaudePieces'
<1>1. PiecesInv(FALSE)'
  BY UpstreamPieces DEF ClaudePieces, ClaudeInv
<1>2. sent' = sent /\ blocks' = blocks /\ (output' = "open" => output = "open")
  <2>1. CASE UpstreamNext
    BY <2>1, UpstreamTells DEF ClaudeInv, bridgeVars
  <2>2. CASE UpstreamEnds \/ ReadFails
    BY <2>2, PumpStops DEF ClaudeInv, bridgeVars
  <2> QED BY <2>1, <2>2
<1>3. HeardInv'
  <2> SUFFICES ASSUME output' = "open", NEW i \in Items, items'[i].kind # "message", Active(i)'
               PROVE  Heard(i)' <=> Got(sent', Len(sent'), i) # {}
    BY DEF HeardInv
  <2>1. Active(i) /\ items[i].kind \in {"none", items'[i].kind}
    BY UpstreamActive DEF ClaudeInv
  <2>2. Heard(i) <=> Got(sent, Len(sent), i) # {}
    BY <1>2, <2>1 DEF ClaudePieces, HeardInv
  <2> QED BY <1>2, <2>2 DEF Heard
<1>4. Owned(sent, blocks)'
  BY <1>2 DEF ClaudePieces
<1> QED BY <1>1, <1>3, <1>4 DEF ClaudePieces

LEMMA StutterPieces ==
  ASSUME ClaudeInv, ClaudePieces, UNCHANGED claudeVars
  PROVE  ClaudePieces'
<1>1. PiecesInv(FALSE)'
  BY PiecesUnmoved DEF ClaudePieces, claudeVars
<1>2. /\ items' = items /\ frame' = frame /\ sent' = sent /\ output' = output
      /\ blocks' = blocks
  BY DEF claudeVars, streamVars, bridgeVars
<1>3. HeardInv' /\ Owned(sent, blocks)'
  BY <1>2 DEF ClaudePieces, HeardInv, Heard, Active, Pending
<1> QED BY <1>1, <1>3 DEF ClaudePieces

LEMMA ClaudePiecesHold ==
  ClaudeSpec => []ClaudePieces
<1>1. ASSUME ClaudeInv, ClaudePieces, [ClaudeNext]_claudeVars PROVE ClaudePieces'
  BY <1>1, TranslatesPieces, UpstreamKeepsPieces, StutterPieces DEF ClaudeNext, Returned
<1> QED BY <1>1, InitPieces, ClaudeInvHolds, PTL DEF ClaudeSpec

(* What it says of the frames the client has. *)
LEMMA PiecesOnce ==
  ASSUME ClaudeInv, ClaudePieces
  PROVE  EveryPieceOnce
<1>1. ASSUME NEW i \in Items
      PROVE  \E pieces \in Contents(i) :
               /\ \A n \in 1..Len(sent) : Carries(n, i) => InTurn(n, i, pieces)
               /\ Settled => AllReceived(i, pieces, Len(sent))
  <2>1. PieceInv(i, FALSE)
    BY DEF ClaudePieces, PiecesInv
  <2>2. \A pieces : Again(i, pieces, FALSE) = FALSE
    BY DEF Again
  <2>3. CASE output = "failed"
    <3>1. PICK pieces \in Contents(i) : AllFine(sent, i, pieces, FALSE)
      BY <2>1, <2>2, <2>3 DEF PieceInv, InOrder
    <3>2. ~Settled
      BY <2>3 DEF Settled
    <3> QED BY <3>1, <3>2, InTurnIn DEF AllFine, FineIn
  <2>4. CASE output # "failed" /\ ~Pending(i)
    <3>1. PICK pieces \in Contents(i) : Delivered(sent, i, pieces, Len(pieces), FALSE)
      BY <2>1, <2>2, <2>4 DEF PieceInv, Full
    <3> QED BY <3>1, InTurnIn DEF Delivered, AllFine, FineIn, AllReceived
  <2>5. CASE output # "failed" /\ Pending(i)
    <3>1. PICK k : Due(i, k) /\ Delivered(sent, i, WholePieces(i), k, FALSE)
      BY <2>1, <2>5 DEF PieceInv, PartGiven
    <3>2. WholePieces(i) \in Contents(i)
      BY WholeIs DEF ClaudeInv, StreamInv
    <3>3. ~Settled
      BY <2>5 DEF Settled, Pending, NoFrame, EventTypes
    <3> QED BY <3>1, <3>2, <3>3, InTurnIn DEF Delivered, AllFine, FineIn
  <2> QED BY <2>3, <2>4, <2>5
<1>2. ASSUME NEW m \in 1..Len(sent), NEW n \in 1..Len(sent), At(m, "delta"), At(n, "delta"),
             sent[m].index = sent[n].index
      PROVE  sent[m].content.item = sent[n].content.item
  <2>1. IsOwned(sent[m], blocks) /\ IsOwned(sent[n], blocks)
    BY <1>2 DEF ClaudePieces, Owned, At, Placed
  <2>2. PICK key \in Keys : /\ blocks[key] # NoBlock /\ blocks[key].index = sent[m].index
                            /\ key[2] = sent[m].content.item
    BY <1>2, <2>1 DEF IsOwned, ItemOf, At
  <2>3. PICK other \in Keys : /\ blocks[other] # NoBlock /\ blocks[other].index = sent[n].index
                              /\ other[2] = sent[n].content.item
    BY <1>2, <2>1 DEF IsOwned, ItemOf, At
  <2>4. key = other
    BY <1>2, <2>2, <2>3 DEF ClaudeInv, BlocksInv, Distinct
  <2> QED BY <2>2, <2>3, <2>4
<1> QED BY <1>1, <1>2 DEF EveryPieceOnce

-----------------------------------------------------------------------------
(* The answer as one document.  Every tool call of the answer has a block, *)
(* but for one whose first frame is in hand.                               *)

ToolsInv ==
  /\ BirthInv
  /\ \A i \in Items : items[i].kind = "tool" => Pending(i) \/ blocks[<<"item", i>>] # NoBlock

LEMMA BlockSet ==
  ASSUME ClaudeTypeOK, NEW key \in Keys, NEW record, record # NoBlock,
         blocks' = [blocks EXCEPT ![key] = record]
  PROVE  /\ blocks'[key] # NoBlock
         /\ \A other \in Keys : blocks[other] # NoBlock => blocks'[other] # NoBlock
BY DEF ClaudeTypeOK

LEMMA FillsSet ==
  ASSUME ClaudeTypeOK, NEW key \in Keys, NEW kind, NEW encrypted, Fills(key, kind, encrypted)
  PROVE  /\ blocks'[key] # NoBlock
         /\ \A other \in Keys : blocks[other] # NoBlock => blocks'[other] # NoBlock
<1> DEFINE b == BlockAt(key, kind)
           record == Block(b.index, b.kind, TRUE, SawDelta(b, frame.pieces), encrypted)
<1>1. blocks' = [blocks EXCEPT ![key] = record]
  BY DEF Fills
<1> HIDE DEF b
<1>2. record # NoBlock
  BY DEF Block, NoBlock
<1> HIDE DEF record
<1> QED BY <1>1, <1>2, BlockSet

(* No block is dropped, and a frame of reasoning, of a tool call or with   *)
(* text has its block.                                                     *)
LEMMA BlocksStay ==
  ASSUME ClaudeInv, Translates
  PROVE  /\ \A key \in Keys : blocks[key] # NoBlock => blocks'[key] # NoBlock
         /\ frame.type \in EventTypes /\ frame.kind # "message" =>
              blocks'[<<"item", frame.item>>] # NoBlock
         /\ frame.type \in {"delta", "content_part.added"} /\ frame.kind = "message" =>
              blocks'[<<"content", frame.item>>] # NoBlock
<1>1. ClaudeTypeOK
  BY DEF ClaudeInv
<1>2. frame.type \in EventTypes => ItemKey \in Keys /\ ContentKey \in Keys
  BY EventInHand, KeysOf DEF ClaudeInv, StreamInv, ItemKey, ContentKey
<1>3. frame.type \in {"content_part.added", "content_part.done"} => frame.kind = "message"
  BY DEF ClaudeInv, FrameTold, Fits, EventTypes
<1>4. CASE OnOther \/ OnFailure \/ OnDone
  BY <1>4 DEF OnOther, OnFailure, OnDone, bridgeVars, EventTypes
<1>5. CASE OnItemAdded \/ OnPartAdded \/ OnDelta
  <2>1. frame.type \in EventTypes
    BY <1>5 DEF OnItemAdded, OnPartAdded, OnDelta, EventTypes
  <2>2. \E kind, encrypted :
          \/ frame.kind # "message" /\ Fills(ItemKey, kind, encrypted)
          \/ frame.kind = "message" /\ Fills(ContentKey, kind, encrypted)
    BY <1>3, <1>5 DEF OnItemAdded, OnPartAdded, OnDelta
  <2> QED BY <1>1, <1>2, <2>1, <2>2, FillsSet DEF ItemKey, ContentKey
<1>6. CASE OnPartDone
  <2>1. /\ frame.type \in EventTypes /\ frame.kind = "message"
        /\ frame.type \notin {"delta", "content_part.added"}
    BY <1>3, <1>6 DEF OnPartDone, EventTypes
  <2>2. blocks' = blocks \/ \E record : record # NoBlock
                                     /\ blocks' = [blocks EXCEPT ![ContentKey] = record]
    BY <1>6 DEF OnPartDone, Closed, Block, NoBlock
  <2> QED BY <1>1, <1>2, <2>1, <2>2, BlockSet
<1>7. CASE OnItemDone
  <2>1. frame.type \in EventTypes /\ frame.kind # "message"
    BY <1>7 DEF OnItemDone, EventTypes
  <2> DEFINE kind == IF frame.kind = "tool" THEN "tool_use" ELSE "thinking"
             b == BlockAt(ItemKey, kind)
             pieces == IF b.sawDelta THEN <<>>
                       ELSE IF kind = "thinking" THEN Trimmed(frame.pieces) ELSE frame.pieces
             encrypted == frame.encrypted \/ b.encrypted
             signature == IF kind = "thinking" /\ encrypted
                          THEN <<[type |-> "signature_delta", index |-> b.index]>> ELSE <<>>
             sawDelta == SawDelta(b, pieces \o signature)
             record == Closed(Block(b.index, b.kind, FALSE, sawDelta, encrypted))
  <2>2. blocks' = [blocks EXCEPT ![ItemKey] = record]
    BY <1>7 DEF OnItemDone
  <2> HIDE DEF b, encrypted, sawDelta
  <2>3. record # NoBlock
    BY DEF Closed, Block, NoBlock
  <2> HIDE DEF record
  <2> QED BY <1>1, <1>2, <2>1, <2>2, <2>3, BlockSet DEF ItemKey
<1>8. CASE OnTerminal
  <2>1. frame.type \notin EventTypes \cup {"delta", "content_part.added"}
    BY <1>8 DEF OnTerminal, EventTypes
  <2>2. \A key \in Keys : blocks'[key] = blocks[key] \/ blocks'[key] = Closed(blocks[key])
    BY <1>8 DEF OnTerminal
  <2>3. \A b : Closed(b) # NoBlock
    BY DEF Closed, Block, NoBlock
  <2> QED BY <2>1, <2>2, <2>3
<1> QED BY <1>4, <1>5, <1>6, <1>7, <1>8 DEF Translates

LEMMA TranslatesTools ==
  ASSUME ClaudeInv, ToolsInv, Translates
  PROVE  ToolsInv'
<1>1. frame' = NoFrame /\ upstream' = upstream /\ items' = items
  BY TranslatesKept DEF Kept
<1>2. BirthInv'
  BY <1>1 DEF ToolsInv, BirthInv, NoFrame, Terminals
<1>3. ASSUME NEW i \in Items, items[i].kind = "tool" PROVE blocks'[<<"item", i>>] # NoBlock
  <2>1. CASE Pending(i)
    <3>1. frame.type \in EventTypes /\ frame.item = i /\ frame.kind = "tool"
      BY <1>3, <2>1 DEF Pending, ClaudeInv, FrameTold
    <3> QED BY <3>1, BlocksStay
  <2>2. CASE ~Pending(i)
    BY <1>3, <2>2, BlocksStay, KeysOf DEF ToolsInv
  <2> QED BY <2>1, <2>2
<1> QED BY <1>1, <1>2, <1>3 DEF ToolsInv

LEMMA UpstreamKeepsTools ==
  ASSUME ClaudeInv, ToolsInv, UpstreamNext \/ UpstreamEnds \/ ReadFails, UNCHANGED bridgeVars
  PROVE  ToolsInv'
<1>1. BirthInv' /\ KindsKept /\ \A i \in Items : ~Pending(i)
  BY UpstreamBirth DEF ClaudeInv, ToolsInv
<1>2. blocks' = blocks
  BY DEF bridgeVars
<1>3. ASSUME NEW i \in Items, items'[i].kind = "tool"
      PROVE  Pending(i)' \/ blocks[<<"item", i>>] # NoBlock
  BY <1>1, <1>3 DEF ToolsInv, KindsKept, Appears
<1> QED BY <1>1, <1>2, <1>3 DEF ToolsInv

(* The client has seen the blocks of the map begin, and no others.         *)
Shown(s, map) ==
  /\ \A key \in Keys : map[key] # NoBlock =>
       \E m \in StartsIn(s, Len(s)) : s[m].index = map[key].index /\ s[m].kind = map[key].kind
  /\ \A m \in StartsIn(s, Len(s)) :
       \E key \in Keys : map[key] # NoBlock /\ map[key].index = s[m].index

(* When the message has ended, the client has all that it ends.            *)
EndInv ==
  \A n \in 1..Len(sent) : sent[n].type = "message_delta" /\ n < Len(sent) =>
    /\ Shown(sent, blocks)
    /\ \A i \in Items : Full(sent, i, FALSE)
    /\ sent[n].reason = WholeStopReason

(* Blocks are shown by what begins them. *)
LEMMA ShownMore ==
  ASSUME NEW s \in Seq(Frames), NEW out \in Seq(Frames), NEW t \in Seq(Frames), Joins(t, s, out),
         \A n \in 1..Len(out) : out[n].type # "content_block_start", NEW map, NEW next,
         Told(s, map, next)
  PROVE  Shown(t, map)
<1>1. /\ Len(s) \in Nat /\ Len(out) \in Nat /\ Len(t) = Len(s) + Len(out)
      /\ \A n \in 1..Len(s) : t[n] = s[n]
      /\ \A n \in 1..Len(out) : t[Len(s) + n] = out[n]
  BY DEF Joins
<1>2. ASSUME NEW n \in 1..Len(t), ~(n <= Len(s)) PROVE t[n].type # "content_block_start"
  <2>1. n - Len(s) \in 1..Len(out) /\ Len(s) + (n - Len(s)) = n
    BY <1>1, <1>2
  <2>2. t[n] = out[n - Len(s)]
    BY <1>1, <2>1
  <2> QED BY <2>1, <2>2
<1>3. StartsIn(t, Len(t)) = StartsIn(s, Len(s))
  <2>1. ASSUME NEW n \in StartsIn(t, Len(t)) PROVE n \in StartsIn(s, Len(s))
    <3>1. n \in 1..Len(t) /\ t[n].type = "content_block_start"
      BY DEF StartsIn
    <3>2. n \in 1..Len(s)
      BY <1>1, <1>2, <3>1
    <3> QED BY <1>1, <3>1, <3>2 DEF StartsIn
  <2>2. ASSUME NEW n \in StartsIn(s, Len(s)) PROVE n \in StartsIn(t, Len(t))
    BY <1>1 DEF StartsIn
  <2> QED BY <2>1, <2>2
<1>4. \A m \in StartsIn(s, Len(s)) : t[m] = s[m]
  BY <1>1 DEF StartsIn
<1> QED BY <1>3, <1>4 DEF Told, Shown

(* The blocks of tool calls are those of the answer's. *)
LEMMA ToolBlocks ==
  ASSUME ClaudeInv, ToolsInv, \A i \in Items : ~Pending(i)
  PROVE  /\ \A i \in Items : items[i].kind = "tool" =>
              blocks[<<"item", i>>] # NoBlock /\ blocks[<<"item", i>>].kind = "tool_use"
         /\ \A key \in Keys : blocks[key].kind = "tool_use" =>
              key[1] = "item" /\ key[2] \in Items /\ items[key[2]].kind = "tool"
<1>1. ASSUME NEW i \in Items, items[i].kind = "tool"
      PROVE  blocks[<<"item", i>>] # NoBlock /\ blocks[<<"item", i>>].kind = "tool_use"
  BY <1>1 DEF ToolsInv, ClaudeInv, BlocksFit
<1>2. ASSUME NEW key \in Keys, blocks[key].kind = "tool_use"
      PROVE  key[1] = "item" /\ key[2] \in Items /\ items[key[2]].kind = "tool"
  <2>1. PICK i \in Items : key = <<"item", i>> \/ key = <<"content", i>>
    BY DEF Keys
  <2>2. blocks[key] # NoBlock
    BY <1>2 DEF NoBlock
  <2>3. key = <<"item", i>>
    BY <1>2, <2>1, <2>2 DEF ClaudeInv, BlocksFit
  <2>4. items[i].kind = "tool"
    BY <1>2, <2>2, <2>3 DEF ClaudeInv, BlocksFit
  <2> QED BY <2>3, <2>4
<1> QED BY <1>1, <1>2

LEMMA ReasonIs ==
  ASSUME ClaudeInv, ToolsInv, frame.type \in Terminals
  PROVE  StopReason(frame.reason, HasToolUse) = WholeStopReason
<1>1. \A i \in Items : ~Pending(i)
  BY DEF Pending, Terminals, EventTypes
<1>2. HasToolUse <=> WholeToolCalls # {}
  <2>1. ASSUME HasToolUse PROVE WholeToolCalls # {}
    <3>1. PICK key \in Keys : blocks[key].kind = "tool_use"
      BY <2>1 DEF HasToolUse
    <3>2. key[2] \in Items /\ items[key[2]].kind = "tool"
      BY <1>1, <3>1, ToolBlocks
    <3>3. key[2] \in WholeToolCalls
      BY <3>2 DEF WholeToolCalls
    <3> QED BY <3>3
  <2>2. ASSUME WholeToolCalls # {} PROVE HasToolUse
    <3>1. PICK i \in Items : items[i].kind = "tool"
      BY <2>2 DEF WholeToolCalls
    <3> QED BY <1>1, <3>1, ToolBlocks, KeysOf DEF HasToolUse
  <2> QED BY <2>1, <2>2
<1>3. frame.reason = ReasonTold
  BY DEF ToolsInv, BirthInv
<1> QED BY <1>2, <1>3 DEF StopReason, WholeStopReason

LEMMA TerminalEnd ==
  ASSUME ClaudeInv, ClaudePieces, ToolsInv, OnTerminal, UNCHANGED <<upstream, items>>
  PROVE  EndInv'
<1>1. /\ frame.type \notin EventTypes /\ frame.type # "none" /\ frame.type \in Terminals
      /\ output = "open" /\ sent \in Seq(Frames)
  BY InHand, Unstarted DEF OnTerminal, EventTypes, Terminals
<1>2. PICK front \in Seq(Frames), end \in Frames :
        /\ end.type = "message_delta" /\ end.reason = StopReason(frame.reason, HasToolUse)
        /\ Reaches(front, blocks', nextBlock) /\ Quiet(front) /\ Owned(front, blocks')
        /\ Emits(front \o <<end, MessageStop>>)
  BY TerminalMakes
<1>3. PICK last \in Seq(Frames), out \in Seq(Frames) :
        /\ last = <<end, MessageStop>> /\ out = front \o last /\ Quiet(out)
  BY <1>2, EndQuiet
<1>4. /\ Len(last) = 2 /\ last[1] = end /\ last[2] = MessageStop /\ 1..Len(last) = {1, 2}
      /\ \A n \in 1..Len(last) : last[n].type # "content_block_start"
  <2>1. MessageStop.type # "content_block_start"
    BY DEF MessageStop
  <2> QED BY <1>2, <1>3, <2>1
<1>5. PICK s \in Seq(Frames), t \in Seq(Frames) : s = sent \o front /\ t = sent \o out
  BY <1>1, ConcatProperties
<1>6. Going(s) /\ Told(s, blocks', nextBlock) /\ Joins(t, s, last)
  BY <1>1, <1>2, <1>3, <1>5, Further DEF Reaches
<1>7. /\ Len(s) \in Nat /\ Len(t) = Len(s) + 2 /\ t[Len(s) + 1] = end
      /\ \A n \in 1..Len(s) : t[n] = s[n]
  <2>1. /\ Len(s) \in Nat /\ Len(t) = Len(s) + Len(last)
        /\ \A n \in 1..Len(s) : t[n] = s[n]
        /\ t[Len(s) + 1] = last[1]
    BY <1>4, <1>6 DEF Joins
  <2> QED BY <1>4, <2>1
<1>8. /\ sent' \in Seq(Frames) /\ Len(sent') <= Len(t)
      /\ output' = "open" => sent' = t
      /\ output' # "open" => Len(sent') < Len(t)
      /\ \A n \in 1..Len(sent') : sent'[n] = t[n]
  BY <1>1, <1>2, <1>3, <1>5, EmitsPrefix
<1>9. Len(sent') \in Nat
  BY <1>8, LenProperties
<1>10. Shown(t, blocks')
  BY <1>4, <1>6, ShownMore
<1>11. \A i \in Items : Full(t, i, FALSE)
  BY <1>1, <1>3, <1>5, QuietFull DEF ClaudePieces
<1>12. WholeStopReason' = WholeStopReason
  BY DEF WholeStopReason, ReasonTold, WholeToolCalls
<1>13. ASSUME NEW n \in 1..Len(sent'), sent'[n].type = "message_delta", n < Len(sent')
       PROVE  /\ Shown(sent', blocks')
              /\ \A i \in Items : Full(sent, i, FALSE)'
              /\ sent'[n].reason = WholeStopReason'
  <2>1. t[n].type = "message_delta" /\ n < Len(t)
    BY <1>7, <1>8, <1>9, <1>13
  <2>2. ~(n \in 1..Len(s))
    BY <1>6, <1>7, <2>1 DEF Going, Ends
  <2>3. n = Len(s) + 1 /\ Len(sent') = Len(t)
    BY <1>7, <1>8, <1>9, <1>13, <2>2
  <2>4. sent' = t
    BY <1>7, <1>8, <1>9, <2>3
  <2>5. \A i \in Items : Full(sent, i, FALSE)'
    BY <1>11, <2>4 DEF Full, Contents, Again, WholePieces
  <2>6. sent'[n].reason = StopReason(frame.reason, HasToolUse)
    BY <1>2, <1>7, <2>3, <2>4
  <2> QED BY <1>1, <1>10, <1>12, <2>4, <2>5, <2>6, ReasonIs
<1> QED BY <1>13 DEF EndInv

(* What the message ended with stays as it is. *)
LEMMA EndKept ==
  ASSUME EndInv, UNCHANGED <<sent, items, upstream, blocks>>
  PROVE  EndInv'
<1>1. \A i \in Items : Full(sent, i, FALSE)' = Full(sent, i, FALSE)
  BY DEF Full, Contents, Again, WholePieces
<1> QED BY <1>1 DEF EndInv, WholeStopReason, ReasonTold, WholeToolCalls

LEMMA UpstreamKeepsEnd ==
  ASSUME ClaudeInv, EndInv, UpstreamNext \/ UpstreamEnds \/ ReadFails, UNCHANGED bridgeVars
  PROVE  EndInv'
<1>1. sent' = sent /\ blocks' = blocks
  BY UpstreamTells, PumpStops DEF ClaudeInv, bridgeVars
<1>2. CASE stopped
  <2>1. UNCHANGED <<upstream, items>>
    BY <1>2, TerminatedStays, PumpStops DEF ClaudeInv, StopInv
  <2> QED BY <1>1, <2>1, EndKept
<1>3. CASE ~stopped
  BY <1>1, <1>3 DEF EndInv, ClaudeInv, MessageInv, Ends
<1> QED BY <1>2, <1>3

LEMMA TranslatesEnd ==
  ASSUME ClaudeInv, ClaudePieces, ToolsInv, EndInv, Translates
  PROVE  EndInv'
<1>1. UNCHANGED <<upstream, items>> /\ frame.type # "none" /\ MessageInv'
  BY TranslatesKept DEF Kept
<1>2. CASE OnTerminal
  BY <1>1, <1>2, TerminalEnd
<1>3. CASE stopped
  <2>1. frame.type = "[DONE]"
    BY <1>1, <1>3 DEF ClaudeInv, StopInv, NoFrame
  <2>2. OnDone
    BY <2>1 DEF Translates, OnOther, OnItemAdded, OnPartAdded, OnDelta, OnPartDone,
       OnItemDone, OnTerminal, OnFailure
  <2>3. Emits(<<>>) /\ blocks' = blocks
    BY <1>3, <2>2 DEF OnDone, bridgeVars
  <2>4. sent' = sent
    <3>1. sent \in Seq(Frames) /\ 0..(Len(<<>>) - 1) = {}
      BY Unstarted
    <3>2. sent \o <<>> = sent
      BY <3>1, ConcatEmptySeq
    <3> QED BY <2>3, <3>1, <3>2 DEF Emits
  <2> QED BY <1>1, <2>3, <2>4, EndKept
<1>4. CASE ~stopped /\ ~OnTerminal
  <2>1. ~stopped'
    BY <1>4 DEF Translates, OnOther, OnItemAdded, OnPartAdded, OnDelta, OnPartDone,
       OnItemDone, OnFailure, OnDone, Fills, Unmoved, bridgeVars
  <2>2. \A n \in 1..Len(sent') : sent'[n].type \notin Ends
    BY <1>1, <2>1 DEF MessageInv
  <2> QED BY <2>2 DEF EndInv, Ends
<1> QED BY <1>2, <1>3, <1>4

LEMMA InitTools ==
  ClaudeInit => ToolsInv /\ EndInv
<1> SUFFICES ASSUME ClaudeInit PROVE ToolsInv /\ EndInv
  OBVIOUS
<1>1. BirthInv /\ sent = <<>> /\ \A i \in Items : items[i] = NoItem
  BY InitBirth DEF ClaudeInit, StreamInit, PumpInit
<1>2. \A i \in Items : items[i].kind # "tool"
  BY <1>1 DEF NoItem
<1>3. 1..Len(sent) = {}
  BY <1>1
<1> QED BY <1>1, <1>2, <1>3 DEF ToolsInv, EndInv

LEMMA StutterTools ==
  ASSUME ToolsInv, EndInv, UNCHANGED claudeVars
  PROVE  ToolsInv' /\ EndInv'
<1>1. /\ upstream' = upstream /\ items' = items /\ frame' = frame /\ sent' = sent
      /\ blocks' = blocks
  BY DEF claudeVars, streamVars, bridgeVars
<1>2. ToolsInv'
  BY <1>1 DEF ToolsInv, BirthInv, ReasonTold, Pending
<1> QED BY <1>1, <1>2, EndKept

LEMMA ToolsAndEndHold ==
  ClaudeSpec => [](ToolsInv /\ EndInv)
<1>1. ASSUME ClaudeInv, ClaudePieces, ToolsInv /\ EndInv, [ClaudeNext]_claudeVars
      PROVE  (ToolsInv /\ EndInv)'
  BY <1>1, TranslatesTools, TranslatesEnd, UpstreamKeepsTools, UpstreamKeepsEnd, StutterTools
     DEF ClaudeNext, Returned
<1> QED BY <1>1, InitTools, ClaudeInvHolds, ClaudePiecesHold, PTL DEF ClaudeSpec

(* Blocks begin with rising indexes. *)
LEMMA StartsRise ==
  ASSUME NEW s, LegalMessage(s)
  PROVE  \A a, b \in StartsIn(s, Len(s)) : a < b => s[a].index < s[b].index
<1>1. Len(s) \in Nat
  BY DEF LegalMessage
<1>2. ASSUME NEW a \in StartsIn(s, Len(s)), NEW b \in StartsIn(s, Len(s)), a < b
      PROVE  s[a].index < s[b].index
  <2> DEFINE before == StartsIn(s, a - 1)
             after == StartsIn(s, b - 1)
  <2>1. /\ a \in 1..Len(s) /\ s[a].type = "content_block_start"
        /\ b \in 1..Len(s) /\ s[b].type = "content_block_start"
    BY DEF StartsIn
  <2>2. s[a].index = Cardinality(before) /\ s[b].index = Cardinality(after)
    BY <2>1 DEF LegalMessage, LegalAt
  <2>3. before \cup {a} \subseteq after /\ a \notin before /\ after \subseteq 1..(b - 1)
    BY <1>1, <1>2, <2>1 DEF StartsIn
  <2> HIDE DEF before, after
  <2>4. IsFiniteSet(1..(b - 1))
    BY <1>1, <2>1, FS_Interval
  <2>5. IsFiniteSet(after) /\ IsFiniteSet(before)
    BY <2>3, <2>4, FS_Subset
  <2>6. Cardinality(before \cup {a}) = Cardinality(before) + 1
        /\ Cardinality(before \cup {a}) <= Cardinality(after)
    BY <2>3, <2>5, FS_AddElement, FS_Subset
  <2>7. Cardinality(before) \in Nat /\ Cardinality(after) \in Nat
    BY <2>5, FS_CardinalityType
  <2> QED BY <2>2, <2>6, <2>7
<1> QED BY <1>2

LEMMA StartsDiffer ==
  ASSUME NEW s, LegalMessage(s), NEW m \in StartsIn(s, Len(s)), NEW n \in StartsIn(s, Len(s)),
         s[m].index = s[n].index
  PROVE  m = n
<1>1. Len(s) \in Nat /\ m \in 1..Len(s) /\ n \in 1..Len(s)
  BY DEF StartsIn, LegalMessage
<1>2. \A k \in StartsIn(s, Len(s)) : s[k].index \in Nat
  <2> TAKE k \in StartsIn(s, Len(s))
  <2>1. s[k] \in Frames /\ s[k].type = "content_block_start"
    BY ElementOfSeq DEF StartsIn, LegalMessage
  <2> QED BY <2>1 DEF Frames, MessageStart, MessageStop
<1>3. ~(m < n) /\ ~(n < m)
  BY <1>2, StartsRise
<1> QED BY <1>1, <1>3

(* The one key under which the map may have a block of item i. *)
KeyOf(i) == IF items[i].kind = "message" THEN <<"content", i>> ELSE <<"item", i>>

LEMMA KeyIs ==
  ASSUME ClaudeInv, NEW key \in Keys, blocks[key] # NoBlock
  PROVE  /\ key[2] \in Items /\ key = KeyOf(key[2])
         /\ items[key[2]].kind \in Kinds
         /\ blocks[key].kind = BlockKind(items[key[2]].kind)
<1>1. PICK i \in Items : key = <<"item", i>> \/ key = <<"content", i>>
  BY DEF Keys
<1>2. key[2] = i
  BY <1>1
<1>3. CASE key = <<"item", i>>
  <2>1. /\ items[i].kind \in {"reasoning", "tool"}
        /\ blocks[key].kind = IF items[i].kind = "tool" THEN "tool_use" ELSE "thinking"
    BY <1>3 DEF ClaudeInv, BlocksFit
  <2> QED BY <1>2, <1>3, <2>1 DEF KeyOf, Kinds, BlockKind
<1>4. CASE key = <<"content", i>>
  <2>1. items[i].kind = "message" /\ blocks[key].kind = "text"
    BY <1>4 DEF ClaudeInv, BlocksFit
  <2> QED BY <1>2, <1>4, <2>1 DEF KeyOf, Kinds, BlockKind
<1> QED BY <1>1, <1>3, <1>4

-----------------------------------------------------------------------------
(* The blocks come in the order of the items.  Reasoning, a tool call or a *)
(* text that has begun has a block, but for one whose first frame is in    *)
(* hand, and that one is the last item or a late text.                     *)

HasBegun(i) == items[i].kind \in {"reasoning", "tool"} \/ items[i].phase = "part"
LastOrLate(i) == i \in late \/ \A j \in Items : j > i => items[j] = NoItem
CaughtUp ==
  \A i \in Items : HasBegun(i) => blocks[KeyOf(i)] # NoBlock \/ (Pending(i) /\ LastOrLate(i))
MapOrdered ==
  \A key, other \in Keys :
    /\ blocks[key] # NoBlock /\ blocks[other] # NoBlock
    /\ blocks[key].index < blocks[other].index
    => key[2] < other[2] \/ other[2] \in late
OrderInv == CaughtUp /\ MapOrdered

(* What a frame adds to the map: at most the block of its item, which has  *)
(* the next index.                                                         *)
IsNew(key) ==
  /\ blocks[key] = NoBlock /\ blocks'[key].index = nextBlock
  /\ key[2] = frame.item /\ frame.type \in EventTypes
  /\ frame.kind = "message" => frame.type \in {"delta", "content_part.added"}
Grows ==
  \A key \in Keys : blocks'[key] # NoBlock =>
    \/ blocks[key] # NoBlock /\ blocks'[key].index = blocks[key].index
    \/ IsNew(key)

LEMMA GrowsBy ==
  ASSUME ClaudeInv, NEW key \in Keys, NEW kind \in BlockKinds, NEW record,
         record.index = BlockAt(key, kind).index, blocks' = [blocks EXCEPT ![key] = record],
         key[2] = frame.item, frame.type \in EventTypes,
         frame.kind = "message" => frame.type \in {"delta", "content_part.added"}
  PROVE  Grows
<1>1. /\ blocks[key] # NoBlock => BlockAt(key, kind).index = blocks[key].index
      /\ blocks[key] = NoBlock => BlockAt(key, kind).index = nextBlock
  <2>1. /\ blocks[key] # NoBlock => BlockAt(key, kind) = blocks[key]
        /\ blocks[key] = NoBlock => BlockAt(key, kind) = Block(nextBlock, kind, FALSE, FALSE, FALSE)
    BY BlockAtType DEF ClaudeInv, BlockAt
  <2> QED BY <2>1 DEF Block
<1>2. blocks'[key] = record /\ \A other \in Keys : other # key => blocks'[other] = blocks[other]
  BY DEF ClaudeInv, ClaudeTypeOK
<1> QED BY <1>1, <1>2 DEF Grows, IsNew

LEMMA FillsGrow ==
  ASSUME ClaudeInv, NEW key \in Keys, NEW kind \in BlockKinds, NEW encrypted,
         Fills(key, kind, encrypted), key[2] = frame.item, frame.type \in EventTypes,
         frame.kind = "message" => frame.type \in {"delta", "content_part.added"}
  PROVE  Grows
<1> DEFINE b == BlockAt(key, kind)
           record == Block(b.index, b.kind, TRUE, SawDelta(b, frame.pieces), encrypted)
<1>1. blocks' = [blocks EXCEPT ![key] = record]
  BY DEF Fills
<1>2. record.index = b.index
  BY DEF Block
<1> HIDE DEF record
<1> QED BY <1>1, <1>2, GrowsBy

LEMMA TranslatesGrow ==
  ASSUME ClaudeInv, Translates
  PROVE  Grows
<1>1. frame.type \in EventTypes =>
        /\ ItemKey \in Keys /\ ContentKey \in Keys
        /\ ItemKey[2] = frame.item /\ ContentKey[2] = frame.item
  BY EventInHand, KeysOf DEF ClaudeInv, StreamInv, ItemKey, ContentKey
<1>2. CASE OnOther \/ OnFailure \/ OnDone
  BY <1>2 DEF OnOther, OnFailure, OnDone, bridgeVars, Grows
<1>3. CASE OnItemAdded \/ OnPartAdded \/ OnDelta
  <2>1. /\ frame.type \in EventTypes
        /\ frame.kind = "message" => frame.type \in {"delta", "content_part.added"}
    BY <1>3 DEF OnItemAdded, OnPartAdded, OnDelta, EventTypes
  <2>2. \E kind \in BlockKinds : \E encrypted :
          Fills(ItemKey, kind, encrypted) \/ Fills(ContentKey, kind, encrypted)
    BY <1>3 DEF OnItemAdded, OnPartAdded, OnDelta, BlockKinds
  <2> QED BY <1>1, <2>1, <2>2, FillsGrow
<1>4. CASE OnPartDone
  <2>1. frame.type \in EventTypes
    BY <1>4 DEF OnPartDone, EventTypes
  <2>2. \/ blocks' = blocks
        \/ /\ blocks[ContentKey].open
           /\ blocks' = [blocks EXCEPT ![ContentKey] = Closed(blocks[ContentKey])]
    BY <1>4 DEF OnPartDone
  <2>3. \A key \in Keys : blocks'[key] # NoBlock =>
          blocks[key] # NoBlock /\ blocks'[key].index = blocks[key].index
    <3>1. CASE blocks' = blocks
      BY <3>1
    <3>2. CASE blocks' # blocks
      <4>1. /\ blocks[ContentKey] # NoBlock
            /\ Closed(blocks[ContentKey]).index = blocks[ContentKey].index
        BY <1>1, <2>1, <2>2, <3>2, ClosedType DEF ClaudeInv
      <4> QED BY <2>2, <3>2, <4>1 DEF ClaudeInv, ClaudeTypeOK
    <3> QED BY <3>1, <3>2
  <2> QED BY <2>3 DEF Grows
<1>5. CASE OnItemDone
  <2> DEFINE kind == IF frame.kind = "tool" THEN "tool_use" ELSE "thinking"
             b == BlockAt(ItemKey, kind)
             pieces == IF b.sawDelta THEN <<>>
                       ELSE IF kind = "thinking" THEN Trimmed(frame.pieces) ELSE frame.pieces
             encrypted == frame.encrypted \/ b.encrypted
             signature == IF kind = "thinking" /\ encrypted
                          THEN <<[type |-> "signature_delta", index |-> b.index]>> ELSE <<>>
             record == Closed(Block(b.index, b.kind, FALSE,
                                    SawDelta(b, pieces \o signature), encrypted))
  <2>1. /\ blocks' = [blocks EXCEPT ![ItemKey] = record]
        /\ frame.type \in EventTypes /\ frame.kind # "message"
    BY <1>5 DEF OnItemDone, EventTypes
  <2>2. record.index = BlockAt(ItemKey, kind).index /\ kind \in BlockKinds
    BY DEF Closed, Block, BlockKinds
  <2> HIDE DEF record, kind
  <2> QED BY <1>1, <2>1, <2>2, GrowsBy
<1>6. CASE OnTerminal
  BY <1>6, TerminalBlocks DEF ClaudeInv, Grows
<1> QED BY <1>2, <1>3, <1>4, <1>5, <1>6 DEF Translates

LEMMA TranslatesOrder ==
  ASSUME ClaudeInv, ToolsInv, OrderInv, Translates
  PROVE  OrderInv'
<1>1. /\ frame' = NoFrame /\ items' = items /\ late' = late
      /\ ClaudeInv'
  BY TranslatesKept, TranslatesInv DEF Kept, Translates
<1>2. \A i \in Items : KeyOf(i)' = KeyOf(i) /\ KeyOf(i) \in Keys /\ KeyOf(i)[2] = i
  BY <1>1, KeysOf DEF KeyOf
<1>3. Grows /\ \A key \in Keys : blocks[key] # NoBlock => blocks'[key] # NoBlock
  BY TranslatesGrow, BlocksStay
<1>4. ASSUME NEW i \in Items, HasBegun(i), Pending(i) PROVE blocks'[KeyOf(i)] # NoBlock
  <2>1. /\ frame.type \in EventTypes /\ frame.item = i /\ items[i].kind = frame.kind
        /\ Fits(frame.type, frame.kind, items[i].phase) /\ frame.kind \in Kinds
    BY <1>4, EventInHand DEF Pending, ClaudeInv, FrameTold, StreamInv
  <2>2. CASE frame.kind # "message"
    BY <2>1, <2>2, BlocksStay DEF KeyOf
  <2>3. CASE frame.kind = "message"
    <3>1. frame.type \in {"delta", "content_part.added"} \/ frame.type = "output_item.added"
          \/ frame.type = "content_part.done" \/ frame.type = "output_item.done"
      BY <2>1 DEF EventTypes
    <3>2. frame.type \in {"delta", "content_part.added"}
      BY <1>4, <2>1, <2>3, <3>1 DEF Fits, HasBegun
    <3> QED BY <2>1, <2>3, <3>2, BlocksStay DEF KeyOf
  <2> QED BY <2>2, <2>3
<1>5. CaughtUp'
  <2> SUFFICES ASSUME NEW i \in Items, HasBegun(i)' PROVE blocks'[KeyOf(i)'] # NoBlock
    BY DEF CaughtUp
  <2>1. HasBegun(i)
    BY <1>1 DEF HasBegun
  <2> QED BY <1>2, <1>3, <1>4, <2>1 DEF OrderInv, CaughtUp
<1>6. MapOrdered'
  <2> SUFFICES ASSUME NEW key \in Keys, NEW other \in Keys,
                      blocks'[key] # NoBlock, blocks'[other] # NoBlock,
                      blocks'[key].index < blocks'[other].index
               PROVE  key[2] < other[2] \/ other[2] \in late
    BY <1>1 DEF MapOrdered
  <2>1. \A k \in Keys : blocks[k] # NoBlock =>
          blocks[k].index < nextBlock /\ blocks[k].index \in Nat
    <3>1. \A k \in Keys : blocks[k] # NoBlock => blocks[k] \in BlockRecords
      BY BlockAtType DEF ClaudeInv, BlockKinds
    <3> QED BY <3>1, StreamAssumption DEF BlockRecords, ClaudeInv, BlocksInv, Known
  <2>2. nextBlock \in Nat
    BY StreamAssumption DEF ClaudeInv, ClaudeTypeOK
  <2>3. /\ key[2] \in Items /\ key = KeyOf(key[2])
        /\ other[2] \in Items /\ other = KeyOf(other[2])
    <3>1. ASSUME NEW k \in Keys, blocks'[k] # NoBlock
          PROVE  k[2] \in Items /\ k = KeyOf(k[2])
      <4>1. PICK i \in Items : k = <<"item", i>> \/ k = <<"content", i>>
        BY DEF Keys
      <4>2. BlocksFit' /\ k[2] = i
        BY <1>1, <4>1 DEF ClaudeInv
      <4>3. CASE k = <<"item", i>>
        <5>1. items[i].kind \in {"reasoning", "tool"}
          BY <1>1, <3>1, <4>2, <4>3 DEF BlocksFit
        <5> QED BY <4>2, <4>3, <5>1 DEF KeyOf
      <4>4. CASE k = <<"content", i>>
        <5>1. items[i].kind = "message"
          BY <1>1, <3>1, <4>2, <4>4 DEF BlocksFit
        <5> QED BY <4>2, <4>4, <5>1 DEF KeyOf
      <4> QED BY <4>1, <4>3, <4>4
    <3> QED BY <3>1
  <2>4. CASE blocks[key] # NoBlock /\ blocks'[key].index = blocks[key].index
             /\ blocks[other] # NoBlock /\ blocks'[other].index = blocks[other].index
    BY <2>4 DEF OrderInv, MapOrdered
  <2>5. CASE IsNew(key) /\ IsNew(other)
    BY <2>2, <2>5 DEF IsNew
  <2>6. CASE IsNew(key) /\ blocks[other] # NoBlock /\ blocks'[other].index = blocks[other].index
    BY <2>1, <2>2, <2>6 DEF IsNew
  <2>7. CASE IsNew(other) /\ blocks[key] # NoBlock
    <3> DEFINE i == other[2]
    <3>1. /\ frame.item = i /\ frame.type \in EventTypes /\ blocks[KeyOf(i)] = NoBlock
          /\ items[i].kind = frame.kind /\ Fits(frame.type, frame.kind, items[i].phase)
          /\ frame.kind \in Kinds
      BY <2>3, <2>7, EventInHand DEF IsNew, ClaudeInv, FrameTold, StreamInv
    <3>2. HasBegun(i)
      BY <2>7, <3>1 DEF IsNew, HasBegun, Fits, Kinds
    <3>3. LastOrLate(i)
      BY <2>3, <3>1, <3>2 DEF OrderInv, CaughtUp
    <3>4. items[key[2]] # NoItem
      <4>1. items[key[2]].kind \in Kinds
        BY <2>7, KeyIs
      <4> QED BY <4>1 DEF NoItem, Kinds
    <3>5. key[2] # i
      BY <2>3, <2>7, <3>1
    <3>6. key[2] \in Int /\ i \in Int
      BY <2>3 DEF Items
    <3> QED BY <2>3, <3>3, <3>4, <3>5, <3>6 DEF LastOrLate
  <2> QED BY <1>3, <2>4, <2>5, <2>6, <2>7 DEF Grows
<1> QED BY <1>5, <1>6 DEF OrderInv

LEMMA EventOrder ==
  ASSUME ClaudeInv, ToolsInv, OrderInv, RemembersLate, UNCHANGED bridgeVars,
         NEW i \in Items, NEW type \in EventTypes, NEW kind, NEW phase,
         NEW told \in 0..MaxPieces, NEW pieces, NEW encrypted,
         IsToldOf(i, type, kind, phase, told, pieces, encrypted)
  PROVE  OrderInv'
<1>1. /\ frame' = Event(type, i, kind, pieces, encrypted)
      /\ items' = [items EXCEPT ![i] = Item(kind, phase, told)]
      /\ items[i].kind \in {"none", kind} /\ kind \in Kinds /\ frame = NoFrame
      /\ blocks' = blocks
  BY DEF IsToldOf, Tells, bridgeVars
<1>2. /\ items'[i] = Item(kind, phase, told) /\ Pending(i)'
      /\ \A j \in Items : j # i => items'[j] = items[j]
  BY <1>1 DEF ClaudeInv, StreamInv, ItemsOK, Event, Pending
<1>3. items'[i].kind = kind /\ items'[i].phase = phase
  BY <1>2 DEF Item
<1>4. \A j \in Items : ~Pending(j)
  BY <1>1 DEF Pending, NoFrame, EventTypes
<1>5. late \subseteq late'
  BY DEF RemembersLate
<1>6. ASSUME NEW j \in Items, blocks[KeyOf(j)] # NoBlock PROVE blocks'[KeyOf(j)'] # NoBlock
  <2>1. CASE j # i
    BY <1>1, <1>2, <1>6, <2>1 DEF KeyOf
  <2>2. CASE j = i
    <3>1. items[i].kind \in Kinds
      BY <1>6, <2>2, KeysOf, KeyIs DEF KeyOf
    <3>2. items'[i].kind = items[i].kind
      BY <1>1, <1>3, <3>1 DEF Kinds
    <3> QED BY <1>1, <1>6, <2>2, <3>2 DEF KeyOf
  <2> QED BY <2>1, <2>2
<1>7. ASSUME HasBegun(i)', ~HasBegun(i) PROVE LastOrLate(i)'
  <2>1. CASE items[i].kind = "none"
    <3>1. items[i] = NoItem
      BY <2>1 DEF ToolsInv, BirthInv
    <3>2. ASSUME NEW j \in Items, j > i PROVE items'[j] = NoItem
      <4>1. i < j /\ j # i
        BY <3>2 DEF Items
      <4>2. items[j] = NoItem
        BY <3>1, <4>1 DEF ToolsInv, BirthInv
      <4> QED BY <1>2, <4>1, <4>2
    <3> QED BY <3>2 DEF LastOrLate
  <2>2. CASE items[i].kind = kind
    <3>1. BeginsText(i)
      BY <1>3, <1>7, <2>2 DEF HasBegun, BeginsText
    <3>2. CASE \E j \in Items : i < j /\ items[j] # NoItem
      BY <3>1, <3>2 DEF RemembersLate, LastOrLate
    <3>3. CASE \A j \in Items : i < j => items[j] = NoItem
      <4>1. ASSUME NEW j \in Items, j > i PROVE items'[j] = NoItem
        <5>1. i < j /\ j # i
          BY <4>1 DEF Items
        <5> QED BY <1>2, <3>3, <5>1
      <4> QED BY <4>1 DEF LastOrLate
    <3> QED BY <3>2, <3>3
  <2> QED BY <1>1, <2>1, <2>2
<1>8. CaughtUp'
  <2> SUFFICES ASSUME NEW j \in Items, HasBegun(j)'
               PROVE  blocks'[KeyOf(j)'] # NoBlock \/ (Pending(j)' /\ LastOrLate(j)')
    BY DEF CaughtUp
  <2>1. CASE HasBegun(j)
    <3>1. blocks[KeyOf(j)] # NoBlock
      BY <1>4, <2>1 DEF OrderInv, CaughtUp
    <3> QED BY <1>6, <3>1
  <2>2. CASE ~HasBegun(j)
    <3>1. j = i
      BY <1>2, <2>2 DEF HasBegun
    <3> QED BY <1>2, <1>7, <2>2, <3>1
  <2> QED BY <2>1, <2>2
<1>9. MapOrdered'
  BY <1>1, <1>5 DEF OrderInv, MapOrdered
<1> QED BY <1>8, <1>9 DEF OrderInv

LEMMA UnmovedOrder ==
  ASSUME OrderInv, UNCHANGED <<items, blocks>>, late \subseteq late',
         \A i \in Items : Pending(i) => Pending(i)'
  PROVE  OrderInv'
<1>1. CaughtUp'
  <2> SUFFICES ASSUME NEW j \in Items, HasBegun(j)'
               PROVE  blocks'[KeyOf(j)'] # NoBlock \/ (Pending(j)' /\ LastOrLate(j)')
    BY DEF CaughtUp
  <2>1. HasBegun(j)
    BY DEF HasBegun
  <2>2. KeyOf(j)' = KeyOf(j)
    BY DEF KeyOf
  <2>3. blocks[KeyOf(j)] # NoBlock \/ (Pending(j) /\ LastOrLate(j))
    BY <2>1 DEF OrderInv, CaughtUp
  <2>4. CASE blocks[KeyOf(j)] # NoBlock
    BY <2>2, <2>4
  <2>5. CASE Pending(j) /\ LastOrLate(j)
    <3>1. Pending(j)'
      BY <2>5
    <3>2. LastOrLate(j)'
      BY <2>5 DEF LastOrLate
    <3> QED BY <3>1, <3>2
  <2> QED BY <2>3, <2>4, <2>5
<1>2. MapOrdered'
  BY DEF OrderInv, MapOrdered
<1> QED BY <1>1, <1>2 DEF OrderInv

LEMMA UpstreamOrder ==
  ASSUME ClaudeInv, ToolsInv, OrderInv, UpstreamNext, RemembersLate, UNCHANGED bridgeVars
  PROVE  OrderInv'
<1>1. CASE \/ \E i \in Items, kind \in ItemKinds, encrypted \in BOOLEAN :
                ItemAdded(i, kind, encrypted)
           \/ \E i \in Items, n \in 0..MaxPieces : PartAdded(i, n)
           \/ \E i \in Items, kind \in ItemKinds : Delta(i, kind)
           \/ \E i \in Items : PartDone(i)
           \/ \E i \in Items, kind \in ItemKinds, n \in 0..MaxPieces,
                 encrypted \in BOOLEAN : ItemDone(i, kind, n, encrypted)
  <2>1. SomethingTold
    BY <1>1, TellsSomething DEF ClaudeInv
  <2>2. PICK i \in Items, type \in EventTypes, told \in 0..MaxPieces :
          \E kind, phase, pieces, encrypted :
            IsToldOf(i, type, kind, phase, told, pieces, encrypted)
    BY <2>1 DEF SomethingTold
  <2> QED BY <2>2, EventOrder
<1>2. CASE \/ Created \/ Fails \/ SendsDone
           \/ \E reason \in Reasons : Completes(reason)
  <2>1. frame = NoFrame /\ items' = items
    BY <1>2, WholeTold
  <2>2. blocks' = blocks /\ late \subseteq late' /\ \A i \in Items : ~Pending(i)
    BY <2>1 DEF bridgeVars, RemembersLate, Pending, NoFrame, EventTypes
  <2> QED BY <2>1, <2>2, UnmovedOrder
<1> QED BY <1>1, <1>2, Zenon DEF UpstreamNext

LEMMA InitOrder ==
  ClaudeInit => OrderInv
<1> SUFFICES ASSUME ClaudeInit PROVE OrderInv
  OBVIOUS
<1>1. \A i \in Items : ~HasBegun(i)
  BY DEF ClaudeInit, StreamInit, NoItem, HasBegun
<1>2. \A key \in Keys : blocks[key] = NoBlock
  BY DEF ClaudeInit
<1> QED BY <1>1, <1>2 DEF OrderInv, CaughtUp, MapOrdered

LEMMA OrderHolds ==
  ClaudeSpec => []OrderInv
<1>1. ASSUME ClaudeInv, ToolsInv /\ EndInv, OrderInv, [ClaudeNext]_claudeVars
      PROVE  OrderInv'
  <2>1. CASE Translates
    BY <1>1, <2>1, TranslatesOrder
  <2>2. CASE UpstreamNext /\ RemembersLate /\ UNCHANGED bridgeVars
    BY <1>1, <2>2, UpstreamOrder
  <2>3. CASE (UpstreamEnds \/ ReadFails) /\ UNCHANGED <<late, bridgeVars>>
    <3>1. UNCHANGED <<items, frame, blocks, late>>
      BY <1>1, <2>3, PumpStops DEF ClaudeInv, bridgeVars
    <3>2. \A i \in Items : Pending(i) => Pending(i)'
      BY <3>1 DEF Pending
    <3> QED BY <1>1, <3>1, <3>2, UnmovedOrder
  <2>4. CASE UNCHANGED claudeVars
    <3>1. UNCHANGED <<items, frame, blocks, late>>
      BY <2>4 DEF claudeVars, streamVars, bridgeVars
    <3>2. \A i \in Items : Pending(i) => Pending(i)'
      BY <3>1 DEF Pending
    <3> QED BY <1>1, <3>1, <3>2, UnmovedOrder
  <2> QED BY <1>1, <2>1, <2>2, <2>3, <2>4 DEF ClaudeNext, Returned
<1> QED BY <1>1, InitOrder, ClaudeInvHolds, ToolsAndEndHold, PTL DEF ClaudeSpec

(* So do the blocks that the client has seen begin. *)
LEMMA StartsOrdered ==
  ASSUME ClaudeInv, ClaudePieces, OrderInv
  PROVE  InItemOrder(Starts(Len(sent)))
<1>1. Starts(Len(sent)) = StartsIn(sent, Len(sent)) /\ LegalMessage(sent)
  BY DEF Starts, StartsIn, At, ClaudeInv, MessageInv
<1>2. ASSUME NEW m \in StartsIn(sent, Len(sent))
      PROVE  \E key \in Keys : /\ blocks[key] # NoBlock /\ blocks[key].index = sent[m].index
                              /\ key[2] = sent[m].item
  <2>1. m \in 1..Len(sent) /\ sent[m].type = "content_block_start"
    BY DEF StartsIn
  <2>2. IsOwned(sent[m], blocks) /\ ItemOf(sent[m]) = sent[m].item
    BY <2>1 DEF ClaudePieces, Owned, Placed, ItemOf
  <2> QED BY <2>2 DEF IsOwned
<1>3. ASSUME NEW m \in StartsIn(sent, Len(sent)), NEW n \in StartsIn(sent, Len(sent)), m < n
      PROVE  sent[m].item < sent[n].item \/ sent[n].item \in late
  <2>1. sent[m].index < sent[n].index
    BY <1>1, <1>3, StartsRise
  <2>2. PICK key \in Keys : /\ blocks[key] # NoBlock /\ blocks[key].index = sent[m].index
                            /\ key[2] = sent[m].item
    BY <1>2
  <2>3. PICK other \in Keys : /\ blocks[other] # NoBlock
                              /\ blocks[other].index = sent[n].index
                              /\ other[2] = sent[n].item
    BY <1>2
  <2> QED BY <2>1, <2>2, <2>3 DEF OrderInv, MapOrdered
<1> QED BY <1>1, <1>3 DEF InItemOrder

(* The deltas of an item's block are those of the item. *)
LEMMA DeltasOfItem ==
  ASSUME ClaudeInv, ClaudePieces, NEW i \in Items, blocks[KeyOf(i)] # NoBlock
  PROVE  DeltasOf(blocks[KeyOf(i)].index) = CarriedBy(sent, i)
<1>1. KeyOf(i) \in Keys
  BY KeysOf DEF KeyOf
<1>2. ASSUME NEW n \in 1..Len(sent), sent[n].type = "delta"
      PROVE  sent[n].index = blocks[KeyOf(i)].index <=> sent[n].content.item = i
  <2>1. PICK key \in Keys : /\ blocks[key] # NoBlock /\ blocks[key].index = sent[n].index
                            /\ key[2] = sent[n].content.item
    BY <1>2 DEF ClaudePieces, Owned, IsOwned, ItemOf, Placed
  <2>2. key = KeyOf(key[2])
    BY <2>1, KeyIs
  <2>3. sent[n].index = blocks[KeyOf(i)].index <=> key = KeyOf(i)
    BY <1>1, <2>1 DEF ClaudeInv, BlocksInv, Distinct
  <2>4. KeyOf(i)[2] = i
    BY DEF KeyOf
  <2> QED BY <2>1, <2>2, <2>3, <2>4
<1> QED BY <1>2 DEF DeltasOf, CarriedBy, CarriesIn, At

(* An item the client has something of has a block. *)
LEMMA CarriedBlock ==
  ASSUME ClaudeInv, ClaudePieces, NEW i \in Items, CarriedBy(sent, i) # {}
  PROVE  blocks[KeyOf(i)] # NoBlock
<1>1. PICK n \in 1..Len(sent) : sent[n].type = "delta" /\ sent[n].content.item = i
  BY DEF CarriedBy, CarriesIn
<1>2. PICK key \in Keys : blocks[key] # NoBlock /\ key[2] = i
  BY <1>1 DEF ClaudePieces, Owned, IsOwned, ItemOf, Placed
<1> QED BY <1>2, KeyIs

(* What a block that the client has seen begin holds. *)
ShowsItem(m, i) ==
  /\ blocks[KeyOf(i)] # NoBlock /\ blocks[KeyOf(i)].index = sent[m].index
  /\ items[i].kind \in Kinds /\ sent[m].kind = BlockKind(items[i].kind)

LEMMA StartShows ==
  ASSUME ClaudeInv, Shown(sent, blocks)
  PROVE  /\ \A m \in Starts(Len(sent)) : \E i \in Items : ShowsItem(m, i)
         /\ \A i \in Items : blocks[KeyOf(i)] # NoBlock =>
              \E m \in Starts(Len(sent)) : ShowsItem(m, i)
         /\ \A m, n \in Starts(Len(sent)), i, j \in Items :
              ShowsItem(m, i) /\ ShowsItem(n, j) => (m = n <=> i = j)
<1>1. Starts(Len(sent)) = StartsIn(sent, Len(sent)) /\ LegalMessage(sent)
  BY DEF Starts, StartsIn, At, ClaudeInv, MessageInv
<1>2. \A i \in Items : KeyOf(i) \in Keys /\ KeyOf(i)[2] = i
  BY KeysOf DEF KeyOf
<1>3. ASSUME NEW i \in Items, blocks[KeyOf(i)] # NoBlock
      PROVE  \E m \in Starts(Len(sent)) : ShowsItem(m, i)
  <2>1. PICK m \in StartsIn(sent, Len(sent)) :
          sent[m].index = blocks[KeyOf(i)].index /\ sent[m].kind = blocks[KeyOf(i)].kind
    BY <1>2, <1>3 DEF Shown
  <2>2. items[i].kind \in Kinds /\ blocks[KeyOf(i)].kind = BlockKind(items[i].kind)
    BY <1>2, <1>3, KeyIs
  <2> QED BY <1>1, <1>3, <2>1, <2>2 DEF ShowsItem
<1>4. ASSUME NEW m \in Starts(Len(sent)) PROVE \E i \in Items : ShowsItem(m, i)
  <2>1. PICK key \in Keys : blocks[key] # NoBlock /\ blocks[key].index = sent[m].index
    BY <1>1 DEF Shown
  <2>2. key[2] \in Items /\ key = KeyOf(key[2])
    BY <2>1, KeyIs
  <2>3. PICK n \in Starts(Len(sent)) : ShowsItem(n, key[2])
    BY <1>3, <2>1, <2>2
  <2>4. n = m
    <3>1. sent[n].index = sent[m].index
      BY <2>1, <2>2, <2>3 DEF ShowsItem
    <3> QED BY <1>1, <3>1, StartsDiffer
  <2> QED BY <2>2, <2>3, <2>4
<1>5. ASSUME NEW m \in Starts(Len(sent)), NEW n \in Starts(Len(sent)),
             NEW i \in Items, NEW j \in Items, ShowsItem(m, i), ShowsItem(n, j)
      PROVE  m = n <=> i = j
  <2>1. ASSUME i = j PROVE m = n
    BY <1>1, <1>5, <2>1, StartsDiffer DEF ShowsItem
  <2>2. ASSUME m = n PROVE i = j
    <3>1. KeyOf(i) = KeyOf(j)
      BY <1>2, <1>5, <2>2 DEF ShowsItem, ClaudeInv, BlocksInv, Distinct
    <3> QED BY <1>2, <3>1
  <2> QED BY <2>1, <2>2
<1> QED BY <1>3, <1>4, <1>5

(* The message ends with its stop, which it has had all its blocks before. *)
LEMMA EndOf ==
  ASSUME ClaudeInv, NEW n \in 1..Len(sent), sent[n].type = "message_delta", n < Len(sent)
  PROVE  Starts(n) = Starts(Len(sent)) /\ stopped /\ \A i \in Items : ~Pending(i)
<1>1. LegalMessage(sent) /\ Len(sent) \in Nat /\ n \in Nat
  BY DEF ClaudeInv, MessageInv, LegalMessage
<1>2. stopped
  BY DEF ClaudeInv, MessageInv, Ends
<1>3. \A i \in Items : ~Pending(i)
  BY <1>2 DEF ClaudeInv, StopInv, Pending, EventTypes, NoFrame
<1>4. n + 1 \in 1..Len(sent) /\ sent[n + 1].type = "message_stop"
  BY <1>1 DEF LegalMessage, LegalAt
<1>5. Len(sent) = n + 1
  BY <1>1, <1>4 DEF LegalMessage, LegalAt
<1>6. ASSUME NEW m \in 1..Len(sent), sent[m].type = "content_block_start"
      PROVE  m \in 1..n
  BY <1>1, <1>4, <1>5, <1>6
<1> QED BY <1>1, <1>2, <1>3, <1>5, <1>6 DEF Starts, At

(* A block of the client holds its item's content. *)
LEMMA BlockHolds ==
  ASSUME ClaudeInv, ClaudePieces, NEW i \in Items, Full(sent, i, FALSE), NEW m, ShowsItem(m, i)
  PROVE  /\ Inner(ContentOf(sent[m].index)) = Inner(Content(i))
         /\ InDocumentOrder(DeltasOf(sent[m].index))
<1>1. DeltasOf(sent[m].index) = CarriedBy(sent, i)
  BY DeltasOfItem DEF ShowsItem
<1>2. PICK s : s = sent
  OBVIOUS
<1>3. PICK pieces : InDocument(s, i, pieces) /\ Inner(pieces) = Inner(Content(i))
  BY <1>2, FullInDocument DEF ClaudeInv, StreamInv
<1>4. InDocument(sent, i, pieces)
  BY <1>2, <1>3
<1>5. ContentOf(sent[m].index) = pieces
  BY <1>1, <1>4 DEF ContentOf, InDocument
<1>6. InDocumentOrder(DeltasOf(sent[m].index))
  BY <1>1, <1>4 DEF InDocumentOrder, InDocument
<1> QED BY <1>3, <1>5, <1>6

(* An item with content has a block. *)
LEMMA ContentShown ==
  ASSUME ClaudeInv, ClaudePieces, NEW i \in Items, Full(sent, i, FALSE), Inner(Content(i)) # {}
  PROVE  blocks[KeyOf(i)] # NoBlock
<1>1. PICK s : s = sent
  OBVIOUS
<1>2. PICK pieces : InDocument(s, i, pieces) /\ Inner(pieces) = Inner(Content(i))
  BY <1>1, FullInDocument DEF ClaudeInv, StreamInv
<1>3. pieces # {}
  BY <1>2 DEF Inner
<1>4. CarriedBy(s, i) # {}
  BY <1>2, <1>3 DEF InDocument
<1> QED BY <1>1, <1>4, CarriedBlock

(* As many tool calls. *)
LEMMA AsManyCalls ==
  ASSUME ClaudeInv, ToolsInv, Shown(sent, blocks), \A i \in Items : ~Pending(i)
  PROVE  Cardinality({m \in Starts(Len(sent)) : sent[m].kind = "tool_use"})
           = Cardinality(WholeToolCalls)
<1> DEFINE calls == {m \in Starts(Len(sent)) : sent[m].kind = "tool_use"}
           whole == WholeToolCalls
           item == [m \in calls |-> CHOOSE i \in Items : ShowsItem(m, i)]
<1>1. /\ \A m \in Starts(Len(sent)) : \E i \in Items : ShowsItem(m, i)
      /\ \A i \in Items : blocks[KeyOf(i)] # NoBlock =>
           \E m \in Starts(Len(sent)) : ShowsItem(m, i)
      /\ \A m, n \in Starts(Len(sent)), i, j \in Items :
           ShowsItem(m, i) /\ ShowsItem(n, j) => (m = n <=> i = j)
  BY StartShows
<1>2. calls \subseteq Starts(Len(sent)) /\ whole \subseteq Items
  BY DEF WholeToolCalls
<1>3. ASSUME NEW m \in Starts(Len(sent)), NEW i \in Items, ShowsItem(m, i)
      PROVE  m \in calls <=> i \in whole
  BY <1>3 DEF ShowsItem, WholeToolCalls, BlockKind, Kinds
<1>4. ASSUME NEW i \in whole PROVE blocks[KeyOf(i)] # NoBlock
  <2>1. i \in Items /\ items[i].kind = "tool"
    BY <1>4 DEF WholeToolCalls
  <2> QED BY <2>1, ToolBlocks DEF KeyOf
<1>5. ASSUME NEW m \in calls PROVE item[m] \in Items /\ ShowsItem(m, item[m])
  BY <1>1, <1>2
<1> HIDE DEF calls, whole
<1>6. item \in [calls -> whole]
  BY <1>2, <1>3, <1>5
<1> HIDE DEF item
<1>7. ASSUME NEW m \in calls, NEW n \in calls, item[m] = item[n] PROVE m = n
  BY <1>1, <1>2, <1>5, <1>7
<1>8. ASSUME NEW i \in whole PROVE \E m \in calls : item[m] = i
  <2>1. PICK m \in Starts(Len(sent)) : ShowsItem(m, i)
    BY <1>1, <1>2, <1>4
  <2>2. m \in calls
    BY <1>2, <1>3, <2>1
  <2> QED BY <1>1, <1>2, <1>5, <2>1, <2>2
<1>9. item \in Bijection(calls, whole)
  BY <1>6, <1>7, <1>8 DEF Bijection, Injection, Surjection, IsInjective
<1>10. IsFiniteSet(calls)
  <2>1. Len(sent) \in Nat
    BY DEF ClaudeInv, MessageInv, LegalMessage
  <2>2. IsFiniteSet(1..Len(sent)) /\ calls \subseteq 1..Len(sent)
    BY <1>2, <2>1, FS_Interval DEF Starts
  <2> QED BY <2>2, FS_Subset
<1> QED BY <1>9, <1>10, FS_Bijection DEF ExistsBijection, calls, whole

LEMMA AsWhole ==
  ASSUME ClaudeInv, ClaudePieces, ToolsInv, EndInv, OrderInv
  PROVE  StreamedAsWhole
<1> SUFFICES ASSUME NEW n \in 1..Len(sent), At(n, "message_delta"), n < Len(sent)
             PROVE  /\ NotEmpty(StreamedBlocks) = NotEmpty(WholeBlocks)
                    /\ InItemOrder(Starts(n))
                    /\ \A m \in Starts(n) : InDocumentOrder(DeltasOf(sent[m].index))
                    /\ Cardinality({m \in Starts(n) : sent[m].kind = "tool_use"})
                         = Cardinality(WholeToolCalls)
                    /\ sent[n].reason = WholeStopReason
  BY DEF StreamedAsWhole
<1>1. Starts(n) = Starts(Len(sent)) /\ \A i \in Items : ~Pending(i)
  BY EndOf DEF At
<1>2. /\ Shown(sent, blocks) /\ \A i \in Items : Full(sent, i, FALSE)
      /\ sent[n].reason = WholeStopReason
  BY DEF EndInv, At
<1>3. /\ \A m \in Starts(Len(sent)) : \E i \in Items : ShowsItem(m, i)
      /\ \A i \in Items : blocks[KeyOf(i)] # NoBlock =>
           \E m \in Starts(Len(sent)) : ShowsItem(m, i)
  BY <1>2, StartShows
<1>4. \A m \in Starts(Len(sent)), i \in Items : ShowsItem(m, i) =>
        /\ Inner(ContentOf(sent[m].index)) = Inner(Content(i))
        /\ InDocumentOrder(DeltasOf(sent[m].index))
  BY <1>2, BlockHolds
<1> DEFINE streamed(m) == [kind |-> sent[m].kind, content |-> Inner(ContentOf(sent[m].index))]
           document(i) == [kind |-> BlockKind(items[i].kind), content |-> Inner(Content(i))]
<1>5. ASSUME NEW m \in Starts(Len(sent)), NEW i \in Items, ShowsItem(m, i)
      PROVE  streamed(m) = document(i) /\ items[i] # NoItem
  BY <1>4, <1>5 DEF ShowsItem, NoItem, Kinds
<1>6. /\ StreamedBlocks = {streamed(m) : m \in Starts(Len(sent))}
      /\ WholeBlocks = {document(i) : i \in {j \in Items : items[j] # NoItem}}
      /\ \A i : document(i).content = Inner(Content(i))
  BY DEF StreamedBlocks, WholeBlocks
<1> HIDE DEF streamed, document
<1>7. StreamedBlocks \subseteq WholeBlocks
  BY <1>3, <1>5, <1>6
<1>8. ASSUME NEW i \in Items, Inner(Content(i)) # {} PROVE document(i) \in StreamedBlocks
  <2>1. blocks[KeyOf(i)] # NoBlock
    BY <1>2, <1>8, ContentShown
  <2>2. PICK m \in Starts(Len(sent)) : ShowsItem(m, i)
    BY <1>3, <2>1
  <2> QED BY <1>5, <1>6, <2>2
<1>9. NotEmpty(StreamedBlocks) = NotEmpty(WholeBlocks)
  BY <1>6, <1>7, <1>8 DEF NotEmpty
<1>10. \A m \in Starts(n) : InDocumentOrder(DeltasOf(sent[m].index))
  BY <1>1, <1>3, <1>4
<1>11. Cardinality({m \in Starts(n) : sent[m].kind = "tool_use"}) = Cardinality(WholeToolCalls)
  BY <1>1, <1>2, AsManyCalls
<1>12. InItemOrder(Starts(n))
  BY <1>1, StartsOrdered
<1> QED BY <1>2, <1>9, <1>10, <1>11, <1>12

-----------------------------------------------------------------------------
(* Theorems. *)

(* Type correctness: the map never holds more blocks than the answer's     *)
(* items can have, whatever the frames and their order                     *)
(* (claude_responses_stream.go:180-205).                                   *)
THEOREM ClaudeTypeCorrect ==
  ClaudeSpec => []ClaudeTypeOK
<1>1. ClaudeInv => ClaudeTypeOK
  BY DEF ClaudeInv
<1> QED BY <1>1, ClaudeInvHolds, PTL

(* What the client has received is a legal Messages stream, or the         *)
(* beginning of one, wherever the answer, the read or the client broke     *)
(* off: blocks are numbered in the order they open, a delta, a signature   *)
(* or a stop names a block that is open, a delta one of its kind, every    *)
(* block is closed before the message ends, and nothing follows its end    *)
(* (claude_responses_stream.go:180-314, executor.go's pumpStream).         *)
THEOREM LegalMessagesStreamHolds ==
  ClaudeSpec => []LegalMessagesStream
<1>1. ClaudeInv => LegalMessagesStream
  BY LegalSent DEF ClaudeInv, MessageInv
<1> QED BY <1>1, ClaudeInvHolds, PTL

(* The message is ended only on the endpoint's own end, and an answer that *)
(* failed or was cut off by [DONE] never ends as a success                 *)
(* (claude_responses_stream.go:45-50, 62-72, 170-174).                     *)
THEOREM FailureIsNoSuccessHolds ==
  ClaudeSpec => []FailureIsNoSuccess
<1>1. ClaudeInv => FailureIsNoSuccess
  BY BadNewsTold DEF ClaudeInv, StopInv, FailureIsNoSuccess
<1> QED BY <1>1, ClaudeInvHolds, PTL

(* The client receives every piece of every item once and in order,        *)
(* whether it was streamed or came with the done frame - a part of that    *)
(* when it goes away - and pieces of different items never share a block   *)
(* (claude_responses_stream.go:108-131, 153-165).                          *)
THEOREM EveryPieceOnceHolds ==
  ClaudeSpec => []EveryPieceOnce
<1> QED BY PiecesOnce, ClaudeInvHolds, ClaudePiecesHold, PTL

(* Streamed or not, the client gets the same message                       *)
(* (claude_responses.go:176-254) but where the whole answer is refused for *)
(* arguments that were cut short: when it ends, its blocks that have       *)
(* content are those of the whole answer, up to white space at the ends of *)
(* their text, each in the document's order and one after the other in the *)
(* order of the items, except a text that the endpoint began after a later *)
(* item; it holds as many tool calls, and its stop reason is the whole     *)
(* answer's.                                                               *)
THEOREM StreamedAsWholeHolds ==
  ClaudeSpec => []StreamedAsWhole
<1> QED BY AsWhole, ClaudeInvHolds, ClaudePiecesHold, ToolsAndEndHold, OrderHolds, PTL

=============================================================================
