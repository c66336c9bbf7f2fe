-------------------------- MODULE CopilotTokenProofs --------------------------
(***************************************************************************)
(* Proofs about CopilotToken for every set of callers, auth ids,           *)
(* credentials, configurations and replies, and every bound.               *)
(***************************************************************************)
EXTENDS CopilotToken, TLAPS

USE AuthAssumption, FlightAssumption, ConfigAssumption, ReplyAssumption

-----------------------------------------------------------------------------
(* The key of a call is a key, and an auth id is never a fingerprint.      *)
LEMMA KeyOfType ==
  ASSUME NEW auth \in Auths \cup {NoAuth}, NEW cred \in Credentials
  PROVE  /\ KeyOf(auth, cred) \in Keys
         /\ KeyOf(auth, cred) \in Fingerprints =>
              auth = NoAuth /\ KeyOf(auth, cred) = Fingerprint(cred)
  BY DEF KeyOf, Keys, Fingerprints, Fingerprint

(* Whatever field of the body tells it, the expiry is a time.              *)
LEMMA TokenExpiryType ==
  ASSUME NEW reply \in Replies, NEW at \in Nat
  PROVE  TokenExpiry(reply, at) \in Nat
  BY DEF TokenExpiry, DefaultLifetime

(* A decoded body yields the zero entry, or one that names the flight and  *)
(* the credential of the caller that exchanged it (token.go:108-118).      *)
LEMMA ExchangedEntryType ==
  ASSUME TypeOK, NEW c \in Callers, tokenCall[c] # IdleCall,
         tokenCall[c].flight \in 1..MaxFlights, NEW reply \in Replies
  PROVE  /\ ExchangedEntry(c, reply) \in Entry \cup {NoEntry}
         /\ ExchangedEntry(c, reply) # NoEntry =>
              /\ ExchangedEntry(c, reply).token = tokenCall[c].flight
              /\ ExchangedEntry(c, reply).fingerprint
                   = Fingerprint(tokenCall[c].cred)
  <1>1. TokenExpiry(reply, now) \in Nat
    BY TokenExpiryType DEF TypeOK
  <1>2. tokenCall[c] \in ActiveCall
    BY DEF TypeOK
  <1>3. CopilotAPIBase(reply, tokenCall[c].cfg) \in URLs
    BY <1>2 DEF CopilotAPIBase, URLs, ActiveCall
  <1>4. Fingerprint(tokenCall[c].cred) \in Fingerprints
    BY <1>2 DEF ActiveCall, Fingerprints
  <1> QED
    BY <1>1, <1>3, <1>4 DEF ExchangedEntry, Entry

(* The zero entry has no token; every other one has.                       *)
LEMMA EntryTokens ==
  /\ NoEntry.token = 0
  /\ \A e \in Entry : e # NoEntry /\ e.token \in 1..MaxFlights
  BY DEF Entry, NoEntry

-----------------------------------------------------------------------------
(* The inductive invariant, in named parts.                                *)

Attached(c) == tokenCall[c].pc \in {"wait", "exchange", "sent", "publish"}

(* Whoever waits on or leads a flight holds one that exists, for its key.  *)
FlightHeld ==
  \A c \in Callers : Attached(c) =>
    /\ tokenCall[c].flight \in 1..Len(flights)
    /\ flights[tokenCall[c].flight].key = CallKey(c)

(* A leader's flight is the registered one, and has no other leader.       *)
LeaderRegistered ==
  \A c \in Callers : Leading(c) =>
    /\ tokenInflight[CallKey(c)] = tokenCall[c].flight
    /\ \A d \in Callers :
         Leading(d) /\ tokenCall[d].flight = tokenCall[c].flight => c = d

(* A registered flight is open, is the newest of its key and has a leader. *)
RegisteredOpen ==
  \A k \in Keys : tokenInflight[k] # 0 =>
    /\ flights[tokenInflight[k]].key = k
    /\ ~flights[tokenInflight[k]].done
    /\ \A i \in 1..Len(flights) : flights[i].key = k => i <= tokenInflight[k]
    /\ \E c \in Callers : Leading(c) /\ tokenCall[c].flight = tokenInflight[k]

(* An open flight that someone waits on is the registered one.             *)
WaitedRegistered ==
  \A c \in Callers :
    tokenCall[c].pc = "wait" /\ ~flights[tokenCall[c].flight].done =>
      tokenInflight[CallKey(c)] = tokenCall[c].flight

FlightInv == FlightHeld /\ LeaderRegistered /\ RegisteredOpen /\ WaitedRegistered

(* A goroutine within copilotToken has a frame, and its key is a key.      *)
LEMMA ActiveKey ==
  ASSUME TypeOK, NEW d \in Callers, tokenCall[d].pc # "idle"
  PROVE  tokenCall[d] \in ActiveCall /\ CallKey(d) \in Keys
  <1>1. tokenCall[d] \in ActiveCall
    BY DEF TypeOK, IdleCall
  <1>2. tokenCall[d].auth \in Auths \cup {NoAuth} /\ tokenCall[d].cred \in Credentials
    BY <1>1 DEF ActiveCall
  <1> QED
    BY <1>1, <1>2, KeyOfType DEF CallKey

-----------------------------------------------------------------------------
LEMMA InitType == Init => TypeOK /\ FlightInv
  BY DEF Init, TypeOK, FlightInv, FlightHeld, LeaderRegistered, RegisteredOpen,
         WaitedRegistered, Attached, Leading, IdleCall

LEMMA StepType ==
  ASSUME TypeOK, FlightHeld, NEW c \in Callers, Step(c)
  PROVE  TypeOK'
  <1> USE DEF TypeOK, Goto
  <1>0. tokenCall[c].pc # "idle" => tokenCall[c] \in ActiveCall
    BY DEF IdleCall
  <1>1. CASE Hit(c)
    BY <1>0, <1>1, KeyOfType DEF Hit, ActiveCall, CallKey
  <1>2. CASE Join(c)
    BY <1>0, <1>2, KeyOfType DEF Join, ActiveCall, CallKey
  <1>3. CASE Lead(c)
    BY <1>0, <1>3, KeyOfType DEF Lead, ActiveCall, CallKey, Flight
  <1>4. CASE Send(c)
    BY <1>0, <1>4 DEF Send, ActiveCall
  <1>5. ASSUME NEW reply \in Replies, Answer(c, reply) PROVE TypeOK'
    <2>1. tokenCall[c].flight \in 1..MaxFlights /\ tokenCall[c] # IdleCall
      BY <1>5 DEF Answer, FlightHeld, Attached, IdleCall
    <2>2. ExchangedEntry(c, reply) \in Entry \cup {NoEntry}
      BY <2>1, ExchangedEntryType
    <2> QED
      BY <1>0, <1>5, <2>2 DEF Answer, ActiveCall
  <1>6. CASE AnswerError(c)
    BY <1>0, <1>6 DEF AnswerError, ActiveCall
  <1>7. CASE Publish(c)
    <2> DEFINE call == tokenCall[c]
    <2>1. /\ call \in ActiveCall /\ CallKey(c) \in Keys
          /\ call.entry \in Entry \cup {NoEntry} /\ call.flight \in Nat
      BY <1>7, ActiveKey DEF Publish, ActiveCall
    <2>2. /\ flights \in Seq(Flight) /\ Len(flights) <= MaxFlights
          /\ call.flight \in 1..Len(flights)
      BY <1>7 DEF Publish, FlightHeld, Attached
    <2>3. [key |-> CallKey(c), done |-> TRUE, entry |-> call.entry] \in Flight
      BY <2>1 DEF Flight
    <2>4. flights' \in Seq(Flight) /\ Len(flights') = Len(flights)
      BY <1>7, <2>2, <2>3 DEF Publish, FlightDone
    <2>5. tokenEntries' \in [Keys -> Entry \cup {NoEntry}]
      BY <1>7, <2>1 DEF Publish
    <2>6. tokenInflight' \in [Keys -> 0..Len(flights')]
      BY <1>7, <2>1, <2>4 DEF Publish, Unregister
    <2>7. tokenCall' \in [Callers -> ActiveCall \cup {IdleCall}]
      BY <1>7, <2>1 DEF Publish, ActiveCall
    <2> QED
      BY <1>7, <2>2, <2>4, <2>5, <2>6, <2>7 DEF Publish
  <1>8. CASE Wake(c)
    <2>1. tokenCall[c].flight \in 1..Len(flights)
      BY <1>8 DEF Wake, FlightHeld, Attached
    <2> DEFINE outcome == flights[tokenCall[c].flight].entry
    <2>2. outcome \in Entry \cup {NoEntry}
      <3>1. flights[tokenCall[c].flight] \in Flight
        BY <2>1
      <3> QED
        BY <3>1 DEF Flight
    <2>3. tokenCall[c] \in ActiveCall
      BY <1>0, <1>8 DEF Wake
    <2> HIDE DEF outcome
    <2>4. [pc |-> "done", auth |-> tokenCall[c].auth, cred |-> tokenCall[c].cred,
           cfg |-> tokenCall[c].cfg, now |-> tokenCall[c].now,
           flight |-> tokenCall[c].flight, entry |-> outcome] \in ActiveCall
      BY <2>2, <2>3 DEF ActiveCall
    <2> QED
      BY <1>8, <2>4 DEF Wake, outcome
  <1>9. CASE Return(c)
    BY <1>9 DEF Return
  <1> QED
    BY <1>1, <1>2, <1>3, <1>4, <1>5, <1>6, <1>7, <1>8, <1>9 DEF Step, Inside

(* A step of the cache, whatever bounds the calls: modules that call       *)
(* copilotToken take these steps, each under a budget of its own.          *)
TokenStep ==
  \/ \E c \in Callers : Step(c)
  \/ \E c \in Callers, auth \in Auths \cup {NoAuth}, cred \in Credentials :
       Begin(c, auth, cred)
  \/ Environment

LEMMA NextIsTokenStep == Next => TokenStep
  BY DEF Next, TokenStep

LEMMA NextType ==
  ASSUME TypeOK, FlightHeld, TokenStep
  PROVE  TypeOK'
  <1>1. ASSUME NEW c \in Callers, Step(c) PROVE TypeOK'
    BY <1>1, StepType
  <1>2. ASSUME NEW c \in Callers, NEW auth \in Auths \cup {NoAuth},
               NEW cred \in Credentials, Begin(c, auth, cred)
        PROVE  TypeOK'
    BY <1>2 DEF TypeOK, Begin, ActiveCall
  <1>3. CASE Environment
    BY <1>3 DEF TypeOK, Environment, InvalidateAuth, ShutdownTokens, Configure, Tick
  <1> QED
    BY <1>1, <1>2, <1>3 DEF TokenStep

-----------------------------------------------------------------------------
(* Steps outside the critical sections leave the flights alone, and keep   *)
(* every caller on its side of them.                                       *)
LEMMA UnlockedFlightInv ==
  ASSUME TypeOK, FlightInv, NEW c \in Callers,
         UNCHANGED <<tokenInflight, flights>>,
         tokenCall' \in [Callers -> ActiveCall \cup {IdleCall}],
         \A d \in Callers \ {c} : tokenCall'[d] = tokenCall[d],
         \/ Leading(c) /\ Leading(c)' /\ CallKey(c)' = CallKey(c)
              /\ tokenCall'[c].flight = tokenCall[c].flight
         \/ ~Leading(c) /\ ~Attached(c)'
  PROVE  FlightInv'
  <1>1. \A d \in Callers \ {c} :
          /\ CallKey(d)' = CallKey(d)
          /\ Leading(d)' = Leading(d)
          /\ Attached(d)' = Attached(d)
    BY DEF CallKey, Leading, Attached
  <1>2. Leading(c)' => Attached(c)'
    BY DEF Leading, Attached
  <1>3. Leading(c) => Attached(c) /\ tokenCall'[c].pc # "wait"
    BY DEF Leading, Attached
  <1>4. FlightHeld'
    BY <1>1, <1>2, <1>3 DEF FlightInv, FlightHeld
  <1>5. LeaderRegistered'
    BY <1>1, <1>2, <1>3 DEF FlightInv, LeaderRegistered
  <1>6. RegisteredOpen'
    BY <1>1, <1>2 DEF FlightInv, RegisteredOpen
  <1>7. WaitedRegistered'
    BY <1>1, <1>2, <1>3 DEF FlightInv, WaitedRegistered, Attached
  <1> QED
    BY <1>4, <1>5, <1>6, <1>7 DEF FlightInv

(* A caller that joins holds the registered flight, which is open.         *)
LEMMA JoinFlightInv ==
  ASSUME TypeOK, FlightInv, NEW c \in Callers, Join(c)
  PROVE  FlightInv'
  <1>1. tokenCall[c] \in ActiveCall /\ CallKey(c) \in Keys
    BY ActiveKey DEF Join
  <1>2. /\ CallKey(c)' = CallKey(c) /\ tokenCall'[c].pc = "wait"
        /\ tokenCall'[c].flight = tokenInflight[CallKey(c)]
        /\ ~Leading(c) /\ ~Leading(c)'
    BY DEF Join, Goto, TypeOK, CallKey, Leading
  <1>3. /\ UNCHANGED <<tokenInflight, flights>>
        /\ \A d \in Callers \ {c} : tokenCall'[d] = tokenCall[d]
    BY DEF Join, Goto, TypeOK
  <1>4. \A d \in Callers \ {c} :
          /\ CallKey(d)' = CallKey(d)
          /\ Leading(d)' = Leading(d)
          /\ Attached(d)' = Attached(d)
    BY <1>3 DEF CallKey, Leading, Attached
  <1>5. /\ tokenInflight[CallKey(c)] \in 1..Len(flights)
        /\ flights[tokenInflight[CallKey(c)]].key = CallKey(c)
    BY <1>1 DEF Join, TypeOK, FlightInv, RegisteredOpen
  <1>6. FlightHeld'
    BY <1>2, <1>3, <1>4, <1>5 DEF FlightInv, FlightHeld
  <1>7. LeaderRegistered'
    BY <1>2, <1>3, <1>4 DEF FlightInv, LeaderRegistered
  <1>8. RegisteredOpen'
    BY <1>2, <1>3, <1>4 DEF FlightInv, RegisteredOpen
  <1>9. WaitedRegistered'
    BY <1>2, <1>3, <1>4 DEF FlightInv, WaitedRegistered
  <1> QED
    BY <1>6, <1>7, <1>8, <1>9 DEF FlightInv

(* A new flight is registered where none was, so it is the newest of its   *)
(* key, nobody waits on it yet, and its only leader is c.                  *)
LEMMA LeadFlightInv ==
  ASSUME TypeOK, FlightInv, NEW c \in Callers, Lead(c)
  PROVE  FlightInv'
  <1> DEFINE key == CallKey(c)
             new == Len(flights) + 1
  <1>1. tokenCall[c] \in ActiveCall /\ key \in Keys /\ tokenInflight[key] = 0
    BY ActiveKey DEF Lead
  <1>2. /\ Len(flights') = new
        /\ \A i \in 1..Len(flights) : flights'[i] = flights[i]
        /\ flights'[new] = [key |-> key, done |-> FALSE, entry |-> NoEntry]
        /\ tokenInflight' = [tokenInflight EXCEPT ![key] = new]
        /\ Len(flights) \in Nat
    BY DEF Lead, TypeOK
  <1>3. /\ CallKey(c)' = key /\ Leading(c)' /\ Attached(c)'
        /\ tokenCall'[c].pc # "wait" /\ tokenCall'[c].flight = new
    BY DEF Lead, Goto, TypeOK, CallKey, Leading, Attached
  <1>4. \A d \in Callers \ {c} : tokenCall'[d] = tokenCall[d]
    BY DEF Lead, Goto, TypeOK
  <1>5. \A d \in Callers \ {c} : Attached(d) => CallKey(d) \in Keys
    BY ActiveKey DEF Attached
  <1>6. \A d \in Callers \ {c} :
          /\ CallKey(d)' = CallKey(d)
          /\ Leading(d)' = Leading(d)
          /\ Attached(d)' = Attached(d)
          /\ Leading(d) => Attached(d)
          /\ tokenCall[d].pc = "wait" => Attached(d)
    BY <1>4 DEF CallKey, Leading, Attached
  <1>7. \A d \in Callers \ {c} : Attached(d) => tokenCall[d].flight \in 1..Len(flights)
    BY DEF FlightInv, FlightHeld
  <1>8. tokenInflight \in [Keys -> 0..Len(flights)]
    BY DEF TypeOK
  <1> HIDE DEF key, new
  <1>9. new = Len(flights) + 1
    BY DEF new
  <1>10. FlightHeld'
    BY <1>2, <1>3, <1>4, <1>6, <1>7, <1>9 DEF FlightInv, FlightHeld
  <1>11. \A d \in Callers \ {c} : Leading(d) => CallKey(d) # key
    BY <1>1, <1>6, <1>7 DEF FlightInv, LeaderRegistered
  <1>12. LeaderRegistered'
    BY <1>1, <1>2, <1>3, <1>4, <1>5, <1>6, <1>7, <1>8, <1>9, <1>11
    DEF FlightInv, LeaderRegistered
  <1>13. RegisteredOpen'
    <2> SUFFICES ASSUME NEW k \in Keys, tokenInflight'[k] # 0
                 PROVE  /\ flights'[tokenInflight'[k]].key = k
                        /\ ~flights'[tokenInflight'[k]].done
                        /\ \A i \in 1..Len(flights') :
                             flights'[i].key = k => i <= tokenInflight'[k]
                        /\ \E d \in Callers :
                             /\ Leading(d)'
                             /\ tokenCall'[d].flight = tokenInflight'[k]
      BY DEF RegisteredOpen
    <2>1. CASE k = key
      BY <2>1, <1>1, <1>2, <1>3, <1>8, <1>9
    <2>2. CASE k # key
      <3>1. tokenInflight'[k] = tokenInflight[k] /\ tokenInflight[k] \in 1..Len(flights)
        BY <2>2, <1>1, <1>2, <1>8
      <3>2. PICK d \in Callers :
              Leading(d) /\ tokenCall[d].flight = tokenInflight[k]
        BY <3>1 DEF FlightInv, RegisteredOpen
      <3>3. d # c
        BY <3>2 DEF Lead, Leading
      <3>4. Leading(d)' /\ tokenCall'[d].flight = tokenInflight'[k]
        BY <3>1, <3>2, <3>3, <1>4, <1>6
      <3>5. /\ flights[tokenInflight[k]].key = k
            /\ ~flights[tokenInflight[k]].done
            /\ \A i \in 1..Len(flights) : flights[i].key = k => i <= tokenInflight[k]
        BY <3>1 DEF FlightInv, RegisteredOpen
      <3>6. \A i \in 1..Len(flights') : flights'[i].key = k => i <= tokenInflight'[k]
        BY <3>1, <3>5, <2>2, <1>2, <1>9
      <3> QED
        BY <3>1, <3>4, <3>5, <3>6, <1>2
    <2> QED
      BY <2>1, <2>2
  <1>14. WaitedRegistered'
    <2> SUFFICES ASSUME NEW d \in Callers, tokenCall'[d].pc = "wait",
                        ~flights'[tokenCall'[d].flight].done
                 PROVE  tokenInflight'[CallKey(d)'] = tokenCall'[d].flight
      BY DEF WaitedRegistered
    <2>1. d # c
      BY <1>3
    <2>2. /\ tokenCall[d].flight \in 1..Len(flights)
          /\ CallKey(d) \in Keys
          /\ tokenInflight[CallKey(d)] = tokenCall[d].flight
      BY <2>1, <1>2, <1>4, <1>5, <1>6, <1>7 DEF FlightInv, WaitedRegistered
    <2> QED
      BY <2>1, <2>2, <1>1, <1>2, <1>4, <1>6
  <1> QED
    BY <1>10, <1>12, <1>13, <1>14 DEF FlightInv

(* Publishing closes the registered flight of the key and unregisters it;  *)
(* the flights of the other keys keep their leaders.                       *)
LEMMA PublishFlightInv ==
  ASSUME TypeOK, FlightInv, NEW c \in Callers, Publish(c)
  PROVE  FlightInv'
  <1> DEFINE key == CallKey(c)
             own == tokenCall[c].flight
  <1>1. /\ Leading(c) /\ Attached(c) /\ tokenCall[c] \in ActiveCall
        /\ key \in Keys
    BY ActiveKey DEF Publish, Leading, Attached
  <1>2. /\ own \in 1..Len(flights)
        /\ flights[own].key = key
        /\ tokenInflight[key] = own
        /\ \A d \in Callers : Leading(d) /\ tokenCall[d].flight = own => d = c
    BY <1>1 DEF FlightInv, FlightHeld, LeaderRegistered
  <1>3. /\ Len(flights') = Len(flights)
        /\ \A i \in 1..Len(flights) : i # own => flights'[i] = flights[i]
        /\ flights'[own].key = key /\ flights'[own].done
        /\ tokenInflight' = [tokenInflight EXCEPT ![key] = 0]
    BY <1>2 DEF Publish, Unregister, FlightDone, TypeOK
  <1>4. ~Leading(c)' /\ ~Attached(c)'
    BY DEF Publish, Goto, TypeOK, Leading, Attached
  <1>5. \A d \in Callers \ {c} : tokenCall'[d] = tokenCall[d]
    BY DEF Publish, Goto, TypeOK
  <1>6. \A d \in Callers \ {c} : Attached(d) => CallKey(d) \in Keys
    BY ActiveKey DEF Attached
  <1>7. \A d \in Callers \ {c} :
          /\ CallKey(d)' = CallKey(d)
          /\ Leading(d)' = Leading(d)
          /\ Attached(d)' = Attached(d)
          /\ Leading(d) => Attached(d)
    BY <1>5 DEF CallKey, Leading, Attached
  <1>8. tokenInflight \in [Keys -> 0..Len(flights)]
    BY DEF TypeOK
  <1> HIDE DEF key, own
  <1>9. FlightHeld'
    <2> SUFFICES ASSUME NEW d \in Callers, Attached(d)'
                 PROVE  /\ tokenCall'[d].flight \in 1..Len(flights')
                        /\ flights'[tokenCall'[d].flight].key = CallKey(d)'
      BY DEF FlightHeld
    <2>1. d \in Callers \ {c} /\ Attached(d)
      BY <1>4, <1>7
    <2>2. /\ tokenCall[d].flight \in 1..Len(flights)
          /\ flights[tokenCall[d].flight].key = CallKey(d)
      BY <2>1 DEF FlightInv, FlightHeld
    <2>3. tokenCall'[d].flight = tokenCall[d].flight /\ CallKey(d)' = CallKey(d)
      BY <1>5, <1>7, <2>1
    <2>4. \A i \in 1..Len(flights) : flights'[i].key = flights[i].key
      BY <1>2, <1>3
    <2> QED
      BY <1>3, <2>2, <2>3, <2>4
  <1>10. \A d \in Callers \ {c} : Leading(d) => CallKey(d) # key
    BY <1>2 DEF FlightInv, LeaderRegistered
  <1>11. LeaderRegistered'
    BY <1>3, <1>4, <1>5, <1>6, <1>7, <1>8, <1>10 DEF FlightInv, LeaderRegistered
  <1>12. RegisteredOpen'
    <2> SUFFICES ASSUME NEW k \in Keys, tokenInflight'[k] # 0
                 PROVE  /\ flights'[tokenInflight'[k]].key = k
                        /\ ~flights'[tokenInflight'[k]].done
                        /\ \A i \in 1..Len(flights') :
                             flights'[i].key = k => i <= tokenInflight'[k]
                        /\ \E d \in Callers :
                             /\ Leading(d)'
                             /\ tokenCall'[d].flight = tokenInflight'[k]
      BY DEF RegisteredOpen
    <2>1. k # key /\ tokenInflight'[k] = tokenInflight[k]
          /\ tokenInflight[k] \in 1..Len(flights)
      BY <1>1, <1>3, <1>8
    <2>2. /\ flights[tokenInflight[k]].key = k
          /\ ~flights[tokenInflight[k]].done
          /\ \A i \in 1..Len(flights) : flights[i].key = k => i <= tokenInflight[k]
      BY <2>1 DEF FlightInv, RegisteredOpen
    <2>3. tokenInflight[k] # own
      BY <2>1, <2>2, <1>2
    <2>4. PICK d \in Callers : Leading(d) /\ tokenCall[d].flight = tokenInflight[k]
      BY <2>1 DEF FlightInv, RegisteredOpen
    <2>5. Leading(d)' /\ tokenCall'[d].flight = tokenInflight'[k]
      BY <2>1, <2>3, <2>4, <1>5, <1>7 DEF own
    <2>6. \A i \in 1..Len(flights') : flights'[i].key = k => i <= tokenInflight'[k]
      BY <2>1, <2>2, <1>3
    <2> QED
      BY <2>1, <2>2, <2>3, <2>5, <2>6, <1>3
  <1>13. WaitedRegistered'
    <2> SUFFICES ASSUME NEW d \in Callers, tokenCall'[d].pc = "wait",
                        ~flights'[tokenCall'[d].flight].done
                 PROVE  tokenInflight'[CallKey(d)'] = tokenCall'[d].flight
      BY DEF WaitedRegistered
    <2>1. d # c /\ Attached(d) /\ tokenCall[d].pc = "wait"
      BY <1>4, <1>5 DEF Attached
    <2>2. /\ tokenCall[d].flight \in 1..Len(flights)
          /\ flights[tokenCall[d].flight].key = CallKey(d)
          /\ tokenCall[d].flight # own
      BY <2>1, <1>3, <1>5 DEF FlightInv, FlightHeld
    <2>3. tokenInflight[CallKey(d)] = tokenCall[d].flight
      BY <2>1, <2>2, <1>3, <1>5 DEF FlightInv, WaitedRegistered
    <2>4. CallKey(d) # key
      BY <2>2, <2>3, <1>2
    <2> QED
      BY <2>1, <2>3, <2>4, <1>3, <1>5, <1>6, <1>7, <1>8
  <1> QED
    BY <1>9, <1>11, <1>12, <1>13 DEF FlightInv

LEMMA NextFlightInv ==
  ASSUME TypeOK, FlightInv, TokenStep
  PROVE  FlightInv'
  <1> USE NextType DEF FlightInv
  <1>1. TypeOK'
    OBVIOUS
  <1>2. ASSUME NEW c \in Callers,
               \/ Hit(c) \/ Wake(c) \/ Return(c)
               \/ \E auth \in Auths \cup {NoAuth}, cred \in Credentials :
                    Begin(c, auth, cred)
        PROVE  FlightInv'
    <2>1. ~Leading(c) /\ ~Attached(c)'
      <3>1. CASE Hit(c)
        BY <3>1 DEF TypeOK, Hit, Goto, Leading, Attached
      <3>2. CASE Wake(c)
        BY <3>2 DEF TypeOK, Wake, Goto, Leading, Attached
      <3>3. CASE Return(c)
        BY <3>3 DEF TypeOK, Return, IdleCall, Leading, Attached
      <3>4. ASSUME NEW auth, NEW cred, Begin(c, auth, cred)
            PROVE  ~Leading(c) /\ ~Attached(c)'
        BY <3>4 DEF TypeOK, Begin, Leading, Attached
      <3> QED
        BY <1>2, <3>1, <3>2, <3>3, <3>4
    <2>2. /\ \A d \in Callers \ {c} : tokenCall'[d] = tokenCall[d]
          /\ UNCHANGED <<tokenInflight, flights>>
      BY <1>2 DEF TypeOK, Hit, Wake, Return, Begin, Goto
    <2> QED
      BY <1>1, <2>1, <2>2, UnlockedFlightInv DEF TypeOK
  <1>7. ASSUME NEW c \in Callers,
               \/ Send(c) \/ AnswerError(c)
               \/ \E reply \in Replies : Answer(c, reply)
        PROVE  FlightInv'
    <2>1. /\ Leading(c) /\ Leading(c)' /\ CallKey(c)' = CallKey(c)
          /\ tokenCall'[c].flight = tokenCall[c].flight
      BY <1>7 DEF TypeOK, Send, Answer, AnswerError, Goto, Leading, CallKey
    <2>2. /\ \A d \in Callers \ {c} : tokenCall'[d] = tokenCall[d]
          /\ UNCHANGED <<tokenInflight, flights>>
      BY <1>7 DEF TypeOK, Send, Answer, AnswerError, Goto
    <2> QED
      BY <1>1, <2>1, <2>2, UnlockedFlightInv DEF TypeOK
  <1>3. ASSUME NEW c \in Callers, Join(c) PROVE FlightInv'
    BY <1>3, JoinFlightInv
  <1>4. ASSUME NEW c \in Callers, Lead(c) PROVE FlightInv'
    BY <1>4, LeadFlightInv
  <1>5. ASSUME NEW c \in Callers, Publish(c) PROVE FlightInv'
    BY <1>5, PublishFlightInv
  <1>6. CASE Environment
    BY <1>6 DEF Environment, InvalidateAuth, ShutdownTokens, Configure, Tick,
       FlightHeld, LeaderRegistered, RegisteredOpen, WaitedRegistered,
       Leading, Attached, CallKey
  <1> QED
    BY <1>2, <1>3, <1>4, <1>5, <1>6, <1>7 DEF TokenStep, Step, Inside

-----------------------------------------------------------------------------
(* The strengthening is an invariant, of this module and of others that    *)
(* take its steps.                                                         *)
LEMMA StepFlights ==
  ASSUME TypeOK, FlightInv, [TokenStep]_tokenVars
  PROVE  TypeOK' /\ FlightInv'
  <1>1. CASE UNCHANGED tokenVars
    BY <1>1 DEF tokenVars, TypeOK, FlightInv, FlightHeld, LeaderRegistered,
       RegisteredOpen, WaitedRegistered, Leading, Attached, CallKey
  <1> QED
    BY <1>1, NextType, NextFlightInv DEF FlightInv

THEOREM FlightsCorrect == Spec => [](TypeOK /\ FlightInv)
  <1>1. TypeOK /\ FlightInv /\ [Next]_tokenVars => (TypeOK /\ FlightInv)'
    BY StepFlights, NextIsTokenStep
  <1> QED
    BY <1>1, InitType, PTL DEF Spec

(* In every behaviour the cache, the flights and the frames keep their     *)
(* shapes (token.go:25-36, 38-80).                                         *)
THEOREM TypeCorrect == Spec => []TypeOK
  BY FlightsCorrect, PTL

LEMMA FlightsSingle == FlightInv => SingleFlight
  BY DEF FlightInv, LeaderRegistered, SingleFlight

(* Two goroutines never exchange a token for the same key at the same time *)
(* (token.go:54-66): both would lead the one registered flight.            *)
THEOREM SingleFlightHolds == Spec => []SingleFlight
  BY FlightsSingle, FlightsCorrect, PTL

LEMMA FlightsLed ==
  ASSUME TypeOK, FlightInv
  PROVE  WaitersHaveLeader
  <1> SUFFICES ASSUME NEW c \in Callers, tokenCall[c].pc = "wait",
                      ~flights[tokenCall[c].flight].done
               PROVE  \E d \in Callers :
                        Leading(d) /\ tokenCall[d].flight = tokenCall[c].flight
    BY DEF WaitersHaveLeader
  <1>1. /\ tokenInflight[CallKey(c)] = tokenCall[c].flight
        /\ tokenCall[c].flight \in 1..Len(flights)
    BY DEF FlightInv, WaitedRegistered, FlightHeld, Attached
  <1>2. CallKey(c) \in Keys
    BY ActiveKey
  <1> QED
    BY <1>1, <1>2 DEF FlightInv, RegisteredOpen

(* A waiter's open flight is registered, so it has a leader that will      *)
(* close it (token.go:57-62, 77).                                          *)
THEOREM WaitersHaveLeaderHolds == Spec => []WaitersHaveLeader
  <1>1. TypeOK /\ FlightInv => WaitersHaveLeader
    BY FlightsLed
  <1> QED
    BY <1>1, FlightsCorrect, PTL

-----------------------------------------------------------------------------
(* What the cache and the callers hold: on top of the invariant about the  *)
(* flights, every token is traced back to the flight that fetched it and   *)
(* to the credential it was fetched with.                                  *)

(* The inductive invariant, in named parts.                                *)

(* A flight that has an outcome is done, its token is its own, and under   *)
(* a fingerprint it was fetched with that credential.                      *)
FlightOutcome ==
  \A i \in 1..Len(flights) : flights[i].entry # NoEntry =>
    /\ flights[i].entry.token = i
    /\ flights[i].key \in Fingerprints => flights[i].entry.fingerprint = flights[i].key

(* What a leader is about to publish is of its flight and its credential;  *)
(* what a call returns is of its credential if it was cached or if the     *)
(* call has no auth id.                                                    *)
CallOutcome(c) ==
  tokenCall[c].entry # NoEntry =>
    /\ tokenCall[c].pc = "publish" =>
         /\ tokenCall[c].entry.token = tokenCall[c].flight
         /\ tokenCall[c].entry.fingerprint = Fingerprint(tokenCall[c].cred)
    /\ tokenCall[c].pc = "done" /\ (tokenCall[c].flight = 0 \/ tokenCall[c].auth = NoAuth) =>
         tokenCall[c].entry.fingerprint = Fingerprint(tokenCall[c].cred)

CacheInv ==
  /\ FlightOutcome
  /\ \A c \in Callers : CallOutcome(c)
  /\ NewestCached

-----------------------------------------------------------------------------
LEMMA InitCacheInv == Init => CacheInv
  BY DEF Init, CacheInv, FlightOutcome, CallOutcome, NewestCached, IdleCall

(* A step that moves only the frame of c.                                  *)
LEMMA FrameCacheInv ==
  ASSUME CacheInv, NEW c \in Callers,
         UNCHANGED <<tokenEntries, flights>>,
         \A d \in Callers \ {c} : tokenCall'[d] = tokenCall[d],
         CallOutcome(c)'
  PROVE  CacheInv'
  <1>1. FlightOutcome' /\ NewestCached'
    BY DEF CacheInv, FlightOutcome, NewestCached
  <1>2. \A d \in Callers \ {c} : CallOutcome(d)'
    BY DEF CacheInv, CallOutcome
  <1> QED
    BY <1>1, <1>2 DEF CacheInv

(* A cache hit compares the fingerprints (token.go:49).                    *)
LEMMA HitOutcome ==
  ASSUME TypeOK, NEW c \in Callers, Hit(c)
  PROVE  CallOutcome(c)'
  <1>1. /\ tokenCall'[c].pc = "done" /\ tokenCall'[c].cred = tokenCall[c].cred
        /\ tokenCall'[c].entry = tokenEntries[CallKey(c)]
    BY DEF Hit, Goto, TypeOK
  <1>2. tokenEntries[CallKey(c)].fingerprint = Fingerprint(tokenCall[c].cred)
    BY DEF Hit, CacheHit
  <1> QED
    BY <1>1, <1>2 DEF CallOutcome

(* A waiter without auth id waits for a flight of its own fingerprint.     *)
LEMMA WakeOutcome ==
  ASSUME TypeOK, FlightInv, CacheInv, NEW c \in Callers, Wake(c)
  PROVE  CallOutcome(c)'
  <1>1. tokenCall[c] \in ActiveCall
    BY ActiveKey DEF Wake
  <1>2. /\ tokenCall'[c].pc = "done" /\ tokenCall'[c].cred = tokenCall[c].cred
        /\ tokenCall'[c].auth = tokenCall[c].auth
        /\ tokenCall'[c].flight = tokenCall[c].flight
        /\ tokenCall'[c].entry = flights[tokenCall[c].flight].entry
    BY DEF Wake, Goto, TypeOK
  <1>3. /\ tokenCall[c].flight \in 1..Len(flights)
        /\ flights[tokenCall[c].flight].key = CallKey(c)
    BY DEF Wake, FlightInv, FlightHeld, Attached
  <1>4. tokenCall[c].auth = NoAuth =>
          /\ CallKey(c) = Fingerprint(tokenCall[c].cred)
          /\ CallKey(c) \in Fingerprints
    BY <1>1 DEF CallKey, KeyOf, Fingerprints, ActiveCall
  <1>5. tokenCall[c].flight # 0 /\ Len(flights) \in Nat
    BY <1>3 DEF TypeOK
  <1> QED
    BY <1>2, <1>3, <1>4, <1>5 DEF CallOutcome, CacheInv, FlightOutcome

LEMMA AnswerOutcome ==
  ASSUME TypeOK, FlightInv, NEW c \in Callers, NEW reply \in Replies, Answer(c, reply)
  PROVE  CallOutcome(c)'
  <1>1. tokenCall[c].flight \in 1..MaxFlights /\ tokenCall[c] # IdleCall
    <2>1. tokenCall[c].pc = "sent" /\ tokenCall[c].flight \in 1..Len(flights)
      BY DEF Answer, FlightInv, FlightHeld, Attached
    <2>2. Len(flights) \in Nat /\ Len(flights) <= MaxFlights
      BY DEF TypeOK
    <2> QED
      BY <2>1, <2>2, FlightAssumption DEF IdleCall
  <1>2. /\ tokenCall'[c].pc = "publish" /\ tokenCall'[c].cred = tokenCall[c].cred
        /\ tokenCall'[c].flight = tokenCall[c].flight
        /\ tokenCall'[c].entry = ExchangedEntry(c, reply)
    BY DEF Answer, Goto, TypeOK
  <1>3. ExchangedEntry(c, reply) # NoEntry =>
          /\ ExchangedEntry(c, reply).token = tokenCall[c].flight
          /\ ExchangedEntry(c, reply).fingerprint = Fingerprint(tokenCall[c].cred)
    BY <1>1, ExchangedEntryType
  <1> QED
    BY <1>2, <1>3 DEF CallOutcome

(* A new flight has no outcome yet.                                        *)
LEMMA LeadCacheInv ==
  ASSUME TypeOK, CacheInv, NEW c \in Callers, Lead(c)
  PROVE  CacheInv'
  <1>1. /\ Len(flights') = Len(flights) + 1 /\ Len(flights) \in Nat
        /\ \A i \in 1..Len(flights) : flights'[i] = flights[i]
        /\ flights'[Len(flights) + 1].entry = NoEntry
        /\ tokenEntries' = tokenEntries
    BY DEF Lead, TypeOK
  <1>2. \A d \in Callers : CallOutcome(d)'
    BY DEF Lead, Goto, TypeOK, CacheInv, CallOutcome
  <1>3. \A i \in 1..Len(flights') : flights'[i].entry # NoEntry =>
          i \in 1..Len(flights) /\ flights'[i] = flights[i]
    BY <1>1
  <1>4. FlightOutcome'
    BY <1>3 DEF CacheInv, FlightOutcome
  <1>5. NewestCached'
    BY <1>1, <1>3 DEF CacheInv, NewestCached
  <1> QED
    BY <1>2, <1>4, <1>5 DEF CacheInv

(* The published flight is the newest of its key, so its token is.         *)
LEMMA PublishCacheInv ==
  ASSUME TypeOK, FlightInv, CacheInv, NEW c \in Callers, Publish(c)
  PROVE  CacheInv'
  <1> DEFINE key == CallKey(c)
             own == tokenCall[c].flight
             entry == tokenCall[c].entry
  <1>1. /\ tokenCall[c] \in ActiveCall /\ key \in Keys
        /\ Leading(c) /\ Attached(c)
    BY ActiveKey DEF Publish, Leading, Attached
  <1>2. /\ own \in 1..Len(flights) /\ flights[own].key = key
        /\ tokenInflight[key] = own
    BY <1>1 DEF FlightInv, FlightHeld, LeaderRegistered
  <1>3. \A i \in 1..Len(flights) : flights[i].key = key => i <= own
    <2>1. own # 0
      BY <1>2 DEF TypeOK
    <2> QED
      BY <1>1, <1>2, <2>1 DEF FlightInv, RegisteredOpen
  <1>4. entry # NoEntry =>
          entry.token = own /\ entry.fingerprint = Fingerprint(tokenCall[c].cred)
    BY DEF Publish, CacheInv, CallOutcome
  <1>5. key \in Fingerprints => key = Fingerprint(tokenCall[c].cred)
    BY <1>1, KeyOfType DEF CallKey, ActiveCall
  <1>6. /\ Len(flights') = Len(flights)
        /\ \A i \in 1..Len(flights) : i # own => flights'[i] = flights[i]
        /\ flights'[own].key = key /\ flights'[own].entry = entry
    BY <1>2 DEF Publish, TypeOK
  <1>7. tokenEntries' = IF entry = NoEntry THEN tokenEntries
                        ELSE [tokenEntries EXCEPT ![key] = entry]
    BY DEF Publish
  <1>8. /\ tokenCall'[c].pc = "done" /\ tokenCall'[c].cred = tokenCall[c].cred
        /\ tokenCall'[c].entry = entry
        /\ \A d \in Callers \ {c} : tokenCall'[d] = tokenCall[d]
    BY DEF Publish, Goto, TypeOK
  <1>9. tokenEntries \in [Keys -> Entry \cup {NoEntry}]
    BY DEF TypeOK
  <1> HIDE DEF key, own, entry
  <1>10. \A d \in Callers : CallOutcome(d)'
    <2>1. CallOutcome(c)'
      BY <1>4, <1>8 DEF CallOutcome
    <2>2. \A d \in Callers \ {c} : CallOutcome(d)'
      BY <1>8 DEF CacheInv, CallOutcome
    <2> QED
      BY <2>1, <2>2
  <1>11. FlightOutcome'
    <2> SUFFICES ASSUME NEW i \in 1..Len(flights), flights'[i].entry # NoEntry
                 PROVE  /\ flights'[i].entry.token = i
                        /\ flights'[i].key \in Fingerprints =>
                             flights'[i].entry.fingerprint = flights'[i].key
      BY <1>6 DEF FlightOutcome
    <2>1. CASE i = own
      BY <2>1, <1>4, <1>5, <1>6
    <2>2. CASE i # own
      BY <2>2, <1>6 DEF CacheInv, FlightOutcome
    <2> QED
      BY <2>1, <2>2
  <1>12. NewestCached'
    <2> SUFFICES ASSUME NEW k \in Keys, NEW i \in 1..Len(flights),
                        tokenEntries'[k] # NoEntry, flights'[i].key = k,
                        flights'[i].entry # NoEntry
                 PROVE  i <= tokenEntries'[k].token
      BY <1>6 DEF NewestCached
    <2>1. CASE k = key /\ entry # NoEntry
      <3>1. tokenEntries'[k] = entry
        BY <2>1, <1>7, <1>9
      <3>2. flights[i].key = key
        BY <2>1, <1>2, <1>6
      <3> QED
        BY <2>1, <3>1, <3>2, <1>3, <1>4
    <2>2. CASE k # key \/ entry = NoEntry
      <3>1. tokenEntries'[k] = tokenEntries[k]
        BY <2>2, <1>7, <1>9
      <3>2. i # own
        BY <2>2, <1>6
      <3> QED
        BY <3>1, <3>2, <1>6 DEF CacheInv, NewestCached
    <2> QED
      BY <2>1, <2>2
  <1> QED
    BY <1>10, <1>11, <1>12 DEF CacheInv

(* Dropping entries makes the cache no older.                              *)
LEMMA EnvironmentCacheInv ==
  ASSUME TypeOK, CacheInv, Environment
  PROVE  CacheInv'
  <1>1. /\ UNCHANGED <<flights, tokenCall>>
        /\ \A k \in Keys : tokenEntries'[k] \in {tokenEntries[k], NoEntry}
    BY DEF Environment, InvalidateAuth, ShutdownTokens, Configure, Tick, TypeOK
  <1>2. FlightOutcome' /\ \A c \in Callers : CallOutcome(c)'
    BY <1>1 DEF CacheInv, FlightOutcome, CallOutcome
  <1>3. NewestCached'
    BY <1>1 DEF CacheInv, NewestCached
  <1> QED
    BY <1>2, <1>3 DEF CacheInv

LEMMA NextCacheInv ==
  ASSUME TypeOK, FlightInv, CacheInv, TokenStep
  PROVE  CacheInv'
  <1>1. ASSUME NEW c \in Callers, Hit(c) PROVE CacheInv'
    <2>1. /\ UNCHANGED <<tokenEntries, flights>>
          /\ \A d \in Callers \ {c} : tokenCall'[d] = tokenCall[d]
      BY <1>1 DEF Hit, Goto, TypeOK
    <2> QED
      BY <1>1, <2>1, HitOutcome, FrameCacheInv
  <1>2. ASSUME NEW c \in Callers, Wake(c) PROVE CacheInv'
    <2>1. /\ UNCHANGED <<tokenEntries, flights>>
          /\ \A d \in Callers \ {c} : tokenCall'[d] = tokenCall[d]
      BY <1>2 DEF Wake, Goto, TypeOK
    <2> QED
      BY <1>2, <2>1, WakeOutcome, FrameCacheInv
  <1>3. ASSUME NEW c \in Callers, NEW reply \in Replies, Answer(c, reply)
        PROVE  CacheInv'
    <2>1. /\ UNCHANGED <<tokenEntries, flights>>
          /\ \A d \in Callers \ {c} : tokenCall'[d] = tokenCall[d]
      BY <1>3 DEF Answer, Goto, TypeOK
    <2> QED
      BY <1>3, <2>1, AnswerOutcome, FrameCacheInv
  <1>4. ASSUME NEW c \in Callers, Join(c) \/ Send(c) \/ AnswerError(c) \/ Return(c)
        PROVE  CacheInv'
    <2>1. /\ UNCHANGED <<tokenEntries, flights>>
          /\ \A d \in Callers \ {c} : tokenCall'[d] = tokenCall[d]
      BY <1>4 DEF Join, Send, AnswerError, Return, Goto, TypeOK
    <2>2. \/ tokenCall'[c].pc \notin {"publish", "done"}
          \/ tokenCall'[c].entry = NoEntry
      BY <1>4 DEF Join, Send, AnswerError, Return, Goto, TypeOK, IdleCall
    <2> QED
      BY <2>1, <2>2, FrameCacheInv DEF CallOutcome
  <1>5. ASSUME NEW c \in Callers, NEW auth, NEW cred, Begin(c, auth, cred)
        PROVE  CacheInv'
    <2>1. /\ UNCHANGED <<tokenEntries, flights>>
          /\ \A d \in Callers \ {c} : tokenCall'[d] = tokenCall[d]
          /\ tokenCall'[c].pc = "lookup"
      BY <1>5 DEF Begin, TypeOK
    <2> QED
      BY <2>1, FrameCacheInv DEF CallOutcome
  <1> QED
    BY <1>1, <1>2, <1>3, <1>4, <1>5, LeadCacheInv, PublishCacheInv,
       EnvironmentCacheInv DEF TokenStep, Step, Inside

-----------------------------------------------------------------------------
(* The strengthening is an invariant, of this module and of others that    *)
(* take its steps.                                                         *)
LEMMA StepCache ==
  ASSUME TypeOK, FlightInv, CacheInv, [TokenStep]_tokenVars
  PROVE  CacheInv'
  <1>1. CASE UNCHANGED tokenVars
    BY <1>1 DEF tokenVars, CacheInv, FlightOutcome, CallOutcome, NewestCached
  <1> QED
    BY <1>1, NextCacheInv

THEOREM CacheCorrect == Spec => []CacheInv
  <1>1. TypeOK /\ FlightInv /\ CacheInv /\ [Next]_tokenVars => CacheInv'
    BY StepCache, NextIsTokenStep
  <1> QED
    BY <1>1, InitCacheInv, FlightsCorrect, PTL DEF Spec

LEMMA CacheNewest == CacheInv => NewestCached /\ ForeignOnlyByJoin
  BY DEF CacheInv, CallOutcome, ForeignOnlyByJoin

(* The cache never goes back to an older token (token.go:70-76): an        *)
(* exchange publishes while it is the newest of its key.                   *)
THEOREM NewestCachedHolds == Spec => []NewestCached
  BY CacheNewest, CacheCorrect, PTL

(* A token of another credential comes only through a flight shared under  *)
(* a host auth id (token.go:49, 54): the cache compares fingerprints, and  *)
(* without an auth id the key of the flight is the fingerprint.            *)
THEOREM ForeignOnlyByJoinHolds == Spec => []ForeignOnlyByJoin
  BY CacheNewest, CacheCorrect, PTL

-----------------------------------------------------------------------------
(* CopilotToken implements SharedExchange: the registered flights are the  *)
(* running exchanges, and the one step in which a leader publishes answers *)
(* everyone attached, although the waiters wake later, one by one.         *)

(* The refinement mapping, by name.                                        *)

CacheBar == [k \in Keys |-> tokenEntries[k].token]
RunningBar == {k \in Keys : tokenInflight[k] # 0}
RequestBar == [c \in Callers |-> RequestOf(c)]

Answered(token) == [stage |-> "answered", token |-> token]
Asking(key) == [stage |-> "asking", key |-> key]
AttachedTo(key) == [stage |-> "attached", key |-> key]

(* What a caller is doing, by where its frame stands.                      *)
LEMMA RequestCases ==
  ASSUME TypeOK, NEW c \in Callers
  PROVE  /\ tokenCall[c].pc = "idle" => RequestOf(c) = [stage |-> "idle"]
         /\ tokenCall[c].pc = "lookup" => RequestOf(c) = Asking(CallKey(c))
         /\ tokenCall[c].pc = "done" => RequestOf(c) = Answered(tokenCall[c].entry.token)
         /\ Leading(c) => RequestOf(c) = AttachedTo(CallKey(c))
         /\ tokenCall[c].pc = "wait" =>
              RequestOf(c) = IF flights[tokenCall[c].flight].done
                             THEN Answered(flights[tokenCall[c].flight].entry.token)
                             ELSE AttachedTo(CallKey(c))
         /\ tokenCall[c].pc \in {"idle", "lookup", "wait", "exchange", "sent",
                                 "publish", "done"}
  BY DEF TypeOK, RequestOf, Answered, Asking, AttachedTo, Leading, ActiveCall, IdleCall

(* Of a caller whose frame stays, while its flight is as it was.           *)
LEMMA RequestStays ==
  ASSUME TypeOK, FlightHeld, NEW d \in Callers, tokenCall'[d] = tokenCall[d],
         \A i \in 1..Len(flights) : flights'[i] = flights[i]
  PROVE  RequestOf(d)' = RequestOf(d)
  <1>1. tokenCall[d].pc = "wait" => tokenCall[d].flight \in 1..Len(flights)
    BY DEF FlightHeld, Attached
  <1> QED
    BY <1>1 DEF RequestOf, CallKey

(* One caller moves and the others stay.                                   *)
LEMMA RequestMoves ==
  ASSUME TypeOK, FlightHeld, NEW c \in Callers, NEW value,
         \A d \in Callers : d # c => tokenCall'[d] = tokenCall[d],
         \A i \in 1..Len(flights) : flights'[i] = flights[i],
         RequestOf(c)' = value
  PROVE  RequestBar' = [RequestBar EXCEPT ![c] = value]
  <1>1. \A d \in Callers : d # c => RequestOf(d)' = RequestOf(d)
    BY RequestStays
  <1> QED
    BY <1>1 DEF RequestBar

LEMMA FrameMoves ==
  ASSUME TypeOK, NEW c \in Callers, NEW pc, NEW flight, NEW entry, Goto(c, pc, flight, entry)
  PROVE  /\ tokenCall'[c].pc = pc /\ tokenCall'[c].flight = flight
         /\ tokenCall'[c].entry = entry
         /\ CallKey(c)' = CallKey(c)
         /\ \A d \in Callers : d # c => tokenCall'[d] = tokenCall[d]
  BY DEF TypeOK, Goto, CallKey

-----------------------------------------------------------------------------
(* One lemma for each step that the callers of SharedExchange see.         *)

LEMMA BeginAsks ==
  ASSUME TypeOK, TypeOK', FlightInv, NEW c \in Callers,
         NEW auth \in Auths \cup {NoAuth}, NEW cred \in Credentials, Begin(c, auth, cred)
  PROVE  Shared!Ask(c, KeyOf(auth, cred)) /\ KeyOf(auth, cred) \in Keys
  <1>1. RequestOf(c) = [stage |-> "idle"]
    BY RequestCases DEF Begin
  <1>2. /\ tokenCall'[c].pc = "lookup" /\ CallKey(c)' = KeyOf(auth, cred)
        /\ \A d \in Callers : d # c => tokenCall'[d] = tokenCall[d]
        /\ UNCHANGED <<tokenEntries, tokenInflight, flights>>
    BY DEF Begin, TypeOK, CallKey
  <1>3. RequestOf(c)' = Asking(KeyOf(auth, cred))
    BY <1>2 DEF RequestOf, Asking
  <1>4. RequestBar' = [RequestBar EXCEPT ![c] = Asking(KeyOf(auth, cred))]
    BY <1>2, <1>3, RequestMoves DEF FlightInv
  <1> QED
    BY <1>1, <1>2, <1>4, KeyOfType
       DEF Shared!Ask, Shared!Idle, Shared!Asking, Asking, RequestBar

LEMMA HitServes ==
  ASSUME TypeOK, FlightInv, NEW c \in Callers, Hit(c)
  PROVE  \E key \in Keys : Shared!Serve(c, key)
  <1>1. CallKey(c) \in Keys /\ RequestOf(c) = Asking(CallKey(c))
    BY ActiveKey, RequestCases DEF Hit
  <1>2. CacheBar[CallKey(c)] = tokenEntries[CallKey(c)].token
        /\ tokenEntries[CallKey(c)].token # 0
    BY <1>1, EntryTokens DEF Hit, CacheHit, CacheBar, TypeOK
  <1>3. /\ tokenCall'[c].pc = "done" /\ tokenCall'[c].entry = tokenEntries[CallKey(c)]
        /\ \A d \in Callers : d # c => tokenCall'[d] = tokenCall[d]
    BY FrameMoves DEF Hit
  <1>4. RequestOf(c)' = Answered(tokenEntries[CallKey(c)].token)
    BY <1>3 DEF RequestOf, Answered
  <1>5. RequestBar' = [RequestBar EXCEPT ![c] = Answered(CacheBar[CallKey(c)])]
    BY <1>2, <1>3, <1>4, RequestMoves DEF FlightInv, Hit
  <1>6. PICK key \in Keys : key = CallKey(c)
    BY <1>1
  <1>7. Shared!Serve(c, key)
    BY <1>1, <1>2, <1>5, <1>6
       DEF Hit, Shared!Serve, Shared!Asking, Shared!Answered, Asking, Answered,
           RequestBar, CacheBar
  <1> QED
    BY <1>7

LEMMA JoinAttaches ==
  ASSUME TypeOK, FlightInv, NEW c \in Callers, Join(c)
  PROVE  \E key \in Keys : Shared!Attach(c, key)
  <1>1. CallKey(c) \in Keys /\ RequestOf(c) = Asking(CallKey(c))
    BY ActiveKey, RequestCases DEF Join
  <1>2. /\ tokenCall'[c].pc = "wait" /\ tokenCall'[c].flight = tokenInflight[CallKey(c)]
        /\ CallKey(c)' = CallKey(c)
        /\ \A d \in Callers : d # c => tokenCall'[d] = tokenCall[d]
    BY FrameMoves DEF Join
  <1>3. ~flights[tokenInflight[CallKey(c)]].done
    BY <1>1 DEF Join, FlightInv, RegisteredOpen
  <1>4. RequestOf(c)' = AttachedTo(CallKey(c))
    BY <1>2, <1>3 DEF Join, RequestOf, AttachedTo
  <1>5. RequestBar' = [RequestBar EXCEPT ![c] = AttachedTo(CallKey(c))]
    BY <1>2, <1>4, RequestMoves DEF FlightInv, Join
  <1>6. CallKey(c) \in RunningBar /\ RunningBar' = RunningBar \cup {CallKey(c)}
    BY <1>1 DEF Join, RunningBar
  <1>7. PICK key \in Keys : key = CallKey(c)
    BY <1>1
  <1>8. Shared!Attach(c, key)
    BY <1>1, <1>5, <1>6, <1>7
       DEF Join, Shared!Attach, Shared!Asking, Shared!Attached, Asking, AttachedTo,
           RequestBar, RunningBar
  <1> QED
    BY <1>8

LEMMA LeadAttaches ==
  ASSUME TypeOK, FlightInv, NEW c \in Callers, Lead(c)
  PROVE  \E key \in Keys : Shared!Attach(c, key)
  <1>1. CallKey(c) \in Keys /\ RequestOf(c) = Asking(CallKey(c))
    BY ActiveKey, RequestCases DEF Lead
  <1>2. /\ tokenCall'[c].pc = "exchange" /\ CallKey(c)' = CallKey(c)
        /\ \A d \in Callers : d # c => tokenCall'[d] = tokenCall[d]
    BY FrameMoves DEF Lead
  <1>3. \A i \in 1..Len(flights) : flights'[i] = flights[i]
    BY DEF Lead, TypeOK
  <1>4. RequestOf(c)' = AttachedTo(CallKey(c))
    BY <1>2 DEF RequestOf, AttachedTo
  <1>5. RequestBar' = [RequestBar EXCEPT ![c] = AttachedTo(CallKey(c))]
    BY <1>2, <1>3, <1>4, RequestMoves DEF FlightInv
  <1>6. RunningBar' = RunningBar \cup {CallKey(c)}
    BY <1>1 DEF Lead, RunningBar, TypeOK
  <1>7. PICK key \in Keys : key = CallKey(c)
    BY <1>1
  <1>8. Shared!Attach(c, key)
    BY <1>1, <1>5, <1>6, <1>7
       DEF Lead, Shared!Attach, Shared!Asking, Shared!Attached, Asking, AttachedTo,
           RequestBar, RunningBar
  <1> QED
    BY <1>8

(* The leader and every waiter of its flight are answered at once; nobody  *)
(* else is attached to the key.                                            *)
LEMMA PublishFinishes ==
  ASSUME TypeOK, FlightInv, NEW c \in Callers, Publish(c)
  PROVE  \E k \in Keys, token \in (1..MaxFlights) \cup {0} : Shared!Finish(k, token)
  <1> DEFINE key == CallKey(c)
             own == tokenCall[c].flight
             entry == tokenCall[c].entry
  <1>1. /\ Leading(c) /\ Attached(c) /\ key \in Keys
        /\ tokenCall[c] \in ActiveCall /\ entry \in Entry \cup {NoEntry}
    BY ActiveKey DEF Publish, Leading, Attached, ActiveCall
  <1>2. own \in 1..Len(flights) /\ tokenInflight[key] = own /\ own # 0
        /\ flights[own].key = key /\ ~flights[own].done
    BY <1>1 DEF FlightInv, FlightHeld, LeaderRegistered, RegisteredOpen
  <1>3. /\ tokenCall'[c].pc = "done" /\ tokenCall'[c].entry = entry
        /\ \A d \in Callers : d # c => tokenCall'[d] = tokenCall[d]
    BY FrameMoves DEF Publish
  <1>4. /\ flights'[own].done /\ flights'[own].entry = entry
        /\ \A i \in 1..Len(flights) : i # own => flights'[i] = flights[i]
    BY <1>2 DEF Publish, FlightDone, TypeOK
  <1>5. RequestOf(c) = AttachedTo(key) /\ RequestOf(c)' = Answered(entry.token)
    BY <1>1, <1>3, RequestCases DEF RequestOf, Answered
  <1>6. ASSUME NEW d \in Callers, d # c
        PROVE  RequestOf(d)' = IF RequestOf(d) = AttachedTo(key) THEN Answered(entry.token)
                               ELSE RequestOf(d)
    <2>1. tokenCall'[d] = tokenCall[d] /\ CallKey(d)' = CallKey(d)
      BY <1>3, <1>6 DEF CallKey
    <2>2. CASE tokenCall[d].pc = "wait" /\ tokenCall[d].flight = own
      <3>1. CallKey(d) = key
        BY <1>2, <2>2 DEF FlightInv, FlightHeld, Attached
      <3>2. RequestOf(d) = AttachedTo(key)
        BY <1>2, <2>2, <3>1, RequestCases
      <3>3. RequestOf(d)' = Answered(entry.token)
        BY <1>4, <2>1, <2>2 DEF RequestOf, Answered
      <3> QED
        BY <3>2, <3>3
    <2>3. CASE tokenCall[d].pc = "wait" /\ tokenCall[d].flight # own
      <3>1. tokenCall[d].flight \in 1..Len(flights)
        BY <2>3 DEF FlightInv, FlightHeld, Attached
      <3>2. RequestOf(d)' = RequestOf(d)
        BY <1>4, <2>1, <2>3, <3>1 DEF RequestOf
      <3>3. CallKey(d) = key => flights[tokenCall[d].flight].done
        BY <1>2, <2>3 DEF FlightInv, WaitedRegistered
      <3>4. RequestOf(d) # AttachedTo(key)
        BY <2>3, <3>3, RequestCases DEF Answered, AttachedTo
      <3> QED
        BY <3>2, <3>4
    <2>4. CASE tokenCall[d].pc # "wait"
      <3>1. RequestOf(d)' = RequestOf(d)
        BY <2>1, <2>4 DEF RequestOf
      <3>2. Leading(d) => CallKey(d) # key
        BY <1>1, <1>2, <1>6 DEF FlightInv, LeaderRegistered
      <3>3. RequestOf(d) # AttachedTo(key)
        BY <2>4, <3>2, RequestCases DEF Answered, Asking, AttachedTo, Leading
      <3> QED
        BY <3>1, <3>3
    <2> QED
      BY <2>2, <2>3, <2>4
  <1>7. RequestBar' = [d \in Callers |->
                         IF RequestBar[d] = AttachedTo(key) THEN Answered(entry.token)
                         ELSE RequestBar[d]]
    BY <1>5, <1>6 DEF RequestBar
  <1>8. RunningBar' = RunningBar \ {key} /\ key \in RunningBar
    BY <1>1, <1>2 DEF Publish, Unregister, RunningBar, TypeOK
  <1>9. entry.token \in (1..MaxFlights) \cup {0} /\ (entry.token = 0 <=> entry = NoEntry)
    BY <1>1, EntryTokens
  <1>10. CacheBar' = IF entry.token = 0 THEN CacheBar
                     ELSE [CacheBar EXCEPT ![key] = entry.token]
    BY <1>1, <1>9 DEF Publish, CacheBar, TypeOK
  <1>11. PICK k \in Keys, token \in (1..MaxFlights) \cup {0} :
           k = key /\ token = entry.token
    BY <1>1, <1>9
  <1>12. Shared!Finish(k, token)
    BY <1>7, <1>8, <1>10, <1>11
       DEF Shared!Finish, Shared!Attached, Shared!Answered, AttachedTo, Answered,
           RequestBar, RunningBar, CacheBar
  <1> QED
    BY <1>12

(* The call was answered already, whether it led or waited.                *)
LEMMA ReturnReturns ==
  ASSUME TypeOK, FlightInv, NEW c \in Callers, Return(c)
  PROVE  Shared!Return(c)
  <1>1. RequestOf(c) = Answered(tokenCall[c].entry.token)
    BY RequestCases DEF Return
  <1>2. /\ tokenCall'[c] = IdleCall
        /\ \A d \in Callers : d # c => tokenCall'[d] = tokenCall[d]
    BY DEF Return, TypeOK
  <1>3. RequestOf(c)' = [stage |-> "idle"]
    BY <1>2 DEF RequestOf, IdleCall
  <1>4. RequestBar' = [RequestBar EXCEPT ![c] = [stage |-> "idle"]]
    BY <1>2, <1>3, RequestMoves DEF FlightInv, Return
  <1>5. RequestBar[c].stage = "answered"
    BY <1>1 DEF RequestBar, Answered
  <1> QED
    BY <1>4, <1>5 DEF Return, Shared!Return, Shared!Idle, RequestBar

-----------------------------------------------------------------------------
(* The steps that the callers of SharedExchange do not see.                *)

Unseen == UNCHANGED <<CacheBar, RunningBar, RequestBar>>

LEMMA LeaderStepUnseen ==
  ASSUME TypeOK, TypeOK', FlightInv, NEW c \in Callers,
         Send(c) \/ (\E reply \in Replies : Answer(c, reply)) \/ AnswerError(c)
  PROVE  Unseen
  <1>1. /\ tokenCall[c].pc \in {"exchange", "sent"}
        /\ tokenCall'[c].pc \in {"sent", "publish"} /\ CallKey(c)' = CallKey(c)
        /\ \A d \in Callers : d # c => tokenCall'[d] = tokenCall[d]
        /\ UNCHANGED <<tokenEntries, tokenInflight, flights>>
    <2>1. CASE Send(c)
      BY <2>1 DEF Send, TypeOK, CallKey
    <2>2. CASE \E reply \in Replies : Answer(c, reply)
      BY <2>2, FrameMoves DEF Answer
    <2>3. CASE AnswerError(c)
      BY <2>3, FrameMoves DEF AnswerError
    <2> QED
      BY <2>1, <2>2, <2>3
  <1>2. RequestOf(c) = AttachedTo(CallKey(c)) /\ RequestOf(c)' = AttachedTo(CallKey(c))
    BY <1>1, RequestCases DEF Leading, RequestOf, AttachedTo
  <1>3. RequestBar' = [RequestBar EXCEPT ![c] = RequestBar[c]]
    BY <1>1, <1>2, RequestMoves DEF FlightInv, RequestBar
  <1>4. RequestBar' = RequestBar
    BY <1>3 DEF RequestBar
  <1> QED
    BY <1>1, <1>4 DEF Unseen, CacheBar, RunningBar

(* The waiter was answered when its flight was.                            *)
LEMMA WakeUnseen ==
  ASSUME TypeOK, FlightInv, NEW c \in Callers, Wake(c)
  PROVE  Unseen
  <1>1. RequestOf(c) = Answered(flights[tokenCall[c].flight].entry.token)
    BY RequestCases DEF Wake
  <1>2. /\ tokenCall'[c].pc = "done"
        /\ tokenCall'[c].entry = flights[tokenCall[c].flight].entry
        /\ \A d \in Callers : d # c => tokenCall'[d] = tokenCall[d]
    BY FrameMoves DEF Wake
  <1>3. RequestOf(c)' = RequestOf(c)
    BY <1>1, <1>2 DEF RequestOf, Answered
  <1>4. RequestBar' = [RequestBar EXCEPT ![c] = RequestBar[c]]
    BY <1>2, <1>3, RequestMoves DEF FlightInv, RequestBar, Wake
  <1>5. RequestBar' = RequestBar
    BY <1>4 DEF RequestBar
  <1> QED
    BY <1>5 DEF Wake, Unseen, CacheBar, RunningBar

LEMMA FramesUnseen ==
  ASSUME UNCHANGED <<tokenEntries, tokenInflight, flights, tokenCall>>
  PROVE  Unseen
  <1>1. \A c \in Callers : RequestOf(c)' = RequestOf(c)
    BY DEF RequestOf, CallKey
  <1> QED
    BY <1>1 DEF Unseen, CacheBar, RunningBar, RequestBar

(* A 401 drops the entry of one auth id, Shutdown drops them all.          *)
LEMMA InvalidateForgets ==
  ASSUME TypeOK, NEW auth \in Auths \cup {NoAuth}, InvalidateAuth(auth)
  PROVE  Shared!Forget
  <1>1. \A c \in Callers : RequestOf(c)' = RequestOf(c)
    BY DEF InvalidateAuth, RequestOf, CallKey
  <1>2. RequestBar' = RequestBar /\ RunningBar' = RunningBar
    BY <1>1 DEF InvalidateAuth, RequestBar, RunningBar
  <1>3. CacheBar' = [k \in Keys |-> IF k \in {auth} \ {NoAuth} THEN 0 ELSE CacheBar[k]]
    BY AuthAssumption DEF InvalidateAuth, CacheBar, TypeOK, NoEntry, Keys
  <1>4. {auth} \ {NoAuth} \in SUBSET Keys
    BY DEF Keys
  <1> QED
    BY <1>2, <1>3, <1>4 DEF Shared!Forget, RequestBar, RunningBar, CacheBar

LEMMA ShutdownForgets ==
  ASSUME TypeOK, ShutdownTokens
  PROVE  Shared!Forget
  <1>1. \A c \in Callers : RequestOf(c)' = RequestOf(c)
    BY DEF ShutdownTokens, RequestOf, CallKey
  <1>2. RequestBar' = RequestBar /\ RunningBar' = RunningBar
    BY <1>1 DEF ShutdownTokens, RequestBar, RunningBar
  <1>3. CacheBar' = [k \in Keys |-> IF k \in Keys THEN 0 ELSE CacheBar[k]]
    BY DEF ShutdownTokens, CacheBar, NoEntry
  <1> QED
    BY <1>2, <1>3 DEF Shared!Forget, RequestBar, RunningBar, CacheBar

-----------------------------------------------------------------------------
(* Every step of the cache is a step of SharedExchange or unseen.          *)

LEMMA CallImplements ==
  ASSUME TypeOK, TypeOK', FlightInv, NEW c \in Callers, Step(c)
  PROVE  Shared!Next \/ Unseen
  <1>1. CASE Hit(c)
    BY <1>1, HitServes DEF Shared!Next
  <1>2. CASE Join(c)
    BY <1>2, JoinAttaches DEF Shared!Next
  <1>3. CASE Lead(c)
    BY <1>3, LeadAttaches DEF Shared!Next
  <1>4. CASE Send(c) \/ (\E reply \in Replies : Answer(c, reply)) \/ AnswerError(c)
    BY <1>4, LeaderStepUnseen
  <1>5. CASE Publish(c)
    BY <1>5, PublishFinishes DEF Shared!Next
  <1>6. CASE Wake(c)
    BY <1>6, WakeUnseen
  <1>7. CASE Return(c)
    BY <1>7, ReturnReturns DEF Shared!Next
  <1> QED
    BY <1>1, <1>2, <1>3, <1>4, <1>5, <1>6, <1>7 DEF Step, Inside

LEMMA StepImplements ==
  ASSUME TypeOK, TypeOK', FlightInv, [TokenStep]_tokenVars
  PROVE  [Shared!Next]_(Shared!vars)
  <1>1. ASSUME NEW c \in Callers, Step(c)
        PROVE  Shared!Next \/ Unseen
    BY <1>1, CallImplements
  <1>2. ASSUME NEW c \in Callers, NEW auth \in Auths \cup {NoAuth},
               NEW cred \in Credentials, Begin(c, auth, cred)
        PROVE  Shared!Next
    BY <1>2, BeginAsks DEF Shared!Next
  <1>3. ASSUME NEW auth \in Auths \cup {NoAuth}, InvalidateAuth(auth)
        PROVE  Shared!Next
    BY <1>3, InvalidateForgets DEF Shared!Next
  <1>4. ASSUME ShutdownTokens
        PROVE  Shared!Next
    BY <1>4, ShutdownForgets DEF Shared!Next
  <1>5. ASSUME NEW cfg \in Configs, Configure(cfg)
        PROVE  Unseen
    BY <1>5, FramesUnseen DEF Configure
  <1>6. ASSUME Tick
        PROVE  Unseen
    BY <1>6, FramesUnseen DEF Tick
  <1>7. ASSUME UNCHANGED tokenVars
        PROVE  Unseen
    BY <1>7, FramesUnseen DEF tokenVars
  <1>8. Shared!Next \/ Unseen
    BY <1>1, <1>2, <1>3, <1>4, <1>5, <1>6, <1>7 DEF TokenStep, Environment
  <1> QED
    BY <1>8 DEF Unseen, Shared!vars, CacheBar, RunningBar, RequestBar

LEMMA InitImplements ==
  ASSUME Init
  PROVE  Shared!Init
  BY DEF Init, NoEntry, IdleCall, RequestOf, Shared!Init, Shared!Idle

(* copilotToken keeps the promise of SharedExchange (token.go:38-80): the  *)
(* locks, the channel and the staggered wake-ups are invisible, and every  *)
(* caller that joined an exchange gets the outcome of that exchange.       *)
THEOREM ImplementsSharedExchangeHolds == Spec => ImplementsSharedExchange
  <1>1. Init => Shared!Init
    BY InitImplements
  <1>2. TypeOK /\ TypeOK' /\ FlightInv /\ [Next]_tokenVars
          => [Shared!Next]_(Shared!vars)
    BY StepImplements, NextIsTokenStep
  <1>3. Spec => []TypeOK /\ []FlightInv
    BY FlightsCorrect
  <1> QED
    BY <1>1, <1>2, <1>3, PTL DEF Spec, ImplementsSharedExchange, Shared!Spec

=============================================================================
