---------------------------- MODULE CopilotToken ----------------------------
(***************************************************************************)
(* The Copilot token cache of internal/provider/token.go: many goroutines  *)
(* (one per host callback) call copilotToken; a call is served from        *)
(* tokenEntries, joins the exchange in flight for its key, or leads an     *)
(* exchange of its own.  Every critical section of tokenMu is one action;  *)
(* what the code does outside the lock (reading the configuration and the  *)
(* clock, sending the exchange, receiving its answer) is an action apart,  *)
(* so every interleaving of the unlocked parts is explored.                *)
(*                                                                         *)
(* A token is named by the number of the flight that obtained it: a later  *)
(* exchange yields a different token.  0 is the empty token.               *)
(***************************************************************************)
EXTENDS Integers, FiniteSets, Sequences

CONSTANTS Callers,         \* goroutines inside copilotToken
          Auths,           \* host auth ids that survive TrimSpace
          NoAuth,          \* the blank auth id
          Credentials,     \* GitHub OAuth access tokens
          Configs,         \* configurations: [apiURL, buffer, insecure]
          Replies,         \* decoded 2xx exchange bodies:
                           \*   [expiresAt, exp, refreshIn, api]
          InsecureURLs,    \* API endpoints whose scheme is http
          MaxTime,         \* bound on the clock
          MaxFlights       \* bound on the exchanges of a behaviour

(* A host auth id is never the SHA-256 of a credential. *)
ASSUME AuthAssumption ==
  NoAuth \notin Auths /\ \A cred \in Credentials : <<"sha256", cred>> \notin Auths
ASSUME FlightAssumption == MaxFlights \in Nat
ASSUME ConfigAssumption ==
  \A cfg \in Configs : cfg.buffer \in Nat /\ cfg.insecure \in BOOLEAN
ASSUME ReplyAssumption ==
  \A r \in Replies : {r.expiresAt, r.exp, r.refreshIn} \subseteq Nat

VARIABLES now,             \* s.now()
          config,          \* s.config, guarded by configMu
          tokenEntries,    \* s.tokenEntries; NoEntry where the map has no key
          tokenInflight,   \* s.tokenInflight; 0 where the map has no key
          flights,         \* every tokenFlight ever allocated, in order
          tokenCall        \* the stack frame of each caller in copilotToken

tokenVars == <<now, config, tokenEntries, tokenInflight, flights, tokenCall>>

-----------------------------------------------------------------------------
(* Data. *)

DefaultLifetime == 2       \* now.Add(20 * time.Minute), in ticks

NoURL == ""

(* SHA-256 of the GitHub token: distinct credentials, distinct prints. *)
Fingerprint(cred) == <<"sha256", cred>>
Fingerprints == {Fingerprint(cred) : cred \in Credentials}
NoFingerprint == <<>>

Keys == Auths \cup Fingerprints

(* authID when it is not blank, else the credential's fingerprint. *)
KeyOf(auth, cred) == IF auth = NoAuth THEN Fingerprint(cred) ELSE auth

(* copilotTokenEntry{}: what copilotToken returns beside an error. *)
NoEntry == [token |-> 0, apiURL |-> NoURL, expiresAt |-> 0,
            fingerprint |-> NoFingerprint]

IdleCall == [pc |-> "idle"]
CallKey(c) == KeyOf(tokenCall[c].auth, tokenCall[c].cred)

(* The frame of c moves on; the arguments and what it read stay.           *)
Goto(c, pc, flight, entry) ==
  tokenCall' = [tokenCall EXCEPT ![c] =
    [pc |-> pc, auth |-> tokenCall[c].auth, cred |-> tokenCall[c].cred,
     cfg |-> tokenCall[c].cfg, now |-> tokenCall[c].now,
     flight |-> flight, entry |-> entry]]

(* expires_at, else the exp= part of the token, else refresh_in, else 20m. *)
TokenExpiry(reply, at) ==
  IF reply.expiresAt > 0 THEN reply.expiresAt
  ELSE IF reply.exp > 0 THEN reply.exp
  ELSE at + IF reply.refreshIn > 0 THEN reply.refreshIn ELSE DefaultLifetime

CopilotAPIBase(reply, cfg) ==
  IF reply.api = NoURL THEN cfg.apiURL ELSE reply.api

ValidAPIBase(url, cfg) == url \in InsecureURLs => cfg.insecure

-----------------------------------------------------------------------------
(* Variants of the definitions below, each with a seeded fault. *)

CacheHitOfAnyCredential(c) ==
  /\ tokenEntries[CallKey(c)] # NoEntry
  /\ tokenEntries[CallKey(c)].expiresAt
       > tokenCall[c].now + tokenCall[c].cfg.buffer

ClearInflightToo ==
  /\ tokenEntries' = [k \in Keys |-> NoEntry]
  /\ tokenInflight' = [k \in Keys |-> 0]
  /\ UNCHANGED <<now, config, flights, tokenCall>>

FlightDoneOnSuccessOnly(entry) == entry # NoEntry

EntryWithoutFingerprint(c, reply) ==
  [token |-> tokenCall[c].flight,
   apiURL |-> CopilotAPIBase(reply, tokenCall[c].cfg),
   expiresAt |-> TokenExpiry(reply, now), fingerprint |-> NoFingerprint]

KeepInflight(key) == UNCHANGED tokenInflight

-----------------------------------------------------------------------------
Init ==
  /\ now = 0
  /\ config \in Configs
  /\ tokenEntries = [k \in Keys |-> NoEntry]
  /\ tokenInflight = [k \in Keys |-> 0]
  /\ flights = <<>>
  /\ tokenCall = [c \in Callers |-> IdleCall]

(* copilotToken is called: it reads the configuration and the clock before *)
(* it takes tokenMu.                                                       *)
Begin(c, auth, cred) ==
  /\ tokenCall[c].pc = "idle"
  /\ tokenCall' = [tokenCall EXCEPT ![c] =
       [pc |-> "lookup", auth |-> auth, cred |-> cred, cfg |-> config,
        now |-> now, flight |-> 0, entry |-> NoEntry]]
  /\ UNCHANGED <<now, config, tokenEntries, tokenInflight, flights>>

(* The cached entry was fetched with this very credential and outlives the *)
(* call's own reading of the clock by the expiry buffer.                   *)
CacheHit(c) ==
  /\ tokenEntries[CallKey(c)] # NoEntry
  /\ tokenEntries[CallKey(c)].fingerprint = Fingerprint(tokenCall[c].cred)
  /\ tokenEntries[CallKey(c)].expiresAt
       > tokenCall[c].now + tokenCall[c].cfg.buffer

Hit(c) ==
  /\ tokenCall[c].pc = "lookup"
  /\ CacheHit(c)
  /\ Goto(c, "done", 0, tokenEntries[CallKey(c)])
  /\ UNCHANGED <<now, config, tokenEntries, tokenInflight, flights>>

(* An exchange for the key is under way: wait for it.  The code does not   *)
(* look at whose credential it uses.                                       *)
Join(c) ==
  /\ tokenCall[c].pc = "lookup"
  /\ ~CacheHit(c)
  /\ tokenInflight[CallKey(c)] # 0
  /\ Goto(c, "wait", tokenInflight[CallKey(c)], NoEntry)
  /\ UNCHANGED <<now, config, tokenEntries, tokenInflight, flights>>

Lead(c) ==
  /\ tokenCall[c].pc = "lookup"
  /\ ~CacheHit(c)
  /\ tokenInflight[CallKey(c)] = 0
  /\ Len(flights) < MaxFlights            \* the bound: see WithinBudget
  /\ flights' = Append(flights, [key |-> CallKey(c), done |-> FALSE,
                                 entry |-> NoEntry])
  /\ tokenInflight' = [tokenInflight EXCEPT ![CallKey(c)] = Len(flights) + 1]
  /\ Goto(c, "exchange", Len(flights) + 1, NoEntry)
  /\ UNCHANGED <<now, config, tokenEntries>>

(* exchangeCopilotToken reads the configuration anew and calls the host.   *)
Send(c) ==
  /\ tokenCall[c].pc = "exchange"
  /\ tokenCall' = [tokenCall EXCEPT ![c] =
       [pc |-> "sent", auth |-> tokenCall[c].auth, cred |-> tokenCall[c].cred,
        cfg |-> config, now |-> tokenCall[c].now,
        flight |-> tokenCall[c].flight, entry |-> NoEntry]]
  /\ UNCHANGED <<now, config, tokenEntries, tokenInflight, flights>>

(* The entry a 2xx body yields; an unacceptable endpoint is an error.      *)
ExchangedEntry(c, reply) ==
  LET url == CopilotAPIBase(reply, tokenCall[c].cfg)
  IN  IF ~ValidAPIBase(url, tokenCall[c].cfg) THEN NoEntry
      ELSE [token |-> tokenCall[c].flight, apiURL |-> url,
            expiresAt |-> TokenExpiry(reply, now),
            fingerprint |-> Fingerprint(tokenCall[c].cred)]

Answer(c, reply) ==
  /\ tokenCall[c].pc = "sent"
  /\ Goto(c, "publish", tokenCall[c].flight, ExchangedEntry(c, reply))
  /\ UNCHANGED <<now, config, tokenEntries, tokenInflight, flights>>

(* The host call failed, the status was not 2xx, the body did not decode,  *)
(* or it held no token.                                                    *)
AnswerError(c) ==
  /\ tokenCall[c].pc = "sent"
  /\ Goto(c, "publish", tokenCall[c].flight, NoEntry)
  /\ UNCHANGED <<now, config, tokenEntries, tokenInflight, flights>>

FlightDone(entry) == TRUE
Unregister(key) == tokenInflight' = [tokenInflight EXCEPT ![key] = 0]

(* The leader's second critical section; close(done) releases the waiters. *)
Publish(c) ==
  LET call == tokenCall[c]
      key  == CallKey(c)
  IN  /\ call.pc = "publish"
      /\ flights' = [flights EXCEPT ![call.flight] =
           [key |-> key, done |-> FlightDone(call.entry), entry |-> call.entry]]
      /\ tokenEntries' = IF call.entry = NoEntry THEN tokenEntries
                         ELSE [tokenEntries EXCEPT ![key] = call.entry]
      /\ Unregister(key)
      /\ Goto(c, "done", call.flight, call.entry)
      /\ UNCHANGED <<now, config>>

(* A waiter wakes on done and returns the flight's outcome.                *)
Wake(c) ==
  /\ tokenCall[c].pc = "wait"
  /\ flights[tokenCall[c].flight].done
  /\ Goto(c, "done", tokenCall[c].flight,
          flights[tokenCall[c].flight].entry)
  /\ UNCHANGED <<now, config, tokenEntries, tokenInflight, flights>>

Return(c) ==
  /\ tokenCall[c].pc = "done"
  /\ tokenCall' = [tokenCall EXCEPT ![c] = IdleCall]
  /\ UNCHANGED <<now, config, tokenEntries, tokenInflight, flights>>

-----------------------------------------------------------------------------
(* What other parts of the service do to the cache.                        *)

(* Another call got a 401 with the token it holds for auth.  A blank auth  *)
(* id leaves the cache as it is.                                           *)
InvalidateAuth(auth) ==
  /\ tokenEntries' = IF auth = NoAuth THEN tokenEntries
                     ELSE [tokenEntries EXCEPT ![auth] = NoEntry]
  /\ UNCHANGED <<now, config, tokenInflight, flights, tokenCall>>

(* Service.Shutdown leaves the flights alone.                              *)
ShutdownTokens ==
  /\ tokenEntries' = [k \in Keys |-> NoEntry]
  /\ UNCHANGED <<now, config, tokenInflight, flights, tokenCall>>

Configure(cfg) ==
  /\ config' = cfg
  /\ UNCHANGED <<now, tokenEntries, tokenInflight, flights, tokenCall>>

Tick ==
  /\ now < MaxTime
  /\ now' = now + 1
  /\ UNCHANGED <<config, tokenEntries, tokenInflight, flights, tokenCall>>

(* The steps of a call from its lookup to its outcome.                     *)
Inside(c) ==
  \/ Hit(c) \/ Join(c) \/ Lead(c)
  \/ Send(c)
  \/ \E reply \in Replies : Answer(c, reply)
  \/ AnswerError(c)
  \/ Publish(c) \/ Wake(c)

Step(c) == Inside(c) \/ Return(c)

Environment ==
  \/ \E auth \in Auths \cup {NoAuth} : InvalidateAuth(auth)
  \/ ShutdownTokens
  \/ \E cfg \in Configs : Configure(cfg)
  \/ Tick

(* MaxFlights bounds the exchanges of a behaviour: each call in progress   *)
(* may still lead one, so a call begun is never held up by the bound.      *)
WithinBudget ==
  Len(flights) + Cardinality({c \in Callers : tokenCall[c].pc # "idle"}) < MaxFlights

Next ==
  \/ \E c \in Callers : Step(c)
  \/ WithinBudget /\ \E c \in Callers, auth \in Auths \cup {NoAuth}, cred \in Credentials :
       Begin(c, auth, cred)
  \/ Environment

Spec == Init /\ [][Next]_tokenVars

-----------------------------------------------------------------------------
(* Properties. *)

URLs == {NoURL} \cup {cfg.apiURL : cfg \in Configs} \cup {r.api : r \in Replies}
Entry == [token : 1..MaxFlights, apiURL : URLs, expiresAt : Nat,
          fingerprint : Fingerprints]
Flight == [key : Keys, done : BOOLEAN, entry : Entry \cup {NoEntry}]
ActiveCall == [pc : {"lookup", "wait", "exchange", "sent", "publish", "done"},
               auth : Auths \cup {NoAuth}, cred : Credentials, cfg : Configs,
               now : Nat, flight : Nat, entry : Entry \cup {NoEntry}]

(* The shape of the cache, of the flights and of the callers' frames.      *)
TypeOK ==
  /\ now \in Nat
  /\ config \in Configs
  /\ tokenEntries \in [Keys -> Entry \cup {NoEntry}]
  /\ tokenInflight \in [Keys -> 0..Len(flights)]
  /\ flights \in Seq(Flight) /\ Len(flights) <= MaxFlights
  /\ tokenCall \in [Callers -> ActiveCall \cup {IdleCall}]

Leading(c) == tokenCall[c].pc \in {"exchange", "sent", "publish"}

(* Single flight (token.go:54-66): whatever Shutdown, Configure and        *)
(* invalidateAuth do meanwhile, two goroutines never exchange a token for  *)
(* the same key at the same time.                                          *)
SingleFlight ==
  \A c, d \in Callers :
    Leading(c) /\ Leading(d) /\ CallKey(c) = CallKey(d) => c = d

(* No lost wake-up (token.go:57-62, 77): a goroutine waiting on a flight   *)
(* whose channel is still open has a goroutine that will close it.         *)
WaitersHaveLeader ==
  \A c \in Callers :
    tokenCall[c].pc = "wait" /\ ~flights[tokenCall[c].flight].done =>
      \E d \in Callers : Leading(d) /\ tokenCall[d].flight = tokenCall[c].flight

(* The cache never goes back (token.go:70-76): whenever a key has a token, *)
(* no later exchange for the key has already delivered another one, even   *)
(* when the entry was dropped and fetched again in between.                *)
NewestCached ==
  \A k \in Keys, i \in 1..Len(flights) :
    tokenEntries[k] # NoEntry /\ flights[i].key = k
      /\ flights[i].entry # NoEntry => i <= tokenEntries[k].token

(* A call returns a token of another GitHub credential only when it joined *)
(* a flight under a host auth id both credentials share (token.go:54 does  *)
(* not compare fingerprints); a cache hit and a call without auth id       *)
(* always use the caller's own credential.                                 *)
ForeignOnlyByJoin ==
  \A c \in Callers :
    /\ tokenCall[c].pc = "done"
    /\ tokenCall[c].entry # NoEntry
    /\ tokenCall[c].entry.fingerprint # Fingerprint(tokenCall[c].cred)
    => tokenCall[c].flight # 0 /\ tokenCall[c].auth # NoAuth

(* The cache and the flights implement an atomic broadcast: see            *)
(* SharedExchange.  A waiter whose flight is done has its answer already.  *)
RequestOf(c) ==
  LET call == tokenCall[c]
      answered == call.pc = "wait" /\ flights[call.flight].done
  IN  IF call.pc = "idle" THEN [stage |-> "idle"]
      ELSE IF call.pc = "lookup" THEN [stage |-> "asking", key |-> CallKey(c)]
      ELSE IF call.pc = "done" THEN
             [stage |-> "answered", token |-> call.entry.token]
      ELSE IF answered THEN
             [stage |-> "answered", token |-> flights[call.flight].entry.token]
      ELSE [stage |-> "attached", key |-> CallKey(c)]

Shared == INSTANCE SharedExchange WITH
  Tokens  <- 1..MaxFlights,
  cache   <- [k \in Keys |-> tokenEntries[k].token],
  running <- {k \in Keys : tokenInflight[k] # 0},
  request <- [c \in Callers |-> RequestOf(c)]

(* copilotToken (token.go:38-80) keeps the promise of SharedExchange.      *)
ImplementsSharedExchange == Shared!Spec

=============================================================================
