--------------------------- MODULE ExecutionProofs ---------------------------
(***************************************************************************)
(* Proofs about Execution for every set of callers, credentials, models,   *)
(* listings and configurations: the requests use the token cache only by   *)
(* its own steps, so everything proved of the cache holds under them, and  *)
(* a rejected token does not come back to the request that dropped it.     *)
(***************************************************************************)
EXTENDS Execution, CopilotTokenProofs

-----------------------------------------------------------------------------
(* The shapes.                                                             *)

LEMMA EntriesKnown ==
  ASSUME TypeOK, NEW c \in Callers, tokenCall[c].pc = "done"
  PROVE  Arrived(c) \in Entry \cup {NoEntry}
  BY ActiveKey DEF Arrived, ActiveCall

(* A frame that moves on keeps who asked, for what and what was rejected.  *)
LEMMA ProceedFrame ==
  ASSUME ExecTypeOK, NEW c \in Callers, NEW pc, NEW token, NEW models,
         Proceed(c, pc, token, models)
  PROVE  /\ request'[c].pc = pc /\ request'[c].token = token
         /\ request'[c].models = models
         /\ request'[c].kind = request[c].kind /\ request'[c].auth = request[c].auth
         /\ request'[c].cred = request[c].cred /\ request'[c].model = request[c].model
         /\ request'[c].at = request[c].at
         /\ request'[c].rejected = request[c].rejected
         /\ \A d \in Callers : d # c => request'[d] = request[d]
  BY DEF ExecTypeOK, Proceed

LEMMA WorkingFrame ==
  ASSUME ExecTypeOK, NEW c \in Callers, request[c].pc # "idle"
  PROVE  /\ request[c] \in Frames
         /\ request[c].auth \in Auths \cup {NoAuth} /\ request[c].cred \in Credentials
         /\ request[c].token \in Entry \cup {NoEntry} /\ request[c].models \in SUBSET Models
         /\ RequestKey(c) \in Keys
  <1>1. request[c] \in Frames
    BY DEF ExecTypeOK, Idle
  <1> QED
    BY <1>1, KeyOfType DEF Frames, RequestKey

LEMMA ProceedType ==
  ASSUME ExecTypeOK, NEW c \in Callers, request[c].pc # "idle",
         NEW pc \in WorkPCs, NEW token \in Entry \cup {NoEntry},
         NEW models \in SUBSET Models, Proceed(c, pc, token, models)
  PROVE  request' \in [Callers -> Frames \cup {Idle}]
  <1>1. request[c] \in Frames
    BY WorkingFrame
  <1>2. [pc |-> pc, kind |-> request[c].kind, auth |-> request[c].auth,
         cred |-> request[c].cred, model |-> request[c].model, token |-> token,
         at |-> request[c].at, models |-> models, rejected |-> request[c].rejected]
          \in Frames
    BY <1>1 DEF Frames
  <1> QED
    BY <1>2 DEF ExecTypeOK, Proceed

-----------------------------------------------------------------------------
(* The inductive invariant, in named parts.                                *)

AfterDrop == {"clearThenDiscover", "clearThenPost", "retokenThenDiscover", "retokenThenPost"}
Retokening == {"rediscoverToken", "repostToken"}
Again == {"rediscover", "repost"}
Retrying == {"dropThenDiscover", "dropThenPost"} \cup AfterDrop \cup Retokening \cup Again

(* A frame in copilotToken is of the request above it.                     *)
CallLinked(c) ==
  tokenCall[c].pc # "idle" =>
    /\ request[c].pc \in Retokening \cup {"modelsToken", "fallbackToken", "httpToken"}
    /\ tokenCall[c].auth = request[c].auth /\ tokenCall[c].cred = request[c].cred

(* What the call of c holds or is about to return is not token i.          *)
FreshFor(c, i) ==
  /\ Attached(c) => tokenCall[c].flight # i
  /\ tokenCall[c].pc \in {"publish", "done"} => tokenCall[c].entry.token # i

(* A request that retries was rejected with a token Copilot has revoked.   *)
(* Under a host auth id the cache does not hold it once it was dropped,    *)
(* the call for a new one does not get it, and so neither does the retry.  *)
RetryInv(c) ==
  LET r == request[c]
  IN  /\ r.pc \in Retrying => r.rejected \in revoked
      /\ r.pc \in AfterDrop \cup Retokening /\ r.auth # NoAuth =>
           tokenEntries[r.auth].token # r.rejected
      /\ r.pc \in Retokening /\ r.auth # NoAuth => FreshFor(c, r.rejected)
      /\ r.pc \in Again /\ r.auth # NoAuth => r.token.token # r.rejected

(* Only a model request names a model; a special one has failed only       *)
(* without a token, and is known.                                          *)
SpecialInv(c) ==
  LET r == request[c]
  IN  /\ r.pc # "idle" /\ r.model # NoModel => r.kind = "execute"
      /\ r.pc = "httpToken" => r.model = NoModel
      /\ r.pc # "idle" /\ r.model \in SpecialModels =>
           /\ r.pc # "unknownModel"
           /\ r.pc = "failed" => r.token = NoEntry

(* A revoked token was delivered, and an open flight has delivered none.   *)
RevokedDelivered ==
  \A i \in revoked : i \in 1..Len(flights) /\ flights[i].done
OpenEmpty ==
  \A i \in 1..Len(flights) : flights[i].entry # NoEntry => flights[i].done

(* A catalog about to be stored is not empty (models.go:141-143).          *)
StoreInv(c) == request[c].pc = "store" => request[c].models # {}

ExecInv ==
  /\ RevokedDelivered /\ OpenEmpty
  /\ \A c \in Callers : CallLinked(c) /\ RetryInv(c) /\ SpecialInv(c) /\ StoreInv(c)

-----------------------------------------------------------------------------
(* The requests touch the cache by its own steps only.                     *)

LEMMA CallTokenSteps ==
  ASSUME ExecTypeOK, NEW c \in Callers, request[c].pc # "idle",
         Begin(c, request[c].auth, request[c].cred)
  PROVE  TokenStep
  BY WorkingFrame DEF TokenStep

LEMMA WorkTokenSteps ==
  ASSUME ExecTypeOK, NEW c \in Callers, Work(c)
  PROVE  TokenStep \/ UNCHANGED tokenVars
  <1>1. CASE Inside(c) /\ UNCHANGED <<modelEntries, request, requests, revoked, clearing>>
    BY <1>1 DEF TokenStep, Step
  <1>2. CASE Discovery(c)
    <2>1. CASE ModelsTokenError(c) \/ ModelsToken(c) \/ FallbackToken(c)
      BY <2>1 DEF ModelsTokenError, ModelsToken, FallbackToken, TokenArrives, TokenStep, Step
    <2>2. CASE CatalogLookup(c) \/ Listed(c) \/ DiscoveryFails(c) \/ Filter(c) \/ StoreCatalog(c)
      BY <2>2 DEF CatalogLookup, Listed, DiscoveryFails, Filter, StoreCatalog
    <2>3. CASE Fallback(c)
      BY <2>3, CallTokenSteps DEF Fallback, CallToken
    <2> QED
      BY <1>2, <2>1, <2>2, <2>3 DEF Discovery
  <1>3. CASE Retry(c)
    <2>1. CASE Rejected(c) \/ DropCatalog(c)
      BY <2>1 DEF Rejected, FirstTry, DropCatalog
    <2>2. CASE DropToken(c)
      BY <2>2, WorkingFrame DEF DropToken, ForgetToken, TokenStep, Environment
    <2>3. CASE Retoken(c)
      BY <2>3, CallTokenSteps DEF Retoken, CallToken
    <2>4. CASE RediscoverToken(c) \/ RepostToken(c)
      BY <2>4 DEF RediscoverToken, RepostToken, TokenArrives, TokenStep, Step
    <2> QED
      BY <1>3, <2>1, <2>2, <2>3, <2>4 DEF Retry
  <1>4. CASE NotTranslated(c) \/ PostAnswered(c) \/ Finish(c)
    BY <1>4 DEF NotTranslated, PostAnswered, Finish
  <1>5. CASE HTTPToken(c)
    BY <1>5 DEF HTTPToken, TokenArrives, TokenStep, Step
  <1> QED
    BY <1>1, <1>2, <1>3, <1>4, <1>5 DEF Work

LEMMA ExecTokenSteps ==
  ASSUME ExecTypeOK, [ExecNext]_execVars
  PROVE  [TokenStep]_tokenVars
  <1>1. ASSUME NEW c \in Callers, Work(c)
        PROVE  TokenStep \/ UNCHANGED tokenVars
    BY <1>1, WorkTokenSteps
  <1>2. ASSUME NEW c \in Callers, NEW kind, NEW auth \in RequestAuths,
               NEW cred \in Credentials, NEW model, StartRequest(c, kind, auth, cred, model)
        PROVE  TokenStep
    BY <1>2, RequestAssumption DEF StartRequest, TokenStep
  <1>3. ASSUME NEW cfg \in Configs, Reconfigure(cfg)
        PROVE  TokenStep
    BY <1>3 DEF Reconfigure, TokenStep, Environment
  <1>4. Shutdown \/ Pass => TokenStep
    BY DEF Shutdown, Pass, TokenStep, Environment
  <1>5. ClearCatalogs \/ Revoke \/ UNCHANGED execVars => UNCHANGED tokenVars
    BY DEF ClearCatalogs, Revoke, execVars
  <1> QED
    BY <1>1, <1>2, <1>3, <1>4, <1>5 DEF ExecNext

-----------------------------------------------------------------------------
(* The shapes are kept.                                                    *)

LEMMA CatalogType ==
  ASSUME NEW fingerprint \in Fingerprints, NEW url \in URLs, NEW at \in Nat,
         NEW models \in (SUBSET Models) \ {{}}
  PROVE  [fingerprint |-> fingerprint, apiURL |-> url, expiresAt |-> at,
          models |-> models] \in Catalogs
  BY DEF Catalogs

LEMMA DiscoveryType ==
  ASSUME TypeOK, ExecTypeOK, NEW c \in Callers, StoreInv(c), Discovery(c)
  PROVE  request' \in [Callers -> Frames \cup {Idle}]
         /\ modelEntries' \in [Keys -> Catalogs \cup {NoCatalog}]
  <1> USE DEF GoesTo
  <1>0. request[c].pc # "idle" => request[c].token \in Entry \cup {NoEntry}
                               /\ request[c].models \in SUBSET Models
    BY WorkingFrame
  <1>1. CASE ModelsTokenError(c)
    BY <1>0, <1>1, ProceedType DEF ModelsTokenError, WorkPCs, Outcomes, catalogVars, ExecTypeOK
  <1>2. CASE ModelsToken(c)
    <2>1. request[c] \in Frames /\ Arrived(c) \in Entry \cup {NoEntry} /\ now \in Nat
      BY <1>2, WorkingFrame, EntriesKnown DEF ModelsToken, TokenArrives, Return, TypeOK
    <2>2. request'[c] \in Frames
      BY <1>2, <2>1, FlightAssumption DEF ModelsToken, Frames, WorkPCs, ExecTypeOK
    <2> QED
      BY <1>2, <2>2 DEF ModelsToken, catalogVars, ExecTypeOK
  <1>3. CASE CatalogLookup(c)
    <2>1. CASE CatalogHit(c)
      BY <1>0, <1>3, <2>1, ProceedType
         DEF CatalogLookup, Selected, WorkPCs, Outcomes, catalogVars, ExecTypeOK
    <2>2. CASE ~CatalogHit(c)
      BY <1>0, <1>3, <2>2, ProceedType DEF CatalogLookup, WorkPCs, catalogVars, ExecTypeOK
    <2> QED
      BY <2>1, <2>2
  <1>4. CASE Listed(c)
    <2>1. PICK listing \in Listings : Proceed(c, "filter", request[c].token, listing)
      BY <1>4 DEF Listed
    <2>2. listing \in SUBSET Models /\ "filter" \in WorkPCs
      BY CatalogAssumption DEF WorkPCs
    <2> QED
      BY <1>0, <1>4, <2>1, <2>2, ProceedType DEF Listed, catalogVars, ExecTypeOK
  <1>5. CASE DiscoveryFails(c)
    BY <1>0, <1>5, ProceedType DEF DiscoveryFails, WorkPCs, Outcomes, catalogVars, ExecTypeOK
  <1>6. CASE Filter(c)
    BY <1>0, <1>6, ProceedType DEF Filter, WorkPCs, Outcomes, catalogVars, ExecTypeOK
  <1>7. CASE StoreCatalog(c)
    <2>0. request[c].pc = "store" /\ request[c].models # {}
      BY <1>7 DEF StoreCatalog, StoreInv
    <2>1. request[c] \in Frames /\ RequestKey(c) \in Keys
      BY <2>0, WorkingFrame
    <2>2. [fingerprint |-> Fingerprint(request[c].cred),
           apiURL |-> request[c].token.apiURL,
           expiresAt |-> request[c].at + config.ttl, models |-> request[c].models] \in Catalogs
      <3>1. request[c].token.apiURL \in URLs
        BY <2>1 DEF Frames, Entry, NoEntry, URLs
      <3>2. request[c].at + config.ttl \in Nat
        BY <2>1, CatalogAssumption DEF Frames, TypeOK
      <3>3. Fingerprint(request[c].cred) \in Fingerprints
        BY <2>1 DEF Frames, Fingerprints
      <3>4. request[c].models \in (SUBSET Models) \ {{}}
        BY <1>0, <2>0
      <3> QED
        BY <3>1, <3>2, <3>3, <3>4, CatalogType
    <2>3. modelEntries' \in [Keys -> Catalogs \cup {NoCatalog}]
      BY <1>7, <2>1, <2>2 DEF StoreCatalog, ExecTypeOK
    <2>4. request' \in [Callers -> Frames \cup {Idle}]
      BY <1>0, <1>7, ProceedType DEF StoreCatalog, Selected, WorkPCs, Outcomes
    <2> QED
      BY <2>3, <2>4
  <1>8. CASE Fallback(c)
    BY <1>0, <1>8, ProceedType DEF Fallback, CallToken, WorkPCs, catalogVars, ExecTypeOK
  <1>9. CASE FallbackToken(c)
    <2>1. Arrived(c) \in Entry \cup {NoEntry} /\ request[c].pc = "fallbackToken"
      BY <1>9, EntriesKnown DEF FallbackToken, TokenArrives, Return
    <2> QED
      BY <1>9, <2>1, ProceedType
         DEF FallbackToken, WorkPCs, Outcomes, catalogVars, ExecTypeOK
  <1> QED
    BY <1>1, <1>2, <1>3, <1>4, <1>5, <1>6, <1>7, <1>8, <1>9 DEF Discovery

LEMMA RetryType ==
  ASSUME TypeOK, ExecTypeOK, NEW c \in Callers, Retry(c)
  PROVE  request' \in [Callers -> Frames \cup {Idle}]
         /\ modelEntries' \in [Keys -> Catalogs \cup {NoCatalog}]
  <1> USE DEF GoesTo
  <1>0. request[c].pc # "idle" => request[c].token \in Entry \cup {NoEntry}
                               /\ request[c].models \in SUBSET Models
    BY WorkingFrame
  <1>1. CASE Rejected(c)
    <2>1. request[c] \in Frames /\ request[c].token.token \in 0..MaxFlights
      BY <1>1, <1>0, WorkingFrame, EntryTokens, FlightAssumption DEF Rejected, FirstTry
    <2>2. Resume(c) \in WorkPCs
      BY DEF Resume, WorkPCs
    <2>3. request'[c] \in Frames
      BY <1>1, <2>1, <2>2 DEF Rejected, Frames, ExecTypeOK
    <2> QED
      BY <1>1, <2>3 DEF Rejected, catalogVars, ExecTypeOK
  <1>2. CASE DropToken(c)
    BY <1>0, <1>2, ProceedType DEF DropToken, WorkPCs, catalogVars, ExecTypeOK
  <1>3. CASE DropCatalog(c)
    <2>1. request' \in [Callers -> Frames \cup {Idle}]
      BY <1>0, <1>3, ProceedType DEF DropCatalog, WorkPCs
    <2>2. modelEntries' \in [Keys -> Catalogs \cup {NoCatalog}]
      BY <1>3 DEF DropCatalog, ExecTypeOK
    <2> QED
      BY <2>1, <2>2
  <1>4. CASE Retoken(c)
    BY <1>0, <1>4, ProceedType DEF Retoken, CallToken, WorkPCs, catalogVars, ExecTypeOK
  <1>5. CASE RediscoverToken(c)
    <2>1. Arrived(c) \in Entry \cup {NoEntry} /\ request[c].pc = "rediscoverToken"
      BY <1>5, EntriesKnown DEF RediscoverToken, TokenArrives, Return
    <2>2. \E pc \in WorkPCs, token \in Entry \cup {NoEntry} : Proceed(c, pc, token, {})
      BY <1>5, <2>1 DEF RediscoverToken, WorkPCs, Outcomes
    <2>3. {} \in SUBSET Models
      OBVIOUS
    <2> QED
      BY <1>5, <2>1, <2>2, <2>3, ProceedType DEF RediscoverToken, catalogVars, ExecTypeOK
  <1>6. CASE RepostToken(c)
    <2>1. Arrived(c) \in Entry \cup {NoEntry} /\ request[c].pc = "repostToken"
      BY <1>6, EntriesKnown DEF RepostToken, TokenArrives, Return
    <2>2. \E pc \in WorkPCs, token \in Entry \cup {NoEntry} : Proceed(c, pc, token, {})
      BY <1>6, <2>1 DEF RepostToken, WorkPCs, Outcomes
    <2>3. {} \in SUBSET Models
      OBVIOUS
    <2> QED
      BY <1>6, <2>1, <2>2, <2>3, ProceedType DEF RepostToken, catalogVars, ExecTypeOK
  <1> QED
    BY <1>1, <1>2, <1>3, <1>4, <1>5, <1>6 DEF Retry

LEMMA ExecNextType ==
  ASSUME TypeOK, TypeOK', ExecTypeOK, \A c \in Callers : StoreInv(c), [ExecNext]_execVars
  PROVE  ExecTypeOK'
  <1>1. ASSUME NEW c \in Callers, Work(c)
        PROVE  ExecTypeOK'
    <2>1. UNCHANGED <<requests, revoked, clearing>>
      BY <1>1 DEF Work, Discovery, ModelsTokenError, ModelsToken, CatalogLookup, Listed,
         DiscoveryFails, Filter, StoreCatalog, Fallback, FallbackToken, Retry, Rejected,
         DropToken, DropCatalog, Retoken, RediscoverToken, RepostToken, NotTranslated,
         PostAnswered, HTTPToken, Finish, catalogVars
    <2>2. /\ request' \in [Callers -> Frames \cup {Idle}]
          /\ modelEntries' \in [Keys -> Catalogs \cup {NoCatalog}]
      <3>0. request[c].pc # "idle" => request[c].token \in Entry \cup {NoEntry}
                                   /\ request[c].models \in SUBSET Models
        BY WorkingFrame
      <3>1. CASE UNCHANGED <<modelEntries, request>>
        BY <3>1 DEF ExecTypeOK
      <3>2. CASE NotTranslated(c)
        BY <3>0, <3>2, ProceedType
           DEF NotTranslated, GoesTo, WorkPCs, Outcomes, catalogVars, ExecTypeOK
      <3>3. CASE PostAnswered(c)
        BY <3>0, <3>3, ProceedType
           DEF PostAnswered, GoesTo, WorkPCs, Outcomes, catalogVars, ExecTypeOK
      <3>4. CASE HTTPToken(c)
        <4>1. Arrived(c) \in Entry \cup {NoEntry} /\ request[c].pc = "httpToken"
          BY <3>4, EntriesKnown DEF HTTPToken, TokenArrives, Return
        <4> QED
          BY <3>0, <3>4, <4>1, ProceedType
             DEF HTTPToken, GoesTo, WorkPCs, Outcomes, catalogVars, ExecTypeOK
      <3>5. CASE Finish(c)
        BY <3>5 DEF Finish, catalogVars, ExecTypeOK
      <3> QED
        BY <1>1, <3>1, <3>2, <3>3, <3>4, <3>5, DiscoveryType, RetryType DEF Work
    <2> QED
      BY <2>1, <2>2 DEF ExecTypeOK
  <1>2. ASSUME NEW c \in Callers, NEW kind \in Kinds, NEW auth \in RequestAuths,
               NEW cred \in Credentials, NEW model \in Models \cup {NoModel},
               StartRequest(c, kind, auth, cred, model)
        PROVE  ExecTypeOK'
    <2>1. request'[c] \in Frames
      BY <1>2, RequestAssumption, FlightAssumption
         DEF StartRequest, Frames, WorkPCs, ExecTypeOK
    <2> QED
      BY <1>2, <2>1, RequestAssumption DEF StartRequest, catalogVars, ExecTypeOK
  <1>3. ASSUME Revoke
        PROVE  ExecTypeOK'
    <2>1. Len(flights) \in Nat /\ Len(flights) <= MaxFlights /\ MaxFlights \in Nat
      BY FlightAssumption DEF TypeOK
    <2> QED
      BY <1>3, <2>1 DEF Revoke, ExecTypeOK
  <1>4. \/ \E cfg \in Configs : Reconfigure(cfg)
        \/ Shutdown \/ ClearCatalogs \/ Pass \/ UNCHANGED execVars
        => ExecTypeOK'
    BY DEF Reconfigure, Shutdown, ClearCatalogs, Pass, execVars, ExecTypeOK
  <1>5. \A kind \in Kinds, model \in Models :
          (IF kind = "execute" THEN model ELSE NoModel) \in Models \cup {NoModel}
    OBVIOUS
  <1> QED
    BY <1>1, <1>2, <1>3, <1>4, <1>5 DEF ExecNext

-----------------------------------------------------------------------------
(* What the cache never does again with a token it has delivered.          *)

LEMMA FlightsMove ==
  ASSUME [TokenStep]_tokenVars
  PROVE  UNCHANGED flights \/ \E c \in Callers : Lead(c) \/ Publish(c)
  BY DEF TokenStep, Step, Inside, Hit, Join, Send, Answer, AnswerError, Wake, Return,
         Begin, Environment, InvalidateAuth, ShutdownTokens, Configure, Tick, tokenVars

(* A leader publishes a flight that was open until then.                   *)
LEMMA PublishOpen ==
  ASSUME TypeOK, FlightInv, NEW c \in Callers, Publish(c)
  PROVE  /\ tokenCall[c].flight \in 1..Len(flights) /\ ~flights[tokenCall[c].flight].done
         /\ CallKey(c) \in Keys
  <1>1. Leading(c) /\ Attached(c) /\ CallKey(c) \in Keys
    BY ActiveKey DEF Publish, Leading, Attached
  <1>2. /\ tokenCall[c].flight \in 1..Len(flights)
        /\ tokenInflight[CallKey(c)] = tokenCall[c].flight
    BY <1>1 DEF FlightInv, FlightHeld, LeaderRegistered
  <1> QED
    BY <1>1, <1>2 DEF FlightInv, RegisteredOpen, TypeOK

LEMMA PublishFlights ==
  ASSUME TypeOK, FlightInv, NEW c \in Callers, Publish(c)
  PROVE  /\ Len(flights') = Len(flights) /\ flights'[tokenCall[c].flight].done
         /\ \A i \in 1..Len(flights) : i # tokenCall[c].flight => flights'[i] = flights[i]
  <1>1. tokenCall[c].flight \in 1..Len(flights)
    BY PublishOpen
  <1> QED
    BY <1>1 DEF Publish, FlightDone, TypeOK

LEMMA DoneStays ==
  ASSUME TypeOK, FlightInv, [TokenStep]_tokenVars,
         NEW i \in 1..Len(flights), flights[i].done
  PROVE  i \in 1..Len(flights') /\ flights'[i].done
  <1>1. ASSUME NEW c \in Callers, Lead(c)
        PROVE  i \in 1..Len(flights') /\ flights'[i] = flights[i]
    BY <1>1 DEF Lead, TypeOK
  <1>2. ASSUME NEW c \in Callers, Publish(c)
        PROVE  i \in 1..Len(flights') /\ flights'[i] = flights[i]
    BY <1>2, PublishOpen, PublishFlights
  <1> QED
    BY <1>1, <1>2, FlightsMove

LEMMA StepOpenEmpty ==
  ASSUME TypeOK, FlightInv, OpenEmpty, [TokenStep]_tokenVars
  PROVE  OpenEmpty'
  <1>1. ASSUME NEW c \in Callers, Lead(c)
        PROVE  OpenEmpty'
    <2>1. /\ Len(flights') = Len(flights) + 1 /\ Len(flights) \in Nat
          /\ \A i \in 1..Len(flights) : flights'[i] = flights[i]
          /\ flights'[Len(flights) + 1].entry = NoEntry
      BY <1>1 DEF Lead, TypeOK
    <2>2. \A i \in 1..Len(flights') : i \in 1..Len(flights) \/ i = Len(flights) + 1
      BY <2>1
    <2> QED
      BY <2>1, <2>2 DEF OpenEmpty
  <1>2. ASSUME NEW c \in Callers, Publish(c)
        PROVE  OpenEmpty'
    BY <1>2, PublishFlights DEF OpenEmpty
  <1>3. CASE UNCHANGED flights
    BY <1>3 DEF OpenEmpty
  <1> QED
    BY <1>1, <1>2, <1>3, FlightsMove

(* A token that has been delivered and is not in the cache of a key does   *)
(* not get there any more: only an open flight fills the cache.            *)
LEMMA NeverCachedAgain ==
  ASSUME TypeOK, FlightInv, CacheInv, [TokenStep]_tokenVars,
         NEW i \in 1..Len(flights), flights[i].done,
         NEW k \in Keys, tokenEntries[k].token # i
  PROVE  tokenEntries'[k].token # i
  <1>1. ASSUME NEW c \in Callers, Publish(c)
        PROVE  tokenEntries'[k].token # i
    <2>1. tokenCall[c].flight # i
      BY <1>1, PublishOpen
    <2>2. tokenCall[c].entry # NoEntry => tokenCall[c].entry.token = tokenCall[c].flight
      BY <1>1 DEF Publish, CacheInv, CallOutcome
    <2> QED
      BY <1>1, <2>1, <2>2, PublishOpen DEF Publish, TypeOK
  <1>2. CASE Environment
    <2>1. tokenEntries'[k] \in {tokenEntries[k], NoEntry}
      BY <1>2 DEF Environment, InvalidateAuth, ShutdownTokens, Configure, Tick, TypeOK
    <2>2. i # 0
      BY DEF TypeOK
    <2> QED
      BY <2>1, <2>2, EntryTokens
  <1>3. ASSUME NEW c \in Callers, Step(c), ~Publish(c)
        PROVE  UNCHANGED tokenEntries
    BY <1>3 DEF Step, Inside, Hit, Join, Lead, Send, Answer, AnswerError, Wake, Return
  <1>4. ASSUME NEW c \in Callers, NEW auth, NEW cred, Begin(c, auth, cred)
        PROVE  UNCHANGED tokenEntries
    BY <1>4 DEF Begin
  <1> QED
    BY <1>1, <1>2, <1>3, <1>4 DEF TokenStep, tokenVars

(* A call that neither holds such a token nor can find it in the cache     *)
(* does not return it.                                                     *)
LEMMA NeverReturnedAgain ==
  ASSUME TypeOK, FlightInv, CacheInv, [TokenStep]_tokenVars,
         NEW i \in 1..Len(flights), flights[i].done,
         NEW c \in Callers, FreshFor(c, i),
         tokenCall[c].pc = "lookup" => tokenEntries[CallKey(c)].token # i
  PROVE  FreshFor(c, i)'
  <1>0. i # 0 /\ i <= Len(flights) /\ Len(flights) \in Nat
    BY DEF TypeOK
  <1> USE DEF FreshFor, Attached
  <1>1. CASE tokenCall'[c] = tokenCall[c]
    BY <1>1
  <1>2. CASE Hit(c)
    BY <1>2, FrameMoves DEF Hit
  <1>3. CASE Join(c)
    <2>1. tokenInflight[CallKey(c)] # i
      BY <1>3, ActiveKey DEF Join, FlightInv, RegisteredOpen
    <2> QED
      BY <1>3, <2>1, FrameMoves DEF Join
  <1>4. CASE Lead(c)
    BY <1>0, <1>4, FrameMoves DEF Lead
  <1>5. CASE Send(c)
    BY <1>5 DEF Send, TypeOK
  <1>6. ASSUME NEW reply \in Replies, Answer(c, reply)
        PROVE  FreshFor(c, i)'
    <2>1. /\ tokenCall'[c].pc = "publish" /\ tokenCall'[c].flight = tokenCall[c].flight
          /\ tokenCall'[c].entry = ExchangedEntry(c, reply)
      BY <1>6, FrameMoves DEF Answer
    <2>2. tokenCall'[c].entry # NoEntry => tokenCall'[c].entry.token = tokenCall[c].flight
      BY <1>6, <2>1, AnswerOutcome DEF CallOutcome
    <2>3. tokenCall[c].flight # i
      BY <1>6 DEF Answer
    <2> QED
      BY <1>0, <2>1, <2>2, <2>3, EntryTokens
  <1>7. CASE AnswerError(c)
    BY <1>0, <1>7, FrameMoves, EntryTokens DEF AnswerError
  <1>8. CASE Publish(c)
    BY <1>8, FrameMoves DEF Publish
  <1>9. CASE Wake(c)
    <2>1. tokenCall[c].flight \in 1..Len(flights) /\ tokenCall[c].flight # i
      BY <1>9 DEF Wake, FlightInv, FlightHeld
    <2>2. flights[tokenCall[c].flight].entry.token \in {tokenCall[c].flight, 0}
      BY <2>1, EntryTokens DEF CacheInv, FlightOutcome
    <2> QED
      BY <1>0, <1>9, <2>1, <2>2, FrameMoves DEF Wake
  <1>10. CASE Return(c)
    BY <1>10 DEF Return, TypeOK, IdleCall
  <1>11. ASSUME NEW auth, NEW cred, Begin(c, auth, cred)
         PROVE  FreshFor(c, i)'
    BY <1>11 DEF Begin, TypeOK
  <1>12. ASSUME NEW d \in Callers, d # c,
                Step(d) \/ \E auth \in Auths \cup {NoAuth}, cred \in Credentials :
                             Begin(d, auth, cred)
         PROVE  tokenCall'[c] = tokenCall[c]
    BY <1>12 DEF Step, Inside, Hit, Join, Lead, Send, Answer, AnswerError, Publish, Wake,
       Return, Begin, Goto, TypeOK
  <1>13. Environment \/ UNCHANGED tokenVars => tokenCall'[c] = tokenCall[c]
    BY DEF Environment, InvalidateAuth, ShutdownTokens, Configure, Tick, tokenVars
  <1> QED
    BY <1>1, <1>2, <1>3, <1>4, <1>5, <1>6, <1>7, <1>8, <1>9, <1>10, <1>11, <1>12, <1>13
       DEF TokenStep, Step, Inside

-----------------------------------------------------------------------------
(* The steps of a request, by what they do to its frame.                   *)

SameAsk(c) ==
  /\ request[c].pc # "idle"
  /\ request'[c].kind = request[c].kind /\ request'[c].auth = request[c].auth
  /\ request'[c].cred = request[c].cred /\ request'[c].model = request[c].model

(* The steps that neither begin, end nor belong to a retry.                *)
Plain(c) ==
  \/ ModelsTokenError(c) \/ ModelsToken(c) \/ CatalogLookup(c) \/ Listed(c)
  \/ DiscoveryFails(c) \/ Filter(c) \/ StoreCatalog(c) \/ FallbackToken(c)
  \/ NotTranslated(c) \/ PostAnswered(c) \/ HTTPToken(c)

LEMMA SpecialFallsBack ==
  ASSUME NEW c \in Callers, SpecialInv(c), request[c].pc # "idle",
         request[c].model \in SpecialModels
  PROVE  FallsBack(c)
  BY CatalogAssumption DEF SpecialInv, FallsBack

(* Where a plain step leads; it leaves a special model neither unknown nor *)
(* failed with a token in hand.                                            *)
LEMMA PlainFrame ==
  ASSUME ExecTypeOK, NEW c \in Callers, SpecialInv(c), Plain(c)
  PROVE  /\ SameAsk(c)
         /\ request'[c].pc \notin Retrying \cup {"idle", "httpToken"}
         /\ request'[c].pc = "store" => request'[c].models # {}
         /\ request[c].model \in SpecialModels =>
              /\ request'[c].pc # "unknownModel"
              /\ request'[c].pc = "failed" => request'[c].token = NoEntry
  <1> USE DEF GoesTo, SameAsk, Retrying, AfterDrop, Retokening, Again
  <1>1. CASE ModelsTokenError(c) \/ DiscoveryFails(c)
    BY <1>1, ProceedFrame, SpecialFallsBack DEF ModelsTokenError, DiscoveryFails
  <1>2. CASE ModelsToken(c)
    BY <1>2 DEF ModelsToken, TokenArrives, ExecTypeOK
  <1>3. CASE CatalogLookup(c)
    BY <1>3, ProceedFrame DEF CatalogLookup, Selected
  <1>4. CASE Listed(c)
    BY <1>4, ProceedFrame DEF Listed
  <1>5. CASE Filter(c)
    BY <1>5, ProceedFrame, SpecialFallsBack DEF Filter, Usable
  <1>6. CASE StoreCatalog(c)
    BY <1>6, ProceedFrame DEF StoreCatalog, Selected
  <1>7. CASE FallbackToken(c)
    BY <1>7, ProceedFrame DEF FallbackToken, TokenArrives
  <1>8. CASE NotTranslated(c) \/ PostAnswered(c)
    BY <1>8, ProceedFrame DEF NotTranslated, PostAnswered
  <1>9. CASE HTTPToken(c)
    <2>1. request[c].model \notin SpecialModels
      BY <1>9, CatalogAssumption DEF HTTPToken, TokenArrives, SpecialInv
    <2> QED
      BY <1>9, <2>1, ProceedFrame DEF HTTPToken, TokenArrives
  <1> QED
    BY <1>1, <1>2, <1>3, <1>4, <1>5, <1>6, <1>7, <1>8, <1>9 DEF Plain

(* What a plain step does to the call below: it returns, or there is none. *)
LEMMA PlainCall ==
  ASSUME TypeOK, NEW c \in Callers, CallLinked(c), Plain(c)
  PROVE  tokenCall'[c].pc = "idle"
  <1>1. CASE Return(c)
    BY <1>1 DEF Return, TypeOK, IdleCall
  <1>2. CASE ~Return(c)
    <2>1. UNCHANGED tokenVars /\ request[c].pc \notin
            Retokening \cup {"modelsToken", "fallbackToken", "httpToken"}
      BY <1>2 DEF Plain, ModelsTokenError, ModelsToken, CatalogLookup, Listed,
         DiscoveryFails, Filter, StoreCatalog, FallbackToken, NotTranslated,
         PostAnswered, HTTPToken, TokenArrives, Retokening
    <2> QED
      BY <2>1 DEF CallLinked, tokenVars
  <1> QED
    BY <1>1, <1>2

LEMMA PlainInv ==
  ASSUME TypeOK, ExecTypeOK, NEW c \in Callers, CallLinked(c), SpecialInv(c), Plain(c)
  PROVE  (CallLinked(c) /\ RetryInv(c) /\ SpecialInv(c) /\ StoreInv(c))'
  <1>1. CallLinked(c)'
    BY PlainCall DEF CallLinked
  <1>2. RetryInv(c)'
    BY PlainFrame DEF RetryInv, Retrying
  <1>3. SpecialInv(c)' /\ StoreInv(c)'
    BY PlainFrame DEF SpecialInv, StoreInv, SameAsk
  <1> QED
    BY <1>1, <1>2, <1>3

(* A call begins: its frame names the request's credential and auth id.    *)
LEMMA CallFrame ==
  ASSUME TypeOK, ExecTypeOK, NEW c \in Callers, NEW pc, CallToken(c, pc)
  PROVE  /\ request'[c].pc = pc /\ request'[c].token = request[c].token
         /\ request'[c].rejected = request[c].rejected
         /\ request[c].pc # "idle" => SameAsk(c)
         /\ tokenCall'[c].pc = "lookup"
         /\ tokenCall'[c].auth = request[c].auth /\ tokenCall'[c].cred = request[c].cred
         /\ UNCHANGED <<tokenEntries, flights>>
  <1>1. Proceed(c, pc, request[c].token, request[c].models)
    BY DEF CallToken, GoesTo
  <1>2. /\ tokenCall'[c].pc = "lookup" /\ UNCHANGED <<tokenEntries, flights>>
        /\ tokenCall'[c].auth = request[c].auth /\ tokenCall'[c].cred = request[c].cred
    BY DEF CallToken, Begin, TypeOK
  <1> QED
    BY <1>1, <1>2, ProceedFrame DEF SameAsk

LEMMA FallbackInv ==
  ASSUME TypeOK, ExecTypeOK, NEW c \in Callers, SpecialInv(c), Fallback(c)
  PROVE  (CallLinked(c) /\ RetryInv(c) /\ SpecialInv(c) /\ StoreInv(c))'
  <1>1. /\ request'[c].pc = "fallbackToken" /\ SameAsk(c)
        /\ tokenCall'[c].auth = request[c].auth /\ tokenCall'[c].cred = request[c].cred
    BY CallFrame DEF Fallback
  <1> QED
    BY <1>1 DEF CallLinked, RetryInv, SpecialInv, StoreInv, SameAsk, Retrying, AfterDrop,
       Retokening, Again

-----------------------------------------------------------------------------
(* The steps of a retry.                                                   *)

LEMMA RejectedInv ==
  ASSUME TypeOK, ExecTypeOK, NEW c \in Callers, CallLinked(c), SpecialInv(c), Rejected(c)
  PROVE  (CallLinked(c) /\ RetryInv(c) /\ SpecialInv(c) /\ StoreInv(c))'
  <1>1. /\ request'[c].pc \in {"dropThenDiscover", "dropThenPost"} /\ SameAsk(c)
        /\ request'[c].rejected = request[c].token.token /\ revoked' = revoked
        /\ tokenCall' = tokenCall
    BY DEF Rejected, FirstTry, Resume, SameAsk, catalogVars, tokenVars, ExecTypeOK
  <1>2. request[c].token.token \in revoked /\ request[c].pc \in {"discover", "post"}
    BY DEF Rejected, FirstTry, Unauthorized
  <1>3. tokenCall'[c].pc = "idle"
    BY <1>1, <1>2 DEF CallLinked, Retokening
  <1> QED
    BY <1>1, <1>2, <1>3 DEF CallLinked, RetryInv, SpecialInv, StoreInv, SameAsk, AfterDrop,
       Retokening, Again

(* invalidateAuth drops whatever the cache holds for a host auth id.       *)
LEMMA DropTokenInv ==
  ASSUME TypeOK, ExecTypeOK, RevokedDelivered, NEW c \in Callers,
         CallLinked(c), RetryInv(c), SpecialInv(c), DropToken(c)
  PROVE  (CallLinked(c) /\ RetryInv(c) /\ SpecialInv(c) /\ StoreInv(c))'
  <1>1. /\ request[c].pc \in {"dropThenDiscover", "dropThenPost"}
        /\ request'[c].pc \in {"clearThenDiscover", "clearThenPost"} /\ SameAsk(c)
        /\ request'[c].rejected = request[c].rejected /\ revoked' = revoked
        /\ tokenCall' = tokenCall
    BY ProceedFrame DEF DropToken, GoesTo, SameAsk, catalogVars, ForgetToken, InvalidateAuth
  <1>2. request[c].rejected \in revoked /\ request[c].rejected # 0
    BY <1>1 DEF RetryInv, Retrying, RevokedDelivered
  <1>3. request[c].auth # NoAuth => tokenEntries'[request[c].auth] = NoEntry
    BY <1>1, WorkingFrame DEF DropToken, ForgetToken, InvalidateAuth, TypeOK, Keys
  <1>4. tokenCall'[c].pc = "idle"
    BY <1>1 DEF CallLinked, Retokening
  <1>5. RetryInv(c)'
    BY <1>1, <1>2, <1>3, EntryTokens DEF RetryInv, SameAsk, Retokening, Again
  <1> QED
    BY <1>1, <1>4, <1>5 DEF CallLinked, SpecialInv, StoreInv, SameAsk

LEMMA DropCatalogInv ==
  ASSUME TypeOK, ExecTypeOK, NEW c \in Callers,
         CallLinked(c), RetryInv(c), SpecialInv(c), DropCatalog(c)
  PROVE  (CallLinked(c) /\ RetryInv(c) /\ SpecialInv(c) /\ StoreInv(c))'
  <1>1. /\ request[c].pc \in {"clearThenDiscover", "clearThenPost"}
        /\ request'[c].pc \in {"retokenThenDiscover", "retokenThenPost"} /\ SameAsk(c)
        /\ request'[c].rejected = request[c].rejected
        /\ UNCHANGED <<revoked, tokenCall, tokenEntries>>
    BY ProceedFrame DEF DropCatalog, GoesTo, SameAsk, tokenVars
  <1>2. tokenCall'[c].pc = "idle"
    BY <1>1 DEF CallLinked, Retokening
  <1> QED
    BY <1>1, <1>2 DEF CallLinked, RetryInv, SpecialInv, StoreInv, SameAsk, Retrying, AfterDrop,
       Retokening, Again

LEMMA RetokenInv ==
  ASSUME TypeOK, ExecTypeOK, NEW c \in Callers, RetryInv(c), SpecialInv(c), Retoken(c)
  PROVE  (CallLinked(c) /\ RetryInv(c) /\ SpecialInv(c) /\ StoreInv(c))'
  <1>1. /\ request[c].pc \in {"retokenThenDiscover", "retokenThenPost"}
        /\ request'[c].pc \in Retokening /\ SameAsk(c)
        /\ request'[c].rejected = request[c].rejected
        /\ tokenCall'[c].pc = "lookup"
        /\ tokenCall'[c].auth = request[c].auth /\ tokenCall'[c].cred = request[c].cred
        /\ UNCHANGED <<tokenEntries, revoked>>
    BY CallFrame DEF Retoken, Retokening, catalogVars
  <1>2. FreshFor(c, request[c].rejected)'
    BY <1>1 DEF FreshFor, Attached
  <1>3. CallLinked(c)'
    BY <1>1 DEF CallLinked, SameAsk
  <1>4. RetryInv(c)'
    BY <1>1, <1>2 DEF RetryInv, FreshFor, SameAsk, Retrying, AfterDrop, Retokening, Again
  <1> QED
    BY <1>1, <1>3, <1>4 DEF SpecialInv, StoreInv, SameAsk, Retokening

(* The call returns, and what it returns is not the rejected token.        *)
LEMMA AgainInv ==
  ASSUME TypeOK, ExecTypeOK, NEW c \in Callers, CallLinked(c), RetryInv(c), SpecialInv(c),
         RediscoverToken(c) \/ RepostToken(c)
  PROVE  (CallLinked(c) /\ RetryInv(c) /\ SpecialInv(c) /\ StoreInv(c))'
  <1>1. /\ request[c].pc \in Retokening /\ SameAsk(c)
        /\ request'[c].pc \in Again \cup {"failed"}
        /\ request'[c].rejected = request[c].rejected
        /\ request'[c].token = tokenCall[c].entry
        /\ request'[c].pc = "failed" => request'[c].token = NoEntry
        /\ revoked' = revoked
    BY ProceedFrame DEF RediscoverToken, RepostToken, TokenArrives, Arrived, SameAsk,
       Retokening, Again, catalogVars
  <1>2. tokenCall[c].pc = "done" /\ tokenCall'[c].pc = "idle"
    BY DEF RediscoverToken, RepostToken, TokenArrives, Return, TypeOK, IdleCall
  <1>3. RetryInv(c)'
    BY <1>1, <1>2 DEF RetryInv, FreshFor, SameAsk, Retrying, AfterDrop, Retokening, Again
  <1> QED
    BY <1>1, <1>2, <1>3 DEF CallLinked, SpecialInv, StoreInv, SameAsk, Again

-----------------------------------------------------------------------------
(* The invariant is kept.                                                  *)

(* A frame that stays keeps its part, whatever the cache does meanwhile.   *)
LEMMA BystanderInv ==
  ASSUME TypeOK, ExecTypeOK, FlightInv, CacheInv, RevokedDelivered, [TokenStep]_tokenVars,
         revoked \subseteq revoked', NEW c \in Callers,
         CallLinked(c), RetryInv(c), SpecialInv(c), StoreInv(c),
         request'[c] = request[c],
         \/ tokenCall'[c] = tokenCall[c]
         \/ tokenCall'[c].auth = tokenCall[c].auth /\ tokenCall'[c].cred = tokenCall[c].cred
              /\ tokenCall[c].pc # "idle"
  PROVE  (CallLinked(c) /\ RetryInv(c) /\ SpecialInv(c) /\ StoreInv(c))'
  <1>1. CallLinked(c)' /\ SpecialInv(c)' /\ StoreInv(c)'
    BY DEF CallLinked, SpecialInv, StoreInv
  <1>2. RetryInv(c)'
    <2> DEFINE r == request[c]
    <2>1. r.pc \in Retrying => r.rejected \in 1..Len(flights) /\ flights[r.rejected].done
      BY DEF RetryInv, RevokedDelivered
    <2>2. r.pc \in AfterDrop \cup Retokening /\ r.auth # NoAuth =>
            tokenEntries'[r.auth].token # r.rejected
      BY <2>1, WorkingFrame, NeverCachedAgain
         DEF RetryInv, Retrying, AfterDrop, Retokening, Keys
    <2>3. r.pc \in Retokening /\ r.auth # NoAuth => FreshFor(c, r.rejected)'
      <3> SUFFICES ASSUME r.pc \in Retokening, r.auth # NoAuth
                   PROVE  FreshFor(c, r.rejected)'
        OBVIOUS
      <3>1. tokenCall[c].pc = "lookup" => tokenEntries[CallKey(c)].token # r.rejected
        BY DEF CallLinked, CallKey, KeyOf, RetryInv
      <3>2. PICK i \in 1..Len(flights) : i = r.rejected /\ flights[i].done
        BY <2>1 DEF Retrying
      <3>3. FreshFor(c, i)
        BY <3>2 DEF RetryInv
      <3>4. FreshFor(c, i)'
        BY <3>1, <3>2, <3>3, NeverReturnedAgain
      <3> QED
        BY <3>2, <3>4 DEF FreshFor
    <2> QED
      BY <2>2, <2>3 DEF RetryInv
  <1> QED
    BY <1>1, <1>2

LEMMA StartInv ==
  ASSUME TypeOK, ExecTypeOK, NEW c \in Callers, NEW kind \in Kinds, NEW auth, NEW cred,
         NEW model, StartRequest(c, kind, auth, cred, model),
         model # NoModel => kind = "execute"
  PROVE  (CallLinked(c) /\ RetryInv(c) /\ SpecialInv(c) /\ StoreInv(c))'
  <1>1. /\ request'[c].pc = IF kind = "http" THEN "httpToken" ELSE "modelsToken"
        /\ request'[c].kind = kind /\ request'[c].model = model
        /\ request'[c].auth = auth /\ request'[c].cred = cred
        /\ tokenCall'[c].auth = auth /\ tokenCall'[c].cred = cred
    BY DEF StartRequest, Begin, TypeOK, ExecTypeOK
  <1> QED
    BY <1>1 DEF CallLinked, RetryInv, SpecialInv, StoreInv, Retrying, AfterDrop,
       Retokening, Again

LEMMA FinishInv ==
  ASSUME TypeOK, ExecTypeOK, NEW c \in Callers, CallLinked(c), Finish(c)
  PROVE  (CallLinked(c) /\ RetryInv(c) /\ SpecialInv(c) /\ StoreInv(c))'
  <1>1. request'[c].pc = "idle" /\ tokenCall'[c].pc = "idle"
    BY DEF Finish, CallLinked, Outcomes, Retokening, ExecTypeOK, Idle, tokenVars
  <1> QED
    BY <1>1 DEF CallLinked, RetryInv, SpecialInv, StoreInv, Retrying, AfterDrop,
       Retokening, Again

(* The steps of one request leave the frames of the others alone.          *)
LEMMA WorkOthers ==
  ASSUME TypeOK, ExecTypeOK, NEW c \in Callers, NEW d \in Callers, d # c, Work(c)
  PROVE  request'[d] = request[d] /\ tokenCall'[d] = tokenCall[d]
  <1>1. CASE Inside(c) /\ UNCHANGED <<modelEntries, request, requests, revoked, clearing>>
    BY <1>1 DEF Inside, Hit, Join, Lead, Send, Answer, AnswerError, Publish, Wake, Goto,
       TypeOK
  <1>2. CASE Plain(c)
    <2>1. Return(c) \/ UNCHANGED tokenVars
      BY <1>2 DEF Plain, ModelsTokenError, ModelsToken, CatalogLookup, Listed,
         DiscoveryFails, Filter, StoreCatalog, FallbackToken, NotTranslated,
         PostAnswered, HTTPToken, TokenArrives
    <2>2. tokenCall'[d] = tokenCall[d]
      BY <2>1 DEF Return, tokenVars, TypeOK
    <2>3. request'[d] = request[d]
      BY <1>2, ProceedFrame
         DEF Plain, ModelsTokenError, ModelsToken, CatalogLookup, Listed, DiscoveryFails,
             Filter, StoreCatalog, FallbackToken, NotTranslated, PostAnswered, HTTPToken,
             GoesTo, Selected, ExecTypeOK
    <2> QED
      BY <2>2, <2>3
  <1>3. ASSUME NEW pc, CallToken(c, pc)
        PROVE  request'[d] = request[d] /\ tokenCall'[d] = tokenCall[d]
    BY <1>3, ProceedFrame DEF CallToken, GoesTo, Begin, TypeOK
  <1>4. CASE Fallback(c) \/ Retoken(c)
    BY <1>3, <1>4 DEF Fallback, Retoken
  <1>5. CASE Rejected(c) \/ DropToken(c) \/ DropCatalog(c) \/ Finish(c)
    BY <1>5, ProceedFrame
       DEF Rejected, DropToken, ForgetToken, InvalidateAuth, DropCatalog, Finish, GoesTo,
           tokenVars, ExecTypeOK
  <1>6. CASE RediscoverToken(c) \/ RepostToken(c)
    BY <1>6, ProceedFrame
       DEF RediscoverToken, RepostToken, TokenArrives, Return, TypeOK
  <1> QED
    BY <1>1, <1>2, <1>4, <1>5, <1>6 DEF Work, Discovery, Retry, Plain

LEMMA InsideFrame ==
  ASSUME TypeOK, NEW c \in Callers, Inside(c)
  PROVE  /\ tokenCall'[c].auth = tokenCall[c].auth /\ tokenCall'[c].cred = tokenCall[c].cred
         /\ tokenCall[c].pc # "idle"
  BY DEF Inside, Hit, Join, Lead, Send, Answer, AnswerError, Publish, Wake, Goto, TypeOK

LEMMA WorkInv ==
  ASSUME TypeOK, ExecTypeOK, FlightInv, CacheInv, ExecInv, NEW c \in Callers, Work(c)
  PROVE  \A d \in Callers : (CallLinked(d) /\ RetryInv(d) /\ SpecialInv(d) /\ StoreInv(d))'
  <1> USE DEF ExecInv
  <1>1. [TokenStep]_tokenVars
    BY WorkTokenSteps
  <1>2. UNCHANGED revoked
    BY DEF Work, Discovery, ModelsTokenError, ModelsToken, CatalogLookup, Listed,
       DiscoveryFails, Filter, StoreCatalog, Fallback, FallbackToken, Retry, Rejected,
       DropToken, DropCatalog, Retoken, RediscoverToken, RepostToken, NotTranslated,
       PostAnswered, HTTPToken, Finish, catalogVars
  <1>3. ASSUME NEW d \in Callers, d # c
        PROVE  (CallLinked(d) /\ RetryInv(d) /\ SpecialInv(d) /\ StoreInv(d))'
    BY <1>1, <1>2, <1>3, WorkOthers, BystanderInv
  <1>4. (CallLinked(c) /\ RetryInv(c) /\ SpecialInv(c) /\ StoreInv(c))'
    <2>1. CASE Inside(c) /\ UNCHANGED <<modelEntries, request, requests, revoked, clearing>>
      BY <1>1, <2>1, InsideFrame, BystanderInv
    <2>2. CASE Plain(c)
      BY <2>2, PlainInv
    <2>3. CASE Fallback(c)
      BY <2>3, FallbackInv
    <2>4. CASE Rejected(c)
      BY <2>4, RejectedInv
    <2>5. CASE DropToken(c)
      BY <2>5, DropTokenInv
    <2>6. CASE DropCatalog(c)
      BY <2>6, DropCatalogInv
    <2>7. CASE Retoken(c)
      BY <2>7, RetokenInv
    <2>8. CASE RediscoverToken(c) \/ RepostToken(c)
      BY <2>8, AgainInv
    <2>9. CASE Finish(c)
      BY <2>9, FinishInv
    <2> QED
      BY <2>1, <2>2, <2>3, <2>4, <2>5, <2>6, <2>7, <2>8, <2>9
         DEF Work, Discovery, Retry, Plain
  <1> QED
    BY <1>3, <1>4

LEMMA RevokedKept ==
  ASSUME TypeOK, ExecTypeOK, FlightInv, RevokedDelivered, OpenEmpty, [ExecNext]_execVars
  PROVE  RevokedDelivered' /\ revoked \subseteq revoked'
  <1>1. [TokenStep]_tokenVars
    BY ExecTokenSteps
  <1>2. CASE Revoke
    BY <1>2 DEF Revoke, RevokedDelivered, OpenEmpty, tokenVars
  <1>3. CASE UNCHANGED revoked
    BY <1>1, <1>3, DoneStays DEF RevokedDelivered
  <1>4. Revoke \/ UNCHANGED revoked
    BY DEF ExecNext, StartRequest, Reconfigure, Shutdown, ClearCatalogs, Pass, execVars,
       Work, Discovery, ModelsTokenError, ModelsToken, CatalogLookup, Listed,
       DiscoveryFails, Filter, StoreCatalog, Fallback, FallbackToken, Retry, Rejected,
       DropToken, DropCatalog, Retoken, RediscoverToken, RepostToken, NotTranslated,
       PostAnswered, HTTPToken, Finish, catalogVars
  <1>5. Revoke => revoked \subseteq revoked'
    BY DEF Revoke
  <1> QED
    BY <1>2, <1>3, <1>4, <1>5

LEMMA ExecNextInv ==
  ASSUME TypeOK, ExecTypeOK, FlightInv, CacheInv, ExecInv, [ExecNext]_execVars
  PROVE  ExecInv'
  <1>1. [TokenStep]_tokenVars
    BY ExecTokenSteps
  <1>2. RevokedDelivered' /\ OpenEmpty' /\ revoked \subseteq revoked'
    BY <1>1, RevokedKept, StepOpenEmpty DEF ExecInv
  <1>3. ASSUME NEW c \in Callers, Work(c), NEW d \in Callers
        PROVE  (CallLinked(d) /\ RetryInv(d) /\ SpecialInv(d) /\ StoreInv(d))'
    BY <1>3, WorkInv
  <1>4. ASSUME NEW c \in Callers, NEW kind \in Kinds, NEW auth \in RequestAuths,
               NEW cred \in Credentials, NEW model \in Models,
               StartRequest(c, kind, auth, cred,
                            IF kind = "execute" THEN model ELSE NoModel),
               NEW d \in Callers
        PROVE  (CallLinked(d) /\ RetryInv(d) /\ SpecialInv(d) /\ StoreInv(d))'
    <2>1. CASE d = c
      BY <1>4, <2>1, StartInv
    <2>2. CASE d # c
      <3>1. request'[d] = request[d] /\ tokenCall'[d] = tokenCall[d]
        BY <1>4, <2>2 DEF StartRequest, Begin, TypeOK, ExecTypeOK
      <3> QED
        BY <1>1, <1>2, <3>1, BystanderInv DEF ExecInv
    <2> QED
      BY <2>1, <2>2
  <1>5. ASSUME UNCHANGED <<request, tokenCall>>, NEW d \in Callers
        PROVE  (CallLinked(d) /\ RetryInv(d) /\ SpecialInv(d) /\ StoreInv(d))'
    BY <1>1, <1>2, <1>5, BystanderInv DEF ExecInv
  <1>6. (\E cfg \in Configs : Reconfigure(cfg)) \/ Shutdown \/ ClearCatalogs \/ Revoke
          \/ Pass \/ UNCHANGED execVars
        => UNCHANGED <<request, tokenCall>>
    BY DEF Reconfigure, Configure, Shutdown, ShutdownTokens, ClearCatalogs, Revoke, Pass,
       Tick, execVars, tokenVars
  <1> QED
    BY <1>2, <1>3, <1>4, <1>5, <1>6 DEF ExecNext, ExecInv

LEMMA ExecInitInv == ExecInit => TypeOK /\ FlightInv /\ CacheInv /\ ExecTypeOK /\ ExecInv
  <1>1. ExecInit => ExecTypeOK
    <2>1. 0 \in 0..MaxRequests
      BY RequestAssumption
    <2>2. ExecInit => request \in [Callers -> Frames \cup {Idle}]
                      /\ modelEntries \in [Keys -> Catalogs \cup {NoCatalog}]
      BY DEF ExecInit
    <2> QED
      BY <2>1, <2>2 DEF ExecInit, ExecTypeOK
  <1>2. ExecInit => ExecInv
    BY DEF ExecInit, Init, ExecInv, RevokedDelivered, OpenEmpty, CallLinked, RetryInv,
       SpecialInv, StoreInv, IdleCall, Idle, Retrying, AfterDrop, Retokening, Again
  <1> QED
    BY <1>1, <1>2, InitType, InitCacheInv DEF ExecInit

(* The strengthening is an invariant: the cache's own, the shapes of the   *)
(* frames and catalogs, and the above.                                     *)
THEOREM ExecCorrect == ExecSpec => [](TypeOK /\ FlightInv /\ CacheInv /\ ExecTypeOK /\ ExecInv)
  <1> DEFINE Inv == TypeOK /\ FlightInv /\ CacheInv /\ ExecTypeOK /\ ExecInv
  <1>1. Inv /\ [ExecNext]_execVars => Inv'
    <2> SUFFICES ASSUME Inv, [ExecNext]_execVars
                 PROVE  Inv'
      OBVIOUS
    <2>1. [TokenStep]_tokenVars
      BY ExecTokenSteps
    <2>2. TypeOK' /\ FlightInv' /\ CacheInv'
      BY <2>1, StepFlights, StepCache
    <2>3. ExecTypeOK'
      BY <2>2, ExecNextType DEF ExecInv
    <2> QED
      BY <2>2, <2>3, ExecNextInv
  <1> QED
    BY <1>1, ExecInitInv, PTL DEF ExecSpec

(* Whatever the requests do, the frames and the catalogs keep their shape, *)
(* and no cached catalog is empty (models.go:141-143).                     *)
THEOREM ExecTypeCorrect == ExecSpec => []ExecTypeOK
  BY ExecCorrect, PTL

(* The retry after a 401 under a host auth id is sent with another token   *)
(* than the rejected one (models.go:118-131, executor.go:120-132, 151-164): *)
(* a token that was delivered and then dropped comes back neither from the *)
(* cache, which only an open flight fills, nor from a flight joined or led *)
(* later.  A blank auth id drops nothing, and a second 401 in discovery    *)
(* drops nothing either; of what is sent then the theorem does not speak.  *)
THEOREM RetryWithFreshTokenHolds == ExecSpec => []RetryWithFreshToken
  <1>1. ExecInv => RetryWithFreshToken
    BY DEF ExecInv, RetryInv, RetryWithFreshToken, Again
  <1> QED
    BY <1>1, ExecCorrect, PTL

(* A model request for a special model is tried on /responses unless no    *)
(* token could be had (models.go:167-171, 180-182).                        *)
THEOREM SpecialModelsTriedHolds == ExecSpec => []SpecialModelsTried
  <1>1. ExecInv => SpecialModelsTried
    BY DEF ExecInv, SpecialInv, SpecialModelsTried
  <1> QED
    BY <1>1, ExecCorrect, PTL

(* What CopilotToken promises on its own holds under the requests, the     *)
(* retries and the reconfigurations of the whole service (token.go:38-80). *)
THEOREM TokensUnderRequests ==
  ExecSpec => [](SingleFlight /\ WaitersHaveLeader /\ NewestCached /\ ForeignOnlyByJoin)
  <1>1. TypeOK /\ FlightInv /\ CacheInv =>
          SingleFlight /\ WaitersHaveLeader /\ NewestCached /\ ForeignOnlyByJoin
    BY FlightsSingle, FlightsLed, CacheNewest
  <1> QED
    BY <1>1, ExecCorrect, PTL

(* The requests see the token cache as the atomic broadcast that           *)
(* SharedExchange describes (token.go:38-80).                              *)
THEOREM RequestsSeeSharedExchange == ExecSpec => ImplementsSharedExchange
  <1>1. ExecInit => Shared!Init
    BY InitImplements DEF ExecInit
  <1>2. TypeOK /\ TypeOK' /\ FlightInv /\ ExecTypeOK /\ [ExecNext]_execVars
          => [Shared!Next]_(Shared!vars)
    BY ExecTokenSteps, StepImplements
  <1> QED
    BY <1>1, <1>2, ExecCorrect, PTL DEF ExecSpec, ImplementsSharedExchange, Shared!Spec

=============================================================================
