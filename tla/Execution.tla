------------------------------ MODULE Execution ------------------------------
(***************************************************************************)
(* Requests of the host (internal/provider/models.go and executor.go) on   *)
(* top of the token cache: model discovery with its catalog cache, a model *)
(* request and its one retry after a 401, the HTTP passthrough, and what   *)
(* Configure and Shutdown do to the catalogs.  A request calls             *)
(* copilotToken of CopilotToken: Begin enters it, Return leaves it.        *)
(* Every critical section of modelMu is one action, and every host call is *)
(* a state of its own in which anything else may happen.                   *)
(***************************************************************************)
EXTENDS CopilotToken

CONSTANTS Models,          \* model ids Copilot offers
          SpecialModels,   \* specialResponsesModel: always on /responses
          Listings,        \* what GET /models may list: sets of models
          Kinds,           \* the requests of the run: "models", "execute", "http"
          RequestAuths,    \* the auth ids of the run's requests
          MaxRequests,     \* bound on the requests of a behaviour
          MaxRevoked       \* bound on the tokens Copilot revokes

NoModel == "none"

(* Configs of this module also have excluded (the model ids under the      *)
(* excluded prefixes) and ttl (model-cache-ttl).                           *)
ASSUME CatalogAssumption ==
  /\ NoModel \notin Models
  /\ SpecialModels \subseteq Models /\ Listings \subseteq SUBSET Models
  /\ \A cfg \in Configs : cfg.excluded \subseteq Models /\ cfg.ttl \in Nat
ASSUME RequestAssumption ==
  /\ Kinds \subseteq {"models", "execute", "http"}
  /\ RequestAuths \subseteq Auths \cup {NoAuth}
  /\ MaxRequests \in Nat

VARIABLES modelEntries,    \* s.modelEntries; NoCatalog where the map has no key
          request,         \* the frame of each caller above copilotToken
          requests,        \* how many requests have begun
          revoked,         \* the tokens the Copilot API answers with 401
          clearing         \* Configure or Shutdown still has to clear modelEntries

catalogVars == <<modelEntries, revoked, clearing>>
execVars == <<tokenVars, modelEntries, request, requests, revoked, clearing>>

NoCatalog == [expiresAt |-> 0]
Idle == [pc |-> "idle"]

RequestKey(c) == KeyOf(request[c].auth, request[c].cred)

(* The frame of c moves on.                                                *)
Proceed(c, pc, token, models) ==
  request' = [request EXCEPT ![c] =
    [pc |-> pc, kind |-> @.kind, auth |-> @.auth, cred |-> @.cred,
     model |-> @.model, token |-> token, at |-> @.at, models |-> models,
     rejected |-> @.rejected]]

GoesTo(c, pc) == Proceed(c, pc, request[c].token, request[c].models)

(* c calls copilotToken and will resume at pc.                             *)
CallToken(c, pc) ==
  /\ Begin(c, request[c].auth, request[c].cred)
  /\ GoesTo(c, pc)

-----------------------------------------------------------------------------
(* Variants of the definitions below, each with a seeded fault. *)

KeepRejectedToken(c) == UNCHANGED tokenVars
FallbackForListedOnly(c) ==
  request[c].kind = "execute" /\ request[c].model \in SpecialModels \cap request[c].models
AnyListing(models) == TRUE
RetryRetried(c) == request[c].pc \in {"discover", "post", "repost"}

-----------------------------------------------------------------------------
ExecInit ==
  /\ Init
  /\ modelEntries = [k \in Keys |-> NoCatalog]
  /\ request = [c \in Callers |-> Idle]
  /\ requests = 0
  /\ revoked = {}
  /\ clearing = FALSE

(* ModelsForAuth, Execute or ExecuteStream, or HTTP begins: each starts    *)
(* with copilotToken.                                                      *)
StartRequest(c, kind, auth, cred, model) ==
  /\ request[c].pc = "idle"
  /\ requests < MaxRequests
  /\ requests' = requests + 1
  /\ Begin(c, auth, cred)
  /\ request' = [request EXCEPT ![c] =
       [pc |-> IF kind = "http" THEN "httpToken" ELSE "modelsToken",
        kind |-> kind, auth |-> auth, cred |-> cred, model |-> model,
        token |-> NoEntry, at |-> 0, models |-> {}, rejected |-> 0]]
  /\ UNCHANGED catalogVars

(* copilotToken has returned to c, which waits for it at pc.               *)
TokenArrives(c, pc) == request[c].pc = pc /\ Return(c)
Arrived(c) == tokenCall[c].entry

(* How models() fails: discovery ends with its error, a model request      *)
(* falls back to /responses when the model is special.                     *)
FallsBack(c) == request[c].kind = "execute" /\ request[c].model \in SpecialModels

-----------------------------------------------------------------------------
(* models(): the token, the catalog cache, GET /models.                    *)

ModelsTokenError(c) ==
  /\ request[c].pc \in {"modelsToken", "rediscoverToken"}
  /\ tokenCall[c].pc = "done" /\ Arrived(c) = NoEntry
  /\ Return(c)
  /\ GoesTo(c, IF FallsBack(c) THEN "fallback" ELSE "failed")
  /\ UNCHANGED <<requests, catalogVars>>

ModelsToken(c) ==
  /\ TokenArrives(c, "modelsToken")
  /\ Arrived(c) # NoEntry
  /\ request' = [request EXCEPT ![c] =
       [pc |-> "catalog", kind |-> @.kind, auth |-> @.auth, cred |-> @.cred,
        model |-> @.model, token |-> Arrived(c), at |-> now, models |-> {},
        rejected |-> 0]]
  /\ UNCHANGED <<requests, catalogVars>>

CatalogHit(c) ==
  LET cached == modelEntries[RequestKey(c)]
  IN  /\ cached # NoCatalog
      /\ cached.fingerprint = Fingerprint(request[c].cred)
      /\ cached.apiURL = request[c].token.apiURL
      /\ cached.expiresAt > request[c].at

(* endpointForModel once the catalog is known.                             *)
Selected(c, token, models) ==
  LET found == request[c].model \in models \cup SpecialModels
  IN  Proceed(c, IF request[c].kind = "models" THEN "served"
                 ELSE IF found THEN "post" ELSE "unknownModel", token, {})

CatalogLookup(c) ==
  /\ request[c].pc = "catalog"
  /\ IF CatalogHit(c)
     THEN Selected(c, request[c].token, modelEntries[RequestKey(c)].models)
     ELSE GoesTo(c, "discover")
  /\ UNCHANGED <<tokenVars, requests, catalogVars>>

Unauthorized(c) == request[c].token.token \in revoked

(* GET /models answers with a list; models() drops nothing yet.            *)
Listed(c) ==
  /\ request[c].pc \in {"discover", "rediscover"}
  /\ ~Unauthorized(c)
  /\ \E listing \in Listings : Proceed(c, "filter", request[c].token, listing)
  /\ UNCHANGED <<tokenVars, requests, catalogVars>>

(* No answer, a bad status, a body that does not decode, or the second 401. *)
DiscoveryFails(c) ==
  /\ request[c].pc \in {"discover", "rediscover"}
  /\ request[c].pc = "discover" => ~Unauthorized(c)
  /\ GoesTo(c, IF FallsBack(c) THEN "fallback" ELSE "failed")
  /\ UNCHANGED <<tokenVars, requests, catalogVars>>

(* The configuration is read when the list is in hand; a list of which     *)
(* nothing is left is an error.                                            *)
Usable(models) == models # {}

Filter(c) ==
  /\ request[c].pc = "filter"
  /\ LET cleaned == request[c].models \ config.excluded
     IN  IF Usable(cleaned) THEN Proceed(c, "store", request[c].token, cleaned)
         ELSE GoesTo(c, IF FallsBack(c) THEN "fallback" ELSE "failed")
  /\ UNCHANGED <<tokenVars, requests, catalogVars>>

StoreCatalog(c) ==
  /\ request[c].pc = "store"
  /\ modelEntries' = [modelEntries EXCEPT ![RequestKey(c)] =
       [fingerprint |-> Fingerprint(request[c].cred),
        apiURL |-> request[c].token.apiURL,
        expiresAt |-> request[c].at + config.ttl, models |-> request[c].models]]
  /\ Selected(c, request[c].token, request[c].models)
  /\ UNCHANGED <<tokenVars, requests, revoked, clearing>>

(* endpointForModel asks for the token once more when discovery failed.    *)
Fallback(c) ==
  /\ request[c].pc = "fallback"
  /\ CallToken(c, "fallbackToken")
  /\ UNCHANGED <<requests, catalogVars>>

FallbackToken(c) ==
  /\ TokenArrives(c, "fallbackToken")
  /\ Proceed(c, IF Arrived(c) = NoEntry THEN "failed" ELSE "post", Arrived(c), {})
  /\ UNCHANGED <<requests, catalogVars>>

-----------------------------------------------------------------------------
(* A 401: invalidateAuth in its two critical sections, a new token, and    *)
(* the request once more.  The same three steps serve models(),            *)
(* doModelRequest and openModelStream.                                     *)

(* Only the first request is repeated (models.go:118, executor.go:120,     *)
(* 151).                                                                   *)
FirstTry(c) == request[c].pc \in {"discover", "post"}

Resume(c) == IF request[c].pc = "discover" THEN "dropThenDiscover" ELSE "dropThenPost"
Rejected(c) ==
  /\ FirstTry(c)
  /\ Unauthorized(c)
  /\ request' = [request EXCEPT ![c] =
       [pc |-> Resume(c), kind |-> @.kind, auth |-> @.auth, cred |-> @.cred,
        model |-> @.model, token |-> @.token, at |-> @.at, models |-> @.models,
        rejected |-> @.token.token]]
  /\ UNCHANGED <<tokenVars, requests, catalogVars>>

ForgetToken(c) == InvalidateAuth(request[c].auth)

DropToken(c) ==
  /\ \/ request[c].pc = "dropThenDiscover" /\ GoesTo(c, "clearThenDiscover")
     \/ request[c].pc = "dropThenPost" /\ GoesTo(c, "clearThenPost")
  /\ ForgetToken(c)
  /\ UNCHANGED <<requests, catalogVars>>

DropCatalog(c) ==
  /\ \/ request[c].pc = "clearThenDiscover" /\ GoesTo(c, "retokenThenDiscover")
     \/ request[c].pc = "clearThenPost" /\ GoesTo(c, "retokenThenPost")
  /\ modelEntries' = IF request[c].auth = NoAuth THEN modelEntries
                     ELSE [modelEntries EXCEPT ![request[c].auth] = NoCatalog]
  /\ UNCHANGED <<tokenVars, requests, revoked, clearing>>

Retoken(c) ==
  /\ \/ request[c].pc = "retokenThenDiscover" /\ CallToken(c, "rediscoverToken")
     \/ request[c].pc = "retokenThenPost" /\ CallToken(c, "repostToken")
  /\ UNCHANGED <<requests, catalogVars>>

(* An error of this call is handled by ModelsTokenError.                   *)
RediscoverToken(c) ==
  /\ TokenArrives(c, "rediscoverToken")
  /\ Arrived(c) # NoEntry
  /\ Proceed(c, "rediscover", Arrived(c), {})
  /\ UNCHANGED <<requests, catalogVars>>

RepostToken(c) ==
  /\ TokenArrives(c, "repostToken")
  /\ IF Arrived(c) = NoEntry THEN Proceed(c, "failed", NoEntry, {})
     ELSE Proceed(c, "repost", Arrived(c), {})
  /\ UNCHANGED <<requests, catalogVars>>

-----------------------------------------------------------------------------
(* The model request and the passthrough.                                  *)

(* No route for the model's endpoint, or the payload does not translate:   *)
(* nothing is sent.                                                        *)
NotTranslated(c) ==
  /\ request[c].pc = "post"
  /\ GoesTo(c, "untranslated")
  /\ UNCHANGED <<tokenVars, requests, catalogVars>>

(* The API answers, or the host call fails; a 401 to the first attempt is  *)
(* Rejected.  HTTP passes even a 401 through.                              *)
PostAnswered(c) ==
  /\ request[c].pc \in {"post", "repost", "http"}
  /\ \/ ~Unauthorized(c) /\ GoesTo(c, "served")
     \/ request[c].pc = "repost" /\ Unauthorized(c) /\ GoesTo(c, "unauthorized")
     \/ request[c].pc = "http" /\ Unauthorized(c) /\ GoesTo(c, "served")
     \/ GoesTo(c, "sendFailed")
  /\ UNCHANGED <<tokenVars, requests, catalogVars>>

(* HTTP checks the target against the token's API base after copilotToken. *)
HTTPToken(c) ==
  /\ TokenArrives(c, "httpToken")
  /\ \/ Arrived(c) # NoEntry /\ Proceed(c, "http", Arrived(c), {})
     \/ GoesTo(c, "failed")
  /\ UNCHANGED <<requests, catalogVars>>

Outcomes == {"served", "failed", "sendFailed", "unknownModel", "untranslated", "unauthorized"}

Finish(c) ==
  /\ request[c].pc \in Outcomes
  /\ request' = [request EXCEPT ![c] = Idle]
  /\ UNCHANGED <<tokenVars, requests, catalogVars>>

-----------------------------------------------------------------------------
(* The service and its surroundings.                                       *)

(* Configure and Shutdown each take a second lock to clear the catalogs.   *)
(* The host runs one of them at a time.                                    *)
Reconfigure(cfg) ==
  /\ ~clearing
  /\ Configure(cfg)
  /\ clearing' = TRUE
  /\ UNCHANGED <<modelEntries, request, requests, revoked>>

Shutdown ==
  /\ ~clearing
  /\ ShutdownTokens
  /\ clearing' = TRUE
  /\ UNCHANGED <<modelEntries, request, requests, revoked>>

ClearCatalogs ==
  /\ clearing
  /\ clearing' = FALSE
  /\ modelEntries' = [k \in Keys |-> NoCatalog]
  /\ UNCHANGED <<tokenVars, request, requests, revoked>>

(* Copilot stops accepting a token it has issued.                          *)
Revoke ==
  /\ Cardinality(revoked) < MaxRevoked
  /\ \E i \in 1..Len(flights) :
       flights[i].entry # NoEntry /\ revoked' = revoked \cup {i}
  /\ UNCHANGED <<tokenVars, modelEntries, request, requests, clearing>>

Pass == Tick /\ UNCHANGED <<modelEntries, request, requests, revoked, clearing>>

Discovery(c) ==
  \/ ModelsTokenError(c) \/ ModelsToken(c) \/ CatalogLookup(c) \/ Listed(c)
  \/ DiscoveryFails(c) \/ Filter(c) \/ StoreCatalog(c)
  \/ Fallback(c) \/ FallbackToken(c)

Retry(c) ==
  \/ Rejected(c) \/ DropToken(c) \/ DropCatalog(c) \/ Retoken(c)
  \/ RediscoverToken(c) \/ RepostToken(c)

Work(c) ==
  \/ Inside(c) /\ UNCHANGED <<modelEntries, request, requests, revoked, clearing>>
  \/ Discovery(c) \/ Retry(c)
  \/ NotTranslated(c) \/ PostAnswered(c) \/ HTTPToken(c)
  \/ Finish(c)

ExecNext ==
  \/ \E c \in Callers : Work(c)
  \/ \E c \in Callers, kind \in Kinds, auth \in RequestAuths,
       cred \in Credentials, model \in Models :
         StartRequest(c, kind, auth, cred, IF kind = "execute" THEN model ELSE NoModel)
  \/ \E cfg \in Configs : Reconfigure(cfg)
  \/ Shutdown \/ ClearCatalogs \/ Revoke \/ Pass

ExecSpec == ExecInit /\ [][ExecNext]_execVars

(* Goroutines run, the mutexes starve no one and host calls end.           *)
ExecFairSpec == ExecSpec /\ \A c \in Callers : WF_execVars(Work(c))

-----------------------------------------------------------------------------
(* Properties. *)

Catalogs == [fingerprint : Fingerprints, apiURL : URLs, expiresAt : Nat,
             models : (SUBSET Models) \ {{}}]
WorkPCs == Outcomes \cup
  {"modelsToken", "catalog", "discover", "filter", "store", "fallback",
   "fallbackToken", "dropThenDiscover", "dropThenPost", "clearThenDiscover",
   "clearThenPost", "retokenThenDiscover", "retokenThenPost", "rediscoverToken",
   "rediscover", "repostToken", "post", "repost", "httpToken", "http"}
Frames == [pc : WorkPCs, kind : Kinds, auth : Auths \cup {NoAuth},
           cred : Credentials, model : Models \cup {NoModel},
           token : Entry \cup {NoEntry}, at : Nat, models : SUBSET Models,
           rejected : 0..MaxFlights]

(* The shape of the catalogs and of the frames; a cached catalog is never  *)
(* empty (models.go:141-143).                                              *)
ExecTypeOK ==
  /\ modelEntries \in [Keys -> Catalogs \cup {NoCatalog}]
  /\ request \in [Callers -> Frames \cup {Idle}]
  /\ requests \in 0..MaxRequests
  /\ revoked \subseteq 1..MaxFlights
  /\ clearing \in BOOLEAN

(* The retry after a 401 (models.go:118-131, executor.go:120-132, 151-164) *)
(* uses another token than the one that was rejected, even when other      *)
(* requests publish, join and invalidate meanwhile.  Only for a host auth  *)
(* id: invalidateAuth does nothing for a blank one.  And it is about the   *)
(* retry alone: a token that the retry of a discovery has rejected is not  *)
(* dropped (models.go:118), and the request for a special model may go out *)
(* with it (models.go:167-171).                                            *)
RetryWithFreshToken ==
  \A c \in Callers :
    request[c].pc \in {"rediscover", "repost"} /\ request[c].auth # NoAuth =>
      request[c].token.token # request[c].rejected

(* A special model is always tried (models.go:167-171, 180-182; README.md: *)
(* 68-69): a model request for one never ends as unknown, and is given up  *)
(* while its endpoint is looked for only when no Copilot token could be    *)
(* had.  (A payload that does not translate still ends it before it is     *)
(* sent.)                                                                  *)
SpecialModelsTried ==
  \A c \in Callers :
    request[c].pc # "idle" /\ request[c].model \in SpecialModels =>
      /\ request[c].pc # "unknownModel"
      /\ request[c].pc = "failed" => request[c].token = NoEntry

(* Every request of the host ends (executor.go:36-138): a retry is not     *)
(* retried, and no request waits for a token for ever.                     *)
EveryRequestEnds ==
  \A c \in Callers : request[c].pc # "idle" ~> request[c].pc = "idle"

(* README.md:73-75: the deployment excludes claude-* "so native Claude     *)
(* OAuth always owns those model IDs".  Once Configure has returned, no    *)
(* cached catalog would hold an excluded model.                            *)
ExcludedModelsNotCached ==
  ~clearing => \A k \in Keys :
    modelEntries[k] # NoCatalog => modelEntries[k].models \cap config.excluded = {}
=============================================================================
