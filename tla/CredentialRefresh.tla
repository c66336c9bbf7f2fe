-------------------------- MODULE CredentialRefresh --------------------------
(***************************************************************************)
(* RefreshAuth and ParseAuth of internal/provider/oauth.go with the parts  *)
(* of storage.go they use: how a GitHub login is kept alive.  The plugin   *)
(* holds nothing between the calls; the storage is the host's, which hands *)
(* a copy of it to RefreshAuth and saves what comes back.  GitHub grants a *)
(* new access token for a refresh token and may replace the refresh token  *)
(* with it, and then takes the old one no more.                            *)
(*                                                                         *)
(* Time is counted in minutes.  The host is taken to be punctual: it calls *)
(* RefreshAuth when NextRefreshAfter has come, and a call takes MaxCall    *)
(* minutes at most.  It may call earlier too, and from several goroutines  *)
(* at once, and it may restart.                                            *)
(***************************************************************************)
EXTENDS Integers, Sequences

CONSTANTS Workers,         \* the host's goroutines that refresh
          Lifetimes,       \* expires_in; 0 when GitHub tells none
          RefreshLifetimes,\* refresh_token_expires_in; 0 when it tells none
          MaxLogin,        \* the longest from GitHub's grant to the login's end
          MaxCall,         \* the longest call of RefreshAuth
          HostPause,       \* how long the host waits after an error
          MaxIssued,       \* how many access tokens GitHub issues
          MaxRestarts,     \* restarts that put one refresh off
          MaxTime          \* where the clock stops

ASSUME RefreshAssumption ==
  /\ Lifetimes \subseteq Nat /\ RefreshLifetimes \subseteq Nat
  /\ {MaxLogin, MaxCall, HostPause, MaxRestarts, MaxTime} \subseteq Nat /\ MaxIssued \in Nat \ {0}

Buffer == 10               \* a token is refreshed so long before it expires

(* What TokenLive needs and the code takes for granted: a token outlives   *)
(* the call that brings it, and what is lost between the refresh and the   *)
(* expiry is less than the ten minutes: the minute by which each restart   *)
(* puts a refresh off that is due, and what the login took, which counts   *)
(* GitHub's lifetime from its own end.                                     *)
ASSUME PunctualAssumption ==
  /\ MaxLogin + MaxRestarts < Buffer
  /\ \A lifetime \in Lifetimes \ {0}, delay \in {MaxLogin, MaxCall} :
       delay + MaxRestarts + 1 < lifetime
RefreshPause == 1          \* but never again within this time
Day == 24 * 60             \* when a token without expiry is looked at again

VARIABLES now,             \* the clock
          stored,          \* the host's copy of authStorage
          nextRefresh,     \* NextRefreshAfter, as the host knows it
          issued,          \* when the access tokens GitHub issued expire
          rotates,         \* GitHub replaces the refresh token at each grant
          refreshUntil,    \* when the refresh token expires for GitHub
          worker,          \* where each RefreshAuth stands
          lost,            \* a new refresh token has not reached the storage
          missed,          \* a refresh has failed since the last that did not
          restarts         \* how many restarts have put the next refresh off

githubVars == <<issued, rotates, refreshUntil>>
refreshVars == <<now, stored, nextRefresh, githubVars, worker, lost, missed,
                 restarts>>

NoToken == 0
Storage(access, refresh, expiresAt, refreshExpiresAt) ==
  [access |-> access, refresh |-> refresh, expiresAt |-> expiresAt,
   refreshExpiresAt |-> refreshExpiresAt]

(* GitHub's answer: access and refresh tokens are numbered as they are     *)
(* issued; a blank refresh_token is NoToken.                               *)
Answer(access, refresh, lifetime, refreshLifetime) ==
  [access |-> access, refresh |-> refresh, lifetime |-> lifetime,
   refreshLifetime |-> refreshLifetime]

Idle == [at |-> "idle"]
Asking(storage, time) == [at |-> "asking", storage |-> storage, time |-> time]
Answered(storage, time, answer) ==
  [at |-> "answered", storage |-> storage, time |-> time, answer |-> answer]

At(w, place) == worker[w].at = place
Moves(w, place) == worker' = [worker EXCEPT ![w] = place]

(* When something that lasts so long ends; 0 is never.                     *)
Until(lifetime) == IF lifetime > 0 THEN now + lifetime ELSE 0
Live(until) == until = 0 \/ now < until

-----------------------------------------------------------------------------
(* Variants of the definitions below, each with a seeded fault. *)

RefreshAtExpiry(storage, time) ==
  IF storage.expiresAt = 0 THEN time + Day
  ELSE IF storage.expiresAt < time + RefreshPause THEN time + RefreshPause
  ELSE storage.expiresAt
NextUnbounded(storage, time) ==
  IF storage.expiresAt > 0 THEN storage.expiresAt - Buffer ELSE time + Day
RefreshTokenKept(storage, time, answer) ==
  Storage(answer.access, storage.refresh,
          IF answer.lifetime > 0 THEN time + answer.lifetime ELSE storage.expiresAt,
          storage.refreshExpiresAt)

-----------------------------------------------------------------------------
(* nextGitHubRefresh *)
NextGitHubRefresh(storage, time) ==
  IF storage.expiresAt = 0 THEN time + Day
  ELSE IF storage.expiresAt - Buffer < time + RefreshPause THEN time + RefreshPause
  ELSE storage.expiresAt - Buffer

(* The storage is of a login that has just succeeded, with what GitHub     *)
(* told, or did not tell, of the lifetimes.  GitHub counts them from its   *)
(* grant, which is time 0; PollLogin counts them from now, after the       *)
(* answer's way back and its look-up of the user.                          *)
RefreshInit ==
  /\ now \in 0..MaxLogin
  /\ rotates \in BOOLEAN
  /\ \E lifetime \in Lifetimes, refreshLifetime \in RefreshLifetimes,
        refresh \in {NoToken, 1} :
       /\ issued = <<lifetime>>
       /\ refreshUntil = refreshLifetime
       /\ stored = Storage(1, refresh, Until(lifetime), Until(refreshLifetime))
       /\ nextRefresh = NextGitHubRefresh(stored, now)
  /\ worker = [w \in Workers |-> Idle]
  /\ lost = FALSE /\ missed = FALSE /\ restarts = 0

-----------------------------------------------------------------------------
(* RefreshAuth, up to its request.                                         *)

(* The access token is still good for more than ten minutes, or for ever.  *)
Due(storage) == storage.expiresAt # 0 /\ storage.expiresAt <= now + Buffer

(* RefreshAuth returns the storage it was given.  Nothing is waited for,   *)
(* so the host has saved it before anything else happens.                  *)
NotDue(w) ==
  /\ At(w, "idle")
  /\ ~Due(stored)
  /\ nextRefresh' = NextGitHubRefresh(stored, now)
  /\ UNCHANGED <<now, stored, githubVars, worker, lost, missed, restarts>>

(* The refresh token is unknown, or has expired as far as the plugin knows. *)
Spent(storage) ==
  \/ storage.refresh = NoToken
  \/ storage.refreshExpiresAt > 0 /\ storage.refreshExpiresAt <= now

(* An error: the host tries again later.                                   *)
Errs(w) ==
  /\ Moves(w, Idle)
  /\ nextRefresh' = now + HostPause
  /\ missed' = TRUE

(* auth_expired *)
Refuses(w) ==
  /\ At(w, "idle")
  /\ Due(stored) /\ Spent(stored)
  /\ Errs(w)
  /\ UNCHANGED <<now, stored, githubVars, lost, restarts>>

Asks(w) ==
  /\ At(w, "idle")
  /\ Due(stored) /\ ~Spent(stored)
  /\ Moves(w, Asking(stored, now))
  /\ UNCHANGED <<now, stored, nextRefresh, githubVars, lost, missed, restarts>>

-----------------------------------------------------------------------------
(* GitHub. *)

CurrentRefresh == IF rotates THEN Len(issued) ELSE 1
Accepts(storage) == storage.refresh = CurrentRefresh /\ Live(refreshUntil)

Grants(w, lifetime, refreshLifetime) ==
  LET token == Len(issued) + 1
  IN  /\ At(w, "asking")
      /\ Accepts(worker[w].storage)
      /\ Len(issued) < MaxIssued
      /\ issued' = Append(issued, Until(lifetime))
      /\ IF rotates
         THEN /\ refreshUntil' = Until(refreshLifetime)
              /\ Moves(w, Answered(worker[w].storage, worker[w].time,
                                   Answer(token, token, lifetime, refreshLifetime)))
         ELSE /\ refreshUntil' = refreshUntil
              /\ Moves(w, Answered(worker[w].storage, worker[w].time,
                                   Answer(token, NoToken, lifetime, 0)))
      /\ UNCHANGED <<now, stored, nextRefresh, rotates, lost, missed, restarts>>

(* An answer without an access token.                                      *)
Denies(w) ==
  /\ At(w, "asking")
  /\ ~Accepts(worker[w].storage)
  /\ Errs(w)
  /\ UNCHANGED <<now, stored, githubVars, lost, restarts>>

(* The request or the answer is lost, or the answer cannot be read.        *)
LosesRequest(w) ==
  /\ At(w, "asking")
  /\ Errs(w)
  /\ UNCHANGED <<now, stored, githubVars, lost, restarts>>

LosesAnswer(w) ==
  /\ At(w, "answered")
  /\ Errs(w)
  /\ lost' = (lost \/ rotates)
  /\ UNCHANGED <<now, stored, githubVars, restarts>>

-----------------------------------------------------------------------------
(* RefreshAuth, from the answer on, and the host.                          *)

(* The times are counted from before the request was sent.                 *)
Refreshed(storage, time, answer) ==
  Storage(answer.access,
          IF answer.refresh # NoToken THEN answer.refresh ELSE storage.refresh,
          IF answer.lifetime > 0 THEN time + answer.lifetime ELSE storage.expiresAt,
          IF answer.refreshLifetime > 0 THEN time + answer.refreshLifetime
          ELSE storage.refreshExpiresAt)

(* RefreshAuth returns and the host saves its storage.  A host that ends   *)
(* between the two is one that ends before the answer is read.             *)
Returns(w) ==
  /\ At(w, "answered")
  /\ stored' = Refreshed(worker[w].storage, worker[w].time, worker[w].answer)
  /\ nextRefresh' = NextGitHubRefresh(stored', now)
  /\ missed' = FALSE /\ restarts' = 0
  /\ Moves(w, Idle)
  /\ UNCHANGED <<now, githubVars, lost>>

(* The host ends and starts again: ParseAuth reads what was saved.  A      *)
(* refresh that is due, or will be within a minute, is put off to then;    *)
(* only the restarts that do so are counted, and until the next refresh.   *)
PutsOff(storage) ==
  storage.expiresAt # 0 /\ storage.expiresAt - Buffer < now + RefreshPause

Restart ==
  /\ IF PutsOff(stored)
     THEN restarts < MaxRestarts /\ restarts' = restarts + 1
     ELSE UNCHANGED restarts
  /\ worker' = [w \in Workers |-> Idle]
  /\ nextRefresh' = NextGitHubRefresh(stored, now)
  /\ missed' = (missed \/ \E w \in Workers : ~At(w, "idle"))
  /\ lost' = (lost \/ (rotates /\ \E w \in Workers : At(w, "answered")))
  /\ UNCHANGED <<now, stored, githubVars>>

(* The clock waits for the host to call in time and for calls to end.      *)
Tick ==
  /\ now < MaxTime
  /\ now < nextRefresh \/ \E w \in Workers : ~At(w, "idle")
  /\ \A w \in Workers : ~At(w, "idle") => now < worker[w].time + MaxCall
  /\ now' = now + 1
  /\ UNCHANGED <<stored, nextRefresh, githubVars, worker, lost, missed, restarts>>

RefreshNext ==
  \/ \E w \in Workers :
       \/ NotDue(w) \/ Refuses(w) \/ Asks(w)
       \/ \E lifetime \in Lifetimes, refreshLifetime \in RefreshLifetimes :
            Grants(w, lifetime, refreshLifetime)
       \/ Denies(w) \/ LosesRequest(w) \/ LosesAnswer(w)
       \/ Returns(w)
  \/ Restart
  \/ Tick

RefreshSpec == RefreshInit /\ [][RefreshNext]_refreshVars

-----------------------------------------------------------------------------
(* Properties. *)

Storages == [access : 1..MaxIssued, refresh : 0..MaxIssued, expiresAt : Nat,
             refreshExpiresAt : Nat]
Answers == [access : 1..MaxIssued, refresh : 0..MaxIssued, lifetime : Nat,
            refreshLifetime : Nat]

RefreshTypeOK ==
  /\ now \in Nat /\ nextRefresh \in Nat
  /\ stored \in Storages
  /\ issued \in Seq(Nat) /\ Len(issued) \in 1..MaxIssued
  /\ rotates \in BOOLEAN /\ lost \in BOOLEAN /\ missed \in BOOLEAN
  /\ refreshUntil \in Nat /\ restarts \in 0..MaxRestarts
  /\ worker \in [Workers -> {Idle}
       \cup [at : {"asking"}, storage : Storages, time : Nat]
       \cup [at : {"answered"}, storage : Storages, time : Nat, answer : Answers]]

(* The login survives refreshes that overlap (oauth.go:363-427): unless an *)
(* answer was lost on its way, the refresh token GitHub takes next is in   *)
(* the storage, or a call that is still running brings it there - however  *)
(* many goroutines use the same token at once.                             *)
NewRefreshToken(w) ==
  Refreshed(worker[w].storage, worker[w].time, worker[w].answer).refresh
LoginKept ==
  \/ lost
  \/ stored.refresh \in {NoToken, CurrentRefresh}
  \/ \E w \in Workers : At(w, "answered") /\ NewRefreshToken(w) = CurrentRefresh

(* Refreshed before it expires (storage.go:141-150, oauth.go:369-381): as  *)
(* long as the host is punctual and no refresh has failed, the access      *)
(* token in the storage is one that GitHub takes whenever no refresh is    *)
(* under way, also after restarts, with a lifetime below the buffer, and   *)
(* although the login stores a later expiry than GitHub's                  *)
(* (oauth.go:246, 258-260).                                                *)
TokenLive ==
  ~lost /\ ~missed /\ (\A w \in Workers : At(w, "idle")) =>
    /\ Live(issued[stored.access])
    /\ rotates /\ stored.refresh # NoToken => stored.access = Len(issued)
=============================================================================
