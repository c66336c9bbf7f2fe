----------------------- MODULE CredentialRefreshProofs -----------------------
(***************************************************************************)
(* Proofs about CredentialRefresh for any number of goroutines, lifetimes, *)
(* restarts and failures.  Overlapping refreshes never lose the login:     *)
(* GitHub alone decides which of two calls with the same refresh token     *)
(* succeeds, and the storage changes only by the call that did.  And while *)
(* no call fails, the token in the storage is alive whenever it is idle.   *)
(***************************************************************************)
EXTENDS CredentialRefresh, SequenceTheorems, TLAPS

-----------------------------------------------------------------------------
(* The inductive invariant, in named parts.                                *)

(* GitHub never replaces the token: everyone has the first or none.        *)
OneToken ==
  ~rotates =>
    /\ stored.refresh \in {NoToken, 1}
    /\ \A w \in Workers :
         /\ At(w, "asking") => worker[w].storage.refresh \in {NoToken, 1}
         /\ At(w, "answered") =>
              worker[w].storage.refresh \in {NoToken, 1} /\ worker[w].answer.refresh = NoToken

(* Nobody has a newer token than the storage, except the one call whose    *)
(* answer brings the newest.                                               *)
NewestCarried ==
  /\ stored.refresh <= Len(issued)
  /\ \A w \in Workers :
       /\ At(w, "asking") => worker[w].storage.refresh <= stored.refresh
       /\ At(w, "answered") =>
            stored.refresh < Len(issued) /\ worker[w].answer.refresh = Len(issued)
  /\ \A v, w \in Workers : At(v, "answered") /\ At(w, "answered") => v = w
  /\ \/ stored.refresh \in {NoToken, Len(issued)}
     \/ \E w \in Workers : At(w, "answered")

(* Without a refresh token nobody asks.                                    *)
NobodyAsks == stored.refresh = NoToken => \A w \in Workers : At(w, "idle")

RotationInv == rotates /\ ~lost => NewestCarried /\ NobodyAsks
RefreshInv == RefreshTypeOK /\ OneToken /\ RotationInv

-----------------------------------------------------------------------------
(* The types of what the handlers compute.                                 *)

LEMMA NextType ==
  ASSUME NEW storage \in Storages, NEW time \in Nat
  PROVE  NextGitHubRefresh(storage, time) \in Nat
  BY DEF NextGitHubRefresh, Storages, Buffer, RefreshPause, Day

LEMMA RefreshedType ==
  ASSUME NEW storage \in Storages, NEW time \in Nat, NEW answer \in Answers
  PROVE  Refreshed(storage, time, answer) \in Storages
  BY DEF Refreshed, Storage, Storages, Answers, NoToken

LEMMA FrameTypes ==
  ASSUME RefreshTypeOK, NEW w \in Workers
  PROVE  /\ worker[w].at \in {"idle", "asking", "answered"}
         /\ ~At(w, "idle") => worker[w].storage \in Storages /\ worker[w].time \in Nat
         /\ At(w, "answered") => worker[w].answer \in Answers
  BY DEF RefreshTypeOK, At, Idle

(* A goroutine moves and the others stay.                                  *)
LEMMA MovesAt ==
  ASSUME RefreshTypeOK, NEW w \in Workers, NEW place, Moves(w, place)
  PROVE  /\ worker'[w] = place
         /\ \A v \in Workers : v # w => worker'[v] = worker[v]
  BY DEF RefreshTypeOK, Moves

-----------------------------------------------------------------------------
(* Types are kept.                                                         *)

Frames ==
  {Idle} \cup [at : {"asking"}, storage : Storages, time : Nat]
    \cup [at : {"answered"}, storage : Storages, time : Nat, answer : Answers]

LEMMA MovesType ==
  ASSUME RefreshTypeOK, NEW w \in Workers, NEW place \in Frames, Moves(w, place)
  PROVE  worker' \in [Workers -> Frames]
  BY DEF RefreshTypeOK, Moves, Frames

LEMMA GrantType ==
  ASSUME RefreshTypeOK, NEW w \in Workers, NEW lifetime \in Lifetimes,
         NEW refreshLifetime \in RefreshLifetimes, Grants(w, lifetime, refreshLifetime)
  PROVE  RefreshTypeOK'
<1>1. /\ lifetime \in Nat /\ refreshLifetime \in Nat /\ now \in Nat
      /\ Until(lifetime) \in Nat /\ Until(refreshLifetime) \in Nat
  BY RefreshAssumption DEF RefreshTypeOK, Until
<1>2. At(w, "asking") /\ ~At(w, "idle")
  BY DEF Grants, At
<1>3. worker[w].storage \in Storages /\ worker[w].time \in Nat
  BY <1>2, FrameTypes
<1>4. /\ issued \in Seq(Nat) /\ Len(issued) \in 1..MaxIssued /\ Len(issued) < MaxIssued
      /\ issued' = Append(issued, Until(lifetime)) /\ MaxIssued \in Nat
  BY RefreshAssumption DEF RefreshTypeOK, Grants
<1>5. issued' \in Seq(Nat) /\ Len(issued') = Len(issued) + 1
  BY <1>1, <1>4, AppendProperties
<1>6. Len(issued') \in 1..MaxIssued
  BY <1>4, <1>5
<1>7. \A refresh \in {NoToken, Len(issued) + 1}, until \in Nat :
        Answered(worker[w].storage, worker[w].time,
                 Answer(Len(issued) + 1, refresh, lifetime, until)) \in Frames
  <2>1. Len(issued) + 1 \in 1..MaxIssued
    BY <1>4
  <2> TAKE refresh \in {NoToken, Len(issued) + 1}, until \in Nat
  <2>2. refresh \in 0..MaxIssued
    BY <1>4, <2>1 DEF NoToken
  <2>3. Answer(Len(issued) + 1, refresh, lifetime, until) \in Answers
    BY <1>1, <2>1, <2>2 DEF Answer, Answers
  <2> QED BY <1>3, <2>3 DEF Answered, Frames
<1>8. worker' \in [Workers -> Frames]
  BY <1>1, <1>7, MovesType DEF Grants, NoToken
<1>9. refreshUntil' \in Nat
  BY <1>1 DEF Grants, RefreshTypeOK
<1> QED BY <1>5, <1>6, <1>8, <1>9 DEF Grants, RefreshTypeOK, Frames

LEMMA TypeStep ==
  ASSUME RefreshTypeOK, [RefreshNext]_refreshVars
  PROVE  RefreshTypeOK'
<1>1. Idle \in Frames
  BY DEF Frames
<1>2. stored \in Storages /\ now \in Nat /\ {MaxRestarts, HostPause} \subseteq Nat
  BY RefreshAssumption DEF RefreshTypeOK
<1>3. NextGitHubRefresh(stored, now) \in Nat
  BY <1>2, NextType
<1>4. ASSUME NEW w \in Workers, NotDue(w) PROVE RefreshTypeOK'
  BY <1>3, <1>4 DEF NotDue, RefreshTypeOK, githubVars
<1>5. ASSUME NEW w \in Workers, Errs(w), NEW flag \in BOOLEAN, lost' = flag,
             UNCHANGED <<now, stored, githubVars, restarts>>
      PROVE  RefreshTypeOK'
  <2>1. worker' \in [Workers -> Frames]
    BY <1>1, <1>5, MovesType DEF Errs
  <2>2. nextRefresh' \in Nat /\ missed' \in BOOLEAN
    BY <1>2, <1>5 DEF Errs
  <2> QED BY <1>5, <2>1, <2>2 DEF RefreshTypeOK, Frames, githubVars
<1>6. lost \in BOOLEAN /\ (lost \/ rotates) \in BOOLEAN
  BY DEF RefreshTypeOK
<1>7. ASSUME NEW w \in Workers, Asks(w) PROVE RefreshTypeOK'
  <2>1. Asking(stored, now) \in Frames
    BY <1>2 DEF Asking, Frames
  <2>2. worker' \in [Workers -> Frames]
    BY <1>7, <2>1, MovesType DEF Asks
  <2> QED BY <1>7, <2>2 DEF Asks, RefreshTypeOK, Frames, githubVars
<1>8. ASSUME NEW w \in Workers, Returns(w) PROVE RefreshTypeOK'
  <2>1. worker[w].storage \in Storages /\ worker[w].time \in Nat
        /\ worker[w].answer \in Answers
    BY <1>8, FrameTypes DEF Returns, At
  <2>2. stored' \in Storages
    BY <1>8, <2>1, RefreshedType DEF Returns
  <2>3. nextRefresh' \in Nat
    BY <1>2, <1>8, <2>2, NextType DEF Returns
  <2>4. worker' \in [Workers -> Frames]
    BY <1>1, <1>8, MovesType DEF Returns
  <2>5. restarts' \in 0..MaxRestarts
    BY <1>2, <1>8 DEF Returns
  <2> QED BY <1>8, <2>2, <2>3, <2>4, <2>5 DEF Returns, RefreshTypeOK, Frames, githubVars
<1>9. CASE Restart
  <2>1. worker' \in [Workers -> Frames]
    BY <1>1, <1>9 DEF Restart
  <2>2. restarts' \in 0..MaxRestarts
    BY <1>2, <1>9 DEF Restart, RefreshTypeOK
  <2>3. nextRefresh' \in Nat
    BY <1>3, <1>9 DEF Restart
  <2>4. missed' \in BOOLEAN /\ lost' \in BOOLEAN
    BY <1>9 DEF Restart
  <2> QED BY <1>9, <2>1, <2>2, <2>3, <2>4 DEF Restart, RefreshTypeOK, Frames, githubVars
<1>10. CASE Tick
  BY <1>2, <1>10 DEF Tick, RefreshTypeOK, githubVars
<1>11. CASE UNCHANGED refreshVars
  BY <1>11 DEF refreshVars, RefreshTypeOK, githubVars
<1> QED
  BY <1>4, <1>5, <1>6, <1>7, <1>8, <1>9, <1>10, <1>11, GrantType
     DEF RefreshNext, Refuses, Denies, LosesRequest, LosesAnswer

LEMMA RefreshInitType ==
  RefreshInit => RefreshTypeOK
<1> SUFFICES ASSUME RefreshInit PROVE RefreshTypeOK
  OBVIOUS
<1>1. PICK lifetime \in Lifetimes, refreshLifetime \in RefreshLifetimes,
           refresh \in {NoToken, 1} :
        /\ issued = <<lifetime>>
        /\ refreshUntil = refreshLifetime
        /\ stored = Storage(1, refresh, Until(lifetime), Until(refreshLifetime))
        /\ nextRefresh = NextGitHubRefresh(stored, now)
  BY DEF RefreshInit
<1>2. lifetime \in Nat /\ refreshLifetime \in Nat /\ MaxIssued \in Nat \ {0}
      /\ MaxRestarts \in Nat /\ MaxLogin \in Nat /\ now \in Nat
  BY RefreshAssumption DEF RefreshInit
<1>3. stored \in Storages
  BY <1>1, <1>2 DEF Storage, Storages, NoToken, Until
<1>4. nextRefresh \in Nat
  BY <1>1, <1>2, <1>3, NextType
<1>5. issued \in Seq(Nat) /\ Len(issued) \in 1..MaxIssued
  BY <1>1, <1>2
<1>6. worker \in [Workers -> Frames] /\ restarts \in 0..MaxRestarts
  BY <1>2 DEF RefreshInit, Frames
<1>7. now \in Nat /\ refreshUntil \in Nat
  BY <1>1, <1>2 DEF RefreshInit
<1>8. rotates \in BOOLEAN /\ lost \in BOOLEAN /\ missed \in BOOLEAN
  BY DEF RefreshInit
<1> QED BY <1>3, <1>4, <1>5, <1>6, <1>7, <1>8 DEF RefreshTypeOK, Frames

(* RefreshTypeOK holds of every behaviour; in it, NextRefreshAfter never   *)
(* lies before GitHub's grant, however short the lifetimes are             *)
(* (storage.go:141-150).                                                   *)
THEOREM RefreshTypeCorrect == RefreshSpec => []RefreshTypeOK
BY RefreshInitType, TypeStep, PTL DEF RefreshSpec

-----------------------------------------------------------------------------
(* The login is kept.                                                      *)

LEMMA LoginFollows ==
  ASSUME RefreshInv
  PROVE  LoginKept
<1>0. rotates \in BOOLEAN /\ issued \in Seq(Nat)
  BY DEF RefreshInv, RefreshTypeOK
<1>1. CASE ~rotates
  BY <1>1 DEF RefreshInv, OneToken, LoginKept, CurrentRefresh
<1>2. CASE rotates /\ ~lost
  <2>1. CASE stored.refresh \in {NoToken, Len(issued)}
    BY <1>2, <2>1 DEF LoginKept, CurrentRefresh
  <2>2. CASE \E w \in Workers : At(w, "answered")
    <3>1. PICK w \in Workers : At(w, "answered")
      BY <2>2
    <3>2. worker[w].answer.refresh = Len(issued) /\ Len(issued) # NoToken
      BY <1>2, <3>1 DEF RefreshInv, RotationInv, NewestCarried, RefreshTypeOK, NoToken
    <3>3. NewRefreshToken(w) = CurrentRefresh
      BY <1>2, <3>2 DEF NewRefreshToken, Refreshed, Storage, CurrentRefresh
    <3> QED BY <3>1, <3>3 DEF LoginKept
  <2> QED BY <1>2, <2>1, <2>2 DEF RefreshInv, RotationInv, NewestCarried
<1>3. CASE lost
  BY <1>3 DEF LoginKept
<1> QED BY <1>1, <1>2, <1>3

(* A goroutine that ends without an answer to save changes nothing that    *)
(* matters to the others.                                                  *)
LEMMA EndsKeeps ==
  ASSUME RefreshInv, NEW w \in Workers, Moves(w, Idle),
         UNCHANGED <<stored, issued, rotates>>,
         ~lost' => ~lost /\ (rotates => ~At(w, "answered"))
  PROVE  (OneToken /\ RotationInv)'
<1>1. /\ worker'[w] = Idle
      /\ \A v \in Workers : v # w => worker'[v] = worker[v]
  BY MovesAt DEF RefreshInv
<1>2. \A v \in Workers :
        /\ At(v, "asking")' => At(v, "asking") /\ worker'[v] = worker[v]
        /\ At(v, "answered")' => At(v, "answered") /\ worker'[v] = worker[v]
        /\ At(v, "idle") => At(v, "idle")'
  BY <1>1 DEF At, Idle
<1>3. OneToken'
  BY <1>2 DEF RefreshInv, OneToken
<1>4. ASSUME rotates', ~lost' PROVE (NewestCarried /\ NobodyAsks)'
  <2>1. rotates /\ ~lost /\ ~At(w, "answered") /\ NewestCarried /\ NobodyAsks
    BY <1>4 DEF RefreshInv, RotationInv
  <2>2. \A v \in Workers : At(v, "answered") => v # w /\ At(v, "answered")'
    BY <1>1, <2>1 DEF At
  <2>3. NewestCarried'
    BY <1>2, <2>1, <2>2 DEF NewestCarried
  <2>4. NobodyAsks'
    BY <1>2, <2>1 DEF NobodyAsks
  <2> QED BY <2>3, <2>4
<1> QED BY <1>3, <1>4 DEF RotationInv

LEMMA AsksKeeps ==
  ASSUME RefreshInv, NEW w \in Workers, Asks(w)
  PROVE  (OneToken /\ RotationInv)'
<1>1. /\ worker'[w] = Asking(stored, now)
      /\ \A v \in Workers : v # w => worker'[v] = worker[v]
      /\ UNCHANGED <<stored, issued, rotates, lost>>
      /\ stored.refresh # NoToken /\ stored.refresh \in Nat /\ Len(issued) \in Nat
  BY MovesAt DEF RefreshInv, RefreshTypeOK, Asks, Spent, githubVars, Storages
<1>2. /\ At(w, "asking")' /\ ~At(w, "answered") /\ ~At(w, "answered")'
      /\ worker'[w].storage = stored
  BY <1>1 DEF Asks, At, Asking
<1>3. \A v \in Workers : v # w =>
        /\ At(v, "asking")' <=> At(v, "asking")
        /\ At(v, "answered")' <=> At(v, "answered")
  BY <1>1 DEF At
<1>4. OneToken'
  BY <1>1, <1>2, <1>3 DEF RefreshInv, OneToken
<1>5. ASSUME rotates', ~lost' PROVE (NewestCarried /\ NobodyAsks)'
  <2>1. NewestCarried
    BY <1>1, <1>5 DEF RefreshInv, RotationInv
  <2>2. \A v \in Workers : At(v, "answered")' => v # w /\ At(v, "answered")
    BY <1>2, <1>3
  <2>3. NewestCarried'
    BY <1>1, <1>2, <1>3, <2>1, <2>2 DEF NewestCarried
  <2> QED BY <1>1, <2>3 DEF NobodyAsks
<1> QED BY <1>4, <1>5 DEF RotationInv

(* GitHub answers one of the calls with its newest token: that call asked  *)
(* with the token of the storage, so no other answer is on its way.        *)
LEMMA GrantsKeeps ==
  ASSUME RefreshInv, NEW w \in Workers, NEW lifetime \in Lifetimes,
         NEW refreshLifetime \in RefreshLifetimes, Grants(w, lifetime, refreshLifetime)
  PROVE  (OneToken /\ RotationInv)'
<1>1. At(w, "asking") /\ ~At(w, "answered") /\ ~At(w, "idle")
      /\ UNCHANGED <<stored, rotates, lost>>
  BY DEF Grants, At
<1>2. /\ issued \in Seq(Nat) /\ issued' = Append(issued, Until(lifetime))
      /\ Until(lifetime) \in Nat
  BY RefreshAssumption DEF RefreshInv, RefreshTypeOK, Grants, Until
<1>3. Len(issued) \in Nat /\ Len(issued') = Len(issued) + 1
  BY <1>2, AppendProperties
<1>4. stored.refresh \in Nat /\ worker[w].storage.refresh \in Nat /\ Len(issued) >= 1
  BY <1>1, FrameTypes DEF RefreshInv, RefreshTypeOK, Storages
<1>5. /\ At(w, "answered")' /\ ~At(w, "asking")' /\ ~At(w, "idle")'
      /\ worker'[w].storage = worker[w].storage
      /\ worker'[w].answer.refresh = IF rotates THEN Len(issued) + 1 ELSE NoToken
  BY MovesAt DEF Grants, RefreshInv, At, Answered, Answer
<1>6. \A v \in Workers : v # w => worker'[v] = worker[v]
  BY MovesAt DEF Grants, RefreshInv
<1>7. \A v \in Workers : v # w =>
        /\ At(v, "asking")' <=> At(v, "asking")
        /\ At(v, "answered")' <=> At(v, "answered")
        /\ At(v, "idle")' <=> At(v, "idle")
  BY <1>6 DEF At
<1>8. OneToken'
  BY <1>1, <1>5, <1>6, <1>7 DEF RefreshInv, OneToken
<1>9. ASSUME rotates', ~lost' PROVE (NewestCarried /\ NobodyAsks)'
  <2>1. NewestCarried /\ NobodyAsks
    BY <1>1, <1>9 DEF RefreshInv, RotationInv
  <2>2. worker[w].storage.refresh = Len(issued)
    BY <1>1, <1>9 DEF Grants, Accepts, CurrentRefresh
  <2>3. stored.refresh = Len(issued)
    BY <1>1, <1>3, <1>4, <2>1, <2>2 DEF NewestCarried
  <2>4. \A v \in Workers : ~At(v, "answered")
    BY <1>3, <2>1, <2>3 DEF NewestCarried
  <2>5. \A v \in Workers : At(v, "answered")' => v = w
    BY <1>7, <2>4
  <2>6. \A v \in Workers : At(v, "asking")' =>
          v # w /\ worker'[v].storage.refresh <= stored'.refresh
    BY <1>1, <1>5, <1>6, <1>7, <2>1 DEF NewestCarried
  <2>7. stored'.refresh < Len(issued') /\ worker'[w].answer.refresh = Len(issued')
    BY <1>1, <1>3, <1>5, <1>9, <2>3
  <2>8. NewestCarried'
    <3>1. stored'.refresh <= Len(issued')
      BY <1>1, <1>3, <2>3
    <3>2. \A v \in Workers : At(v, "answered")' =>
            stored'.refresh < Len(issued') /\ worker'[v].answer.refresh = Len(issued')
      BY <2>5, <2>7
    <3>3. \E v \in Workers : At(v, "answered")'
      BY <1>5
    <3> QED BY <2>5, <2>6, <3>1, <3>2, <3>3 DEF NewestCarried
  <2>9. NobodyAsks'
    BY <1>1, <1>4, <2>3 DEF NobodyAsks, NoToken
  <2> QED BY <2>8, <2>9
<1> QED BY <1>8, <1>9 DEF RotationInv

LEMMA ReturnsKeeps ==
  ASSUME RefreshInv, NEW w \in Workers, Returns(w)
  PROVE  (OneToken /\ RotationInv)'
<1>1. At(w, "answered") /\ UNCHANGED <<issued, rotates, lost>>
  BY DEF Returns, githubVars
<1>2. stored'.refresh = IF worker[w].answer.refresh # NoToken THEN worker[w].answer.refresh
                        ELSE worker[w].storage.refresh
  BY DEF Returns, Refreshed, Storage
<1>3. /\ worker'[w] = Idle
      /\ \A v \in Workers : v # w => worker'[v] = worker[v]
  BY MovesAt DEF RefreshInv, Returns
<1>4. /\ ~At(w, "asking")' /\ ~At(w, "answered")'
      /\ \A v \in Workers : v # w =>
           /\ At(v, "asking")' <=> At(v, "asking")
           /\ At(v, "answered")' <=> At(v, "answered")
  BY <1>3 DEF At, Idle
<1>5. Len(issued) \in Nat /\ Len(issued) >= 1 /\ stored.refresh \in Nat
      /\ \A v \in Workers : At(v, "asking") => worker[v].storage.refresh \in Nat
  BY FrameTypes DEF RefreshInv, RefreshTypeOK, Storages, At
<1>6. OneToken'
  BY <1>1, <1>2, <1>3, <1>4 DEF RefreshInv, OneToken
<1>7. ASSUME rotates', ~lost' PROVE (NewestCarried /\ NobodyAsks)'
  <2>1. NewestCarried
    BY <1>1, <1>7 DEF RefreshInv, RotationInv
  <2>2. stored'.refresh = Len(issued') /\ stored.refresh < Len(issued')
    BY <1>1, <1>2, <1>5, <2>1 DEF NewestCarried, NoToken
  <2>3. \A v \in Workers : ~At(v, "answered")'
    BY <1>1, <1>4, <2>1 DEF NewestCarried
  <2>4. \A v \in Workers : At(v, "asking")' => worker'[v].storage.refresh <= stored'.refresh
    BY <1>3, <1>4, <1>5, <2>1, <2>2 DEF NewestCarried
  <2>5. NewestCarried'
    BY <1>5, <2>2, <2>3, <2>4, <1>1 DEF NewestCarried
  <2> QED BY <1>1, <1>5, <2>2, <2>5 DEF NobodyAsks, NoToken
<1> QED BY <1>6, <1>7 DEF RotationInv

LEMMA RestartKeeps ==
  ASSUME RefreshInv, Restart
  PROVE  (OneToken /\ RotationInv)'
<1>1. UNCHANGED <<stored, issued, rotates>> /\ worker' = [w \in Workers |-> Idle]
  BY DEF Restart, githubVars
<1>2. \A w \in Workers : At(w, "idle")' /\ ~At(w, "asking")' /\ ~At(w, "answered")'
  BY <1>1 DEF At, Idle
<1>3. OneToken'
  BY <1>1, <1>2 DEF RefreshInv, OneToken
<1>4. ASSUME rotates', ~lost' PROVE (NewestCarried /\ NobodyAsks)'
  <2>1. rotates /\ ~lost /\ \A w \in Workers : ~At(w, "answered")
    BY <1>1, <1>4 DEF Restart
  <2>2. NewestCarried
    BY <2>1 DEF RefreshInv, RotationInv
  <2> QED BY <1>1, <1>2, <2>1, <2>2 DEF NewestCarried, NobodyAsks
<1> QED BY <1>3, <1>4 DEF RotationInv

LEMMA StayKeeps ==
  ASSUME RefreshInv, UNCHANGED <<stored, issued, rotates, lost, worker>>
  PROVE  (OneToken /\ RotationInv)'
BY DEF RefreshInv, OneToken, RotationInv, NewestCarried, NobodyAsks, At

LEMMA RefreshStep ==
  ASSUME RefreshInv, [RefreshNext]_refreshVars
  PROVE  RefreshInv'
<1>1. RefreshTypeOK'
  BY TypeStep DEF RefreshInv
<1>2. ASSUME NEW w \in Workers, Refuses(w) \/ Denies(w) \/ LosesRequest(w)
      PROVE  (OneToken /\ RotationInv)'
  <2>1. /\ Moves(w, Idle) /\ UNCHANGED <<stored, issued, rotates, lost>>
        /\ ~At(w, "answered")
    BY <1>2 DEF Refuses, Denies, LosesRequest, Errs, githubVars, At
  <2> QED BY <2>1, EndsKeeps
<1>3. ASSUME NEW w \in Workers, LosesAnswer(w) PROVE (OneToken /\ RotationInv)'
  <2>1. /\ Moves(w, Idle) /\ UNCHANGED <<stored, issued, rotates>>
        /\ lost' = (lost \/ rotates)
    BY <1>3 DEF LosesAnswer, Errs, githubVars
  <2> QED BY <2>1, EndsKeeps
<1>4. ASSUME NEW w \in Workers, NotDue(w) PROVE (OneToken /\ RotationInv)'
  <2>1. UNCHANGED <<stored, issued, rotates, lost, worker>>
    BY <1>4 DEF NotDue, githubVars
  <2> QED BY <2>1, StayKeeps
<1>5. ASSUME Tick \/ UNCHANGED refreshVars PROVE (OneToken /\ RotationInv)'
  <2>1. UNCHANGED <<stored, issued, rotates, lost, worker>>
    BY <1>5 DEF Tick, refreshVars, githubVars
  <2> QED BY <2>1, StayKeeps
<1>6. (OneToken /\ RotationInv)'
  BY <1>2, <1>3, <1>4, <1>5, AsksKeeps, GrantsKeeps, ReturnsKeeps, RestartKeeps
     DEF RefreshNext
<1> QED BY <1>1, <1>6 DEF RefreshInv

LEMMA RefreshInitInv ==
  RefreshInit => RefreshInv
<1> SUFFICES ASSUME RefreshInit PROVE OneToken /\ RotationInv
  BY RefreshInitType DEF RefreshInv
<1>1. /\ \A w \in Workers : At(w, "idle") /\ ~At(w, "asking") /\ ~At(w, "answered")
      /\ Len(issued) = 1 /\ stored.refresh \in {NoToken, 1}
  BY DEF RefreshInit, At, Idle, Storage
<1> QED BY <1>1 DEF OneToken, RotationInv, NewestCarried, NobodyAsks, NoToken

(* LoginKept: GitHub's newest refresh token is in the storage or on its    *)
(* way there, however many calls of RefreshAuth overlap and fail           *)
(* (oauth.go:363-427), as long as no answer got lost.                      *)
THEOREM LoginKeptHolds == RefreshSpec => []LoginKept
<1>1. RefreshInit => RefreshInv
  BY RefreshInitInv
<1>2. RefreshInv /\ [RefreshNext]_refreshVars => RefreshInv'
  BY RefreshStep
<1> QED BY <1>1, <1>2, LoginFollows, PTL DEF RefreshSpec

-----------------------------------------------------------------------------
(* The token in the storage is alive.                                      *)

(* A token GitHub issued, good for ever or for at least as long as known.  *)
Covered(access, until) ==
  /\ access \in 1..Len(issued)
  /\ issued[access] = 0 \/ (until > 0 /\ until <= issued[access])

(* Calls take MaxCall at most; what an answer brings is known to GitHub,   *)
(* which numbers a refresh token it replaces like the access token.        *)
HeldCovered(w) ==
  /\ ~At(w, "idle") => worker[w].time <= now /\ now <= worker[w].time + MaxCall
  /\ At(w, "answered") =>
       /\ worker[w].answer.lifetime \in Lifetimes
       /\ Covered(worker[w].answer.access,
                  IF worker[w].answer.lifetime = 0 THEN 0
                  ELSE worker[w].time + worker[w].answer.lifetime)
       /\ rotates => worker[w].answer.refresh = worker[w].answer.access

(* What the login stored may be too late, by as much as the login took.    *)
StoredCovered ==
  /\ stored.access \in 1..Len(issued)
  /\ \/ issued[stored.access] = 0
     \/ /\ stored.expiresAt > 0
        /\ stored.expiresAt <= issued[stored.access] + MaxLogin

CoverInv ==
  /\ StoredCovered
  /\ rotates => stored.refresh \in {NoToken, stored.access}
  /\ \A w \in Workers : HeldCovered(w)

(* The next refresh is in time, whatever restarts are still to come, and   *)
(* the host calls when it has come.                                        *)
OnTime ==
  /\ issued[stored.access] # 0 =>
       nextRefresh + (MaxRestarts - restarts) < issued[stored.access]
  /\ (\A w \in Workers : At(w, "idle")) => now <= nextRefresh
OnTimeInv == ~missed => OnTime

LiveInv == RefreshInv /\ CoverInv /\ OnTimeInv

LEMMA LiveFollows ==
  ASSUME LiveInv
  PROVE  TokenLive
<1> SUFFICES ASSUME ~lost, ~missed, \A w \in Workers : At(w, "idle")
             PROVE  /\ Live(issued[stored.access])
                    /\ rotates /\ stored.refresh # NoToken => stored.access = Len(issued)
  BY DEF TokenLive
<1>1. /\ stored.access \in 1..Len(issued) /\ issued \in Seq(Nat)
      /\ restarts \in 0..MaxRestarts /\ MaxRestarts \in Nat
      /\ now \in Nat /\ nextRefresh \in Nat
  BY RefreshAssumption DEF LiveInv, CoverInv, StoredCovered, RefreshInv, RefreshTypeOK
<1>2. issued[stored.access] \in Nat
  BY <1>1
<1>3. OnTime
  BY DEF LiveInv, OnTimeInv
<1>4. Live(issued[stored.access])
  BY <1>1, <1>2, <1>3 DEF OnTime, Live
<1>5. ASSUME rotates, stored.refresh # NoToken PROVE stored.access = Len(issued)
  <2>1. NewestCarried /\ \A w \in Workers : ~At(w, "answered")
    BY <1>5 DEF LiveInv, RefreshInv, RotationInv, At
  <2>2. stored.refresh = Len(issued)
    BY <1>5, <2>1 DEF NewestCarried
  <2> QED BY <1>5, <2>2 DEF LiveInv, CoverInv
<1> QED BY <1>4, <1>5

(* Whatever the lifetime, the host is told a later time, and one that      *)
(* leaves room for the restarts to come, although the expiry it is made of *)
(* may be that of the login.                                               *)
LEMMA NextLater ==
  ASSUME NEW storage \in Storages, NEW time \in Nat
  PROVE  time < NextGitHubRefresh(storage, time)
BY DEF NextGitHubRefresh, Storages, Buffer, RefreshPause, Day

LEMMA NextInTime ==
  ASSUME NEW storage \in Storages, NEW time \in Nat, NEW left \in 0..MaxRestarts,
         NEW expiry \in Nat, storage.expiresAt > 0, storage.expiresAt <= expiry + MaxLogin,
         time + RefreshPause + left < expiry
  PROVE  NextGitHubRefresh(storage, time) + left < expiry
<1>1. MaxLogin \in Nat /\ MaxRestarts \in Nat /\ MaxLogin + MaxRestarts < Buffer
  BY RefreshAssumption, PunctualAssumption
<1>2. storage.expiresAt \in Nat
  BY DEF Storages
<1>3. storage.expiresAt - Buffer + left < expiry
  BY <1>1, <1>2 DEF Buffer
<1> QED BY <1>2, <1>3 DEF NextGitHubRefresh

-----------------------------------------------------------------------------
(* Steps that leave the storage alone.                                     *)

(* The clock and GitHub's list may move on and goroutines may end or begin. *)
LEMMA CoverKept ==
  ASSUME RefreshTypeOK, CoverInv, UNCHANGED <<stored, rotates, issued>>,
         \A w \in Workers :
           ~At(w, "idle")' => /\ worker'[w].time <= now' /\ now' <= worker'[w].time + MaxCall
                              /\ At(w, "answered")' => At(w, "answered") /\ worker'[w] = worker[w]
  PROVE  CoverInv'
<1>1. StoredCovered'
  BY DEF StoredCovered, CoverInv
<1>2. ASSUME NEW w \in Workers PROVE HeldCovered(w)'
  BY DEF HeldCovered, Covered, CoverInv, At
<1> QED BY <1>1, <1>2 DEF CoverInv

(* Goroutine w stands elsewhere, and the clock has not moved.              *)
LEMMA CoverMoved ==
  ASSUME RefreshTypeOK, CoverInv, NEW w \in Workers, NEW place, Moves(w, place),
         place = Idle \/ place = Asking(stored, now),
         UNCHANGED <<stored, rotates, issued, now>>
  PROVE  CoverInv'
<1>1. worker'[w] = place /\ \A v \in Workers : v # w => worker'[v] = worker[v]
  BY MovesAt
<1>2. now \in Nat /\ MaxCall \in Nat
  BY RefreshAssumption DEF RefreshTypeOK
<1>3. ASSUME NEW v \in Workers, ~At(v, "idle")'
      PROVE  /\ worker'[v].time <= now' /\ now' <= worker'[v].time + MaxCall
             /\ At(v, "answered")' => At(v, "answered") /\ worker'[v] = worker[v]
  <2>1. CASE v = w
    <3>1. worker'[w] = Asking(stored, now)
      BY <1>1, <1>3, <2>1 DEF At, Idle
    <3> QED BY <1>2, <2>1, <3>1 DEF Asking, At
  <2>2. CASE v # w
    BY <1>1, <1>3, <2>2 DEF At, CoverInv, HeldCovered
  <2> QED BY <2>1, <2>2
<1> QED BY <1>3, CoverKept

(* A refresh has failed, and nothing is promised until one succeeds.       *)
LEMMA ErrsLive ==
  ASSUME RefreshInv, CoverInv, NEW w \in Workers, Errs(w),
         UNCHANGED <<now, stored, githubVars, restarts>>
  PROVE  (CoverInv /\ OnTimeInv)'
<1>1. CoverInv'
  BY CoverMoved DEF Errs, githubVars, RefreshInv
<1> QED BY <1>1 DEF Errs, OnTimeInv

LEMMA AsksLive ==
  ASSUME RefreshInv, CoverInv, OnTimeInv, NEW w \in Workers, Asks(w)
  PROVE  (CoverInv /\ OnTimeInv)'
<1>1. /\ UNCHANGED <<now, stored, rotates, issued, restarts, nextRefresh, missed>>
      /\ Moves(w, Asking(stored, now))
  BY DEF Asks, githubVars
<1>2. CoverInv'
  BY <1>1, CoverMoved DEF RefreshInv
<1>3. ~At(w, "idle")'
  BY <1>1, MovesAt DEF RefreshInv, At, Asking
<1>4. OnTimeInv'
  BY <1>1, <1>3 DEF OnTimeInv, OnTime
<1> QED BY <1>2, <1>4

(* The host calls early and learns when to call again.                     *)
LEMMA NotDueLive ==
  ASSUME RefreshInv, CoverInv, OnTimeInv, NEW w \in Workers, NotDue(w)
  PROVE  (CoverInv /\ OnTimeInv)'
<1>1. /\ UNCHANGED <<now, stored, rotates, issued, restarts, missed, worker>>
      /\ nextRefresh' = NextGitHubRefresh(stored, now) /\ ~Due(stored)
  BY DEF NotDue, githubVars
<1>2. CoverInv'
  BY <1>1 DEF CoverInv, HeldCovered, StoredCovered, Covered, At
<1>3. ASSUME ~missed' PROVE OnTime'
  <2>1. /\ now \in Nat /\ stored \in Storages /\ stored.expiresAt \in Nat
        /\ restarts \in 0..MaxRestarts /\ MaxRestarts \in Nat /\ MaxLogin \in Nat
        /\ MaxLogin + MaxRestarts < Buffer
    BY RefreshAssumption, PunctualAssumption DEF RefreshInv, RefreshTypeOK, Storages
  <2>2. now < nextRefresh'
    BY <1>1, <2>1, NextLater
  <2>3. ASSUME issued[stored.access] # 0
        PROVE  nextRefresh' + (MaxRestarts - restarts) < issued[stored.access]
    <3>1. /\ issued[stored.access] \in Nat /\ stored.expiresAt > 0
          /\ stored.expiresAt <= issued[stored.access] + MaxLogin
      BY <2>3 DEF CoverInv, StoredCovered, RefreshInv, RefreshTypeOK
    <3>2. stored.expiresAt > now + Buffer
      BY <1>1, <2>1, <3>1 DEF Due, Buffer
    <3>3. nextRefresh' = stored.expiresAt - Buffer
      BY <1>1, <2>1, <3>1, <3>2 DEF NextGitHubRefresh, Buffer, RefreshPause
    <3> QED BY <2>1, <3>1, <3>3 DEF Buffer
  <2> QED BY <1>1, <2>1, <2>2, <2>3, NextType DEF OnTime
<1> QED BY <1>2, <1>3 DEF OnTimeInv

-----------------------------------------------------------------------------
(* GitHub's list grows, the storage is replaced, the host restarts.        *)

LEMMA GrantsLive ==
  ASSUME RefreshInv, CoverInv, OnTimeInv, NEW w \in Workers, NEW lifetime \in Lifetimes,
         NEW refreshLifetime \in RefreshLifetimes, Grants(w, lifetime, refreshLifetime)
  PROVE  (CoverInv /\ OnTimeInv)'
<1>1. /\ UNCHANGED <<now, stored, rotates, restarts, nextRefresh, missed>>
      /\ At(w, "asking") /\ ~At(w, "idle") /\ ~At(w, "answered")
  BY DEF Grants, At
<1>2. /\ issued \in Seq(Nat) /\ issued' = Append(issued, Until(lifetime))
      /\ lifetime \in Nat /\ now \in Nat /\ MaxCall \in Nat
      /\ Until(lifetime) \in Nat
  BY RefreshAssumption DEF RefreshInv, RefreshTypeOK, Grants, Until
<1>3. /\ Len(issued) \in Nat /\ Len(issued') = Len(issued) + 1
      /\ \A n \in 1..Len(issued) : issued'[n] = issued[n]
      /\ issued'[Len(issued) + 1] = Until(lifetime)
  BY <1>2, AppendProperties
<1>4. \A access, until : Covered(access, until) => Covered(access, until)'
  BY <1>3 DEF Covered
<1>5. /\ \A v \in Workers : v # w => worker'[v] = worker[v]
      /\ At(w, "answered")' /\ ~At(w, "idle")' /\ worker'[w].time = worker[w].time
      /\ worker'[w].answer.access = Len(issued) + 1
      /\ worker'[w].answer.lifetime = lifetime
      /\ rotates => worker'[w].answer.refresh = Len(issued) + 1
  BY MovesAt DEF Grants, RefreshInv, At, Answered, Answer
<1>6. /\ worker[w].time \in Nat /\ worker[w].time <= now /\ now <= worker[w].time + MaxCall
  BY <1>1, FrameTypes DEF CoverInv, HeldCovered, RefreshInv
<1>7. Covered(worker[w].answer.access,
              IF worker[w].answer.lifetime = 0 THEN 0
              ELSE worker[w].time + worker[w].answer.lifetime)'
  BY <1>1, <1>2, <1>3, <1>5, <1>6 DEF Covered, Until
<1>8. HeldCovered(w)'
  BY <1>1, <1>5, <1>6, <1>7 DEF HeldCovered
<1>9. ASSUME NEW v \in Workers, v # w PROVE HeldCovered(v)'
  BY <1>1, <1>4, <1>5, <1>9 DEF HeldCovered, CoverInv, At
<1>10. CoverInv'
  <2>1. StoredCovered'
    BY <1>1, <1>3 DEF StoredCovered, CoverInv
  <2> QED BY <1>1, <1>8, <1>9, <2>1 DEF CoverInv
<1>11. OnTimeInv'
  BY <1>1, <1>3, <1>5 DEF OnTimeInv, OnTime, CoverInv, StoredCovered
<1> QED BY <1>10, <1>11

LEMMA ReturnsLive ==
  ASSUME RefreshInv, CoverInv, NEW w \in Workers, Returns(w)
  PROVE  (CoverInv /\ OnTimeInv)'
<1> DEFINE frame == worker[w]
<1>1. /\ At(w, "answered") /\ ~At(w, "idle")
      /\ UNCHANGED <<now, issued, rotates>> /\ restarts' = 0
      /\ stored' = Refreshed(frame.storage, frame.time, frame.answer)
      /\ nextRefresh' = NextGitHubRefresh(stored', now)
      /\ Moves(w, Idle)
  BY DEF Returns, githubVars, At
<1>2. /\ frame.storage \in Storages /\ frame.time \in Nat /\ frame.answer \in Answers
      /\ frame.answer.lifetime \in Nat /\ frame.answer.access \in Nat
  BY <1>1, FrameTypes DEF RefreshInv, Answers
<1>3. /\ now \in Nat /\ issued \in Seq(Nat)
      /\ MaxRestarts \in Nat /\ MaxCall \in Nat /\ MaxLogin \in Nat
  BY RefreshAssumption DEF RefreshInv, RefreshTypeOK
<1>4. /\ frame.time <= now /\ now <= frame.time + MaxCall
      /\ frame.answer.lifetime \in Lifetimes
      /\ Covered(frame.answer.access,
                 IF frame.answer.lifetime = 0 THEN 0 ELSE frame.time + frame.answer.lifetime)
      /\ rotates => frame.answer.refresh = frame.answer.access
  BY <1>1 DEF CoverInv, HeldCovered
<1>5. /\ stored'.access = frame.answer.access
      /\ frame.answer.lifetime # 0 => stored'.expiresAt = frame.time + frame.answer.lifetime
      /\ rotates => stored'.refresh \in {NoToken, stored'.access}
  BY <1>1, <1>2, <1>4 DEF Refreshed, Storage, Answers, NoToken, Covered
<1>6. stored' \in Storages /\ stored'.expiresAt \in Nat
  BY <1>1, <1>2, RefreshedType DEF Storages
<1>7. StoredCovered' /\ issued'[stored'.access] \in Nat
  <2>1. issued' = issued /\ stored'.access \in 1..Len(issued)
    BY <1>1, <1>4, <1>5 DEF Covered
  <2>2. issued[stored'.access] \in Nat
    BY <1>3, <2>1
  <2>3. ASSUME issued[stored'.access] # 0
        PROVE  stored'.expiresAt > 0 /\ stored'.expiresAt <= issued[stored'.access]
    BY <1>4, <1>5, <2>3 DEF Covered
  <2>4. ASSUME issued[stored'.access] # 0
        PROVE  stored'.expiresAt > 0 /\ stored'.expiresAt <= issued[stored'.access] + MaxLogin
    BY <1>3, <1>6, <2>2, <2>3, <2>4
  <2> QED BY <2>1, <2>2, <2>4 DEF StoredCovered
<1>8. /\ worker'[w] = Idle /\ At(w, "idle")' /\ ~At(w, "answered")'
      /\ \A v \in Workers : v # w => worker'[v] = worker[v]
  BY <1>1, MovesAt DEF RefreshInv, At, Idle
<1>9. ASSUME NEW v \in Workers PROVE HeldCovered(v)'
  BY <1>1, <1>8 DEF HeldCovered, CoverInv, Covered, At
<1>10. CoverInv'
  BY <1>1, <1>5, <1>7, <1>9 DEF CoverInv
<1>11. now < nextRefresh' /\ nextRefresh' \in Nat
  BY <1>1, <1>3, <1>6, NextLater, NextType
<1>12. ASSUME issued'[stored'.access] # 0
       PROVE  nextRefresh' + (MaxRestarts - restarts') < issued'[stored'.access]
  <2> DEFINE called == frame.time
             lifetime == frame.answer.lifetime
             expiry == issued'[stored'.access]
  <2>1. lifetime # 0
    BY <1>1, <1>4, <1>5, <1>12 DEF Covered
  <2>2. MaxCall + MaxRestarts + 1 < lifetime
    BY <1>4, <2>1, PunctualAssumption
  <2>3. stored'.expiresAt = called + lifetime /\ called + lifetime <= expiry
    BY <1>1, <1>4, <1>5, <1>12, <2>1 DEF Covered
  <2>4. called \in Nat /\ lifetime \in Nat /\ now <= called + MaxCall /\ expiry \in Nat
    BY <1>2, <1>4, <1>7
  <2>5. now \in Nat /\ MaxRestarts \in Nat /\ MaxCall \in Nat /\ MaxLogin \in Nat
    BY <1>3
  <2> HIDE DEF called, lifetime, expiry
  <2>6. now + 1 + MaxRestarts < expiry
    BY ONLY <2>2, <2>3, <2>4, <2>5
  <2>7. stored'.expiresAt > 0 /\ stored'.expiresAt <= expiry + MaxLogin
    BY ONLY <2>2, <2>3, <2>4, <2>5
  <2>8. NextGitHubRefresh(stored', now) + MaxRestarts < expiry
    BY <1>6, <2>4, <2>5, <2>6, <2>7, NextInTime DEF RefreshPause
  <2>9. MaxRestarts - restarts' = MaxRestarts
    BY <1>1, <2>5
  <2> QED BY <1>1, <2>8, <2>9 DEF expiry
<1>13. OnTime'
  BY <1>1, <1>3, <1>6, <1>11, <1>12 DEF OnTime, RefreshInv
<1> QED BY <1>10, <1>13 DEF OnTimeInv

LEMMA RestartLive ==
  ASSUME RefreshInv, CoverInv, OnTimeInv, Restart
  PROVE  (CoverInv /\ OnTimeInv)'
<1>1. /\ UNCHANGED <<now, stored, rotates, issued>> /\ worker' = [w \in Workers |-> Idle]
      /\ IF PutsOff(stored) THEN restarts < MaxRestarts /\ restarts' = restarts + 1
                           ELSE restarts' = restarts
      /\ nextRefresh' = NextGitHubRefresh(stored, now)
      /\ ~missed' => ~missed /\ \A w \in Workers : At(w, "idle")
  BY DEF Restart, githubVars
<1>2. CoverInv'
  BY <1>1, CoverKept DEF At, Idle, RefreshInv
<1>3. ASSUME ~missed' PROVE OnTime'
  <2>1. /\ now \in Nat /\ nextRefresh \in Nat /\ stored \in Storages /\ stored.expiresAt \in Nat
        /\ restarts \in 0..MaxRestarts /\ MaxRestarts \in Nat /\ MaxLogin \in Nat
        /\ MaxLogin + MaxRestarts < Buffer
    BY RefreshAssumption, PunctualAssumption DEF RefreshInv, RefreshTypeOK, Storages
  <2>2. OnTime /\ now <= nextRefresh
    BY <1>1, <1>3 DEF OnTimeInv, OnTime
  <2>3. now < nextRefresh' /\ nextRefresh' \in Nat
    BY <1>1, <2>1, NextLater, NextType
  <2>4. ASSUME issued[stored.access] # 0
        PROVE  nextRefresh' + (MaxRestarts - restarts') < issued[stored.access]
    <3> DEFINE expiry == issued[stored.access]
               left == MaxRestarts - restarts'
    <3>1. /\ expiry \in Nat /\ stored.expiresAt > 0
          /\ stored.expiresAt <= expiry + MaxLogin
      BY <2>4 DEF CoverInv, StoredCovered, RefreshInv, RefreshTypeOK
    <3>2. nextRefresh + (MaxRestarts - restarts) < expiry
      BY <2>2, <2>4 DEF OnTime
    <3>3. CASE PutsOff(stored)
      <4>1. restarts' = restarts + 1 /\ restarts < MaxRestarts
        BY <1>1, <3>3
      <4>2. left \in 0..MaxRestarts /\ MaxRestarts - restarts = left + 1
        BY <2>1, <4>1
      <4> HIDE DEF expiry, left
      <4>3. now + RefreshPause + left < expiry
        BY <2>1, <2>2, <3>1, <3>2, <4>2 DEF RefreshPause
      <4>4. NextGitHubRefresh(stored, now) + left < expiry
        BY <2>1, <3>1, <4>2, <4>3, NextInTime
      <4> QED BY <1>1, <4>4 DEF expiry, left
    <3>4. CASE ~PutsOff(stored)
      <4>1. restarts' = restarts /\ nextRefresh' = stored.expiresAt - Buffer
        BY <1>1, <2>1, <3>1, <3>4 DEF PutsOff, NextGitHubRefresh
      <4> QED BY <2>1, <3>1, <4>1 DEF Buffer
    <3> QED BY <3>3, <3>4
  <2> QED BY <1>1, <2>1, <2>3, <2>4 DEF OnTime
<1> QED BY <1>2, <1>3 DEF OnTimeInv

LEMMA TickLive ==
  ASSUME RefreshInv, CoverInv, OnTimeInv, Tick
  PROVE  (CoverInv /\ OnTimeInv)'
<1>1. /\ UNCHANGED <<stored, rotates, issued, restarts, nextRefresh, missed, worker>>
      /\ now' = now + 1 /\ now \in Nat /\ nextRefresh \in Nat /\ MaxCall \in Nat
      /\ now < nextRefresh \/ \E w \in Workers : ~At(w, "idle")
      /\ \A w \in Workers : ~At(w, "idle") => now < worker[w].time + MaxCall
  BY RefreshAssumption DEF Tick, githubVars, RefreshInv, RefreshTypeOK
<1>2. \A w \in Workers : ~At(w, "idle") => worker[w].time \in Nat
  BY FrameTypes DEF RefreshInv
<1>3. CoverInv'
  BY <1>1, <1>2, CoverKept DEF At, CoverInv, HeldCovered, RefreshInv
<1>4. OnTimeInv'
  BY <1>1 DEF OnTimeInv, OnTime, At
<1> QED BY <1>3, <1>4

-----------------------------------------------------------------------------
LEMMA LiveStep ==
  ASSUME LiveInv, [RefreshNext]_refreshVars
  PROVE  LiveInv'
<1>1. RefreshInv'
  BY RefreshStep DEF LiveInv
<1>2. ASSUME NEW w \in Workers,
             Refuses(w) \/ Denies(w) \/ LosesRequest(w) \/ LosesAnswer(w)
      PROVE  (CoverInv /\ OnTimeInv)'
  BY <1>2, ErrsLive DEF LiveInv, Refuses, Denies, LosesRequest, LosesAnswer
<1>3. ASSUME UNCHANGED refreshVars PROVE (CoverInv /\ OnTimeInv)'
  BY <1>3 DEF LiveInv, refreshVars, githubVars, CoverInv, StoredCovered, HeldCovered, Covered,
     OnTimeInv, OnTime, At
<1>4. (CoverInv /\ OnTimeInv)'
  BY <1>2, <1>3, AsksLive, NotDueLive, GrantsLive, ReturnsLive, RestartLive, TickLive
     DEF LiveInv, RefreshNext
<1> QED BY <1>1, <1>4 DEF LiveInv

LEMMA LiveInit ==
  RefreshInit => LiveInv
<1> SUFFICES ASSUME RefreshInit PROVE CoverInv /\ OnTime
  BY RefreshInitInv DEF LiveInv, OnTimeInv
<1>1. PICK lifetime \in Lifetimes, refreshLifetime \in RefreshLifetimes,
           refresh \in {NoToken, 1} :
        /\ issued = <<lifetime>>
        /\ stored = Storage(1, refresh, Until(lifetime), Until(refreshLifetime))
        /\ nextRefresh = NextGitHubRefresh(stored, now)
  BY DEF RefreshInit
<1>2. /\ lifetime \in Nat /\ MaxRestarts \in Nat /\ MaxLogin \in Nat /\ MaxCall \in Nat
      /\ lifetime # 0 => MaxLogin + MaxRestarts + 1 < lifetime
      /\ now \in Nat /\ now <= MaxLogin /\ restarts = 0
  BY RefreshAssumption, PunctualAssumption DEF RefreshInit
<1>3. /\ issued[1] = lifetime /\ Len(issued) = 1
      /\ stored.access = 1 /\ stored.expiresAt = Until(lifetime) /\ stored.refresh = refresh
  BY <1>1 DEF Storage
<1>4. \A w \in Workers : At(w, "idle") /\ ~At(w, "answered")
  BY DEF RefreshInit, At, Idle
<1>5. CoverInv
  <2>1. StoredCovered
    BY <1>2, <1>3 DEF StoredCovered, Until
  <2> QED BY <1>3, <1>4, <2>1 DEF CoverInv, HeldCovered
<1>6. stored \in Storages
  BY RefreshInitType DEF RefreshTypeOK
<1>7. now < nextRefresh /\ nextRefresh \in Nat
  BY <1>1, <1>2, <1>6, NextLater, NextType
<1>8. ASSUME lifetime # 0 PROVE nextRefresh + MaxRestarts < lifetime
  <2>1. stored.expiresAt > 0 /\ stored.expiresAt <= lifetime + MaxLogin
    BY <1>2, <1>3, <1>8 DEF Until
  <2>2. now + RefreshPause + MaxRestarts < lifetime
    BY <1>2, <1>8 DEF RefreshPause
  <2> QED BY <1>1, <1>2, <1>6, <2>1, <2>2, NextInTime
<1>9. OnTime
  BY <1>2, <1>3, <1>7, <1>8 DEF OnTime
<1> QED BY <1>5, <1>9

(* TokenLive: while nothing has failed, the stored access token is one     *)
(* GitHub takes whenever no refresh runs (storage.go:141-150,              *)
(* oauth.go:369-381), however refreshes overlap and whatever the lifetimes,*)
(* if each is longer than a call or the login with the pauses restarts     *)
(* add, and if the login's own delay and the restarts that put one refresh *)
(* off stay below the ten minutes (PunctualAssumption).  There may be any  *)
(* number of refreshes, and of restarts between them that put none off.    *)
THEOREM TokenLiveHolds == RefreshSpec => []TokenLive
<1>1. RefreshInit => LiveInv
  BY LiveInit
<1>2. LiveInv /\ [RefreshNext]_refreshVars => LiveInv'
  BY LiveStep
<1>3. LiveInv => TokenLive
  BY LiveFollows
<1> QED BY <1>1, <1>2, <1>3, PTL DEF RefreshSpec

=============================================================================
