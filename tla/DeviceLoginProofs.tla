-------------------------- MODULE DeviceLoginProofs --------------------------
(***************************************************************************)
(* Proofs about DeviceLogin for every set of states, pollers and device    *)
(* replies, and every bound.                                               *)
(***************************************************************************)
EXTENDS DeviceLogin, TLAPS

USE TimeAssumption, DeviceAssumption

-----------------------------------------------------------------------------
(* The shapes.                                                             *)

LEMMA IntervalType ==
  ASSUME NEW device \in DeviceReplies
  PROVE  /\ Interval(device) \in Nat \ {0}
         /\ Lifetime(device) \in Nat \ {0}
         /\ AtLeast(1, device.interval) = Interval(device)
  BY DEF Interval, Lifetime, AtLeast, AtMost

LEMMA NextIntervalType ==
  ASSUME NEW interval \in Nat \ {0}, NEW answer, NEW asked \in Nat
  PROVE  NextInterval(interval, answer, asked) \in Nat \ {0}
  BY DEF NextInterval, Longer, AtLeast

(* A poll that has begun has a frame.                                      *)
LEMMA ActiveFrame ==
  ASSUME TypeOK, NEW p \in Pollers, poll[p].pc # "idle"
  PROVE  poll[p] \in Frames
  BY DEF TypeOK, IdlePoll

LEMMA GotoType ==
  ASSUME TypeOK, NEW p \in Pollers, poll[p] \in Frames,
         NEW pc \in {"lookup", "request", "sent", "answered", "user", "returned"},
         NEW interval \in Nat,
         NEW answer \in {"none", "token", "lost", "authorization_pending", "slow_down",
                         "terminal", "server_error", "pending", "error", "failure",
                         "success"},
         NEW asked \in Nat, Goto(p, pc, interval, answer, asked)
  PROVE  poll' \in [Pollers -> Frames \cup {IdlePoll}]
  <1>1. [pc |-> pc, state |-> poll[p].state, now |-> poll[p].now,
         interval |-> interval, answer |-> answer, asked |-> asked] \in Frames
    BY DEF Frames
  <1> QED
    BY <1>1 DEF Goto, TypeOK

LEMMA SessionType ==
  ASSUME TypeOK, NEW s \in States, NEW interval \in Nat \ {0}, NEW terminal,
         FinishPoll(s, interval, terminal)
  PROVE  oauthSession' \in [States -> Sessions \cup {NoSession}]
  <1>1. CASE oauthSession[s] = NoSession
    BY <1>1 DEF FinishPoll, TypeOK
  <1>2. CASE oauthSession[s] # NoSession
    <2>1. Session(oauthSession[s].expiresAt, interval, now + interval, FALSE) \in Sessions
      <3>1. oauthSession[s] \in Sessions
        BY <1>2 DEF TypeOK
      <3> QED
        BY <3>1 DEF Sessions, Session, TypeOK
    <2>2. CASE terminal
      BY <1>2, <2>2 DEF FinishPoll, TypeOK
    <2>3. CASE ~terminal
      BY <1>2, <2>1, <2>3 DEF FinishPoll, TypeOK
    <2> QED
      BY <2>2, <2>3
  <1> QED
    BY <1>1, <1>2

LEMMA LongerType ==
  ASSUME NEW interval \in Nat, NEW asked \in Nat
  PROVE  Longer(interval, asked) \in Nat
  BY DEF Longer, AtLeast

(* A step that changes one field of one of GitHub's codes.                 *)
LEMMA UserType ==
  ASSUME TypeOK, NEW s \in States,
         NEW user \in {"none", "waiting", "approved", "denied", "delivered", "lost"},
         github' = [github EXCEPT ![s].user = user]
  PROVE  github' \in [States -> Codes]
  BY DEF TypeOK, Codes

LEMMA LastPollType ==
  ASSUME TypeOK, NEW s \in States, github' = [github EXCEPT ![s].lastPoll = now]
  PROVE  github' \in [States -> Codes]
  BY DEF TypeOK, Codes

(* A slow_down changes the interval GitHub enforces, and the one the       *)
(* plugin was told of when it arrives.                                     *)
LEMMA SlowDownType ==
  ASSUME TypeOK, NEW p \in Pollers, NEW asked \in Nat, poll[p].state \in States,
         AnswerSlowDown(p, asked)
  PROVE  /\ github' \in [States -> Codes]
         /\ poll[p].pc = "sent"
         /\ Answered(p, "slow_down", asked) \/ Answered(p, "lost", 0)
         /\ github'[poll[p].state].user = github[poll[p].state].user
         /\ github'[poll[p].state].lastPoll = github[poll[p].state].lastPoll
         /\ \A t \in States \ {poll[p].state} : github'[t] = github[t]
  <1> DEFINE s == poll[p].state
             next == Longer(github[s].interval, asked)
             told == Longer(github[s].told, asked)
  <1>1. /\ github \in [States -> Codes] /\ s \in States
        /\ github[s].interval \in Nat /\ github[s].told \in Nat
    BY DEF TypeOK, Codes
  <1>2. next \in Nat /\ told \in Nat
    BY <1>1, LongerType
  <1>3. /\ poll[p].pc = "sent"
        /\ \/ /\ Answered(p, "slow_down", asked)
              /\ github' = [github EXCEPT ![s].interval = next, ![s].told = told]
           \/ /\ Answered(p, "lost", 0)
              /\ github' = [github EXCEPT ![s].interval = next]
    BY DEF AnswerSlowDown
  <1> HIDE DEF s, next, told
  <1>4. github' \in [States -> Codes]
    BY <1>1, <1>2, <1>3 DEF Codes
  <1>5. /\ github'[s].user = github[s].user
        /\ github'[s].lastPoll = github[s].lastPoll
        /\ \A t \in States \ {s} : github'[t] = github[t]
    BY <1>1, <1>3 DEF Codes
  <1> QED
    BY <1>3, <1>4, <1>5 DEF s

(* A frame that asks for the interval its session has.                     *)
LEMMA StepType ==
  ASSUME TypeOK, NEW p \in Pollers, Step(p),
         poll[p].pc \in {"request", "sent", "answered", "user"} => poll[p].interval # 0
  PROVE  TypeOK'
  <1>0. /\ now \in Nat /\ starting \in [States -> DeviceReplies \cup {NoReply}]
        /\ known \subseteq States
        /\ oauthSession \in [States -> Sessions \cup {NoSession}]
        /\ github \in [States -> Codes]
        /\ poll \in [Pollers -> Frames \cup {IdlePoll}]
    BY DEF TypeOK
  <1>f. poll[p].pc # "idle" =>
          /\ poll[p] \in Frames /\ poll[p].state \in States
          /\ poll[p].interval \in Nat /\ poll[p].asked \in Nat
          /\ github[poll[p].state] \in Codes
    BY <1>0, ActiveFrame DEF Frames
  <1>1. CASE LookupUnknown(p)
    BY <1>0, <1>1, <1>f, GotoType DEF LookupUnknown, Returns, TypeOK
  <1>2. CASE LookupExpired(p)
    <2>1. poll' \in [Pollers -> Frames \cup {IdlePoll}]
      BY <1>2, <1>f, GotoType DEF LookupExpired, Returns
    <2>2. oauthSession' \in [States -> Sessions \cup {NoSession}]
      BY <1>0, <1>2 DEF LookupExpired
    <2> QED
      BY <1>0, <1>2, <2>1, <2>2 DEF LookupExpired, TypeOK
  <1>3. CASE LookupEarly(p)
    BY <1>0, <1>3, <1>f, GotoType DEF LookupEarly, Returns, TypeOK
  <1>4. CASE LookupDue(p)
    <2> DEFINE session == oauthSession[poll[p].state]
    <2>1. session \in Sessions
      BY <1>0, <1>4, <1>f DEF LookupDue
    <2>2. /\ session.interval \in Nat
          /\ Session(session.expiresAt, session.interval, session.nextPoll, TRUE) \in Sessions
      BY <2>1 DEF Sessions, Session
    <2>3. poll' \in [Pollers -> Frames \cup {IdlePoll}]
      BY <1>4, <1>f, <2>2, GotoType DEF LookupDue
    <2>4. oauthSession' \in [States -> Sessions \cup {NoSession}]
      BY <1>0, <1>4, <2>2 DEF LookupDue
    <2> QED
      BY <1>0, <1>4, <2>3, <2>4 DEF LookupDue, TypeOK
  <1>5. CASE SendPoll(p)
    <2>1. poll' \in [Pollers -> Frames \cup {IdlePoll}]
      BY <1>5, <1>f, GotoType DEF SendPoll
    <2>3. github' \in [States -> Codes]
      BY <1>5, <1>f, LastPollType DEF SendPoll
    <2> QED
      BY <1>0, <1>5, <2>1, <2>3 DEF SendPoll, TypeOK
  <1>6. CASE AnswerToken(p)
    <2> PICK arrives \in BOOLEAN :
          /\ Answered(p, IF arrives THEN "token" ELSE "lost", 0)
          /\ github' = [github EXCEPT ![poll[p].state].user =
               IF arrives THEN "delivered" ELSE "lost"]
      BY <1>6 DEF AnswerToken
    <2>1. poll' \in [Pollers -> Frames \cup {IdlePoll}]
      BY <1>f, GotoType DEF Answered
    <2>3. github' \in [States -> Codes]
      BY <1>6, <1>f, UserType DEF AnswerToken
    <2> QED
      BY <1>0, <1>6, <2>1, <2>3 DEF AnswerToken, TypeOK
  <1>7. CASE AnswerOther(p)
    <2>1. poll' \in [Pollers -> Frames \cup {IdlePoll}]
      BY <1>7, <1>f, GotoType DEF AnswerOther, Answered
    <2> QED
      BY <1>0, <1>7, <2>1 DEF AnswerOther, TypeOK
  <1>8. ASSUME NEW asked \in SlowDowns, AnswerSlowDown(p, asked) PROVE TypeOK'
    <2>1. asked \in Nat
      OBVIOUS
    <2>2. poll[p].state \in States
      BY <1>8, <1>f DEF AnswerSlowDown
    <2>3. poll' \in [Pollers -> Frames \cup {IdlePoll}]
      BY <1>8, <1>f, <2>1, <2>2, SlowDownType, GotoType DEF Answered
    <2>4. github' \in [States -> Codes]
      BY <1>8, <2>1, <2>2, SlowDownType
    <2> QED
      BY <1>0, <1>8, <2>3, <2>4 DEF AnswerSlowDown, TypeOK
  <1>9. CASE HandleAnswer(p)
    <2>1. poll' \in [Pollers -> Frames \cup {IdlePoll}]
      BY <1>9, <1>f, GotoType DEF HandleAnswer, Returns, Status
    <2>2. NextInterval(poll[p].interval, poll[p].answer, poll[p].asked) \in Nat \ {0}
      BY <1>9, <1>f, NextIntervalType DEF HandleAnswer
    <2>3. oauthSession' \in [States -> Sessions \cup {NoSession}]
      BY <1>9, <1>f, <2>2, SessionType DEF HandleAnswer
    <2> QED
      BY <1>0, <1>9, <2>1, <2>3 DEF HandleAnswer, TypeOK
  <1>10. CASE FetchUser(p)
    BY <1>0, <1>10, <1>f, GotoType DEF FetchUser, TypeOK
  <1>11. CASE FinishLogin(p)
    <2>1. poll' \in [Pollers -> Frames \cup {IdlePoll}]
      BY <1>11, <1>f, GotoType DEF FinishLogin, Returns
    <2>2. poll[p].interval \in Nat \ {0}
      BY <1>11, <1>f DEF FinishLogin
    <2>3. oauthSession' \in [States -> Sessions \cup {NoSession}]
      BY <1>11, <1>f, <2>2, SessionType DEF FinishLogin
    <2> QED
      BY <1>0, <1>11, <2>1, <2>3 DEF FinishLogin, TypeOK
  <1>12. CASE Return(p)
    BY <1>0, <1>12 DEF Return, TypeOK
  <1> QED
    BY <1>1, <1>2, <1>3, <1>4, <1>5, <1>6, <1>7, <1>8, <1>9, <1>10, <1>11, <1>12
    DEF Step, Lookup

-----------------------------------------------------------------------------
(* The inductive invariant, in named parts.                                *)

(* A state is drawn once: StartLogin registers it, then the host knows it. *)
Registered(s) ==
  /\ s \in known \/ starting[s] # NoReply \/ oauthSession[s] # NoSession
       => github[s].user # "none"
  /\ starting[s] # NoReply => s \notin known /\ oauthSession[s] = NoSession

(* A poll is of a state the host knows and read the clock in the past; the *)
(* session it has marked is still marked, or gone.                         *)
PollKept(p) ==
  /\ poll[p].pc # "idle" => poll[p].state \in known /\ poll[p].now <= now
  /\ Polling(p) =>
       /\ poll[p].interval # 0
       /\ oauthSession[poll[p].state] = NoSession \/ oauthSession[poll[p].state].polling

PollInv ==
  /\ \A s \in States : Registered(s)
  /\ \A p \in Pollers : PollKept(p)
  /\ OnePollPerState
  /\ PollingFlagOwned

-----------------------------------------------------------------------------
(* The kinds of step a poll takes.                                         *)

(* Beside the session: the poll neither marks nor unmarks it.              *)
Aside(p) ==
  /\ ~Polling(p) /\ ~Polling(p)'
  /\ \/ UNCHANGED oauthSession
     \/ oauthSession' = [oauthSession EXCEPT ![poll[p].state] = NoSession]
  /\ UNCHANGED github

(* With the session marked, towards GitHub's answer.                       *)
Progress(p) ==
  /\ Polling(p) /\ Polling(p)'
  /\ poll'[p].interval = poll[p].interval
  /\ UNCHANGED oauthSession
  /\ \A s \in States \ {poll[p].state} : github'[s] = github[s]
  /\ github[poll[p].state].user # "none" => github'[poll[p].state].user # "none"

(* finishPoll.                                                             *)
Release(p) ==
  /\ Polling(p) /\ ~Polling(p)'
  /\ \E interval \in Nat \ {0}, terminal \in BOOLEAN :
       FinishPoll(poll[p].state, interval, terminal)
  /\ UNCHANGED github

LEMMA SessionInterval ==
  ASSUME TypeOK, NEW s \in States, oauthSession[s] # NoSession
  PROVE  oauthSession[s].interval \in Nat \ {0}
  BY DEF TypeOK, Sessions

(* finishPoll unmarks the session or removes it, and touches no other.     *)
LEMMA FinishPollUnmarks ==
  ASSUME TypeOK, NEW s \in States, NEW interval, NEW terminal,
         FinishPoll(s, interval, terminal)
  PROVE  /\ oauthSession'[s] = NoSession \/ ~oauthSession'[s].polling
         /\ oauthSession[s] = NoSession => oauthSession'[s] = NoSession
         /\ \A t \in States \ {s} : oauthSession'[t] = oauthSession[t]
  <1>1. oauthSession \in [States -> Sessions \cup {NoSession}]
    BY DEF TypeOK
  <1>2. CASE oauthSession[s] = NoSession
    BY <1>2 DEF FinishPoll
  <1>3. CASE oauthSession[s] # NoSession
    <2>1. \/ oauthSession'[s] = NoSession
          \/ oauthSession'[s] = Session(oauthSession[s].expiresAt, interval,
                                        now + interval, FALSE)
      BY <1>1, <1>3 DEF FinishPoll
    <2>2. \A t \in States \ {s} : oauthSession'[t] = oauthSession[t]
      BY <1>1, <1>3 DEF FinishPoll
    <2> QED
      BY <1>3, <2>1, <2>2 DEF Session
  <1> QED
    BY <1>2, <1>3

(* A step of p leaves the other frames alone, and p with its state.        *)
LEMMA StepFrame ==
  ASSUME TypeOK, NEW p \in Pollers, Step(p)
  PROVE  /\ UNCHANGED <<now, starting, known>>
         /\ \A q \in Pollers \ {p} : poll'[q] = poll[q]
         /\ poll[p].pc # "idle"
         /\ poll'[p].pc # "idle" =>
              poll'[p].state = poll[p].state /\ poll'[p].now = poll[p].now
  <1>1. poll \in [Pollers -> Frames \cup {IdlePoll}]
    BY DEF TypeOK
  <1>2. \A pc, interval, answer, asked : Goto(p, pc, interval, answer, asked) =>
          /\ \A q \in Pollers \ {p} : poll'[q] = poll[q]
          /\ poll'[p].state = poll[p].state /\ poll'[p].now = poll[p].now
    BY <1>1 DEF Goto
  <1>3. CASE Return(p)
    BY <1>1, <1>3 DEF Return, IdlePoll
  <1>4. CASE ~Return(p)
    BY <1>2, <1>4 DEF Step, Lookup, LookupUnknown, LookupExpired, LookupEarly,
      LookupDue, SendPoll, Answered, AnswerToken, AnswerOther, AnswerSlowDown,
      HandleAnswer, FetchUser, FinishLogin, Returns
  <1> QED
    BY <1>3, <1>4

LEMMA StepKind ==
  ASSUME TypeOK, NEW p \in Pollers, Step(p),
         Polling(p) => poll[p].interval # 0
  PROVE  Aside(p) \/ LookupDue(p) \/ Progress(p) \/ Release(p)
  <1>1. /\ poll \in [Pollers -> Frames \cup {IdlePoll}]
        /\ github \in [States -> Codes]
    BY DEF TypeOK
  <1>2. \A pc, interval, answer, asked : Goto(p, pc, interval, answer, asked) =>
          poll'[p].pc = pc /\ poll'[p].interval = interval
    BY <1>1 DEF Goto
  <1>3. poll[p].pc # "idle" /\ poll[p] \in Frames
    BY ActiveFrame, StepFrame
  <1>4. poll[p].state \in States /\ poll[p].interval \in Nat /\ poll[p].asked \in Nat
    BY <1>3 DEF Frames
  <1>5. CASE LookupUnknown(p) \/ LookupExpired(p) \/ LookupEarly(p)
    BY <1>2, <1>5 DEF Aside, Polling, LookupUnknown, LookupExpired, LookupEarly, Returns
  <1>6. CASE Return(p)
    BY <1>1, <1>6 DEF Aside, Polling, Return, IdlePoll
  <1>7. CASE SendPoll(p) \/ FetchUser(p)
    BY <1>1, <1>2, <1>4, <1>7 DEF Progress, Polling, SendPoll, FetchUser, Codes
  <1>8. CASE AnswerToken(p) \/ AnswerOther(p)
    <2>1. Polling(p) /\ Polling(p)' /\ poll'[p].interval = poll[p].interval
      BY <1>2, <1>8 DEF Polling, AnswerToken, AnswerOther, Answered
    <2>2. CASE AnswerToken(p)
      <3>1. PICK user \in {"delivered", "lost"} :
              github' = [github EXCEPT ![poll[p].state].user = user]
        BY <2>2 DEF AnswerToken
      <3>2. /\ \A s \in States \ {poll[p].state} : github'[s] = github[s]
            /\ github'[poll[p].state].user # "none"
        BY <1>1, <1>4, <3>1 DEF Codes
      <3> QED
        BY <2>1, <2>2, <3>2 DEF Progress, AnswerToken
    <2>3. CASE AnswerOther(p)
      BY <2>1, <2>3 DEF Progress, AnswerOther
    <2> QED
      BY <1>8, <2>2, <2>3
  <1>9. ASSUME NEW asked \in SlowDowns, AnswerSlowDown(p, asked) PROVE Progress(p)
    <2>1. asked \in Nat /\ poll[p].state \in States
      BY <1>4
    <2>2. /\ Polling(p) /\ Polling(p)' /\ poll'[p].interval = poll[p].interval
      BY <1>2, <1>9, <2>1, SlowDownType DEF Polling, Answered
    <2> QED
      BY <1>9, <2>1, <2>2, SlowDownType DEF Progress, AnswerSlowDown
  <1>10. CASE HandleAnswer(p)
    <2>1. Polling(p) /\ ~Polling(p)' /\ UNCHANGED github
      BY <1>2, <1>10 DEF Polling, HandleAnswer, Returns
    <2>2. NextInterval(poll[p].interval, poll[p].answer, poll[p].asked) \in Nat \ {0}
      BY <1>4, <2>1, NextIntervalType
    <2> QED
      BY <1>10, <2>1, <2>2 DEF Release, HandleAnswer
  <1>11. CASE FinishLogin(p)
    <2>1. Polling(p) /\ ~Polling(p)' /\ UNCHANGED github
      BY <1>2, <1>11 DEF Polling, FinishLogin, Returns
    <2>2. poll[p].interval \in Nat \ {0}
      BY <1>4, <2>1
    <2> QED
      BY <1>11, <2>1, <2>2 DEF Release, FinishLogin, UserErrorTerminal
  <1> QED
    BY <1>5, <1>6, <1>7, <1>8, <1>9, <1>10, <1>11 DEF Step, Lookup

-----------------------------------------------------------------------------
(* Every kind of step keeps the invariant.                                 *)

(* Steps of a poll draw no state.                                          *)
LEMMA StepRegistered ==
  ASSUME TypeOK, PollInv, NEW p \in Pollers, Step(p), NEW s \in States
  PROVE  Registered(s)'
  <1>1. UNCHANGED <<starting, known>>
    BY StepFrame
  <1>2. poll[p].state \in States
    BY StepFrame, ActiveFrame DEF Frames
  <1>3. github[s].user # "none" => github'[s].user # "none"
    BY <1>2, StepKind DEF PollInv, PollKept, Aside, LookupDue, Progress, Release
  <1>4. oauthSession[s] = NoSession => oauthSession'[s] = NoSession
    BY <1>2, StepKind
    DEF PollInv, PollKept, Aside, LookupDue, Progress, Release, FinishPoll, TypeOK
  <1> QED
    BY <1>1, <1>3, <1>4 DEF PollInv, Registered

(* Two polls of one state never both hold its session marked.              *)
LEMMA StepOnePoll ==
  ASSUME TypeOK, PollInv, NEW p \in Pollers, Step(p)
  PROVE  OnePollPerState'
  <1>1. /\ \A q \in Pollers \ {p} : poll'[q] = poll[q]
        /\ poll'[p].pc # "idle" => poll'[p].state = poll[p].state
    BY StepFrame
  <1>2. SUFFICES ASSUME NEW q \in Pollers \ {p}, Polling(p)', Polling(q),
                        poll'[p].state = poll[q].state
                 PROVE  FALSE
    BY <1>1 DEF PollInv, OnePollPerState, Polling
  <1>3. poll[p].state = poll[q].state
    BY <1>1, <1>2 DEF Polling
  <1>4. ~Polling(p)
    BY <1>2, <1>3 DEF PollInv, OnePollPerState
  <1>5. LookupDue(p)
    BY <1>2, <1>4, StepKind DEF Aside, Progress, Release, PollInv, PollKept
  <1>6. oauthSession[poll[p].state] # NoSession /\ ~oauthSession[poll[p].state].polling
    BY <1>5 DEF LookupDue, PollDue
  <1> QED
    BY <1>2, <1>3, <1>6 DEF PollInv, PollKept

LEMMA StepFlagOwned ==
  ASSUME TypeOK, PollInv, NEW p \in Pollers, Step(p)
  PROVE  PollingFlagOwned'
  <1>1. /\ \A q \in Pollers \ {p} : poll'[q] = poll[q]
        /\ poll'[p].pc # "idle" => poll'[p].state = poll[p].state
        /\ poll \in [Pollers -> Frames \cup {IdlePoll}]
        /\ oauthSession \in [States -> Sessions \cup {NoSession}]
        /\ poll[p].state \in States
    BY StepFrame, ActiveFrame DEF TypeOK, Frames
  <1>2. SUFFICES ASSUME NEW s \in States, oauthSession'[s] # NoSession,
                        oauthSession'[s].polling
                 PROVE  \E q \in Pollers : Polling(q)' /\ poll'[q].state = s
    BY DEF PollingFlagOwned
  <1>3. CASE LookupDue(p) /\ s = poll[p].state
    <2>1. Polling(p)'
      BY <1>1, <1>3 DEF LookupDue, Goto, Polling
    <2> QED
      BY <1>1, <1>3, <2>1 DEF Polling
  <1>4. CASE ~(LookupDue(p) /\ s = poll[p].state)
    <2>1. oauthSession[s] # NoSession /\ oauthSession[s].polling
      <3>1. CASE Aside(p)
        BY <1>1, <1>2, <3>1 DEF Aside
      <3>2. CASE LookupDue(p)
        BY <1>1, <1>2, <1>4, <3>2 DEF LookupDue
      <3>3. CASE Progress(p)
        BY <1>2, <3>3 DEF Progress
      <3>4. CASE Release(p)
        BY <1>1, <1>2, <3>4, FinishPollUnmarks DEF Release
      <3> QED
        BY <3>1, <3>2, <3>3, <3>4, StepKind DEF PollInv, PollKept
    <2>2. PICK q \in Pollers : Polling(q) /\ poll[q].state = s
      BY <2>1 DEF PollInv, PollingFlagOwned
    <2>3. CASE q # p
      BY <1>1, <2>2, <2>3 DEF Polling
    <2>4. CASE q = p
      <3>1. ~Release(p)
        BY <1>1, <1>2, <2>2, <2>4, FinishPollUnmarks DEF Release
      <3>2. Progress(p)
        BY <2>2, <2>4, <3>1, StepKind
        DEF PollInv, PollKept, Aside, LookupDue, Polling
      <3> QED
        BY <1>1, <2>2, <2>4, <3>2 DEF Progress, Polling
    <2> QED
      BY <2>3, <2>4
  <1> QED
    BY <1>3, <1>4

(* The poll that moves: it marks a session that was not marked.            *)
LEMMA StepOwnKept ==
  ASSUME TypeOK, PollInv, NEW p \in Pollers, Step(p)
  PROVE  PollKept(p)'
  <1>1. /\ UNCHANGED <<now, known>>
        /\ poll[p].pc # "idle" /\ poll[p].state \in States
        /\ poll'[p].pc # "idle" =>
             poll'[p].state = poll[p].state /\ poll'[p].now = poll[p].now
    BY StepFrame, ActiveFrame DEF Frames
  <1>2. poll'[p].pc # "idle" => poll'[p].state \in known' /\ poll'[p].now <= now'
    BY <1>1 DEF PollInv, PollKept
  <1>3. ASSUME Polling(p)'
        PROVE  /\ poll'[p].interval # 0
               /\ \/ oauthSession'[poll'[p].state] = NoSession
                  \/ oauthSession'[poll'[p].state].polling
    <2>1. poll'[p].state = poll[p].state
      BY <1>1, <1>3 DEF Polling
    <2>2. CASE LookupDue(p)
      <3>1. /\ oauthSession \in [States -> Sessions \cup {NoSession}]
            /\ oauthSession[poll[p].state] # NoSession
            /\ poll \in [Pollers -> Frames \cup {IdlePoll}]
        BY <2>2 DEF LookupDue, TypeOK
      <3>2. oauthSession[poll[p].state].interval \in Nat \ {0}
        BY <1>1, <2>2, <3>1, SessionInterval
      <3>3. poll'[p].interval = oauthSession[poll[p].state].interval
        BY <2>2, <3>1 DEF LookupDue, Goto
      <3>4. oauthSession'[poll[p].state].polling
        BY <1>1, <2>2, <3>1 DEF LookupDue, Session
      <3> QED
        BY <2>1, <3>2, <3>3, <3>4
    <2>3. CASE Progress(p)
      BY <2>1, <2>3 DEF Progress, PollInv, PollKept
    <2> QED
      BY <1>3, <2>2, <2>3, StepKind DEF Aside, Release, PollInv, PollKept
  <1> QED
    BY <1>2, <1>3 DEF PollKept

(* Any other poll: its session is not the one marked or unmarked.          *)
LEMMA StepOtherKept ==
  ASSUME TypeOK, PollInv, NEW p \in Pollers, Step(p), NEW q \in Pollers \ {p}
  PROVE  PollKept(q)'
  <1>1. /\ UNCHANGED <<now, known>> /\ poll'[q] = poll[q]
        /\ poll[p].state \in States
        /\ oauthSession \in [States -> Sessions \cup {NoSession}]
    BY StepFrame, ActiveFrame DEF Frames, TypeOK
  <1>2. ASSUME Polling(q)
        PROVE  \/ oauthSession'[poll[q].state] = NoSession
               \/ oauthSession'[poll[q].state].polling
    <2>1. /\ \/ oauthSession[poll[q].state] = NoSession
             \/ oauthSession[poll[q].state].polling
          /\ poll[q].state \in States
      BY <1>2, ActiveFrame DEF PollInv, PollKept, Polling, Frames
    <2>2. CASE Aside(p)
      BY <1>1, <2>1, <2>2 DEF Aside
    <2>3. CASE LookupDue(p)
      BY <1>1, <2>1, <2>3 DEF LookupDue, PollDue
    <2>4. CASE Progress(p)
      BY <2>1, <2>4 DEF Progress
    <2>5. CASE Release(p)
      <3>1. poll[p].state # poll[q].state
        BY <1>2, <2>5 DEF Release, PollInv, OnePollPerState
      <3> QED
        BY <1>1, <2>1, <2>5, <3>1, FinishPollUnmarks DEF Release
    <2> QED
      BY <2>2, <2>3, <2>4, <2>5, StepKind DEF PollInv, PollKept
  <1> QED
    BY <1>1, <1>2 DEF PollInv, PollKept, Polling

LEMMA StepPollInv ==
  ASSUME TypeOK, PollInv, NEW p \in Pollers, Step(p)
  PROVE  PollInv'
  BY StepRegistered, StepOwnKept, StepOtherKept, StepOnePoll, StepFlagOwned DEF PollInv

-----------------------------------------------------------------------------
(* The steps of the host, of GitHub's user, of the clock and of StartLogin. *)

LEMMA PollLoginInv ==
  ASSUME TypeOK, PollInv, NEW p \in Pollers, NEW s \in States, PollLogin(p, s)
  PROVE  TypeOK' /\ PollInv'
  <1>1. /\ poll \in [Pollers -> Frames \cup {IdlePoll}] /\ now \in Nat
        /\ UNCHANGED <<now, starting, oauthSession, known, github>>
        /\ poll' = [poll EXCEPT ![p] = [pc |-> "lookup", state |-> s, now |-> now,
                      interval |-> 0, answer |-> "none", asked |-> 0]]
        /\ poll[p].pc = "idle" /\ s \in known
    BY DEF PollLogin, TypeOK
  <1>2. [pc |-> "lookup", state |-> s, now |-> now, interval |-> 0,
         answer |-> "none", asked |-> 0] \in Frames
    BY <1>1 DEF Frames
  <1>3. TypeOK'
    BY <1>1, <1>2 DEF TypeOK
  <1>4. /\ \A q \in Pollers \ {p} : poll'[q] = poll[q]
        /\ poll'[p].pc = "lookup" /\ poll'[p].state = s /\ poll'[p].now = now
        /\ ~Polling(p) /\ ~Polling(p)'
    BY <1>1 DEF Polling
  <1>5. \A q \in Pollers : PollKept(q)'
    BY <1>1, <1>4 DEF PollInv, PollKept, Polling
  <1>6. OnePollPerState' /\ PollingFlagOwned'
    BY <1>1, <1>4 DEF PollInv, OnePollPerState, PollingFlagOwned, Polling
  <1>7. \A t \in States : Registered(t)'
    BY <1>1 DEF PollInv, Registered
  <1> QED
    BY <1>3, <1>5, <1>6, <1>7 DEF PollInv

(* Outside the polls, what is left to show is that states stay registered. *)
LEMMA QuietPollInv ==
  ASSUME PollInv, UNCHANGED <<poll, oauthSession>>, now \in Nat, now' \in Nat,
         now' >= now, known \subseteq known',
         \A p \in Pollers : poll[p].pc # "idle" => poll[p].now \in Nat,
         \A s \in States : Registered(s)'
  PROVE  PollInv'
  <1>1. \A p \in Pollers : PollKept(p)'
    BY DEF PollInv, PollKept, Polling
  <1>2. OnePollPerState' /\ PollingFlagOwned'
    BY DEF PollInv, OnePollPerState, PollingFlagOwned, Polling
  <1> QED
    BY <1>1, <1>2 DEF PollInv

LEMMA FrameTimes ==
  ASSUME TypeOK
  PROVE  now \in Nat /\ \A p \in Pollers : poll[p].pc # "idle" => poll[p].now \in Nat
  BY DEF TypeOK, Frames, IdlePoll

LEMMA RequestCodeInv ==
  ASSUME TypeOK, PollInv, NEW s \in States, NEW device \in DeviceReplies,
         RequestCode(s, device)
  PROVE  TypeOK' /\ PollInv'
  <1>1. /\ starting \in [States -> DeviceReplies \cup {NoReply}]
        /\ github \in [States -> Codes]
        /\ github[s].user = "none"
        /\ starting' = [starting EXCEPT ![s] = device]
        /\ github' = [github EXCEPT ![s] = Code("waiting", AtLeast(1, device.interval))]
        /\ UNCHANGED <<now, oauthSession, known, poll>>
    BY DEF RequestCode, TypeOK, NoCode, Code
  <1>2. github' \in [States -> Codes]
    <2>1. AtLeast(1, device.interval) \in Nat
      BY IntervalType
    <2> QED
      BY <1>1, <2>1 DEF Codes, Code
  <1>3. TypeOK'
    BY <1>1, <1>2 DEF TypeOK
  <1>4. github'[s].user # "none" /\ \A t \in States \ {s} : github'[t] = github[t]
    BY <1>1 DEF Code
  <1>5. s \notin known /\ oauthSession[s] = NoSession
    BY <1>1 DEF PollInv, Registered
  <1>6. \A t \in States : Registered(t)'
    BY <1>1, <1>4, <1>5 DEF PollInv, Registered
  <1> QED
    BY <1>1, <1>3, <1>6, QuietPollInv, FrameTimes

LEMMA RegisterInv ==
  ASSUME TypeOK, PollInv, NEW s \in States, Register(s)
  PROVE  TypeOK' /\ PollInv'
  <1> DEFINE session == Session(now + Lifetime(starting[s]), Interval(starting[s]),
                                now, FALSE)
  <1>1. /\ now \in Nat
        /\ starting \in [States -> DeviceReplies \cup {NoReply}]
        /\ oauthSession \in [States -> Sessions \cup {NoSession}]
        /\ known \subseteq States
        /\ starting[s] \in DeviceReplies
        /\ starting' = [starting EXCEPT ![s] = NoReply]
        /\ oauthSession' = [oauthSession EXCEPT ![s] = session]
        /\ known' = known \/ known' = known \cup {s}
        /\ UNCHANGED <<now, poll, github>>
    BY DEF Register, TypeOK
  <1>2. session \in Sessions /\ ~session.polling
    BY <1>1, IntervalType DEF Sessions, Session
  <1> HIDE DEF session
  <1>3. TypeOK'
    BY <1>1, <1>2 DEF TypeOK
  <1>4. s \notin known /\ oauthSession[s] = NoSession /\ github[s].user # "none"
    BY DEF PollInv, Registered, Register
  <1>5. /\ oauthSession'[s] = session
        /\ \A t \in States \ {s} : oauthSession'[t] = oauthSession[t]
    BY <1>1
  <1>6. \A t \in States : Registered(t)'
    BY <1>1, <1>4, <1>5 DEF PollInv, Registered
  <1>7. \A p \in Pollers : poll[p].pc # "idle" => poll[p].state \in States \ {s}
    BY <1>1, <1>4 DEF PollInv, PollKept
  <1>8. \A p \in Pollers : PollKept(p)'
    BY <1>1, <1>5, <1>7 DEF PollInv, PollKept, Polling
  <1>9. OnePollPerState' /\ PollingFlagOwned'
    BY <1>1, <1>2, <1>5 DEF PollInv, OnePollPerState, PollingFlagOwned, Polling
  <1> QED
    BY <1>3, <1>6, <1>8, <1>9 DEF PollInv

LEMMA ShutdownInv ==
  ASSUME TypeOK, PollInv, ShutdownSessions
  PROVE  TypeOK' /\ PollInv'
  <1>1. TypeOK'
    BY DEF TypeOK, ShutdownSessions
  <1>2. /\ \A s \in States : oauthSession'[s] = NoSession
        /\ UNCHANGED <<now, starting, known, poll, github>>
    BY DEF ShutdownSessions
  <1>3. \A p \in Pollers : poll[p].pc # "idle" => poll[p].state \in States
    BY ActiveFrame DEF Frames
  <1>4. \A p \in Pollers : PollKept(p)'
    BY <1>2, <1>3 DEF PollInv, PollKept, Polling
  <1>5. OnePollPerState' /\ PollingFlagOwned' /\ \A s \in States : Registered(s)'
    BY <1>2 DEF PollInv, OnePollPerState, PollingFlagOwned, Polling, Registered
  <1> QED
    BY <1>1, <1>4, <1>5 DEF PollInv

LEMMA UserDecidesInv ==
  ASSUME TypeOK, PollInv, NEW s \in States, UserDecides(s)
  PROVE  TypeOK' /\ PollInv'
  <1>1. PICK verdict \in {"approved", "denied"} :
          github' = [github EXCEPT ![s].user = verdict]
    BY DEF UserDecides
  <1>2. /\ github \in [States -> Codes]
        /\ UNCHANGED <<now, starting, oauthSession, known, poll>>
    BY DEF UserDecides, TypeOK
  <1>4. github' \in [States -> Codes]
    BY <1>1, UserType
  <1>5. TypeOK'
    BY <1>2, <1>4 DEF TypeOK
  <1>6. github'[s].user # "none" /\ \A t \in States \ {s} : github'[t] = github[t]
    BY <1>1, <1>2 DEF Codes
  <1>7. \A t \in States : Registered(t)'
    BY <1>2, <1>6 DEF PollInv, Registered
  <1> QED
    BY <1>2, <1>5, <1>7, QuietPollInv, FrameTimes

LEMMA TickInv ==
  ASSUME TypeOK, PollInv, Tick
  PROVE  TypeOK' /\ PollInv'
  <1>1. TypeOK'
    BY DEF Tick, TypeOK
  <1>2. \A s \in States : Registered(s)'
    BY DEF Tick, PollInv, Registered
  <1> QED
    BY <1>1, <1>2, QuietPollInv, FrameTimes DEF Tick

-----------------------------------------------------------------------------
LEMMA InitPollInv == Init => TypeOK /\ PollInv
  <1> SUFFICES ASSUME Init PROVE TypeOK /\ PollInv
    OBVIOUS
  <1>1. TypeOK
    BY DEF Init, TypeOK, NoCode, Code, Codes
  <1>2. \A p \in Pollers : poll[p].pc = "idle" /\ ~Polling(p)
    BY DEF Init, IdlePoll, Polling
  <1>3. \A s \in States : Registered(s)
    BY DEF Init, Registered
  <1>4. (\A p \in Pollers : PollKept(p)) /\ OnePollPerState
    BY <1>2 DEF PollKept, OnePollPerState
  <1>5. PollingFlagOwned
    BY DEF Init, PollingFlagOwned
  <1> QED
    BY <1>1, <1>3, <1>4, <1>5 DEF PollInv

LEMMA NextPollInv ==
  TypeOK /\ PollInv /\ [Next]_vars => TypeOK' /\ PollInv'
  <1> SUFFICES ASSUME TypeOK, PollInv, [Next]_vars PROVE TypeOK' /\ PollInv'
    OBVIOUS
  <1>1. ASSUME NEW p \in Pollers, Step(p) PROVE TypeOK' /\ PollInv'
    <2>1. poll[p].pc \in {"request", "sent", "answered", "user"} => poll[p].interval # 0
      BY DEF PollInv, PollKept, Polling
    <2> QED
      BY <1>1, <2>1, StepType, StepPollInv
  <1>2. CASE UNCHANGED vars
    BY <1>2 DEF vars, TypeOK, PollInv, Registered, PollKept, OnePollPerState,
      PollingFlagOwned, Polling
  <1> QED
    BY <1>1, <1>2, PollLoginInv, RequestCodeInv, RegisterInv, ShutdownInv,
      UserDecidesInv, TickInv DEF Next

(* The shapes hold.                                                        *)
THEOREM LoginTypeCorrect == Spec => []TypeOK
  <1>1. Init => TypeOK /\ PollInv
    BY InitPollInv
  <1>2. TypeOK /\ PollInv /\ [Next]_vars => TypeOK' /\ PollInv'
    BY NextPollInv
  <1> QED
    BY <1>1, <1>2, PTL DEF Spec

(* Whatever the number of goroutines that call PollLogin, and whenever     *)
(* Shutdown clears the map, one of them at most talks to GitHub for a      *)
(* state.                                                                  *)
THEOREM OnePollPerStateHolds == Spec => []OnePollPerState
  <1>1. TypeOK /\ PollInv => OnePollPerState
    BY DEF PollInv
  <1> QED
    BY <1>1, InitPollInv, NextPollInv, PTL DEF Spec

(* No error path of PollLogin leaves a session marked as being polled.     *)
THEOREM PollingFlagOwnedHolds == Spec => []PollingFlagOwned
  <1>1. TypeOK /\ PollInv => PollingFlagOwned
    BY DEF PollInv
  <1> QED
    BY <1>1, InitPollInv, NextPollInv, PTL DEF Spec

-----------------------------------------------------------------------------
(* The pace of the polls and the single delivery of the token: what a      *)
(* session and a poll know of GitHub's side of the code, although neither  *)
(* reads it.                                                               *)

(* The inductive invariant, in named parts.                                *)

(* A session anyone may poll has the interval GitHub told of at least, is  *)
(* due no earlier than that after the last request, and its token has not  *)
(* been handed out.                                                        *)
SessionPaced(s) ==
  LET code == github[s]
      session == oauthSession[s]
  IN  /\ starting[s] # NoReply =>
           code.lastPoll = -1 /\ code.told = Interval(starting[s])
      /\ code.lastPoll <= now
      /\ code.user = "delivered" => s \in known
      /\ session # NoSession /\ ~session.polling =>
           /\ code.user # "delivered"
           /\ session.interval >= code.told
           /\ code.lastPoll = -1 \/ session.nextPoll >= code.lastPoll + code.told

(* The interval a poll will leave in the session is long enough; when the  *)
(* token has been handed out, it was to this poll.                         *)
PollPaced(p) ==
  LET code == github[poll[p].state]
  IN  Polling(p) =>
        /\ poll[p].pc \in {"request", "sent"} =>
             poll[p].answer = "none" /\ code.user # "delivered"
        /\ poll[p].pc = "answered" /\ code.user = "delivered" => poll[p].answer = "token"
        /\ NextInterval(poll[p].interval, poll[p].answer, poll[p].asked) >= code.told
        /\ poll[p].pc = "request" =>
             code.lastPoll = -1 \/ now >= code.lastPoll + code.told

PaceInv ==
  /\ \A s \in States : SessionPaced(s)
  /\ \A p \in Pollers : PollPaced(p)

-----------------------------------------------------------------------------
(* The types of what the invariant compares.                               *)
LEMMA PaceTypes ==
  ASSUME TypeOK, NEW s \in States
  PROVE  /\ now \in Nat
         /\ github[s].lastPoll \in Nat \cup {-1} /\ github[s].told \in Nat
         /\ oauthSession[s] # NoSession =>
              oauthSession[s].interval \in Nat /\ oauthSession[s].nextPoll \in Nat
  BY DEF TypeOK, Codes, Sessions

LEMMA FrameTypes ==
  ASSUME TypeOK, NEW p \in Pollers, poll[p].pc # "idle"
  PROVE  /\ poll[p].state \in States
         /\ poll[p].now \in Nat /\ poll[p].interval \in Nat /\ poll[p].asked \in Nat
         /\ NextInterval(poll[p].interval, poll[p].answer, poll[p].asked) \in Nat
  BY ActiveFrame DEF Frames, NextInterval, Longer, AtLeast

(* Goto and what it leaves in the frame.                                   *)
LEMMA GotoFrame ==
  ASSUME TypeOK, NEW p \in Pollers, NEW pc, NEW interval, NEW answer, NEW asked,
         Goto(p, pc, interval, answer, asked)
  PROVE  /\ poll'[p].pc = pc /\ poll'[p].interval = interval
         /\ poll'[p].answer = answer /\ poll'[p].asked = asked
  BY DEF Goto, TypeOK

(* A step of a poll disturbs its own code, session and frame: those of the *)
(* other states are untouched, and no other poll is of its state.          *)
LEMMA StepPace ==
  ASSUME TypeOK, PollInv, PaceInv, NEW p \in Pollers, Step(p),
         NEW s \in States, s = poll[p].state,
         \A t \in States \ {s} :
           github'[t] = github[t] /\ oauthSession'[t] = oauthSession[t],
         Polling(p) \/ UNCHANGED github,
         SessionPaced(s)', PollPaced(p)'
  PROVE  PaceInv'
  <1>1. /\ UNCHANGED <<now, starting, known>>
        /\ \A q \in Pollers \ {p} : poll'[q] = poll[q]
    BY StepFrame
  <1>2. \A t \in States \ {s} : SessionPaced(t)'
    BY <1>1 DEF PaceInv, SessionPaced
  <1>3. ASSUME NEW q \in Pollers \ {p} PROVE PollPaced(q)'
    <2>1. CASE ~Polling(q)
      BY <1>1, <2>1 DEF PollPaced, Polling
    <2>2. CASE Polling(q)
      <3>1. poll[q].state \in States
        BY <2>2, FrameTypes DEF Polling
      <3>2. github'[poll[q].state] = github[poll[q].state]
        BY <2>2, <3>1 DEF PollInv, OnePollPerState
      <3> QED
        BY <1>1, <3>2 DEF PaceInv, PollPaced, Polling
    <2> QED
      BY <2>1, <2>2
  <1> QED
    BY <1>2, <1>3 DEF PaceInv

(* While the poll has the session marked, the session may not be polled.   *)
LEMMA MarkedSession ==
  ASSUME PollInv, NEW p \in Pollers, Polling(p)
  PROVE  oauthSession[poll[p].state] = NoSession \/ oauthSession[poll[p].state].polling
  BY DEF PollInv, PollKept

LEMMA AsidePace ==
  ASSUME TypeOK, PollInv, PaceInv, NEW p \in Pollers, Step(p), Aside(p)
  PROVE  PaceInv'
  <1> PICK s \in States : s = poll[p].state
    BY StepFrame, FrameTypes
  <1>1. UNCHANGED <<now, starting, known>>
    BY StepFrame
  <1>2. \A t \in States \ {s} : oauthSession'[t] = oauthSession[t]
    BY DEF Aside, TypeOK
  <1>3. oauthSession'[s] \in {oauthSession[s], NoSession}
    BY DEF Aside, TypeOK
  <1>4. SessionPaced(s)'
    BY <1>1, <1>3 DEF Aside, PaceInv, SessionPaced
  <1>5. PollPaced(p)'
    BY DEF Aside, PollPaced
  <1> QED
    BY <1>2, <1>4, <1>5, StepPace DEF Aside

(* The clock reading of the poll is not before the session is due; the     *)
(* clock itself has gone on since.                                         *)
LEMMA LookupDuePace ==
  ASSUME TypeOK, PollInv, PaceInv, NEW p \in Pollers, Step(p), LookupDue(p)
  PROVE  PaceInv'
  <1> PICK s \in States : s = poll[p].state
    BY StepFrame, FrameTypes
  <1>1. /\ UNCHANGED <<now, starting, known, github>>
        /\ poll[p].now \in Nat /\ poll[p].now <= now
        /\ poll'[p].state = s \/ poll'[p].pc = "idle"
    BY StepFrame, FrameTypes DEF PollInv, PollKept, LookupDue
  <1>2. /\ oauthSession[s] # NoSession /\ ~oauthSession[s].polling
        /\ poll[p].now >= oauthSession[s].nextPoll
        /\ \A t \in States \ {s} : oauthSession'[t] = oauthSession[t]
        /\ oauthSession'[s].polling
    BY DEF LookupDue, PollDue, TypeOK, Session
  <1>3. /\ poll'[p].pc = "request" /\ poll'[p].interval = oauthSession[s].interval
        /\ poll'[p].answer = "none" /\ poll'[p].asked = 0
    BY GotoFrame DEF LookupDue
  <1>4. /\ github[s].user # "delivered"
        /\ oauthSession[s].interval >= github[s].told
        /\ \/ github[s].lastPoll = -1
           \/ oauthSession[s].nextPoll >= github[s].lastPoll + github[s].told
    BY <1>2 DEF PaceInv, SessionPaced
  <1>5. SessionPaced(s)'
    <2>1. starting[s] = NoReply
      BY <1>2 DEF PollInv, Registered
    <2> QED
      BY <1>1, <1>2, <2>1 DEF PaceInv, SessionPaced
  <1>6. github[s].lastPoll = -1 \/ now >= github[s].lastPoll + github[s].told
    BY <1>1, <1>2, <1>4, PaceTypes
  <1>7. PollPaced(p)'
    BY <1>1, <1>3, <1>4, <1>6 DEF PollPaced, NextInterval
  <1> QED
    BY <1>1, <1>2, <1>5, <1>7, StepPace

(* Between the request and the answer only GitHub's side of the code       *)
(* changes, and the session, marked by the poll, is due to no one.         *)
LEMMA MarkedPace ==
  ASSUME TypeOK, PollInv, PaceInv, NEW p \in Pollers, Step(p), Polling(p),
         NEW s \in States, s = poll[p].state, UNCHANGED oauthSession,
         github'[s].lastPoll <= now
  PROVE  SessionPaced(s)'
  <1>1. /\ UNCHANGED <<now, starting, known>>
        /\ oauthSession[s] = NoSession \/ oauthSession[s].polling
        /\ s \in known
    BY StepFrame, MarkedSession DEF PollInv, PollKept, Polling
  <1>2. starting[s] = NoReply
    BY <1>1 DEF PollInv, Registered
  <1> QED
    BY <1>1, <1>2 DEF SessionPaced

LEMMA SendPollPace ==
  ASSUME TypeOK, PollInv, PaceInv, NEW p \in Pollers, Step(p), SendPoll(p)
  PROVE  PaceInv'
  <1> PICK s \in States : s = poll[p].state
    BY StepFrame, FrameTypes
  <1>1. /\ Polling(p) /\ poll[p].pc = "request" /\ UNCHANGED <<now, oauthSession>>
        /\ poll'[p].pc = "sent" /\ poll'[p].state = s
        /\ poll'[p].interval = poll[p].interval
        /\ poll'[p].answer = "none" /\ poll'[p].asked = 0
    BY StepFrame, GotoFrame DEF SendPoll, Polling
  <1>2. /\ github'[s].user = github[s].user /\ github'[s].lastPoll = now
        /\ github'[s].told = github[s].told
        /\ \A t \in States \ {s} : github'[t] = github[t]
    BY DEF SendPoll, Codes, TypeOK
  <1>3. /\ github[s].user # "delivered" /\ poll[p].answer = "none"
        /\ NextInterval(poll[p].interval, poll[p].answer, poll[p].asked) >= github[s].told
    BY <1>1 DEF PaceInv, PollPaced
  <1>4. SessionPaced(s)'
    BY <1>1, <1>2, MarkedPace, PaceTypes
  <1>5. PollPaced(p)'
    BY <1>1, <1>2, <1>3 DEF PollPaced, NextInterval
  <1> QED
    BY <1>1, <1>2, <1>4, <1>5, StepPace

(* The poll that is handed the token is the only one of its code.          *)
LEMMA AnswerTokenPace ==
  ASSUME TypeOK, PollInv, PaceInv, NEW p \in Pollers, Step(p), AnswerToken(p)
  PROVE  PaceInv'
  <1> PICK s \in States : s = poll[p].state
    BY StepFrame, FrameTypes
  <1> PICK arrives \in BOOLEAN :
        /\ Answered(p, IF arrives THEN "token" ELSE "lost", 0)
        /\ github' = [github EXCEPT ![s].user =
             IF arrives THEN "delivered" ELSE "lost"]
    BY DEF AnswerToken
  <1>1. /\ Polling(p) /\ poll[p].pc = "sent" /\ UNCHANGED <<now, oauthSession>>
        /\ poll'[p].pc = "answered" /\ poll'[p].state = s
        /\ poll'[p].interval = poll[p].interval
        /\ poll'[p].answer = (IF arrives THEN "token" ELSE "lost")
        /\ poll'[p].asked = 0
    BY StepFrame, GotoFrame DEF AnswerToken, Answered, Polling
  <1>2. /\ github'[s].user = (IF arrives THEN "delivered" ELSE "lost")
        /\ github'[s].lastPoll = github[s].lastPoll
        /\ github'[s].told = github[s].told
        /\ \A t \in States \ {s} : github'[t] = github[t]
    BY DEF Codes, TypeOK
  <1>3. /\ poll[p].answer = "none"
        /\ NextInterval(poll[p].interval, poll[p].answer, poll[p].asked) >= github[s].told
    BY <1>1 DEF PaceInv, PollPaced
  <1>4. SessionPaced(s)'
    BY <1>1, <1>2, MarkedPace DEF PaceInv, SessionPaced
  <1>5. PollPaced(p)'
    BY <1>1, <1>2, <1>3 DEF PollPaced, NextInterval
  <1> QED
    BY <1>1, <1>2, <1>4, <1>5, StepPace

LEMMA AnswerOtherPace ==
  ASSUME TypeOK, PollInv, PaceInv, NEW p \in Pollers, Step(p), AnswerOther(p)
  PROVE  PaceInv'
  <1> PICK s \in States : s = poll[p].state
    BY StepFrame, FrameTypes
  <1> PICK answer \in {"authorization_pending", "terminal", "server_error", "lost"} :
        Answered(p, answer, 0)
    BY DEF AnswerOther
  <1>1. /\ Polling(p) /\ poll[p].pc = "sent"
        /\ UNCHANGED <<now, oauthSession, github>>
        /\ poll'[p].pc = "answered" /\ poll'[p].state = s
        /\ poll'[p].interval = poll[p].interval
        /\ poll'[p].answer = answer /\ poll'[p].asked = 0
    BY StepFrame, GotoFrame DEF AnswerOther, Answered, Polling
  <1>2. /\ poll[p].answer = "none" /\ github[s].user # "delivered"
        /\ NextInterval(poll[p].interval, poll[p].answer, poll[p].asked) >= github[s].told
    BY <1>1 DEF PaceInv, PollPaced
  <1>3. SessionPaced(s)'
    BY <1>1, MarkedPace DEF PaceInv, SessionPaced
  <1>4. PollPaced(p)'
    BY <1>1, <1>2 DEF PollPaced, NextInterval
  <1> QED
    BY <1>1, <1>3, <1>4, StepPace

(* slow_down: the plugin lengthens its interval by as much as it is told.  *)
LEMMA SlowDownHeardPace ==
  ASSUME TypeOK, PollInv, PaceInv, NEW p \in Pollers, Step(p),
         NEW asked \in SlowDowns, AnswerSlowDown(p, asked),
         NEW s \in States, s = poll[p].state,
         Answered(p, "slow_down", asked),
         github'[s].told = Longer(github[s].told, asked)
  PROVE  PollPaced(p)'
  <1>1. /\ Polling(p) /\ poll[p].pc = "sent"
        /\ poll'[p].pc = "answered" /\ poll'[p].state = s
        /\ poll'[p].interval = poll[p].interval
        /\ poll'[p].answer = "slow_down" /\ poll'[p].asked = asked
    BY StepFrame, GotoFrame DEF Answered, Polling
  <1>2. /\ poll[p].answer = "none" /\ github[s].user # "delivered"
        /\ NextInterval(poll[p].interval, poll[p].answer, poll[p].asked) >= github[s].told
    BY <1>1 DEF PaceInv, PollPaced
  <1>3. /\ poll[p].interval \in Nat /\ github[s].told \in Nat /\ asked \in Nat
        /\ poll[p].interval >= github[s].told
    BY <1>1, <1>2, FrameTypes, PaceTypes, TimeAssumption DEF NextInterval
  <1>4. NextInterval(poll[p].interval, "slow_down", asked) >= github'[s].told
    BY <1>3 DEF NextInterval, Longer, AtLeast
  <1>5. asked \in Nat /\ github'[s].user # "delivered"
    BY <1>2, <1>3, SlowDownType
  <1> QED
    BY <1>1, <1>4, <1>5 DEF PollPaced

(* A lost slow_down leaves both the plugin's interval and what it was told *)
(* of as they were.                                                        *)
LEMMA SlowDownLostPace ==
  ASSUME TypeOK, PollInv, PaceInv, NEW p \in Pollers, Step(p),
         NEW asked \in SlowDowns, AnswerSlowDown(p, asked),
         NEW s \in States, s = poll[p].state,
         Answered(p, "lost", 0), github'[s].told = github[s].told
  PROVE  PollPaced(p)'
  <1>1. /\ Polling(p) /\ poll[p].pc = "sent"
        /\ poll'[p].pc = "answered" /\ poll'[p].state = s
        /\ poll'[p].interval = poll[p].interval
        /\ poll'[p].answer = "lost" /\ poll'[p].asked = 0
    BY StepFrame, GotoFrame DEF Answered, Polling
  <1>2. /\ poll[p].answer = "none" /\ github[s].user # "delivered"
        /\ NextInterval(poll[p].interval, poll[p].answer, poll[p].asked) >= github[s].told
    BY <1>1 DEF PaceInv, PollPaced
  <1>3. asked \in Nat /\ github'[s].user # "delivered"
    BY <1>2, SlowDownType, TimeAssumption
  <1> QED
    BY <1>1, <1>2, <1>3 DEF PollPaced, NextInterval

LEMMA AnswerSlowDownPace ==
  ASSUME TypeOK, PollInv, PaceInv, NEW p \in Pollers, Step(p),
         NEW asked \in SlowDowns, AnswerSlowDown(p, asked)
  PROVE  PaceInv'
  <1> PICK s \in States : s = poll[p].state
    BY StepFrame, FrameTypes
  <1>1. /\ Polling(p) /\ UNCHANGED <<now, oauthSession>> /\ asked \in Nat
    BY TimeAssumption DEF AnswerSlowDown, Polling
  <1>2. /\ github'[s].user = github[s].user
        /\ github'[s].lastPoll = github[s].lastPoll
        /\ \A t \in States \ {s} : github'[t] = github[t]
    BY <1>1, SlowDownType
  <1>3. \/ /\ Answered(p, "slow_down", asked)
           /\ github'[s].told = Longer(github[s].told, asked)
        \/ Answered(p, "lost", 0) /\ github'[s].told = github[s].told
    BY DEF AnswerSlowDown, TypeOK, Codes
  <1>4. SessionPaced(s)'
    BY <1>1, <1>2, MarkedPace DEF PaceInv, SessionPaced
  <1>5. PollPaced(p)'
    BY <1>3, SlowDownHeardPace, SlowDownLostPace
  <1> QED
    BY <1>1, <1>2, <1>4, <1>5, StepPace

LEMMA FetchUserPace ==
  ASSUME TypeOK, PollInv, PaceInv, NEW p \in Pollers, Step(p), FetchUser(p)
  PROVE  PaceInv'
  <1> PICK s \in States : s = poll[p].state
    BY StepFrame, FrameTypes
  <1>1. /\ Polling(p) /\ poll[p].pc = "answered" /\ poll[p].answer = "token"
        /\ UNCHANGED <<now, oauthSession, github>>
        /\ poll'[p].pc = "user" /\ poll'[p].state = s
        /\ poll'[p].interval = poll[p].interval
        /\ poll'[p].answer = "token" /\ poll'[p].asked = 0
    BY StepFrame, GotoFrame DEF FetchUser, Polling
  <1>2. NextInterval(poll[p].interval, poll[p].answer, poll[p].asked) >= github[s].told
    BY <1>1 DEF PaceInv, PollPaced
  <1>3. SessionPaced(s)'
    BY <1>1, MarkedPace DEF PaceInv, SessionPaced
  <1>4. PollPaced(p)'
    BY <1>1, <1>2 DEF PollPaced, NextInterval
  <1> QED
    BY <1>1, <1>3, <1>4, StepPace

(* The session that goes back is due one interval from now, and no request *)
(* has left in the meantime; its token, if handed out, is not asked again. *)
LEMMA HandleAnswerPace ==
  ASSUME TypeOK, PollInv, PaceInv, NEW p \in Pollers, Step(p), HandleAnswer(p)
  PROVE  PaceInv'
  <1> DEFINE next == NextInterval(poll[p].interval, poll[p].answer, poll[p].asked)
  <1> PICK s \in States : s = poll[p].state
    BY StepFrame, FrameTypes
  <1>1. /\ Polling(p) /\ poll[p].pc = "answered" /\ poll[p].answer # "token"
        /\ UNCHANGED <<now, starting, known, github>>
        /\ FinishPoll(s, next, poll[p].answer = "terminal")
        /\ poll'[p].pc = "returned"
    BY GotoFrame DEF HandleAnswer, Returns, Polling
  <1>2. github[s].user # "delivered" /\ next >= github[s].told
    BY <1>1 DEF PaceInv, PollPaced
  <1>3. /\ next \in Nat /\ now \in Nat
        /\ github[s].lastPoll \in Nat \cup {-1} /\ github[s].told \in Nat
        /\ github[s].lastPoll <= now
    BY <1>1, FrameTypes, PaceTypes DEF PaceInv, SessionPaced
  <1>4. s \in known
    BY <1>1 DEF PollInv, PollKept, Polling
  <1> HIDE DEF next
  <1>5. oauthSession'[s] # NoSession =>
          oauthSession'[s].interval = next /\ oauthSession'[s].nextPoll = now + next
    BY <1>1 DEF FinishPoll, Session, TypeOK
  <1>6. SessionPaced(s)'
    <2>1. starting[s] = NoReply
      BY <1>4 DEF PollInv, Registered
    <2>2. now + next >= github[s].lastPoll + github[s].told
      BY <1>2, <1>3
    <2> QED
      BY <1>1, <1>2, <1>3, <1>4, <1>5, <2>1, <2>2 DEF SessionPaced
  <1>7. PollPaced(p)'
    BY <1>1 DEF PollPaced, Polling
  <1> QED
    BY <1>1, <1>6, <1>7, FinishPollUnmarks, StepPace

(* Success and failure both remove the session (oauth.go:264-268).         *)
LEMMA FinishLoginPace ==
  ASSUME TypeOK, PollInv, PaceInv, NEW p \in Pollers, Step(p), FinishLogin(p)
  PROVE  PaceInv'
  <1> PICK s \in States : s = poll[p].state
    BY StepFrame, FrameTypes
  <1>1. /\ Polling(p) /\ UNCHANGED <<now, starting, known, github>>
        /\ FinishPoll(s, poll[p].interval, TRUE)
        /\ poll'[p].pc = "returned"
    BY GotoFrame DEF FinishLogin, UserErrorTerminal, Returns, Polling
  <1>2. oauthSession'[s] = NoSession
    BY <1>1 DEF FinishPoll, TypeOK
  <1>3. SessionPaced(s)'
    BY <1>1, <1>2 DEF PaceInv, SessionPaced
  <1>4. PollPaced(p)'
    BY <1>1 DEF PollPaced, Polling
  <1> QED
    BY <1>1, <1>3, <1>4, FinishPollUnmarks, StepPace

LEMMA StepPaceInv ==
  ASSUME TypeOK, PollInv, PaceInv, NEW p \in Pollers, Step(p)
  PROVE  PaceInv'
  <1>1. CASE LookupUnknown(p) \/ LookupExpired(p) \/ LookupEarly(p) \/ Return(p)
    <2>1. ~Polling(p) /\ ~LookupDue(p)
      BY <1>1 DEF Polling, LookupUnknown, LookupExpired, LookupEarly, Return, LookupDue
    <2> QED
      BY <2>1, StepKind, AsidePace DEF Progress, Release
  <1> QED
    BY <1>1, LookupDuePace, SendPollPace, AnswerTokenPace, AnswerOtherPace,
      AnswerSlowDownPace, HandleAnswerPace, FetchUserPace, FinishLoginPace
    DEF Step, Lookup

-----------------------------------------------------------------------------
(* The other steps.                                                        *)

(* A poll that starts marks nothing.                                       *)
LEMMA PollLoginPace ==
  ASSUME TypeOK, PaceInv, NEW p \in Pollers, NEW s \in States, PollLogin(p, s)
  PROVE  PaceInv'
  <1>1. /\ poll \in [Pollers -> Frames \cup {IdlePoll}]
        /\ UNCHANGED <<now, starting, oauthSession, known, github>>
        /\ \A q \in Pollers \ {p} : poll'[q] = poll[q]
        /\ poll'[p].pc = "lookup"
    BY DEF PollLogin, TypeOK
  <1>2. \A t \in States : SessionPaced(t)'
    BY <1>1 DEF PaceInv, SessionPaced
  <1>3. \A q \in Pollers \ {p} : PollPaced(q)'
    BY <1>1 DEF PaceInv, PollPaced, Polling
  <1>4. PollPaced(p)'
    BY <1>1 DEF PollPaced, Polling
  <1> QED
    BY <1>2, <1>3, <1>4 DEF PaceInv

(* No poll is of a state that is still to be registered.                   *)
LEMMA NotYetPolled ==
  ASSUME TypeOK, PollInv, NEW s \in States, s \notin known
  PROVE  \A p \in Pollers : Polling(p) => poll[p].state \in States \ {s}
  BY FrameTypes DEF PollInv, PollKept, Polling

LEMMA RequestCodePace ==
  ASSUME TypeOK, PollInv, PaceInv, NEW s \in States, NEW device \in DeviceReplies,
         RequestCode(s, device)
  PROVE  PaceInv'
  <1>1. /\ github[s].user = "none"
        /\ UNCHANGED <<now, oauthSession, known, poll>>
        /\ \A t \in States \ {s} : github'[t] = github[t] /\ starting'[t] = starting[t]
        /\ github'[s] = Code("waiting", AtLeast(1, device.interval))
        /\ starting'[s] = device
    BY DEF RequestCode, NoCode, Code, TypeOK
  <1>2. s \notin known /\ oauthSession[s] = NoSession /\ now \in Nat
    BY <1>1, PaceTypes DEF PollInv, Registered
  <1>3. SessionPaced(s)'
    BY <1>1, <1>2, IntervalType DEF SessionPaced, Code
  <1>4. \A t \in States \ {s} : SessionPaced(t)'
    BY <1>1 DEF PaceInv, SessionPaced
  <1>5. \A p \in Pollers : PollPaced(p)'
    BY <1>1, <1>2, NotYetPolled DEF PaceInv, PollPaced, Polling
  <1> QED
    BY <1>3, <1>4, <1>5 DEF PaceInv

(* The session starts with the interval GitHub gave (oauth.go:88).         *)
LEMMA RegisterPace ==
  ASSUME TypeOK, PollInv, PaceInv, NEW s \in States, Register(s)
  PROVE  PaceInv'
  <1>1. /\ UNCHANGED <<now, poll, github>> /\ known \subseteq known'
        /\ \A t \in States \ {s} :
             oauthSession'[t] = oauthSession[t] /\ starting'[t] = starting[t]
        /\ starting[s] # NoReply /\ starting[s] \in DeviceReplies
        /\ starting'[s] = NoReply
        /\ oauthSession'[s].interval = Interval(starting[s])
    BY DEF Register, Session, TypeOK
  <1>2. s \notin known
    BY <1>1 DEF PollInv, Registered
  <1>3. /\ github[s].lastPoll = -1 /\ github[s].told = Interval(starting[s])
        /\ github[s].user # "delivered" /\ now \in Nat
    BY <1>1, <1>2, PaceTypes DEF PaceInv, SessionPaced
  <1>4. SessionPaced(s)'
    BY <1>1, <1>3, IntervalType DEF SessionPaced
  <1>5. \A t \in States \ {s} : SessionPaced(t)'
    BY <1>1 DEF PaceInv, SessionPaced
  <1>6. \A p \in Pollers : PollPaced(p)'
    BY <1>1 DEF PaceInv, PollPaced, Polling
  <1> QED
    BY <1>4, <1>5, <1>6 DEF PaceInv

LEMMA UserDecidesPace ==
  ASSUME TypeOK, PollInv, PaceInv, NEW s \in States, UserDecides(s)
  PROVE  PaceInv'
  <1>1. /\ UNCHANGED <<now, starting, oauthSession, known, poll>>
        /\ \A t \in States \ {s} : github'[t] = github[t]
        /\ github'[s].user # "delivered"
        /\ github'[s].lastPoll = github[s].lastPoll
        /\ github'[s].told = github[s].told
    BY DEF UserDecides, Codes, TypeOK
  <1>2. \A t \in States : SessionPaced(t)'
    BY <1>1 DEF PaceInv, SessionPaced
  <1>3. \A p \in Pollers : Polling(p) => poll[p].state \in States
    BY FrameTypes DEF Polling
  <1>4. \A p \in Pollers : PollPaced(p)'
    BY <1>1, <1>3 DEF PaceInv, PollPaced, Polling
  <1> QED
    BY <1>2, <1>4 DEF PaceInv

LEMMA ShutdownPace ==
  ASSUME PaceInv, ShutdownSessions
  PROVE  PaceInv'
  BY DEF ShutdownSessions, PaceInv, SessionPaced, PollPaced, Polling

LEMMA TickPace ==
  ASSUME TypeOK, PaceInv, Tick
  PROVE  PaceInv'
  <1>1. now' = now + 1 /\ UNCHANGED <<starting, oauthSession, known, poll, github>>
    BY DEF Tick
  <1>2. \A s \in States : SessionPaced(s)'
    BY <1>1, PaceTypes DEF PaceInv, SessionPaced
  <1>3. \A p \in Pollers : PollPaced(p)'
    BY <1>1, PaceTypes, FrameTypes DEF PaceInv, PollPaced, Polling
  <1> QED
    BY <1>2, <1>3 DEF PaceInv

-----------------------------------------------------------------------------
LEMMA InitPaceInv == Init => PaceInv
  <1> SUFFICES ASSUME Init PROVE PaceInv
    OBVIOUS
  <1>1. \A s \in States : SessionPaced(s)
    BY DEF Init, SessionPaced, NoCode, Code
  <1>2. \A p \in Pollers : PollPaced(p)
    BY DEF Init, PollPaced, Polling, IdlePoll
  <1> QED
    BY <1>1, <1>2 DEF PaceInv

LEMMA NextPaceInv ==
  TypeOK /\ PollInv /\ PaceInv /\ [Next]_vars => PaceInv'
  <1> SUFFICES ASSUME TypeOK, PollInv, PaceInv, [Next]_vars PROVE PaceInv'
    OBVIOUS
  <1>1. CASE UNCHANGED vars
    BY <1>1 DEF vars, PaceInv, SessionPaced, PollPaced, Polling
  <1> QED
    BY <1>1, StepPaceInv, PollLoginPace, RequestCodePace, RegisterPace,
      UserDecidesPace, ShutdownPace, TickPace DEF Next

LEMMA AlwaysPaced == Spec => [](TypeOK /\ PaceInv)
  <1>1. Init => TypeOK /\ PollInv /\ PaceInv
    BY InitPollInv, InitPaceInv
  <1>2. TypeOK /\ PollInv /\ PaceInv /\ [Next]_vars => TypeOK' /\ PollInv' /\ PaceInv'
    BY NextPollInv, NextPaceInv
  <1> QED
    BY <1>1, <1>2, PTL DEF Spec

(* No request for a device code leaves before the interval GitHub last     *)
(* told the plugin of has passed since the previous one, for every number  *)
(* of goroutines and every sequence of slow_down answers, those that get   *)
(* lost included.                                                          *)
THEOREM PollSpacingHolds == Spec => []PollSpacing
  <1>1. TypeOK /\ PaceInv => PollSpacing
    BY DEF PaceInv, PollPaced, Polling, PollSpacing
  <1> QED
    BY <1>1, AlwaysPaced, PTL

(* Once the plugin has received the token of a code, no poll asks GitHub   *)
(* for it again.                                                           *)
THEOREM TokenAskedOnceHolds == Spec => []TokenAskedOnce
  <1>1. TypeOK /\ PaceInv => TokenAskedOnce
    BY DEF PaceInv, PollPaced, Polling, TokenAskedOnce
  <1> QED
    BY <1>1, AlwaysPaced, PTL
=============================================================================
