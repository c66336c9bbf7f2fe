----------------------------- MODULE DeviceLogin -----------------------------
(***************************************************************************)
(* The GitHub device flow of internal/provider/oauth.go: StartLogin        *)
(* registers a session under a fresh state, PollLogin polls GitHub for it, *)
(* finishPoll releases it.  The host may call PollLogin for one state from *)
(* several goroutines; each critical section of oauthMu is one action.     *)
(* Time is counted in ticks of five seconds, the least poll interval.      *)
(***************************************************************************)
EXTENDS Integers, FiniteSets

CONSTANTS States,          \* the random identifiers StartLogin draws
          Pollers,         \* goroutines calling PollLogin
          DeviceReplies,   \* GitHub's device codes: [expiresIn, interval, badURL]
          OAuthTimeout,    \* oauth-timeout, in ticks
          SlowDowns,       \* the intervals a slow_down answer may ask for; 0: none
          MaxTime,         \* bound on the clock
          MaxInterval      \* bound on the interval GitHub asks for

ASSUME TimeAssumption == OAuthTimeout \in Nat \ {0} /\ SlowDowns \subseteq Nat
ASSUME DeviceAssumption ==
  \A d \in DeviceReplies :
    d.expiresIn \in Nat /\ d.interval \in Nat /\ d.badURL \in BOOLEAN

VARIABLES now,             \* s.now()
          starting,        \* StartLogin between GitHub's answer and oauthMu
          oauthSession,    \* s.oauthSession; NoSession where the map has no key
          known,           \* the states StartLogin returned to the host
          poll,            \* the stack frame of each PollLogin
          github           \* GitHub's side of each device code

vars == <<now, starting, oauthSession, known, poll, github>>

NoReply   == [expiresIn |-> 0]
NoSession == [expiresAt |-> 0]
IdlePoll  == [pc |-> "idle"]

(* What GitHub keeps of a device code: what the user did, when it was last *)
(* polled (-1: never) and the interval it asks for; told is the interval   *)
(* the plugin was last told of, which is less once a slow_down got lost.   *)
Code(user, interval) ==
  [user |-> user, lastPoll |-> -1, interval |-> interval, told |-> interval]
NoCode == Code("none", 0)

Session(expiresAt, interval, nextPoll, polling) ==
  [expiresAt |-> expiresAt, interval |-> interval, nextPoll |-> nextPoll,
   polling |-> polling]

AtLeast(low, n) == IF n < low THEN low ELSE n
AtMost(high, n) == IF n > high THEN high ELSE n

-----------------------------------------------------------------------------
(* Variants of the definitions below, each with a seeded fault. *)

PollDueIgnoringFlag(session, at) == at >= session.nextPoll
NeverExpired(session, at) == FALSE
SlowDownForgotten(interval, answer, asked) == interval
FinishPollKeepingFlag(s, interval, terminal) ==
  oauthSession' =
    IF oauthSession[s] = NoSession \/ terminal
    THEN [oauthSession EXCEPT ![s] = NoSession]
    ELSE [oauthSession EXCEPT ![s] =
           Session(@.expiresAt, interval, now + interval, TRUE)]
UserErrorNotTerminal == FALSE
IntervalAsAsked(device) == device.interval

-----------------------------------------------------------------------------
Init ==
  /\ now = 0
  /\ starting = [s \in States |-> NoReply]
  /\ oauthSession = [s \in States |-> NoSession]
  /\ known = {}
  /\ poll = [p \in Pollers |-> IdlePoll]
  /\ github = [s \in States |-> NoCode]

(* expires_in: absent or too large, the configured timeout.                *)
Lifetime(device) ==
  AtMost(OAuthTimeout,
         IF device.expiresIn = 0 THEN OAuthTimeout ELSE device.expiresIn)

Interval(device) == AtLeast(1, device.interval)

(* The device code request of StartLogin, and GitHub's complete answer; a  *)
(* request that fails returns before any state is written.                 *)
RequestCode(s, device) ==
  /\ github[s] = NoCode
  /\ starting' = [starting EXCEPT ![s] = device]
  /\ github' = [github EXCEPT ![s] =
       Code("waiting", AtLeast(1, device.interval))]
  /\ UNCHANGED <<now, oauthSession, known, poll>>

(* The session is stored before the verification URL is parsed: when that  *)
(* fails the host never learns the state.  The second conjunct bounds the  *)
(* model: the session can live out its time before MaxTime.                *)
Register(s) ==
  /\ starting[s] # NoReply
  /\ now + OAuthTimeout <= MaxTime
  /\ oauthSession' = [oauthSession EXCEPT ![s] =
       Session(now + Lifetime(starting[s]), Interval(starting[s]), now, FALSE)]
  /\ starting' = [starting EXCEPT ![s] = NoReply]
  /\ known' = IF starting[s].badURL THEN known ELSE known \cup {s}
  /\ UNCHANGED <<now, poll, github>>

-----------------------------------------------------------------------------
(* PollLogin.  The clock is read before oauthMu is taken.                  *)

PollLogin(p, s) ==
  /\ poll[p].pc = "idle"
  /\ s \in known
  /\ poll' = [poll EXCEPT ![p] =
       [pc |-> "lookup", state |-> s, now |-> now, interval |-> 0,
        answer |-> "none", asked |-> 0]]
  /\ UNCHANGED <<now, starting, oauthSession, known, github>>

(* The frame of p moves on; answer is GitHub's, later the status returned. *)
Goto(p, pc, interval, answer, asked) ==
  poll' = [poll EXCEPT ![p] =
    [pc |-> pc, state |-> poll[p].state, now |-> poll[p].now,
     interval |-> interval, answer |-> answer, asked |-> asked]]
Returns(p, status) == Goto(p, "returned", 0, status, 0)

Expired(session, at) == at >= session.expiresAt
PollDue(session, at) == ~session.polling /\ at >= session.nextPoll

LookupUnknown(p) ==
  /\ poll[p].pc = "lookup"
  /\ oauthSession[poll[p].state] = NoSession
  /\ Returns(p, "error")
  /\ UNCHANGED <<now, starting, oauthSession, known, github>>

LookupExpired(p) ==
  LET s == poll[p].state
  IN  /\ poll[p].pc = "lookup"
      /\ oauthSession[s] # NoSession
      /\ Expired(oauthSession[s], poll[p].now)
      /\ oauthSession' = [oauthSession EXCEPT ![s] = NoSession]
      /\ Returns(p, "error")
      /\ UNCHANGED <<now, starting, known, github>>

LookupEarly(p) ==
  LET session == oauthSession[poll[p].state]
  IN  /\ poll[p].pc = "lookup"
      /\ session # NoSession
      /\ ~Expired(session, poll[p].now)
      /\ ~PollDue(session, poll[p].now)
      /\ Returns(p, "pending")
      /\ UNCHANGED <<now, starting, oauthSession, known, github>>

LookupDue(p) ==
  LET s == poll[p].state
  IN  /\ poll[p].pc = "lookup"
      /\ oauthSession[s] # NoSession
      /\ ~Expired(oauthSession[s], poll[p].now)
      /\ PollDue(oauthSession[s], poll[p].now)
      /\ oauthSession' = [oauthSession EXCEPT ![s] =
           Session(oauthSession[s].expiresAt, oauthSession[s].interval,
                   oauthSession[s].nextPoll, TRUE)]
      /\ Goto(p, "request", oauthSession[s].interval, "none", 0)
      /\ UNCHANGED <<now, starting, known, github>>

(* The request leaves; GitHub takes note of the time.                      *)
SendPoll(p) ==
  /\ poll[p].pc = "request"
  /\ Goto(p, "sent", poll[p].interval, "none", 0)
  /\ github' = [github EXCEPT ![poll[p].state].lastPoll = now]
  /\ UNCHANGED <<now, starting, oauthSession, known>>

Answered(p, answer, asked) ==
  /\ poll[p].pc = "sent"
  /\ Goto(p, "answered", poll[p].interval, answer, asked)

(* GitHub hands out the token of an approved code once.  The answer may    *)
(* get lost on the way (the host call fails, the body does not decode).    *)
AnswerToken(p) ==
  /\ poll[p].pc = "sent"
  /\ github[poll[p].state].user = "approved"
  /\ \E arrives \in BOOLEAN :
       /\ Answered(p, IF arrives THEN "token" ELSE "lost", 0)
       /\ github' = [github EXCEPT ![poll[p].state].user =
            IF arrives THEN "delivered" ELSE "lost"]
  /\ UNCHANGED <<now, starting, oauthSession, known>>

(* Any other answer: pending while the user has not decided; a terminal    *)
(* code once it has been denied, used up or expired at GitHub; a 5xx, or   *)
(* no readable answer, at any time.                                        *)
AnswerOther(p) ==
  /\ poll[p].pc = "sent"
  /\ \E answer \in {"authorization_pending", "terminal", "server_error", "lost"} :
       /\ answer = "authorization_pending" => github[poll[p].state].user = "waiting"
       /\ Answered(p, answer, 0)
  /\ UNCHANGED <<now, starting, oauthSession, known, github>>

(* Five seconds more, or what GitHub asks for when that is longer          *)
(* (oauth.go:307-311).                                                     *)
Longer(interval, asked) == AtLeast(interval + 1, asked)

(* GitHub lengthens the interval it enforces, and says so; the answer may  *)
(* get lost, and the plugin keeps its interval (oauth.go:222-230).         *)
AnswerSlowDown(p, asked) ==
  LET s == poll[p].state
      next == Longer(github[s].interval, asked)
  IN  /\ poll[p].pc = "sent"
      /\ next <= MaxInterval
      /\ \/ /\ Answered(p, "slow_down", asked)
            /\ github' = [github EXCEPT ![s].interval = next,
                                        ![s].told = Longer(@, asked)]
         \/ /\ Answered(p, "lost", 0)
            /\ github' = [github EXCEPT ![s].interval = next]
      /\ UNCHANGED <<now, starting, oauthSession, known>>

(* finishPoll: nothing when the session is gone.                           *)
FinishPoll(s, interval, terminal) ==
  oauthSession' =
    IF oauthSession[s] = NoSession THEN oauthSession
    ELSE [oauthSession EXCEPT ![s] =
           IF terminal THEN NoSession
           ELSE Session(@.expiresAt, interval, now + interval, FALSE)]

(* classifyDeviceToken, for every answer but a token; a lost answer never  *)
(* gets that far.                                                          *)
Status(answer) ==
  IF answer \in {"authorization_pending", "slow_down"} THEN "pending"
  ELSE IF answer = "lost" THEN "failure" ELSE "error"

(* The interval the session is left with: longer after a slow_down.        *)
NextInterval(interval, answer, asked) ==
  IF answer # "slow_down" THEN interval ELSE Longer(interval, asked)

HandleAnswer(p) ==
  /\ poll[p].pc = "answered"
  /\ poll[p].answer # "token"
  /\ FinishPoll(poll[p].state,
                NextInterval(poll[p].interval, poll[p].answer, poll[p].asked),
                poll[p].answer = "terminal")
  /\ Returns(p, Status(poll[p].answer))
  /\ UNCHANGED <<now, starting, known, github>>

(* A token: ask GitHub who the user is.                                    *)
FetchUser(p) ==
  /\ poll[p].pc = "answered"
  /\ poll[p].answer = "token"
  /\ Goto(p, "user", poll[p].interval, "token", 0)
  /\ UNCHANGED <<now, starting, oauthSession, known, github>>

UserErrorTerminal == TRUE

(* The login succeeds, or fails for good: the device code is used up.      *)
FinishLogin(p) ==
  /\ poll[p].pc = "user"
  /\ \/ /\ FinishPoll(poll[p].state, poll[p].interval, TRUE)
        /\ Returns(p, "success")
     \/ /\ FinishPoll(poll[p].state, poll[p].interval, UserErrorTerminal)
        /\ Returns(p, "failure")
  /\ UNCHANGED <<now, starting, known, github>>

Return(p) ==
  /\ poll[p].pc = "returned"
  /\ poll' = [poll EXCEPT ![p] = IdlePoll]
  /\ UNCHANGED <<now, starting, oauthSession, known, github>>

-----------------------------------------------------------------------------
(* Service.Shutdown clears the sessions; the polls in flight go on.        *)
ShutdownSessions ==
  /\ oauthSession' = [s \in States |-> NoSession]
  /\ UNCHANGED <<now, starting, known, poll, github>>

UserDecides(s) ==
  /\ github[s].user = "waiting"
  /\ \E verdict \in {"approved", "denied"} :
       github' = [github EXCEPT ![s].user = verdict]
  /\ UNCHANGED <<now, starting, oauthSession, known, poll>>

Tick ==
  /\ now < MaxTime
  /\ now' = now + 1
  /\ UNCHANGED <<starting, oauthSession, known, poll, github>>

Lookup(p) == LookupUnknown(p) \/ LookupExpired(p) \/ LookupEarly(p) \/ LookupDue(p)

Step(p) ==
  \/ Lookup(p)
  \/ SendPoll(p)
  \/ AnswerToken(p) \/ AnswerOther(p)
  \/ \E asked \in SlowDowns : AnswerSlowDown(p, asked)
  \/ HandleAnswer(p)
  \/ FetchUser(p) \/ FinishLogin(p)
  \/ Return(p)

Next ==
  \/ \E p \in Pollers : Step(p)
  \/ \E p \in Pollers, s \in States : PollLogin(p, s)
  \/ \E s \in States, device \in DeviceReplies : RequestCode(s, device)
  \/ \E s \in States : Register(s) \/ UserDecides(s)
  \/ ShutdownSessions
  \/ Tick

Spec == Init /\ [][Next]_vars

(* Goroutines run, host calls end and the clock goes on.                   *)
Fairness ==
  /\ \A p \in Pollers : WF_vars(Step(p))
  /\ WF_vars(Tick)

(* The host polls a state again and again until the login is settled       *)
(* (README.md:229): every state keeps being asked about.                   *)
HostKeepsPolling ==
  \A s \in States : SF_vars(\E p \in Pollers : PollLogin(p, s))

FairSpec == Spec /\ Fairness /\ HostKeepsPolling

-----------------------------------------------------------------------------
(* Properties. *)

Sessions == [expiresAt : Nat \ {0}, interval : Nat \ {0}, nextPoll : Nat,
             polling : BOOLEAN]
Codes == [user : {"none", "waiting", "approved", "denied", "delivered", "lost"},
          lastPoll : Nat \cup {-1}, interval : Nat, told : Nat]
Frames == [pc : {"lookup", "request", "sent", "answered", "user", "returned"},
           state : States, now : Nat, interval : Nat,
           answer : {"none", "token", "lost", "authorization_pending", "slow_down",
                     "terminal", "server_error", "pending", "error", "failure",
                     "success"},
           asked : Nat]

(* The shape of the sessions, of GitHub's codes and of the frames.         *)
TypeOK ==
  /\ now \in Nat
  /\ starting \in [States -> DeviceReplies \cup {NoReply}]
  /\ oauthSession \in [States -> Sessions \cup {NoSession}]
  /\ known \subseteq States
  /\ poll \in [Pollers -> Frames \cup {IdlePoll}]
  /\ github \in [States -> Codes]

Polling(p) == poll[p].pc \in {"request", "sent", "answered", "user"}

(* One poll at a time (oauth.go:195-205): however many goroutines call     *)
(* PollLogin for a state, one of them at most talks to GitHub for it.      *)
OnePollPerState ==
  \A p, q \in Pollers :
    Polling(p) /\ Polling(q) /\ poll[p].state = poll[q].state => p = q

(* The flag is never left behind (oauth.go:200-274): a session marked as   *)
(* being polled has a goroutine that will unmark or remove it, on every    *)
(* error path.                                                             *)
PollingFlagOwned ==
  \A s \in States : oauthSession[s] # NoSession /\ oauthSession[s].polling =>
    \E p \in Pollers : Polling(p) /\ poll[p].state = s

(* Spacing (README.md:232, oauth.go:196, 288-290, 307-311): a request for  *)
(* a device code leaves only when the interval GitHub last told the plugin *)
(* of has passed since the previous one, whichever goroutines send the two *)
(* and however old the clock reading of the second is.  That interval is   *)
(* the one GitHub enforces unless a slow_down answer got lost: the plugin  *)
(* then keeps its own (oauth.go:222-230) and may come too early for        *)
(* GitHub.                                                                 *)
PollSpacing ==
  \A p \in Pollers : poll[p].pc = "request" =>
    LET code == github[poll[p].state]
    IN  code.lastPoll = -1 \/ now >= code.lastPoll + code.told

(* A code whose token reached the plugin is never polled again             *)
(* (oauth.go:241-269), neither while the user is looked up nor when that   *)
(* fails.                                                                  *)
TokenAskedOnce ==
  \A p \in Pollers :
    poll[p].pc = "request" => github[poll[p].state].user # "delivered"

(* A registered session the host knows about does not stay for ever: it    *)
(* is settled or expires, as long as the host keeps polling                *)
(* (oauth.go:190-194).                                                     *)
KnownSessionEnds ==
  \A s \in States : s \in known /\ oauthSession[s] # NoSession
                       ~> oauthSession[s] = NoSession
=============================================================================
