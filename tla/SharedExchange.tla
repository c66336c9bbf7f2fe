--------------------------- MODULE SharedExchange ---------------------------
(***************************************************************************)
(* What copilotToken (internal/provider/token.go:38-80) promises its       *)
(* callers, with no lock, channel or flight in sight: a request for a key  *)
(* is answered from the cache or attaches to the one exchange running for  *)
(* the key; when that exchange finishes, in one step, everyone attached    *)
(* gets its outcome, a success is cached and a failure is not.             *)
(***************************************************************************)
EXTENDS Naturals

CONSTANTS Callers, Keys,
          Tokens      \* 0 is not one of them: it stands for "no token"

VARIABLES cache,      \* the token held for each key, or 0
          running,    \* the keys whose exchange is under way
          request     \* what each caller is doing

vars == <<cache, running, request>>

Idle == [stage |-> "idle"]
Asking(key) == [stage |-> "asking", key |-> key]
Attached(key) == [stage |-> "attached", key |-> key]
Answered(token) == [stage |-> "answered", token |-> token]

Init ==
  /\ cache = [k \in Keys |-> 0]
  /\ running = {}
  /\ request = [c \in Callers |-> Idle]

Ask(c, key) ==
  /\ request[c] = Idle
  /\ request' = [request EXCEPT ![c] = Asking(key)]
  /\ UNCHANGED <<cache, running>>

Serve(c, key) ==
  /\ request[c] = Asking(key)
  /\ cache[key] # 0
  /\ request' = [request EXCEPT ![c] = Answered(cache[key])]
  /\ UNCHANGED <<cache, running>>

Attach(c, key) ==
  /\ request[c] = Asking(key)
  /\ request' = [request EXCEPT ![c] = Attached(key)]
  /\ running' = running \cup {key}
  /\ UNCHANGED cache

Finish(key, token) ==
  /\ key \in running
  /\ running' = running \ {key}
  /\ request' = [c \in Callers |->
                  IF request[c] = Attached(key) THEN Answered(token)
                  ELSE request[c]]
  /\ cache' = IF token = 0 THEN cache ELSE [cache EXCEPT ![key] = token]

Forget ==
  /\ \E dropped \in SUBSET Keys :
       cache' = [k \in Keys |-> IF k \in dropped THEN 0 ELSE cache[k]]
  /\ UNCHANGED <<running, request>>

Return(c) ==
  /\ request[c].stage = "answered"
  /\ request' = [request EXCEPT ![c] = Idle]
  /\ UNCHANGED <<cache, running>>

Next ==
  \/ \E c \in Callers, key \in Keys :
       Ask(c, key) \/ Serve(c, key) \/ Attach(c, key)
  \/ \E key \in Keys, token \in Tokens \cup {0} : Finish(key, token)
  \/ Forget
  \/ \E c \in Callers : Return(c)

Spec == Init /\ [][Next]_vars
=============================================================================
