----------------------------- MODULE MCExecution -----------------------------
(* Small instances of Execution. *)
EXTENDS Execution

CONSTANTS c1, c2, a1, g1

(* No prefix excluded, and claude-* excluded. *)
OpenConfig == [apiURL |-> "https://a", buffer |-> 0, insecure |-> FALSE,
               excluded |-> {}, ttl |-> 1]
MCConfigs == {OpenConfig, [OpenConfig EXCEPT !.excluded = {"claude"}]}
MCOneConfig == {OpenConfig}

(* The token leaves its endpoint to the configuration. *)
MCReplies == {[expiresAt |-> 0, exp |-> 0, refreshIn |-> 5, api |-> ""]}

MCModels == {"claude", "sol"}
MCListings == {{}, {"claude"}, {"claude", "sol"}}

(* Bounds of the run that checks Execution as a whole: two requests are    *)
(* under way at once only if they can meet in the token cache and in the   *)
(* catalog of one auth id, that is model requests for the special model    *)
(* and passthrough requests under a1; any other request has the service to *)
(* itself.  A second token is revoked only while a second request is still *)
(* to come.  What is bounded is when requests begin and tokens are revoked, *)
(* never a step of a request.                                              *)
UnderWay(c) == request[c].pc # "idle"
MayMeet(c) ==
  request[c].auth = a1 /\ request[c].kind # "models" /\ request[c].model # "claude"
MCBounds ==
  /\ \A c, d \in Callers : c # d /\ UnderWay(c) /\ UnderWay(d) => MayMeet(c)
  /\ requests + Cardinality(revoked) <= MaxRequests + 1

MCExecNext == ExecNext /\ MCBounds'
MCExecFairSpec ==
  ExecInit /\ [][MCExecNext]_execVars /\ \A c \in Callers : WF_execVars(Work(c))
=============================================================================
