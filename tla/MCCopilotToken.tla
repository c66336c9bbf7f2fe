--------------------------- MODULE MCCopilotToken ---------------------------
(* Small instances of CopilotToken. *)
EXTENDS CopilotToken, TLC

CONSTANTS c1, c2, c3, a1, g1, g2

MCConfigs == {[apiURL |-> "https://a", buffer |-> 1, insecure |-> FALSE]}

(* An answer whose endpoint only an insecure configuration accepts, and one *)
(* that leaves everything to the defaults. *)
MCTwoReplies ==
  {[expiresAt |-> 0, exp |-> 1, refreshIn |-> 3, api |-> "http://b"],
   [expiresAt |-> 0, exp |-> 0, refreshIn |-> 0, api |-> ""]}

Symmetry == Permutations(Callers) \cup Permutations(Credentials)
=============================================================================
