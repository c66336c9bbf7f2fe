---------------------------- MODULE MCDeviceLogin ----------------------------
(* Small instances of DeviceLogin. *)
EXTENDS DeviceLogin, TLC

CONSTANTS s1, p1, p2

(* No expiry and no interval given; an interval above the least one and an *)
(* expiry above the configured timeout; a verification URL that does not   *)
(* parse.                                                                  *)
MCDevices ==
  {[expiresIn |-> 0, interval |-> 0, badURL |-> FALSE],
   [expiresIn |-> 9, interval |-> 2, badURL |-> FALSE],
   [expiresIn |-> 1, interval |-> 1, badURL |-> TRUE]}

MCOneDevice == {[expiresIn |-> 2, interval |-> 1, badURL |-> FALSE]}

Symmetry == Permutations(Pollers)
=============================================================================
