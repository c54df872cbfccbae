-------------------------- MODULE MCNotifications --------------------------
(* Notifications on a small instance: device recycling matches the first   *)
(* slot of a day only, so that a tick also finds a schedule not due.       *)
EXTENDS Notifications, TLC

CONSTANTS s1, s2

SmallCron == [t \in Scan |-> IF t = DeviceRecycle THEN {0} ELSE {0, 1}]

(* One service ends today and one tomorrow, of one person or of two; the   *)
(* device belongs to the one that ends first.                              *)
SmallLedgers ==
    {[services |-> (s1 :> [expiry |-> 0, owner |-> 1, retired |-> FALSE]
                 @@ s2 :> [expiry |-> 1, owner |-> p, retired |-> FALSE]),
      devices |-> [d \in Device |->
                     [service |-> s1, phone |-> 2, recovered |-> FALSE]]] :
        p \in {1, 2}}
=============================================================================
