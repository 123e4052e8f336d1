-------------------------- MODULE MCWorkDelivery ---------------------------
(* Instances of WorkDelivery for TLC: one item, one or two workers, the     *)
(* payload offloaded.                                                       *)
EXTENDS WorkDelivery

BothTargets == {"direct", "pool"}
AllItems == Items
AllFaults == {"publish", "client", "store", "settle", "result", "wait", "signal",
              "restart"}
GatewayFaults == {"publish", "client", "store"}
=============================================================================
