-------------------------- MODULE MetricsDelivery ---------------------------
(***************************************************************************)
(* What a project's metrics aggregator promises to whoever reports a       *)
(* metric: once it has taken the value, the value is held until it reaches *)
(* the upstream or is dropped on purpose. It never gets lost on the way.   *)
(***************************************************************************)
CONSTANT Reports

VARIABLE status   \* report -> "new", "held", "delivered" or "dropped"

DeliveryInit == status = [r \in Reports |-> "new"]

(* The reports of `taken' are aggregated, those of `done' reach the        *)
(* upstream or are dropped.                                                *)
Accept(taken) ==
  /\ \A r \in taken : status[r] = "new"
  /\ status' = [r \in Reports |-> IF r \in taken THEN "held" ELSE status[r]]

Deliver(done) ==
  /\ \A r \in done : status[r] = "held"
  /\ status' = [r \in Reports |-> IF r \in done THEN "delivered" ELSE status[r]]

Drop(done) ==
  /\ \A r \in done : status[r] = "held"
  /\ status' = [r \in Reports |-> IF r \in done THEN "dropped" ELSE status[r]]

DeliveryNext == \E rs \in SUBSET Reports : Accept(rs) \/ Deliver(rs) \/ Drop(rs)

DeliverySafety == DeliveryInit /\ [][DeliveryNext]_status

=============================================================================
