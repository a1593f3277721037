----------------------------- MODULE OrderStatus -----------------------------
(* The status vocabulary of an order and the pure functions that            *)
(* order.service.ts computes from it: how far along a delivery a status is, *)
(* which statuses close an order, and how one event is sorted into a        *)
(* history.  No state; the modules about orders extend this one.            *)
EXTENDS Naturals, Sequences

CONSTANTS
  Micro,             \* detailed statuses ("carrier-possession", ...)
  MicroFinisher,     \* LIST_MICRO_STATUS_FINISHER of the environment
  StatusId,          \* partnerStatusId values
  Instant,           \* orderUpdatedAt values
  Key                \* invoice keys

ASSUME MicroAssumption ==
  /\ {"created", "waiting-for-collection", "dispatched", "invoiced"} \subseteq Micro
  /\ MicroFinisher \subseteq Micro

\* "" is what mapStatusCode leaves when it does not know an id.
Macro == {"", "order-created", "order-dispatched", "in-transit",
          "out-of-delivery", "check-delivery-failed", "delivered",
          "delivery-failed", "canceled"}

StatusCode == [macro : Macro, micro : Micro]

getStatusScale(code) ==
  CASE code.macro = "order-created" /\ code.micro = "created" -> 0
    [] code.macro = "order-dispatched"      -> 2
    [] code.macro = "in-transit"            -> 3
    [] code.macro = "out-of-delivery"       -> 4
    [] code.macro = "check-delivery-failed" -> 5
    [] code.macro \in {"delivered", "delivery-failed", "canceled"} -> 6
    [] OTHER -> 1

\* Mutant: any later message updates the status.
shouldUpdateSourceOfOrder_always(new, old) == TRUE

shouldUpdateSourceOfOrder(new, old) == getStatusScale(new) >= getStatusScale(old)

checkIfOrderAlreadyFinished(code) == code.micro \in MicroFinisher

(* The entry of a history is identified by (id, at).  "about" is the invoice *)
(* the event was sent for; the code does not keep it, the model does so that *)
(* a property can say on whose document an event ended up.                   *)
Entry == [id : StatusId, at : Instant, code : StatusCode, about : Key]

SameEvent(e, f) == e.id = f.id /\ e.at = f.at

Scale(e) == getStatusScale(e.code)

Ordered(history) ==
  \A i, j \in DOMAIN history : i < j => Scale(history[i]) <= Scale(history[j])

AllDifferent(history) ==
  \A i, j \in DOMAIN history : i # j => ~SameEvent(history[i], history[j])

Knows(history, e) == \E i \in DOMAIN history : SameEvent(history[i], e)

(* [...history, e].sort(sortHistory).  Array.sort is stable, so for a       *)
(* history that is already sorted, as every stored one is, the new entry    *)
(* goes after the last entry that is not further along than it.             *)
Sorted(history, e) ==
  [i \in 1 .. Len(history) + 1 |->
     IF i <= Len(history) /\ Scale(history[i]) <= Scale(e)
       THEN history[i]
       ELSE IF i = 1 \/ Scale(history[i - 1]) <= Scale(e) THEN e
            ELSE history[i - 1]]
==============================================================================
