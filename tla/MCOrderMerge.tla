---------------------------- MODULE MCOrderMerge -----------------------------
(* Instances of OrderMerge for TLC: one sale shipped under two invoices, and *)
(* the messages whose order matters.                                        *)
EXTENDS OrderMerge

CONSTANTS k1, k2, s1, h1, h2, pod1

MCKey == {k1, k2}
MCSale == {s1}
MCPod == {pod1}
MCOneHandler == {h1}
MCTwoHandlers == {h1, h2}
MCMicro == {"created", "waiting-for-collection", "dispatched", "invoiced",
            "carrier-possession", "address-error", "delivered-success"}
MCMicroFinisher == {"delivered-success"}
MCStatusId == {"none", "67", "69", "12", "14", "15"}
MCInstant == 1 .. 2

Code(ma, mi) == [macro |-> ma, micro |-> mi]

Ihub(k, keys, mi) ==
  [origin |-> "IHUB", key |-> k, sale |-> s1, store |-> TRUE,
   code |-> Code(IF mi = "invoiced" THEN "order-created" ELSE "order-dispatched", mi),
   id |-> "none", at |-> 1, keys |-> keys, pods |-> {}]

\* The answer of the integration knows the store of the account ("extra").
Intelipost(k, ma, mi, id, at, pods) ==
  [origin |-> "INTELIPOST", key |-> k, sale |-> s1, store |-> mi = "created",
   code |-> Code(ma, mi), id |-> id, at |-> at, keys |-> {k}, pods |-> pods]

Track(origin, k, ma, mi, id, at) ==
  [origin |-> origin, key |-> k, sale |-> NoSale, store |-> FALSE,
   code |-> Code(ma, mi), id |-> id, at |-> at, keys |-> {k}, pods |-> {}]

\* One invoice: the whole life of an order, its events in any order and again.
LifeOfOrder ==
  { Ihub(k1, {k1}, "invoiced"),
    Ihub(k1, {k1}, "dispatched"),
    Intelipost(k1, "order-created", "created", "67", 1, {}),
    Intelipost(k1, "order-dispatched", "dispatched", "12", 1, {}),
    Intelipost(k1, "in-transit", "carrier-possession", "15", 2, {pod1}),
    Track("FREIGHT_CONNECTOR", k1, "delivered", "delivered-success", "14", 2),
    Track("DELIVERY_HUB", k1, "delivered", "address-error", "15", 2) }

\* Two invoices of a sale, known by either side first.
TwoInvoices ==
  { Ihub(k1, {k1, k2}, "invoiced"),
    Ihub(k2, {k1, k2}, "invoiced"),
    Intelipost(k1, "in-transit", "carrier-possession", "15", 2, {}),
    Intelipost(k2, "order-created", "created", "67", 1, {}),
    Track("FREIGHT_CONNECTOR", k2, "delivered", "delivered-success", "14", 2) }

\* With a second event that waits for collection, the one that makes the
\* service dispatch the order may itself be an early one.
Serial == LifeOfOrder \union TwoInvoices \union
  { Intelipost(k1, "order-dispatched", "dispatched", "12", 2, {}) }

\* The few messages for which two handlers at once are interesting.
Overlapping == TwoInvoices \union
  { Track("FREIGHT_CONNECTOR", k1, "order-dispatched", "dispatched", "69", 1) }
==============================================================================
