------------------------- MODULE MCLegacyMigration --------------------------
(* Small collections from which TLC runs the migration scripts, and the     *)
(* messages that arrive meanwhile.                                          *)
EXTENDS LegacyMigration

MCDoc == 1..5

MCOrder(sale, bill, key, keys, code, status, micro, history, updated) ==
  [place |-> "stored", sale |-> sale, bill |-> bill, key |-> key, keys |-> keys, code |-> code,
   status |-> status, micro |-> micro, history |-> history, updated |-> updated]

Route == [micro |-> "delivery-route", macro |-> "out-of-delivery"]
Way == "SAIU PARA ENTREGA"

MCEntry(at, phrase, code) == [at |-> at, phrase |-> phrase, code |-> code]

Legacy(sale, bill, key, micro, at) ==
  MCOrder(sale, bill, key, NoKeys, NoCode, "invoiced", micro, <<MCEntry(at, micro, NoCode)>>, at)

\* An order without occurrences.
Plain(sale, bill, key, at) == MCOrder(sale, bill, key, NoKeys, NoCode, "delivered", "", <<>>, at)

Modern(sale, bill, key, at) ==
  MCOrder(sale, bill, key, {key}, Route, "invoiced", Way, <<MCEntry(at, Way, Route)>>, at)

Nothing == [Modern("", "", "", 0) EXCEPT !.place = "free"]

\* The index stands: a legacy order beside the document the consumers made
\* of it.
Beside == [indexed |-> TRUE, docs |->
  <<Legacy("s1", "k1", NoKey, "CRIADO", 1), Modern("s1", "k1", "k1", 2),
    Plain("s2", "k3", "k3", 3), Nothing, Nothing>>]

\* Two orders that were never billed share the empty key.
Unbilled == [indexed |-> TRUE, docs |->
  <<Legacy("s1", NoKey, NoKey, "CRIADO", 1), [Modern("s2", NoKey, Blank, 2) EXCEPT !.keys = {"k2"}],
    Legacy("s3", "k1", "k1", "COLETA CHEGANDO", 3), Nothing, Nothing>>]

\* The index could not be built: copies of one order, more than a page.
Copies == [indexed |-> FALSE, docs |->
  <<Legacy("s1", "k1", NoKey, "CRIADO", 1), Legacy("s1", "k1", NoKey, "", 2),
    Legacy("s2", "k3", NoKey, "DEVOLVIDO", 3), Nothing, Nothing>>]

\* The same, with copies the consumers still update.
Twins == [indexed |-> FALSE, docs |->
  <<Modern("s1", "k1", "k1", 1), Legacy("s1", "k1", NoKey, "CRIADO", 2),
    Modern("s1", "k1", "k1", 3), Nothing, Nothing>>]

\* Two orders of one sale that would both take the key of its first package.
Clash == [indexed |-> TRUE, docs |->
  <<Legacy("s1", "k1", NoKey, "CRIADO", 1), Modern("s1", "k1", "k1", 2),
    Legacy("s1", "k1", "k2", "DESPACHADO", 3), Nothing, Nothing>>]

\* An order without occurrences in a sale that is merged; the document with
\* the second package is listed under the first key.
Bare == [indexed |-> TRUE, docs |->
  <<Legacy("s1", "k1", NoKey, "CRIADO", 1), Modern("s1", "k1", "k1", 2),
    [Modern("s1", "k1", "k2", 3) EXCEPT !.keys = {"k1", "k2"}], Plain("s1", "k1", "k3", 4), Nothing>>]

MCScenarios == {Beside, Unbilled, Copies, Twins, Clash, Bare}

MCMessage(origin, sale, bill, key, code, status, phrase, at) ==
  [origin |-> origin, sale |-> sale, bill |-> bill, key |-> key, keys |-> {key},
   code |-> code, status |-> status, phrase |-> phrase, at |-> at]

Invoiced == [micro |-> "invoiced", macro |-> "order-created"]
Success == [micro |-> "delivered-success", macro |-> "delivered"]

MCMessages == {
  MCMessage("INTELIPOST", "s1", NoKey, "k1", Route, "", Way, 7),
  MCMessage("INTELIPOST", "s1", NoKey, "k2", Route, "", Way, 8),
  MCMessage("DELIVERY_HUB", NoSale, NoKey, "k1", Success, "delivered", "delivered-success", 9),
  MCMessage("IHUB", "s1", "k1", "k1", Invoiced, "invoiced", "", 5)}
==============================================================================
