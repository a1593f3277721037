---------------------------- MODULE LegacyStatus -----------------------------
(* The tables by which scripts/handle-status-code.service.ts turns the      *)
(* partner's wording of an occurrence into a status code.  Each table is    *)
(* represented by one wording of its own and by all those it shares with    *)
(* another table; accents are left out.                                     *)
EXTENDS Naturals, Sequences

Table(micro, macro, source) == [micro |-> micro, macro |-> macro, source |-> source]

addressError == Table("address-error", "delivery-failed", {"ENDERECO INCORRETO"})

addressNotFound == Table("address-not-found", "delivery-failed", {"ENDERECO INVALIDO"})

awayCustomer == Table("away-customer", "delivery-failed",
  {"DESTINATARIO AUSENTE", "DESTINATARIO FALECEU/FALIU"})

carrierPossession == Table("carrier-possession", "in-transit",
  {"VOLUME CONFERIDO", "CARGA REDESPACHADA", "SOLICITACAO ENTREGA POSTERIOR",
   "PEDIDO EM SEPARACAO NO CD", "SAIDA FILIAL"})

created == Table("created", "order-created", {"CRIADO", "PEDIDO EM SEPARACAO NO CD"})

customerRefused == Table("customer-refused", "delivery-failed", {"RECUSADO POR TERCEIROS"})

damage == Table("damage", "delivery-failed", {"AVARIA CONFIRMADA"})

deliveredSuccess == Table("delivered-success", "delivered", {"ENTREGUE"})

deliveryRoute == Table("delivery-route", "out-of-delivery", {"SAIU PARA ENTREGA"})

dispatched == Table("dispatched", "order-dispatched", {"DESPACHADO", "COLETA CHEGANDO"})

firstDeliveryFailed == Table("first-delivery-failed", "delivery-failed",
  {"NAO VISITADO", "DESTINATARIO FALECEU/FALIU", "SOLICITACAO ENTREGA POSTERIOR",
   "DESTINATARIO MUDOU-SE", "BLOQUEADO PELO REMETENTE"})

hubTransfer == Table("hub-transfer", "in-transit",
  {"EM TRANSFERENCIA", "COLETA CHEGANDO", "CARGA REDESPACHADA", "SAIDA FILIAL"})

operationProblem == Table("operational-problem", "delivery-failed", {"PROBLEMA OPERACIONAL"})

shippmentLoss == Table("shippment-loss", "delivery-failed", {"SINISTRO CONFIRMADO"})

shippmentReturned == Table("shippment-returned", "delivery-failed", {"DEVOLVIDO"})

shippmentReturning == Table("shippment-returning", "in-transit",
  {"Entrega suspensa/bloqueada", "BLOQUEADO PELO REMETENTE"})

shippmentStolen == Table("shippment-stolen", "delivery-failed", {"ROUBO"})

taxStop == Table("tax-stop", "delivery-failed", {"ANALISE FISCAL"})

unknownCustomer == Table("unknown-customer", "delivery-failed",
  {"DESTINATARIO DESCONHECIDO", "DESTINATARIO MUDOU-SE"})

waitingPostOfficePickup == Table("waiting-post-office-pickup", "delivery-failed",
  {"PRONTO PARA RETIRADA"})

zipCodeNotServiced == Table("zip-code-not-serviced", "delivery-failed", {"AREA NAO ATENDIDA"})

\* The order in which they are searched.
Tables ==
  <<addressError, zipCodeNotServiced, waitingPostOfficePickup, unknownCustomer,
    taxStop, shippmentStolen, shippmentReturning, shippmentReturned,
    shippmentLoss, operationProblem, hubTransfer, firstDeliveryFailed,
    dispatched, deliveryRoute, deliveredSuccess, damage, customerRefused,
    created, carrierPossession, awayCustomer, addressNotFound>>

Listing(status) == {i \in DOMAIN Tables : status \in Tables[i].source}

Unknown == [micro |-> "", macro |-> ""]

\* The first table that lists the wording; an order's own status counts only
\* when there is no wording at all.
getStatusCode(status, stat) ==
  IF status = "" /\ stat = "delivered"
  THEN [micro |-> "delivered-success", macro |-> "delivered"]
  ELSE IF status = "" /\ stat = "dispatched"
  THEN [micro |-> "dispatched", macro |-> "order-dispatched"]
  ELSE IF status = "" /\ stat = "invoiced"
  THEN [micro |-> "invoiced", macro |-> "order-created"]
  ELSE IF Listing(status) = {} THEN Unknown
  ELSE LET t == Tables[CHOOSE i \in Listing(status) : \A j \in Listing(status) : i <= j]
       IN [micro |-> t.micro, macro |-> t.macro]
==============================================================================
