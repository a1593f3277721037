---------------------------- MODULE MCMasterData -----------------------------
(* Instances of MasterData for TLC: one account with its locations, or two  *)
(* carriers.                                                                *)
EXTENDS MasterData

Account(topic, no) == [topic |-> topic, id |-> "acme", tenant |-> "acme", no |-> no, hub |-> TRUE]
Location(topic, id) == [topic |-> topic, id |-> id, tenant |-> "acme", no |-> 0]
Settings(id, type) == [topic |-> "http.settings", id |-> id, tenant |-> id, no |-> 0, type |-> type]

Carrier(topic, id, no, name, document) ==
  [topic |-> topic, id |-> id, tenant |-> id, no |-> no, name |-> name, document |-> document]

MCScenarios ==
  { {Account("account.created", 0), Account("account.changed", 1),
     Location("location.created", "l1"), Location("location.changed", "l1")},
    {Account("account.created", 0), Settings("acme", "account"),
     Location("location.created", "l1"), Location("location.created", "l2")},
    {Account("account.created", 0), Account("account.changed", 1),
     Account("account.changed", 2), Settings("l1", "location"),
     Location("location.created", "l1")},
    {Carrier("carrier.created", "c1", 0, "n1", "d1"), Carrier("carrier.changed", "c1", 1, "n1", "d9"),
     Carrier("carrier.changed", "c1", 2, "n3", "d1"), Carrier("http.credentials", "c1", 0, "", ""),
     Carrier("carrier.created", "c2", 0, "n2", "d2")},
    {Carrier("carrier.created", "c1", 0, "n1", "d1"), Carrier("carrier.changed", "c1", 1, "n2", "d1"),
     Carrier("carrier.created", "c2", 0, "n2", "d2"), Carrier("carrier.changed", "c2", 1, "n1", "d2")} }
==============================================================================
