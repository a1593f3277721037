----------------------------- MODULE MasterData ------------------------------
(* The copies of accounts, locations and carriers that this service keeps,  *)
(* fed by Kafka (account/consumer, carrier/consumer) and edited over HTTP.  *)
(* Every handler reads before it writes, topics are not ordered among each  *)
(* other, and the collection of accounts has no unique index on id.         *)
EXTENDS Naturals, Sequences, FiniteSets, SequencesExt

CONSTANTS
  Scenarios,       \* sets of messages that may be on their way
  MaxMishaps,      \* bound: stops of the process and failed database calls
  NoCarrier        \* no document for a carrier

(* A message: the topic, the id it is about, the tenant of its headers, its *)
(* number among those of the id, and what the service keeps of its data: an *)
(* account's useDeliveryHub, a carrier's name and document.                 *)
AccountTopic == {"account.created", "account.changed",
                 "location.created", "location.changed", "http.settings"}
CarrierTopic == {"carrier.created", "carrier.changed", "http.credentials"}
CreatedTopic == {"account.created", "location.created"}
ClaimTopic == {"carrier.created", "carrier.changed"}

ASSUME MessageAssumption ==
  \A messages \in Scenarios : \A m \in messages :
    /\ m.topic \in AccountTopic \union CarrierTopic
    /\ m.no \in Nat /\ m.tenant # ""
    /\ m.topic = "account.created" => m.hub \in BOOLEAN
    /\ m.topic \in ClaimTopic => \A b \in BOOLEAN :
         NoCarrier # [name |-> m.name, document |-> m.document, credentials |-> b]

(* Ids come from the service that owns the account or location: it creates  *)
(* each once, and numbers the changes of a carrier.  (A message that is     *)
(* delivered again is one message.)                                         *)
ASSUME IdAssumption ==
  \A messages \in Scenarios : \A m, n \in messages :
    /\ {m.topic, n.topic} \subseteq CreatedTopic /\ m.id = n.id => m = n
    /\ m.topic \in {"account.created", "account.changed"}
         /\ n.topic \in {"location.created", "location.changed"} => m.id # n.id
    /\ {m.topic, n.topic} = {"carrier.changed"} /\ m.id = n.id /\ m.no = n.no => m = n

VARIABLES
  directory,       \* the accounts collection, in the order of insertion
  carriers,        \* the carriers collection, by id
  task,            \* the handler of each message
  together,        \* history: the messages that were being handled at once
  passed,          \* history: documents left waiting by the handler that was
                   \* to adopt one for their account
  failed,          \* history: the messages a database call failed for
  mishaps

vars == <<directory, carriers, task, together, passed, failed, mishaps>>
history == <<passed, failed, mishaps>>

Message == DOMAIN task
Subject(m) == IF m.topic = "location.created" THEN {m.id, m.tenant} ELSE {m.id}

Waiting == [pc |-> "waiting", found |-> FALSE, hub |-> FALSE]

Init ==
  /\ directory = <<>>
  /\ \E messages \in Scenarios :
       /\ task = [m \in messages |-> Waiting]
       /\ carriers = [c \in {m.id : m \in {n \in messages : n.topic \in CarrierTopic}} |-> NoCarrier]
  /\ together = {}
  /\ passed = {}
  /\ failed = {}
  /\ mishaps = 0

Running(m) == task[m].pc \notin {"waiting", "done"}
AtRest == \A m \in Message : task[m].pc = "done"

Goto(m, pc) == task' = [task EXCEPT ![m].pc = pc]

--------------------------------------------------------------------------------
\* The accounts collection

Matches(P(_)) == {i \in DOMAIN directory : P(directory[i])}
Least(S) == CHOOSE i \in S : \A j \in S : i <= j

Ids(S) == {directory[i].id : i \in S}

ById(id) == Matches(LAMBDA d : d.id = id)
Accounts(id) == Matches(LAMBDA d : d.id = id /\ d.type = "account")

\* Mutant: an account that waits for its name is not looked for.
Orphans_any(id) == Matches(LAMBDA d : d.owner = id /\ ~d.accounts /\ d.named)

\* { account: { id, name: '' }, accounts: [] }
Orphans(id) == Matches(LAMBDA d : d.owner = id /\ ~d.named /\ ~d.accounts)

(* type is missing from a document that an update inserted; owner, named    *)
(* and accounts say what a location knows of its account; edited is a field *)
(* that only PATCH writes (externalWarehouseCode, generateNotfisFile).      *)
New(id, type) == [id |-> id, type |-> type, owner |-> "", named |-> FALSE,
                  accounts |-> FALSE, hub |-> FALSE, edited |-> FALSE]

mapAccountCreated(m) == [New(m.id, "account") EXCEPT !.hub = m.hub]

mapAccountLocationCreated(m, account) ==
  [New(m.id, "location") EXCEPT !.owner = m.tenant, !.named = account, !.accounts = account]

\* Mutant: the flag comes from the message, which does not carry it.
mapAccountUpdated_payload(d, hub) == [d EXCEPT !.hub = FALSE]

\* The flag is kept as it was read.
mapAccountUpdated(d, hub) == [d EXCEPT !.hub = hub]

--------------------------------------------------------------------------------
\* Handling a message

First(m) ==
  CASE m.topic = "account.created"  -> "exists"
    [] m.topic = "location.created" -> "account"
    [] m.topic \in {"account.changed", "location.changed"} -> "read"
    [] m.topic = "http.settings"    -> "exists"
    [] m.topic = "http.credentials" -> "exists"
    [] OTHER -> "save"

\* Messages of one topic about one id are in one partition.
Start(m) ==
  /\ task[m].pc = "waiting"
  /\ \A n \in Message :
       n.topic = m.topic /\ n.id = m.id /\ n.no < m.no => task[n].pc = "done"
  /\ Goto(m, First(m))
  /\ together' = together \union
       {{m, n} : n \in {q \in Message \ {m} : Running(q) /\ Subject(q) \intersect Subject(m) # {}}}
  /\ UNCHANGED <<directory, carriers, history>>

\* Mutant: nobody looks whether it is known.
FindExisting_unchecked(m) ==
  /\ task[m].pc = "exists"
  /\ m.topic \in {"account.created", "location.created"}
  /\ Goto(m, "save")
  /\ UNCHANGED <<directory, carriers, together, history>>

\* create: an account that is known is not created again.
FindExisting(m) ==
  /\ task[m].pc = "exists"
  /\ m.topic \in {"account.created", "location.created"}
  /\ Goto(m, IF ById(m.id) # {} THEN "commit" ELSE "save")
  /\ UNCHANGED <<directory, carriers, together, history>>

SaveAccount(m) ==
  /\ task[m].pc = "save" /\ m.topic = "account.created"
  /\ directory' = Append(directory, mapAccountCreated(m))
  /\ Goto(m, "link")
  /\ UNCHANGED <<carriers, together, history>>

\* createLocation: the account of the tenant may not be known yet.
FindAccount(m) ==
  /\ task[m].pc = "account"
  /\ task' = [task EXCEPT ![m] = [@ EXCEPT !.pc = "exists", !.found = Accounts(m.tenant) # {}]]
  /\ UNCHANGED <<directory, carriers, together, history>>

SaveLocation(m) ==
  /\ task[m].pc = "save" /\ m.topic = "location.created"
  /\ directory' = Append(directory, mapAccountLocationCreated(m, task[m].found))
  /\ Goto(m, "commit")
  /\ UNCHANGED <<carriers, together, history>>

\* update: the document as it is now.
ReadForUpdate(m) ==
  LET known == ById(m.id)
  IN /\ task[m].pc = "read"
     /\ task' = [task EXCEPT ![m] = [@ EXCEPT
          !.pc = "link", !.hub = known # {} /\ directory[Least(known)].hub]]
     /\ UNCHANGED <<directory, carriers, together, history>>

AfterLink(m) == IF m.topic = "account.created" THEN "commit" ELSE "upsert"

\* findAndUpdateLocation: is there an account with this id?
FindToLink(m) ==
  /\ task[m].pc = "link"
  /\ Goto(m, IF Accounts(m.id) # {} THEN "adopt" ELSE AfterLink(m))
  /\ UNCHANGED <<directory, carriers, together, history>>

\* findOneAndUpdate: one location that waits for it; the others go on waiting.
AdoptLocation(m) ==
  LET waiting == Orphans(m.id)
      adopted == IF waiting = {} THEN {} ELSE {Least(waiting)}
  IN /\ task[m].pc = "adopt"
     /\ directory' = IF waiting = {} THEN directory
                     ELSE [directory EXCEPT ![Least(waiting)] =
                             [@ EXCEPT !.named = TRUE, !.accounts = TRUE]]
     /\ Goto(m, AfterLink(m))
     /\ passed' = passed \union Ids(waiting \ adopted)
     /\ UNCHANGED <<carriers, together, failed, mishaps>>

\* findOneAndUpdate with upsert: what it inserts has no accountType.
UpsertAccount(m) ==
  LET known == ById(m.id)
  IN /\ task[m].pc = "upsert"
     /\ directory' = IF known = {}
                     THEN Append(directory, mapAccountUpdated(New(m.id, ""), task[m].hub))
                     ELSE [directory EXCEPT ![Least(known)] = mapAccountUpdated(@, task[m].hub)]
     /\ Goto(m, "commit")
     /\ UNCHANGED <<carriers, together, history>>

\* updateWarehouseCode, updateGenerateNotfisFile: 404 for an unknown id.
FindToEdit(m) ==
  /\ task[m].pc = "exists" /\ m.topic = "http.settings"
  /\ Goto(m, IF Matches(LAMBDA d : d.id = m.id /\ d.type = m.type) = {} THEN "done" ELSE "save")
  /\ UNCHANGED <<directory, carriers, together, history>>

Edit(m) ==
  /\ task[m].pc = "save" /\ m.topic = "http.settings"
  /\ directory' = [directory EXCEPT ![Least(ById(m.id))].edited = TRUE]
  /\ Goto(m, "done")
  /\ UNCHANGED <<carriers, together, history>>

\* removeFromQueue in finally, whatever the handler did.
removeFromQueue(m) ==
  /\ task[m].pc = "commit"
  /\ Goto(m, "done")
  /\ UNCHANGED <<directory, carriers, together, history>>

--------------------------------------------------------------------------------
\* Carriers: unique indexes on id, name and document

Data(m) == [name |-> m.name, document |-> m.document, credentials |-> FALSE]

Conflict(m) ==
  \E c \in DOMAIN carriers \ {m.id} :
    /\ carriers[c] # NoCarrier
    /\ carriers[c].name = m.name \/ carriers[c].document = m.document

\* Mutant: the created message writes over what is there.
CreateCarrier_upsert(m) ==
  /\ task[m].pc = "save" /\ m.topic = "carrier.created"
  /\ carriers' = IF Conflict(m) THEN carriers ELSE [carriers EXCEPT ![m.id] = Data(m)]
  /\ Goto(m, "commit")
  /\ UNCHANGED <<directory, together, history>>

\* create: save() of a known id, name or document is refused by an index.
CreateCarrier(m) ==
  /\ task[m].pc = "save" /\ m.topic = "carrier.created"
  /\ carriers' = IF carriers[m.id] # NoCarrier \/ Conflict(m) THEN carriers
                 ELSE [carriers EXCEPT ![m.id] = Data(m)]
  /\ Goto(m, "commit")
  /\ UNCHANGED <<directory, together, history>>

\* updateConsumer: findOneAndUpdate with upsert, refused on a conflict.
UpdateCarrier(m) ==
  /\ task[m].pc = "save" /\ m.topic = "carrier.changed"
  /\ carriers' = IF Conflict(m) THEN carriers
                 ELSE IF carriers[m.id] = NoCarrier THEN [carriers EXCEPT ![m.id] = Data(m)]
                 ELSE [carriers EXCEPT ![m.id] =
                         [@ EXCEPT !.name = m.name, !.document = m.document]]
  /\ Goto(m, "commit")
  /\ UNCHANGED <<directory, together, history>>

\* PATCH carriers/:id and carriers/:id/logo: 404 for an unknown id.
FindCarrier(m) ==
  /\ task[m].pc = "exists" /\ m.topic = "http.credentials"
  /\ Goto(m, IF carriers[m.id] = NoCarrier THEN "done" ELSE "save")
  /\ UNCHANGED <<directory, carriers, together, history>>

updateCredentials(m) ==
  /\ task[m].pc = "save" /\ m.topic = "http.credentials"
  /\ carriers' = [carriers EXCEPT ![m.id].credentials = TRUE]
  /\ Goto(m, "done")
  /\ UNCHANGED <<directory, together, history>>

--------------------------------------------------------------------------------

\* What handlers of created accounts leave waiting that end after their insert.
LeftBy(messages) ==
  Ids(UNION {Orphans(m.id) : m \in
    {n \in messages : n.topic = "account.created" /\ task[n].pc \in {"link", "adopt"}}})

\* The process stops: what it had not committed is delivered again; a
\* request over HTTP is simply lost.
Crash ==
  /\ mishaps < MaxMishaps
  /\ mishaps' = mishaps + 1
  /\ task' = [m \in Message |->
       IF ~Running(m) THEN task[m]
       ELSE IF m.topic \in {"http.settings", "http.credentials"}
       THEN [Waiting EXCEPT !.pc = "done"] ELSE Waiting]
  /\ passed' = passed \union LeftBy(Message)
  /\ UNCHANGED <<directory, carriers, together, failed>>

\* findAndUpdateLocation has a catch of its own and its caller goes on; the
\* consumers catch any other error and take the message for handled.
AfterFailure(m) ==
  IF task[m].pc \in {"link", "adopt"} THEN AfterLink(m)
  ELSE IF m.topic \in {"http.settings", "http.credentials"} THEN "done" ELSE "commit"

\* The database does not do what it is asked.
FailedCall(m) ==
  /\ mishaps < MaxMishaps
  /\ mishaps' = mishaps + 1
  /\ Running(m) /\ task[m].pc # "commit"
  /\ Goto(m, AfterFailure(m))
  /\ failed' = failed \union {m}
  /\ passed' = passed \union LeftBy({m})
  /\ UNCHANGED <<directory, carriers, together>>

\* The account is inserted, but the handler is told that it is not.  (After
\* any other write, a handler that fails goes on as one that does not.)
UnansweredSave(m) ==
  /\ mishaps < MaxMishaps
  /\ mishaps' = mishaps + 1
  /\ task[m].pc = "save" /\ m.topic = "account.created"
  /\ directory' = Append(directory, mapAccountCreated(m))
  /\ Goto(m, AfterFailure(m))
  /\ failed' = failed \union {m}
  /\ passed' = passed \union Ids(Orphans(m.id))
  /\ UNCHANGED <<carriers, together>>

AccountStep(m) ==
  \/ FindExisting(m) \/ SaveAccount(m)
  \/ FindAccount(m)  \/ SaveLocation(m)
  \/ ReadForUpdate(m) \/ FindToLink(m) \/ AdoptLocation(m) \/ UpsertAccount(m)
  \/ FindToEdit(m) \/ Edit(m)

CarrierStep(m) ==
  \/ CreateCarrier(m) \/ UpdateCarrier(m)
  \/ FindCarrier(m) \/ updateCredentials(m)

Next ==
  \/ \E m \in Message : Start(m) \/ AccountStep(m) \/ CarrierStep(m) \/ removeFromQueue(m)
  \/ \E m \in Message : FailedCall(m) \/ UnansweredSave(m)
  \/ Crash

Spec == Init /\ [][Next]_vars

--------------------------------------------------------------------------------
\* Properties

\* m and n were being handled at the same time.
Overlapped(m, n) == {m, n} \in together

Inserts(m, id) == m.id = id /\ m.topic \in AccountTopic \ {"http.settings"}

(* The check before the insert (create, createLocation) and the upsert of   *)
(* update keep one document for each account and location, although no      *)
(* index does: two are possible only when two handlers of the same id ran   *)
(* at once.                                                                 *)
OneDocumentPerId ==
  \A id \in {directory[i].id : i \in DOMAIN directory} :
    Cardinality(ById(id)) > 1 =>
      \E m, n \in Message : m # n /\ Inserts(m, id) /\ Inserts(n, id) /\ Overlapped(m, n)

AboutAccount(m, id) == m.id = id /\ m.topic \in {"account.created", "account.changed"}

(* When every message is handled, a location knows its account whichever    *)
(* came first (createLocation, findAndUpdateLocation), except that: their   *)
(* handlers overlapped; it was waiting when the handler that inserted the   *)
(* account adopted another one, or stopped or failed before it adopted any; *)
(* or a changed message inserted one of the two first, without its type.    *)
UnlinkedExplained ==
  AtRest => \A m \in Message :
    m.topic = "location.created" /\ Accounts(m.tenant) # {} =>
      \/ \A i \in ById(m.id) : directory[i].accounts
      \/ \E n \in Message : AboutAccount(n, m.tenant) /\ Overlapped(m, n)
      \/ m.id \in passed
      \/ \E i \in ById(m.id) \union ById(m.tenant) : directory[i].type = ""

(* The flag useDeliveryHub of an account survives its changed messages,     *)
(* which carry it back as they read it (mapAccountUpdated), unless one ran  *)
(* together with the handler that created the account.                      *)
HubKept ==
  \A m \in Message : m.topic = "account.created" /\ m.hub =>
    \A i \in Accounts(m.id) :
      \/ directory[i].hub
      \/ \E n \in Message : n.topic = "account.changed" /\ n.id = m.id /\ Overlapped(m, n)

\* Another carrier's messages claim the name or the document of m.
Contended(m) ==
  \E n \in Message :
    n.topic \in ClaimTopic /\ n.id # m.id /\ (m.name = n.name \/ m.document = n.document)

LastChange(m) ==
  /\ m.topic = "carrier.changed"
  /\ \A n \in Message : n.topic = m.topic /\ n.id = m.id => n.no <= m.no

(* When every message is handled a carrier is as its last changed message   *)
(* says, even when the created one is handled after it or again (the unique *)
(* index refuses it).  The consumer commits whatever becomes of the write,  *)
(* so the change is lost if the call failed, or if another carrier claims   *)
(* the name or document it brings (updateConsumer).                         *)
CarrierUpToDate ==
  AtRest => \A m \in Message : LastChange(m) /\ m \notin failed /\ ~Contended(m) =>
    carriers[m.id].name = m.name /\ carriers[m.id].document = m.document
==============================================================================
