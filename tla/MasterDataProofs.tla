------------------------- MODULE MasterDataProofs ----------------------------
(* Proofs about MasterData: for any scenarios, any number of messages and   *)
(* of mishaps.                                                              *)
EXTENDS MasterData, FiniteSetTheorems, WellFoundedInduction, TLAPS

IdsOf(messages) == {m.id : m \in messages} \union {m.tenant : m \in messages}
Id == {""} \union (UNION {IdsOf(messages) : messages \in Scenarios})

Document ==
  [id : Id, type : {"account", "location", ""}, owner : Id, named : BOOLEAN,
   accounts : BOOLEAN, hub : BOOLEAN, edited : BOOLEAN]

\* The places of the handlers of a topic.
Places(topic) ==
  {"waiting", "done"} \union
  (IF topic \in {"http.settings", "http.credentials"} THEN {"exists", "save"} ELSE {"commit"}) \union
  (IF topic = "account.created" THEN {"exists", "save", "link", "adopt"} ELSE {}) \union
  (IF topic = "location.created" THEN {"account", "exists", "save"} ELSE {}) \union
  (IF topic \in {"account.changed", "location.changed"}
   THEN {"read", "link", "adopt", "upsert"} ELSE {}) \union
  (IF topic \in ClaimTopic THEN {"save"} ELSE {})

Place == {"waiting", "done", "exists", "save", "link", "adopt", "account", "read", "upsert", "commit"}

\* Every variable keeps to its values, and every handler to its places.
Typed ==
  /\ Message \in Scenarios
  /\ directory \in Seq(Document)
  /\ task \in [Message -> [pc : Place, found : BOOLEAN, hub : BOOLEAN]]
  /\ \A m \in Message : task[m].pc \in Places(m.topic)

\* Handlers with a common subject that run at once are on record.
TogetherOK ==
  \A m, n \in Message :
    m # n /\ Running(m) /\ Running(n) /\ Subject(m) \intersect Subject(n) # {} => Overlapped(m, n)

LEMMA MessageIs ==
  ASSUME Typed, NEW m \in Message
  PROVE  /\ m.topic \in AccountTopic \union CarrierTopic
         /\ m.id \in Id /\ m.tenant \in Id
         /\ m.topic = "account.created" => m.hub \in BOOLEAN
<1>1. m.id \in IdsOf(Message) /\ m.tenant \in IdsOf(Message)
  BY DEF IdsOf
<1>2. IdsOf(Message) \subseteq Id
  BY DEF Typed, Id
<1>3. m.topic \in AccountTopic \union CarrierTopic
  BY MessageAssumption DEF Typed
<1>4. m.topic = "account.created" => m.hub \in BOOLEAN
  BY MessageAssumption DEF Typed
<1>5. QED
  BY <1>1, <1>2, <1>3, <1>4

------------------------------------------------------------------------------
(* Searches.                                                                *)

LEMMA ByIdIs == \A id : ById(id) = {i \in DOMAIN directory : directory[i].id = id}
BY DEF ById, Matches

LEMMA ByIdNext == \A id : ById(id)' = {i \in DOMAIN directory' : directory'[i].id = id}
BY DEF ById, Matches

LEMMA AccountsIs ==
  \A id : Accounts(id) = {i \in DOMAIN directory : directory[i].id = id /\ directory[i].type = "account"}
BY DEF Accounts, Matches

LEMMA AccountsNext ==
  \A id : Accounts(id)' = {i \in DOMAIN directory' :
                            directory'[i].id = id /\ directory'[i].type = "account"}
BY DEF Accounts, Matches

LEMMA OrphansIs ==
  \A id : Orphans(id) = {i \in DOMAIN directory :
                           directory[i].owner = id /\ ~directory[i].named /\ ~directory[i].accounts}
BY DEF Orphans, Matches

\* A set of positions has a first one.
Before == OpToRel(<, Nat)

LEMMA LeastIs == ASSUME NEW S \in SUBSET Nat, S # {} PROVE Least(S) \in S
<1>1. IsWellFoundedOn(Before, Nat)
  BY NatLessThanWellFounded, Zenon DEF Before
<1>2. \A x, y \in Nat : <<x, y>> \in Before <=> x < y
  BY Zenon DEF Before, OpToRel
<1>3. PICK x \in S : \A y \in S : ~ (<<y, x>> \in Before)
  BY <1>1, WFMin
<1>4. \A y \in S : ~ (y < x)
  BY <1>2, <1>3
<1>5. \A y \in S : x <= y
  BY <1>4
<1>6. QED
  BY <1>5 DEF Least

\* A document added at the end.
LEMMA Added ==
  ASSUME directory \in Seq(Document), NEW d \in Document, directory' = Append(directory, d)
  PROVE  /\ directory' \in Seq(Document)
         /\ Len(directory) + 1 \notin DOMAIN directory
         /\ DOMAIN directory' = DOMAIN directory \union {Len(directory) + 1}
         /\ \A i \in DOMAIN directory : directory'[i] = directory[i]
         /\ directory'[Len(directory) + 1] = d
OBVIOUS

\* A document changed where it is.
LEMMA Changed ==
  ASSUME directory \in Seq(Document), NEW l \in DOMAIN directory, NEW d \in Document,
         directory' = [directory EXCEPT ![l] = d]
  PROVE  /\ directory' \in Seq(Document)
         /\ DOMAIN directory' = DOMAIN directory
         /\ \A i \in DOMAIN directory : directory'[i] = IF i = l THEN d ELSE directory[i]
OBVIOUS

------------------------------------------------------------------------------
(* The steps.                                                               *)

\* The handler of m alone goes on.
Alone(m) ==
  /\ Message' = Message /\ task' = [n \in Message |-> task'[n]]
  /\ \A n \in Message \ {m} : task'[n] = task[n]

Goes(m, pc) == task'[m] = [task[m] EXCEPT !.pc = pc]

Begins(m) ==
  /\ Alone(m) /\ UNCHANGED <<directory, carriers, history>>
  /\ task[m].pc = "waiting" /\ Goes(m, First(m))
  /\ \A n \in Message :
       n.topic = m.topic /\ n.id = m.id /\ n.no < m.no => task[n].pc = "done"
  /\ together \subseteq together'
  /\ \A n \in Message \ {m} :
       Running(n) /\ Subject(n) \intersect Subject(m) # {} => {m, n} \in together'

\* The process stops.
Dropped(m) ==
  [Waiting EXCEPT !.pc = IF m.topic \in {"http.settings", "http.credentials"}
                         THEN "done" ELSE "waiting"]

Stops ==
  /\ UNCHANGED <<directory, carriers, together, failed>>
  /\ Message' = Message /\ task' = [n \in Message |-> task'[n]]
  /\ \A m \in Message :
       \/ ~Running(m) /\ task'[m] = task[m]
       \/ Running(m) /\ task'[m] = Dropped(m)
  /\ passed' = passed \union LeftBy(Message)

\* A lookup, or another step that leaves the accounts.
Looks(m) ==
  /\ directory' = directory
  /\ \/ /\ m.topic \in CreatedTopic /\ task[m].pc = "exists"
        /\ \/ ById(m.id) = {} /\ Goes(m, "save")
           \/ ById(m.id) # {} /\ Goes(m, "commit")
     \/ /\ task[m].pc = "account"
        /\ task'[m] = [task[m] EXCEPT !.pc = "exists", !.found = (Accounts(m.tenant) # {})]
     \/ /\ task[m].pc = "read"
        /\ task'[m] = [task[m] EXCEPT !.pc = "link",
                         !.hub = (ById(m.id) # {} /\ directory[Least(ById(m.id))].hub)]
     \/ /\ task[m].pc = "link"
        /\ \/ Accounts(m.id) # {} /\ Goes(m, "adopt")
           \/ Accounts(m.id) = {} /\ Goes(m, AfterLink(m))
     \/ m.topic \in {"http.settings", "http.credentials"} /\ (Goes(m, "save") \/ Goes(m, "done"))
     \/ m.topic \in ClaimTopic /\ task[m].pc = "save" /\ Goes(m, "commit")
     \/ task[m].pc = "commit" /\ Goes(m, "done")
     \/ /\ task[m].pc # "commit" /\ Goes(m, AfterFailure(m)) /\ m \in failed'
        /\ LeftBy({m}) \subseteq passed'

\* A document is inserted by a created message, or by a changed one.
Saves(m) ==
  /\ task[m].pc = "save"
  /\ \/ /\ m.topic = "account.created"
        /\ \/ Goes(m, "link")
           \/ Goes(m, "commit") /\ Ids(Orphans(m.id)) \subseteq passed'
        /\ directory' = Append(directory, mapAccountCreated(m))
     \/ /\ m.topic = "location.created" /\ Goes(m, "commit")
        /\ directory' = Append(directory, mapAccountLocationCreated(m, task[m].found))

Upserts(m) ==
  /\ task[m].pc = "upsert" /\ Goes(m, "commit")
  /\ \/ /\ ById(m.id) = {}
        /\ directory' = Append(directory, [New(m.id, "") EXCEPT !.hub = task[m].hub])
     \/ \E l \in ById(m.id) :
          directory' = [directory EXCEPT ![l] = [directory[l] EXCEPT !.hub = task[m].hub]]

\* One document that waits for the account of m knows it now.
Adopts(m) ==
  /\ task[m].pc = "adopt" /\ Goes(m, AfterLink(m))
  /\ \/ Orphans(m.id) = {} /\ directory' = directory
     \/ \E l \in Orphans(m.id) :
          /\ directory' = [directory EXCEPT ![l] =
                             [directory[l] EXCEPT !.named = TRUE, !.accounts = TRUE]]
          /\ Ids(Orphans(m.id) \ {l}) \subseteq passed'

Edits(m) ==
  /\ m.topic = "http.settings" /\ Goes(m, "done")
  /\ \/ directory' = directory
     \/ \E l \in DOMAIN directory :
          directory' = [directory EXCEPT ![l] = [directory[l] EXCEPT !.edited = TRUE]]

\* Every step of a handler that runs.
Works(m) ==
  /\ Running(m) /\ Alone(m) /\ together' = together
  /\ passed \subseteq passed' /\ failed \subseteq failed'
  /\ Looks(m) \/ Saves(m) \/ Upserts(m) \/ Adopts(m) \/ Edits(m)

LEMMA MovesAlone ==
  ASSUME Typed, NEW m \in Message, NEW t, task' = [task EXCEPT ![m] = t]
  PROVE  Alone(m) /\ task'[m] = t
BY DEF Typed, Alone, Message

LEMMA GotoGoes ==
  ASSUME Typed, NEW m \in Message, NEW pc, Goto(m, pc)
  PROVE  Alone(m) /\ Goes(m, pc)
<1>1. task' = [task EXCEPT ![m] = [task[m] EXCEPT !.pc = pc]]
  BY DEF Goto, Typed
<1>2. QED
  BY <1>1, MovesAlone DEF Goes

LEMMA StartKind ==
  ASSUME Typed, NEW m \in Message, Start(m) PROVE Begins(m)
<1>1. Alone(m) /\ Goes(m, First(m))
  BY GotoGoes DEF Start
<1>2. ASSUME NEW n \in Message \ {m}, Running(n), Subject(n) \intersect Subject(m) # {}
      PROVE  {m, n} \in together'
  BY <1>2 DEF Start
<1>3. QED
  BY <1>1, <1>2 DEF Start, Begins

LEMMA CrashKind == ASSUME Typed, Crash PROVE Stops
<1>1. Message' = Message /\ task' = [n \in Message |-> task'[n]]
  BY DEF Crash, Message
<1>2. ASSUME NEW m \in Message
      PROVE  \/ ~Running(m) /\ task'[m] = task[m]
             \/ Running(m) /\ task'[m] = Dropped(m)
  BY DEF Crash, Waiting, Dropped
<1>3. QED
  BY <1>1, <1>2 DEF Crash, Stops

LEMMA LookKind ==
  ASSUME Typed, NEW m \in Message,
         \/ FindExisting(m) \/ FindAccount(m) \/ ReadForUpdate(m) \/ FindToLink(m)
         \/ FindToEdit(m) \/ CarrierStep(m) \/ removeFromQueue(m)
  PROVE  Works(m)
<1>1. CASE FindExisting(m)
  <2>1. Alone(m) /\ Goes(m, IF ById(m.id) # {} THEN "commit" ELSE "save")
    BY <1>1, GotoGoes DEF FindExisting
  <2>2. Looks(m)
    BY <1>1, <2>1 DEF FindExisting, Looks, CreatedTopic
  <2>3. QED
    BY <1>1, <2>1, <2>2 DEF FindExisting, Works, Running, history
<1>2. CASE FindAccount(m)
  <2>1. task' = [task EXCEPT ![m] =
                   [task[m] EXCEPT !.pc = "exists", !.found = (Accounts(m.tenant) # {})]]
    BY <1>2 DEF FindAccount
  <2>2. QED
    BY <1>2, <2>1, MovesAlone DEF FindAccount, Looks, Works, Running, history
<1>3. CASE ReadForUpdate(m)
  <2>1. task' = [task EXCEPT ![m] =
                   [task[m] EXCEPT !.pc = "link",
                     !.hub = (ById(m.id) # {} /\ directory[Least(ById(m.id))].hub)]]
    BY <1>3 DEF ReadForUpdate
  <2>2. QED
    BY <1>3, <2>1, MovesAlone DEF ReadForUpdate, Looks, Works, Running, history
<1>4. CASE FindToLink(m)
  <2>1. Alone(m) /\ Goes(m, IF Accounts(m.id) # {} THEN "adopt" ELSE AfterLink(m))
    BY <1>4, GotoGoes DEF FindToLink
  <2>2. Looks(m)
    BY <1>4, <2>1 DEF FindToLink, Looks
  <2>3. QED
    BY <1>4, <2>1, <2>2 DEF FindToLink, Works, Running, history
<1>5. CASE FindToEdit(m)
  <2>1. \E pc \in {"save", "done"} : Goto(m, pc)
    BY <1>5 DEF FindToEdit
  <2>2. Alone(m) /\ (Goes(m, "save") \/ Goes(m, "done"))
    BY <2>1, GotoGoes
  <2>3. QED
    BY <1>5, <2>2 DEF FindToEdit, Looks, Works, Running, history
<1>6. CASE CreateCarrier(m) \/ UpdateCarrier(m)
  <2>1. Goto(m, "commit") /\ task[m].pc = "save" /\ m.topic \in ClaimTopic
        /\ UNCHANGED <<directory, together, history>>
    BY <1>6 DEF CreateCarrier, UpdateCarrier, ClaimTopic
  <2>2. QED
    BY <2>1, GotoGoes DEF Looks, Works, Running, history
<1>7. CASE FindCarrier(m) \/ updateCredentials(m)
  <2>1. /\ \E pc \in {"save", "done"} : Goto(m, pc)
        /\ m.topic = "http.credentials" /\ task[m].pc \in {"exists", "save"}
        /\ UNCHANGED <<directory, together, history>>
    BY <1>7 DEF FindCarrier, updateCredentials
  <2>2. Alone(m) /\ (Goes(m, "save") \/ Goes(m, "done"))
    BY <2>1, GotoGoes
  <2>3. QED
    BY <2>1, <2>2 DEF Looks, Works, Running, history
<1>8. CASE removeFromQueue(m)
  <2>1. Alone(m) /\ Goes(m, "done")
    BY <1>8, GotoGoes DEF removeFromQueue
  <2>2. QED
    BY <1>8, <2>1 DEF removeFromQueue, Looks, Works, Running, history
<1>9. QED
  BY <1>1, <1>2, <1>3, <1>4, <1>5, <1>6, <1>7, <1>8 DEF CarrierStep

LEMMA FoundIn ==
  ASSUME Typed, NEW S \in SUBSET (DOMAIN directory), S # {}
  PROVE  Least(S) \in S /\ Least(S) \in DOMAIN directory
<1>1. DOMAIN directory \in SUBSET Nat
  BY DEF Typed
<1>2. QED
  BY <1>1, LeastIs

LEMMA WriteKind ==
  ASSUME Typed, NEW m \in Message,
         SaveAccount(m) \/ SaveLocation(m) \/ AdoptLocation(m) \/ UpsertAccount(m) \/ Edit(m)
  PROVE  Works(m)
<1>1. CASE SaveAccount(m)
  BY <1>1, GotoGoes DEF SaveAccount, Saves, Works, Running, history
<1>2. CASE SaveLocation(m)
  BY <1>2, GotoGoes DEF SaveLocation, Saves, Works, Running, history
<1>3. CASE AdoptLocation(m)
  <2>1. /\ Alone(m) /\ Goes(m, AfterLink(m)) /\ task[m].pc = "adopt" /\ together' = together
        /\ passed \subseteq passed' /\ failed' = failed
    BY <1>3, GotoGoes DEF AdoptLocation
  <2>2. CASE Orphans(m.id) = {}
    BY <1>3, <2>1, <2>2 DEF AdoptLocation, Adopts, Works, Running
  <2>3. CASE Orphans(m.id) # {}
    <3>1. PICK l \in Orphans(m.id) : l = Least(Orphans(m.id)) /\ l \in DOMAIN directory
      BY <2>3, FoundIn, OrphansIs
    <3>2. directory' = [directory EXCEPT ![l] =
                          [directory[l] EXCEPT !.named = TRUE, !.accounts = TRUE]]
      BY <1>3, <2>3, <3>1 DEF AdoptLocation
    <3>3. Ids(Orphans(m.id) \ {l}) \subseteq passed'
      BY <1>3, <2>3, <3>1 DEF AdoptLocation
    <3>4. QED
      BY <2>1, <3>2, <3>3 DEF Adopts, Works, Running
  <2>4. QED
    BY <2>2, <2>3
<1>4. CASE UpsertAccount(m)
  <2>1. Alone(m) /\ Goes(m, "commit") /\ task[m].pc = "upsert" /\ UNCHANGED <<together, history>>
    BY <1>4, GotoGoes DEF UpsertAccount
  <2>2. CASE ById(m.id) = {}
    <3>1. directory' = Append(directory, [New(m.id, "") EXCEPT !.hub = task[m].hub])
      BY <1>4, <2>2 DEF UpsertAccount, mapAccountUpdated
    <3>2. QED
      BY <2>1, <2>2, <3>1 DEF Upserts, Works, Running, history
  <2>3. CASE ById(m.id) # {}
    <3>1. PICK l \in ById(m.id) : l = Least(ById(m.id)) /\ l \in DOMAIN directory
      BY <2>3, FoundIn, ByIdIs
    <3>2. directory' = [directory EXCEPT ![l] = [directory[l] EXCEPT !.hub = task[m].hub]]
      BY <1>4, <2>3, <3>1 DEF UpsertAccount, mapAccountUpdated
    <3>3. QED
      BY <2>1, <3>2 DEF Upserts, Works, Running, history
  <2>4. QED
    BY <2>2, <2>3
<1>5. CASE Edit(m)
  <2>1. Alone(m) /\ Goes(m, "done") /\ task[m].pc = "save" /\ UNCHANGED <<together, history>>
        /\ m.topic = "http.settings"
    BY <1>5, GotoGoes DEF Edit
  <2>2. PICK l : l = Least(ById(m.id)) /\
                 directory' = [directory EXCEPT ![l].edited = TRUE]
    BY <1>5 DEF Edit
  <2>3. CASE l \in DOMAIN directory
    <3>1. directory' = [directory EXCEPT ![l] = [directory[l] EXCEPT !.edited = TRUE]]
      BY <2>2, <2>3
    <3>2. QED
      BY <2>1, <2>3, <3>1 DEF Edits, Works, Running, history
  <2>4. CASE l \notin DOMAIN directory
    <3>1. directory' = directory
      BY <2>2, <2>4 DEF Typed
    <3>2. QED
      BY <2>1, <3>1 DEF Edits, Works, Running, history
  <2>5. QED
    BY <2>3, <2>4
<1>6. QED
  BY <1>1, <1>2, <1>3, <1>4, <1>5

LEMMA FailureKind ==
  ASSUME Typed, NEW m \in Message, FailedCall(m) \/ UnansweredSave(m)
  PROVE  Works(m) /\ carriers' = carriers /\ m \in failed'
<1>1. CASE FailedCall(m)
  <2>1. Alone(m) /\ Goes(m, AfterFailure(m))
    BY <1>1, GotoGoes DEF FailedCall
  <2>2. QED
    BY <1>1, <2>1 DEF FailedCall, Looks, Works
<1>2. CASE UnansweredSave(m)
  <2>1. AfterFailure(m) = "commit"
    BY <1>2 DEF UnansweredSave, AfterFailure
  <2>2. Alone(m) /\ Goes(m, "commit")
    BY <1>2, <2>1, GotoGoes DEF UnansweredSave
  <2>3. QED
    BY <1>2, <2>2 DEF UnansweredSave, Saves, Works, Running
<1>3. QED
  BY <1>1, <1>2

LEMMA Kinds ==
  ASSUME Typed, Next
  PROVE  Stops \/ \E m \in Message : Begins(m) \/ Works(m)
BY StartKind, CrashKind, LookKind, WriteKind, FailureKind DEF Next, AccountStep

------------------------------------------------------------------------------
(* Types, and handlers that run at once.                                    *)

LEMMA NewTyped ==
  ASSUME Typed, NEW m \in Message, NEW b \in BOOLEAN
  PROVE  /\ [New(m.id, "") EXCEPT !.hub = b] \in Document
         /\ m.topic = "account.created" => mapAccountCreated(m) \in Document
         /\ mapAccountLocationCreated(m, b) \in Document
<1>1. m.id \in Id /\ m.tenant \in Id /\ "" \in Id
  BY MessageIs DEF Id
<1>2. m.topic = "account.created" => m.hub \in BOOLEAN
  BY MessageIs
<1>3. QED
  BY <1>1, <1>2 DEF New, Document, mapAccountCreated, mapAccountLocationCreated

LEMMA DirectoryTyped ==
  ASSUME Typed, NEW m \in Message, Works(m)
  PROVE  directory' \in Seq(Document)
<1>1. directory \in Seq(Document) /\ task[m] \in [pc : Place, found : BOOLEAN, hub : BOOLEAN]
  BY DEF Typed
<1>2. CASE Looks(m)
  BY <1>1, <1>2 DEF Looks
<1>0. ASSUME NEW d \in Document, directory' = Append(directory, d)
      PROVE  directory' \in Seq(Document)
  BY <1>0, <1>1
<1>3. CASE Saves(m)
  <2>1. task[m].found \in BOOLEAN
    BY <1>1
  <2>2. mapAccountLocationCreated(m, task[m].found) \in Document
    BY <2>1, NewTyped
  <2>3. m.topic = "account.created" => mapAccountCreated(m) \in Document
    BY <2>1, NewTyped
  <2>4. QED
    BY <1>0, <1>3, <2>2, <2>3 DEF Saves
<1>4. CASE Upserts(m)
  <2>1. CASE ById(m.id) = {} /\ directory' = Append(directory, [New(m.id, "") EXCEPT !.hub = task[m].hub])
    <3>1. task[m].hub \in BOOLEAN
      BY <1>1
    <3>2. [New(m.id, "") EXCEPT !.hub = task[m].hub] \in Document
      BY <3>1, NewTyped
    <3>3. QED
      BY <1>0, <2>1, <3>2
  <2>2. ASSUME NEW l \in ById(m.id),
               directory' = [directory EXCEPT ![l] = [directory[l] EXCEPT !.hub = task[m].hub]]
        PROVE  directory' \in Seq(Document)
    <3>1. l \in DOMAIN directory /\ directory[l] \in Document
      BY <1>1, ByIdIs
    <3>2. [directory[l] EXCEPT !.hub = task[m].hub] \in Document
      BY <1>1, <3>1 DEF Document
    <3>3. QED
      BY <1>1, <2>2, <3>1, <3>2, Changed
  <2>3. QED
    BY <1>4, <2>1, <2>2 DEF Upserts
<1>5. CASE Adopts(m)
  <2>1. ASSUME NEW l \in Orphans(m.id),
               directory' = [directory EXCEPT ![l] =
                               [directory[l] EXCEPT !.named = TRUE, !.accounts = TRUE]]
        PROVE  directory' \in Seq(Document)
    <3>1. l \in DOMAIN directory /\ directory[l] \in Document
      BY <1>1, OrphansIs
    <3>2. [directory[l] EXCEPT !.named = TRUE, !.accounts = TRUE] \in Document
      BY <3>1 DEF Document
    <3>3. QED
      BY <1>1, <2>1, <3>1, <3>2, Changed
  <2>2. QED
    BY <1>1, <1>5, <2>1 DEF Adopts
<1>6. CASE Edits(m)
  <2>1. ASSUME NEW l \in DOMAIN directory,
               directory' = [directory EXCEPT ![l] = [directory[l] EXCEPT !.edited = TRUE]]
        PROVE  directory' \in Seq(Document)
    <3>1. directory[l] \in Document
      BY <1>1
    <3>2. [directory[l] EXCEPT !.edited = TRUE] \in Document
      BY <3>1 DEF Document
    <3>3. QED
      BY <1>1, <2>1, <3>2, Changed
  <2>2. QED
    BY <1>1, <1>6, <2>1 DEF Edits
<1>7. QED
  BY <1>2, <1>3, <1>4, <1>5, <1>6 DEF Works

\* Where the handler of m goes.
LEMMA TaskTyped ==
  ASSUME Typed, NEW m \in Message, Begins(m) \/ Works(m)
  PROVE  /\ task'[m] \in [pc : Place, found : BOOLEAN, hub : BOOLEAN]
         /\ task'[m].pc \in Places(m.topic)
<1>1. /\ task[m] \in [pc : Place, found : BOOLEAN, hub : BOOLEAN]
      /\ task[m].pc \in Places(m.topic)
      /\ m.topic \in AccountTopic \union CarrierTopic
  BY MessageIs DEF Typed
<1>2. ASSUME NEW pc \in Place, pc \in Places(m.topic), Goes(m, pc)
      PROVE  /\ task'[m] \in [pc : Place, found : BOOLEAN, hub : BOOLEAN]
             /\ task'[m].pc \in Places(m.topic)
  BY <1>1, <1>2 DEF Goes
<1>3. CASE Begins(m)
  <2>1. First(m) \in Place /\ First(m) \in Places(m.topic)
    BY <1>1 DEF First, Places, Place, ClaimTopic, AccountTopic, CarrierTopic
  <2>2. QED
    BY <1>2, <1>3, <2>1 DEF Begins
<1>4. CASE Looks(m) /\ Works(m)
  <2>1. AfterLink(m) \in Place
    BY DEF AfterLink, Place
  <2>2. task[m].pc = "link" => AfterLink(m) \in Places(m.topic) /\ "adopt" \in Places(m.topic)
    BY <1>1 DEF AfterLink, Places, ClaimTopic, AccountTopic, CarrierTopic
  <2>3. CASE task[m].pc = "account" /\
             task'[m] = [task[m] EXCEPT !.pc = "exists", !.found = (Accounts(m.tenant) # {})]
    <3>1. "exists" \in Place /\ "exists" \in Places(m.topic)
      BY <1>1, <2>3 DEF Places, Place, ClaimTopic
    <3>2. QED
      BY <1>1, <2>3, <3>1
  <2>4. CASE task[m].pc = "read" /\
             task'[m] = [task[m] EXCEPT !.pc = "link",
                         !.hub = (ById(m.id) # {} /\ directory[Least(ById(m.id))].hub)]
    <3>1. "link" \in Place /\ "link" \in Places(m.topic)
      BY <1>1, <2>4 DEF Places, Place, ClaimTopic
    <3>2. ASSUME ById(m.id) # {} PROVE directory[Least(ById(m.id))].hub \in BOOLEAN
      <4>1. ById(m.id) \in SUBSET DOMAIN directory
        BY ByIdIs
      <4>2. directory[Least(ById(m.id))] \in Document
        BY <3>2, <4>1, FoundIn DEF Typed
      <4>3. QED
        BY <4>2 DEF Document
    <3>3. (ById(m.id) # {} /\ directory[Least(ById(m.id))].hub) \in BOOLEAN
      OBVIOUS
    <3>4. QED
      BY <1>1, <2>4, <3>1, <3>3
  <2>5. CASE Running(m) /\ task[m].pc # "commit" /\ Goes(m, AfterFailure(m))
    <3>1. AfterFailure(m) \in Place
      BY <2>1 DEF AfterFailure, Place
    <3>2. AfterFailure(m) \in Places(m.topic)
      BY <1>1, <2>2, <2>5 DEF AfterFailure, AfterLink, Places, Running, ClaimTopic
    <3>3. QED
      BY <1>2, <2>5, <3>1, <3>2
  <2>6. QED
    BY <1>1, <1>2, <1>4, <2>1, <2>2, <2>3, <2>4, <2>5
    DEF Looks, Works, Places, Place, ClaimTopic, CreatedTopic
<1>5. CASE Saves(m)
  BY <1>1, <1>2, <1>5 DEF Saves, Places, Place, ClaimTopic
<1>6. CASE Upserts(m)
  BY <1>1, <1>2, <1>6 DEF Upserts, Places, Place, ClaimTopic
<1>7. CASE Adopts(m)
  BY <1>1, <1>2, <1>7 DEF Adopts, AfterLink, Places, Place, ClaimTopic
<1>8. CASE Edits(m)
  BY <1>1, <1>2, <1>8 DEF Edits, Places, Place
<1>9. QED
  BY <1>3, <1>4, <1>5, <1>6, <1>7, <1>8 DEF Works

LEMMA TypedStep == Typed /\ [Next]_vars => Typed'
<1> SUFFICES ASSUME Typed, [Next]_vars PROVE Typed'
  OBVIOUS
<1> DEFINE T == [pc : Place, found : BOOLEAN, hub : BOOLEAN]
<1>0. /\ Message \in Scenarios /\ directory \in Seq(Document) /\ task \in [Message -> T]
      /\ \A m \in Message : task[m].pc \in Places(m.topic)
  BY DEF Typed
<1>1. CASE Stops
  <2>1. ASSUME NEW m \in Message
        PROVE  task'[m] \in T /\ task'[m].pc \in Places(m.topic)
    <3>1. Dropped(m) \in T /\ Dropped(m).pc \in {"waiting", "done"}
      BY DEF Dropped, Waiting, Place
    <3>2. {"waiting", "done"} \subseteq Places(m.topic)
      BY DEF Places
    <3>3. QED
      BY <1>0, <1>1, <3>1, <3>2 DEF Stops
  <2>2. QED
    BY <1>0, <1>1, <2>1 DEF Stops, Typed
<1>2. ASSUME NEW m \in Message, Begins(m) \/ Works(m)
      PROVE  Typed'
  <2>1. Alone(m) /\ directory' \in Seq(Document)
    BY <1>0, <1>2, DirectoryTyped DEF Begins, Works
  <2>2. ASSUME NEW n \in Message
        PROVE  task'[n] \in T /\ task'[n].pc \in Places(n.topic)
    BY <1>0, <1>2, <2>1, TaskTyped DEF Alone
  <2>3. QED
    BY <1>0, <2>1, <2>2 DEF Alone, Typed
<1>3. CASE UNCHANGED vars
  BY <1>0, <1>3 DEF Typed, vars, Message
<1>4. QED
  BY <1>1, <1>2, <1>3, Kinds

LEMMA TypedInit == Init => Typed
<1> SUFFICES ASSUME Init PROVE Typed
  OBVIOUS
<1>1. PICK messages \in Scenarios : task = [m \in messages |-> Waiting]
  BY DEF Init
<1>2. Message = messages
  BY <1>1 DEF Message
<1>3. QED
  BY <1>1, <1>2 DEF Init, Typed, Waiting, Place, Places

LEMMA TogetherStep == Typed /\ TogetherOK /\ [Next]_vars => TogetherOK'
<1> SUFFICES ASSUME Typed, TogetherOK, [Next]_vars PROVE TogetherOK'
  OBVIOUS
<1>1. CASE Stops
  <2>1. \A m \in Message : ~Running(m)'
    BY <1>1 DEF Stops, Dropped, Waiting, Running
  <2>2. QED
    BY <1>1, <2>1 DEF Stops, TogetherOK
<1>2. ASSUME NEW m \in Message, Begins(m)
      PROVE  TogetherOK'
  <2>1. Message' = Message /\ together \subseteq together'
    BY <1>2 DEF Begins, Alone
  <2>2. \A n \in Message \ {m} : Running(n)' = Running(n)
    BY <1>2 DEF Begins, Alone, Running
  <2>3. ASSUME NEW n \in Message \ {m}, Running(n), Subject(n) \intersect Subject(m) # {}
        PROVE  Overlapped(m, n)' /\ Overlapped(n, m)'
    <3>1. {m, n} \in together'
      BY <1>2, <2>3 DEF Begins
    <3>2. {n, m} = {m, n}
      OBVIOUS
    <3>3. QED
      BY <3>1, <3>2 DEF Overlapped
  <2>4. ASSUME NEW a \in Message, NEW b \in Message, a # b, Running(a)', Running(b)',
               Subject(a) \intersect Subject(b) # {}
        PROVE  Overlapped(a, b)'
    <3>1. CASE a = m
      BY <2>2, <2>3, <2>4, <3>1
    <3>2. CASE b = m
      BY <2>2, <2>3, <2>4, <3>2
    <3>3. CASE a # m /\ b # m
      BY <2>1, <2>2, <2>4, <3>3 DEF TogetherOK, Overlapped
    <3>4. QED
      BY <3>1, <3>2, <3>3
  <2>5. QED
    BY <2>1, <2>4 DEF TogetherOK, Subject
<1>3. ASSUME NEW m \in Message, Works(m)
      PROVE  TogetherOK'
  <2>1. Message' = Message /\ together' = together
    BY <1>3 DEF Works, Alone
  <2>2. \A n \in Message : Running(n)' => Running(n)
    BY <1>3 DEF Works, Alone, Running
  <2>3. QED
    BY <2>1, <2>2 DEF TogetherOK, Overlapped, Subject
<1>4. CASE UNCHANGED vars
  BY <1>4 DEF TogetherOK, Overlapped, Running, Subject, vars, Message
<1>5. QED
  BY <1>1, <1>2, <1>3, <1>4, Kinds

LEMMA TogetherInit == Init => TogetherOK
<1> SUFFICES ASSUME Init PROVE TogetherOK
  OBVIOUS
<1>1. \A m \in Message : ~Running(m)
  BY DEF Init, Running, Waiting, Message
<1>2. QED
  BY <1>1 DEF TogetherOK

\* What is on record stays there.
LEMMA RecordStays ==
  ASSUME Typed, [Next]_vars
  PROVE  /\ Message' = Message /\ together \subseteq together'
         /\ passed \subseteq passed' /\ failed \subseteq failed'
BY Kinds DEF Begins, Works, Stops, Alone, vars, history, Message

------------------------------------------------------------------------------
(* What a step does to the documents.                                       *)

Fresh == Len(directory) + 1

\* d is the new last document.
Inserted(d) ==
  /\ d \in Document
  /\ Fresh \notin DOMAIN directory /\ DOMAIN directory' = DOMAIN directory \union {Fresh}
  /\ directory'[Fresh] = d
  /\ \A i \in DOMAIN directory : directory'[i] = directory[i]

\* The document keeps what tells whose it is.
Alike(d, e) == d.id = e.id /\ d.type = e.type /\ d.owner = e.owner

\* At most the document l changes, to d.
Rewritten(l, d) ==
  /\ DOMAIN directory' = DOMAIN directory
  /\ Alike(d, directory[l])
  /\ \A i \in DOMAIN directory : directory'[i] = IF i = l THEN d ELSE directory[i]

LEMMA AppendInserts ==
  ASSUME Typed, NEW d \in Document, directory' = Append(directory, d)
  PROVE  Inserted(d)
BY Added DEF Typed, Inserted, Fresh

LEMMA ExceptRewrites ==
  ASSUME Typed, NEW l \in DOMAIN directory, NEW d \in Document, Alike(d, directory[l]),
         directory' = [directory EXCEPT ![l] = d]
  PROVE  Rewritten(l, d)
BY Changed DEF Typed, Rewritten

\* What the handler of m does to the documents of the collection.
Effect(m) ==
  \/ directory' = directory /\ ~Saves(m) /\ ~Upserts(m)
  \/ m.topic = "account.created" /\ Saves(m) /\ Inserted(mapAccountCreated(m))
  \/ /\ m.topic = "location.created" /\ Saves(m)
     /\ Inserted(mapAccountLocationCreated(m, task[m].found))
  \/ /\ Upserts(m)
     /\ \/ ById(m.id) = {} /\ Inserted([New(m.id, "") EXCEPT !.hub = task[m].hub])
        \/ \E l \in ById(m.id) : Rewritten(l, [directory[l] EXCEPT !.hub = task[m].hub])
  \/ /\ Adopts(m)
     /\ \E l \in Orphans(m.id) :
          Rewritten(l, [directory[l] EXCEPT !.named = TRUE, !.accounts = TRUE])
  \/ /\ Edits(m)
     /\ \E l \in DOMAIN directory : Rewritten(l, [directory[l] EXCEPT !.edited = TRUE])

LEMMA Effects == ASSUME Typed, NEW m \in Message, Works(m) PROVE Effect(m)
<1>1. directory \in Seq(Document) /\ task[m] \in [pc : Place, found : BOOLEAN, hub : BOOLEAN]
  BY DEF Typed
<1>2. CASE Looks(m) /\ ~Saves(m) /\ ~Upserts(m)
  BY <1>2 DEF Looks, Effect
<1>3. CASE Saves(m)
  <2>1. mapAccountLocationCreated(m, task[m].found) \in Document
    BY <1>1, NewTyped
  <2>2. CASE m.topic = "account.created"
    <3>1. mapAccountCreated(m) \in Document
      BY <1>1, <2>2, NewTyped
    <3>2. directory' = Append(directory, mapAccountCreated(m))
      BY <1>3, <2>2 DEF Saves
    <3>3. QED
      BY <1>3, <2>2, <3>1, <3>2, AppendInserts DEF Effect
  <2>3. CASE m.topic = "location.created"
    <3>1. directory' = Append(directory, mapAccountLocationCreated(m, task[m].found))
      BY <1>3, <2>3 DEF Saves
    <3>2. QED
      BY <1>3, <2>1, <2>3, <3>1, AppendInserts DEF Effect
  <2>4. QED
    BY <1>3, <2>2, <2>3 DEF Saves
<1>4. CASE Upserts(m)
  <2> DEFINE d == [New(m.id, "") EXCEPT !.hub = task[m].hub]
  <2>1. CASE ById(m.id) = {} /\ directory' = Append(directory, d)
    <3>1. d \in Document
      BY <1>1, NewTyped
    <3>2. Inserted(d)
      BY <2>1, <3>1, AppendInserts
    <3>3. QED
      BY <1>4, <2>1, <3>2 DEF Effect
  <2>2. ASSUME NEW l \in ById(m.id),
               directory' = [directory EXCEPT ![l] = [directory[l] EXCEPT !.hub = task[m].hub]]
        PROVE  Effect(m)
    <3>1. l \in DOMAIN directory /\ directory[l] \in Document
      BY <1>1, ByIdIs
    <3>2. /\ [directory[l] EXCEPT !.hub = task[m].hub] \in Document
          /\ Alike([directory[l] EXCEPT !.hub = task[m].hub], directory[l])
      BY <1>1, <3>1 DEF Document, Alike
    <3>3. Rewritten(l, [directory[l] EXCEPT !.hub = task[m].hub])
      BY <2>2, <3>1, <3>2, ExceptRewrites
    <3>4. QED
      BY <1>4, <3>3 DEF Effect
  <2>3. QED
    BY <1>4, <2>1, <2>2 DEF Upserts
<1>5. CASE Adopts(m)
  <2>1. ~Saves(m) /\ ~Upserts(m)
    BY <1>5 DEF Adopts, Saves, Upserts
  <2>2. ASSUME NEW l \in Orphans(m.id),
               directory' = [directory EXCEPT ![l] =
                               [directory[l] EXCEPT !.named = TRUE, !.accounts = TRUE]]
        PROVE  Effect(m)
    <3>1. l \in DOMAIN directory /\ directory[l] \in Document
      BY <1>1, OrphansIs
    <3>2. /\ [directory[l] EXCEPT !.named = TRUE, !.accounts = TRUE] \in Document
          /\ Alike([directory[l] EXCEPT !.named = TRUE, !.accounts = TRUE], directory[l])
      BY <3>1 DEF Document, Alike
    <3>3. Rewritten(l, [directory[l] EXCEPT !.named = TRUE, !.accounts = TRUE])
      BY <2>2, <3>1, <3>2, ExceptRewrites
    <3>4. QED
      BY <1>5, <3>3 DEF Effect
  <2>3. QED
    BY <1>5, <2>1, <2>2 DEF Adopts, Effect
<1>6. CASE Edits(m)
  <2>1. ~Saves(m) /\ ~Upserts(m)
    <3>1. task[m].pc \in Places(m.topic)
      BY DEF Typed
    <3>2. QED
      BY <1>6, <3>1 DEF Edits, Saves, Upserts, Places, ClaimTopic
  <2>2. ASSUME NEW l \in DOMAIN directory,
               directory' = [directory EXCEPT ![l] = [directory[l] EXCEPT !.edited = TRUE]]
        PROVE  Effect(m)
    <3>1. directory[l] \in Document
      BY <1>1
    <3>2. /\ [directory[l] EXCEPT !.edited = TRUE] \in Document
          /\ Alike([directory[l] EXCEPT !.edited = TRUE], directory[l])
      BY <3>1 DEF Document, Alike
    <3>3. Rewritten(l, [directory[l] EXCEPT !.edited = TRUE])
      BY <2>2, <3>2, ExceptRewrites
    <3>4. QED
      BY <1>6, <3>3 DEF Effect
  <2>3. QED
    BY <1>6, <2>1, <2>2 DEF Edits, Effect
<1>7. QED
  BY <1>2, <1>3, <1>4, <1>5, <1>6 DEF Works

\* Which documents have an id: those that had it, and a new one of m's.
LEMMA ByIdStep ==
  ASSUME Typed, NEW m \in Message, Works(m), NEW id
  PROVE  \/ ById(id)' = ById(id)
         \/ /\ id = m.id /\ ById(id)' = ById(id) \union {Fresh}
            /\ \/ Saves(m) /\ m.topic \in CreatedTopic
               \/ Upserts(m) /\ ById(id) = {}
<1>0. Effect(m)
  BY Effects
<1>1. ASSUME NEW l, NEW d, Rewritten(l, d) PROVE ById(id)' = ById(id)
  BY <1>1, ByIdIs, ByIdNext DEF Rewritten, Alike
<1>2. ASSUME NEW d, Inserted(d), d.id = m.id
      PROVE  IF id = m.id THEN ById(id)' = ById(id) \union {Fresh} ELSE ById(id)' = ById(id)
  BY <1>2, ByIdIs, ByIdNext DEF Inserted
<1>3. CASE directory' = directory
  BY <1>3, ByIdIs, ByIdNext
<1>4. CASE m.topic = "account.created" /\ Saves(m) /\ Inserted(mapAccountCreated(m))
  <2>1. mapAccountCreated(m).id = m.id
    BY DEF mapAccountCreated, New
  <2>2. IF id = m.id THEN ById(id)' = ById(id) \union {Fresh} ELSE ById(id)' = ById(id)
    BY <1>2, <1>4, <2>1
  <2>3. QED
    BY <1>4, <2>2 DEF CreatedTopic
<1>5. CASE m.topic = "location.created" /\ Saves(m)
           /\ Inserted(mapAccountLocationCreated(m, task[m].found))
  <2>1. mapAccountLocationCreated(m, task[m].found).id = m.id
    BY DEF mapAccountLocationCreated, New
  <2>2. IF id = m.id THEN ById(id)' = ById(id) \union {Fresh} ELSE ById(id)' = ById(id)
    BY <1>2, <1>5, <2>1
  <2>3. QED
    BY <1>5, <2>2 DEF CreatedTopic
<1>6. CASE Upserts(m) /\ ById(m.id) = {} /\ Inserted([New(m.id, "") EXCEPT !.hub = task[m].hub])
  <2>1. [New(m.id, "") EXCEPT !.hub = task[m].hub].id = m.id
    BY DEF New
  <2>2. QED
    BY <1>2, <1>6, <2>1
<1>7. QED
  BY <1>0, <1>1, <1>3, <1>4, <1>5, <1>6 DEF Effect

------------------------------------------------------------------------------
(* One document for each id.                                                *)

\* Two handlers that insert documents of this id ran at once.
Twice(id) ==
  \E m, n \in Message : m # n /\ Inserts(m, id) /\ Inserts(n, id) /\ Overlapped(m, n)

\* There is one document of this id at most; and none, if one is about to be
\* inserted without another look.
Single(id) ==
  /\ \A i, j \in ById(id) : i = j
  /\ \A m \in Message :
       m.id = id /\ m.topic \in CreatedTopic /\ task[m].pc = "save" => ById(id) = {}

SingleOK == \A id \in Id : Twice(id) \/ Single(id)

LEMMA TwiceStays == ASSUME Typed, [Next]_vars, NEW id, Twice(id) PROVE Twice(id)'
BY RecordStays DEF Twice, Overlapped

\* Two that insert documents of one id and run at once.
LEMMA TwiceNow ==
  ASSUME Typed, TogetherOK, NEW id, NEW m \in Message, NEW n \in Message, m # n,
         Inserts(m, id), Inserts(n, id), Running(m), Running(n)
  PROVE  Twice(id)
<1>1. id \in Subject(m) \intersect Subject(n)
  BY DEF Inserts, Subject
<1>2. Overlapped(m, n)
  BY <1>1 DEF TogetherOK
<1>3. QED
  BY <1>2 DEF Twice

LEMMA SingleStep ==
  ASSUME Typed, TogetherOK, SingleOK, [Next]_vars PROVE SingleOK'
<1> SUFFICES ASSUME NEW id \in Id, ~Twice(id) PROVE Single(id)'
  BY TwiceStays DEF SingleOK
<1>0. Single(id)
  BY DEF SingleOK
<1>1. CASE Stops
  <2>1. ById(id)' = ById(id)
    BY <1>1, ByIdIs, ByIdNext DEF Stops
  <2>2. \A m \in Message : task'[m].pc # "save"
    BY <1>1 DEF Stops, Dropped, Waiting, Running
  <2>3. Message' = Message
    BY <1>1 DEF Stops
  <2>4. QED
    BY <1>0, <2>1, <2>2, <2>3 DEF Single
<1>2. ASSUME NEW m \in Message, Begins(m) PROVE Single(id)'
  <2>1. ById(id)' = ById(id)
    BY <1>2, ByIdIs, ByIdNext DEF Begins
  <2>2. m.topic \in CreatedTopic => task'[m].pc # "save"
    BY <1>2 DEF Begins, Goes, First, CreatedTopic, Typed
  <2>3. Message' = Message /\ \A n \in Message \ {m} : task'[n] = task[n]
    BY <1>2 DEF Begins, Alone
  <2>4. QED
    BY <1>0, <2>1, <2>2, <2>3 DEF Single
<1>3. ASSUME NEW m \in Message, Works(m) PROVE Single(id)'
  <2>1. Running(m) /\ Message' = Message /\ \A n \in Message \ {m} : task'[n] = task[n]
    BY <1>3 DEF Works, Alone
  <2>2. task[m].pc \in Places(m.topic) /\ task[m] \in [pc : Place, found : BOOLEAN, hub : BOOLEAN]
    BY DEF Typed
  <2>3. CASE ById(id)' = ById(id)
    <3>1. ASSUME m.id = id, m.topic \in CreatedTopic, task'[m].pc = "save"
          PROVE  ById(id) = {}
      BY <1>3, <2>2, <3>1
      DEF Works, Looks, Saves, Upserts, Adopts, Edits, Goes, AfterLink, AfterFailure, CreatedTopic, ClaimTopic
    <3>2. QED
      BY <1>0, <2>1, <2>3, <3>1 DEF Single
  <2>4. CASE /\ id = m.id /\ ById(id)' = ById(id) \union {Fresh}
             /\ \/ Saves(m) /\ m.topic \in CreatedTopic
                \/ Upserts(m) /\ ById(id) = {}
    <3>1. ById(id) = {}
      BY <1>0, <2>4 DEF Single, Saves
    <3>2. Inserts(m, id) /\ task'[m].pc # "save"
      BY <2>2, <2>4
      DEF Saves, Upserts, Goes, Inserts, Places, CreatedTopic, ClaimTopic, AccountTopic
    <3>3. ASSUME NEW n \in Message \ {m}, n.id = id, n.topic \in CreatedTopic, task[n].pc = "save"
          PROVE  FALSE
      <4>1. Inserts(n, id) /\ Running(n)
        BY <3>3 DEF Inserts, Running, CreatedTopic, AccountTopic
      <4>2. QED
        BY <2>1, <3>2, <4>1, TwiceNow
    <3>4. QED
      BY <2>1, <2>4, <3>1, <3>2, <3>3 DEF Single
  <2>5. QED
    BY <1>3, <2>3, <2>4, ByIdStep
<1>4. CASE UNCHANGED vars
  <2>1. ById(id)' = ById(id)
    BY <1>4, ByIdIs, ByIdNext DEF vars
  <2>2. QED
    BY <1>0, <1>4, <2>1 DEF Single, vars, Message
<1>5. QED
  BY <1>1, <1>2, <1>3, <1>4, Kinds

LEMMA SingleIs == Typed /\ SingleOK => OneDocumentPerId
<1> SUFFICES ASSUME Typed, SingleOK, NEW i \in DOMAIN directory,
                    Cardinality(ById(directory[i].id)) > 1
             PROVE  Twice(directory[i].id)
  BY DEF OneDocumentPerId, Twice
<1> DEFINE id == directory[i].id
<1>0. directory[i] \in Document
  BY DEF Typed
<1>1. id \in Id
  BY <1>0 DEF Document
<1>2. CASE Single(id)
  <2>1. i \in ById(id)
    BY ByIdIs
  <2>2. ById(id) = {i}
    BY <1>2, <2>1 DEF Single
  <2>3. Cardinality({i}) = 1
    BY FS_Singleton
  <2>4. Cardinality(ById(id)) = 1
    BY <2>2, <2>3
  <2>5. QED
    BY <2>4
<1>3. QED
  BY <1>1, <1>2 DEF SingleOK

\* The checks before the inserts keep one document for each account and
\* location, unless two handlers of one id ran at once.
THEOREM OneDocument == Spec => []OneDocumentPerId
<1> DEFINE Inv == Typed /\ TogetherOK /\ SingleOK
<1>1. Init => Inv
  <2>1. ASSUME Init PROVE SingleOK
    <3>1. directory = <<>> /\ DOMAIN directory = {}
      BY <2>1 DEF Init
    <3>2. \A id : ById(id) = {}
      BY <3>1, ByIdIs
    <3>3. QED
      BY <3>2 DEF SingleOK, Single
  <2>2. QED
    BY <2>1, TypedInit, TogetherInit
<1>2. Inv /\ [Next]_vars => Inv'
  BY TypedStep, TogetherStep, SingleStep
<1>3. Inv => OneDocumentPerId
  BY SingleIs
<1> HIDE DEF Inv
<1>4. QED
  BY <1>1, <1>2, <1>3, PTL DEF Spec

------------------------------------------------------------------------------
(* useDeliveryHub survives.                                                 *)

\* A changed message of the account was handled together with its created one.
Crossed(m) ==
  \E n \in Message : n.topic = "account.changed" /\ n.id = m.id /\ Overlapped(m, n)

\* Until the account is saved its id has no document but those without type;
\* from then on every document and every handler about to write has the flag.
HubAt(m) ==
  /\ task[m].pc = "save" => ById(m.id) = {}
  /\ \/ \A i \in ById(m.id) : directory[i].type = ""
     \/ /\ \A i \in ById(m.id) : directory[i].hub
        /\ \A n \in Message :
             n.topic = "account.changed" /\ n.id = m.id
               /\ task[n].pc \in {"link", "adopt", "upsert"} => task[n].hub

HubOK ==
  \A m \in Message : m.topic = "account.created" /\ m.hub => Crossed(m) \/ HubAt(m)

LEMMA CrossedStays ==
  ASSUME Typed, [Next]_vars, NEW m \in Message, Crossed(m) PROVE Crossed(m)'
BY RecordStays DEF Crossed, Overlapped

LEMMA CrossedNow ==
  ASSUME Typed, TogetherOK, NEW m \in Message, NEW n \in Message,
         m.topic = "account.created", n.topic = "account.changed", n.id = m.id,
         Running(m), Running(n)
  PROVE  Crossed(m)
<1>1. m # n /\ m.id \in Subject(m) \intersect Subject(n)
  BY DEF Subject
<1>2. QED
  BY <1>1 DEF TogetherOK, Crossed

\* What becomes of a document that is there.
LEMMA DocumentStep ==
  ASSUME Typed, NEW m \in Message, Works(m), NEW i \in DOMAIN directory
  PROVE  /\ i \in DOMAIN directory' /\ Alike(directory'[i], directory[i])
         /\ \/ directory'[i].hub = directory[i].hub
            \/ Upserts(m) /\ i \in ById(m.id) /\ directory'[i].hub = task[m].hub
<1>0. Effect(m) /\ directory[i] \in Document
  BY Effects DEF Typed
<1>1. CASE directory' = directory
  BY <1>1 DEF Alike
<1>2. ASSUME NEW d, Inserted(d)
      PROVE  i \in DOMAIN directory' /\ directory'[i] = directory[i]
  BY <1>2 DEF Inserted
<1>3. ASSUME NEW l \in DOMAIN directory, NEW d, Rewritten(l, d)
      PROVE  /\ i \in DOMAIN directory' /\ Alike(directory'[i], directory[i])
             /\ directory'[i] = IF i = l THEN d ELSE directory[i]
  BY <1>3 DEF Rewritten, Alike
<1>4. ASSUME NEW l \in ById(m.id), Upserts(m),
             Rewritten(l, [directory[l] EXCEPT !.hub = task[m].hub])
      PROVE  /\ i \in DOMAIN directory' /\ Alike(directory'[i], directory[i])
             /\ \/ directory'[i].hub = directory[i].hub
                \/ Upserts(m) /\ i \in ById(m.id) /\ directory'[i].hub = task[m].hub
  <2>1. l \in DOMAIN directory /\ directory[l] \in Document
    BY ByIdIs DEF Typed
  <2>2. [directory[l] EXCEPT !.hub = task[m].hub].hub = task[m].hub
    BY <2>1 DEF Document
  <2>3. QED
    BY <1>3, <1>4, <2>1, <2>2
<1>5. ASSUME NEW l \in DOMAIN directory, NEW d, Rewritten(l, d), d.hub = directory[l].hub
      PROVE  /\ i \in DOMAIN directory' /\ Alike(directory'[i], directory[i])
             /\ directory'[i].hub = directory[i].hub
  BY <1>3, <1>5
<1>6. ASSUME NEW l \in DOMAIN directory
      PROVE  /\ [directory[l] EXCEPT !.named = TRUE, !.accounts = TRUE].hub = directory[l].hub
             /\ [directory[l] EXCEPT !.edited = TRUE].hub = directory[l].hub
  <2>1. directory[l] \in Document
    BY DEF Typed
  <2>2. QED
    BY <2>1 DEF Document
<1>7. Orphans(m.id) \subseteq DOMAIN directory
  BY OrphansIs
<1>8. ASSUME NEW d, Inserted(d)
      PROVE  /\ i \in DOMAIN directory' /\ Alike(directory'[i], directory[i])
             /\ directory'[i].hub = directory[i].hub
  BY <1>2, <1>8 DEF Alike
<1>9. QED
  BY <1>0, <1>1, <1>4, <1>5, <1>6, <1>7, <1>8 DEF Effect

\* The created messages of an id are one, and no location has its id.
LEMMA OneCreated ==
  ASSUME Typed, NEW m \in Message, NEW n \in Message, m.topic = "account.created", n.id = m.id
  PROVE  /\ n.topic \in CreatedTopic => n = m
         /\ n.topic # "location.changed"
BY IdAssumption DEF Typed, CreatedTopic

LEMMA HubStep == ASSUME Typed, TogetherOK, HubOK, [Next]_vars PROVE HubOK'
<1>0. Message' = Message
  BY RecordStays
<1> SUFFICES ASSUME NEW m \in Message, m.topic = "account.created", m.hub, ~Crossed(m)
             PROVE  HubAt(m)'
  BY <1>0, CrossedStays DEF HubOK
<1> DEFINE Changes(n) == n.topic = "account.changed" /\ n.id = m.id
           Writing == {"link", "adopt", "upsert"}
<1>1. HubAt(m)
  BY DEF HubOK
<1>2. CASE Stops
  <2>1. ById(m.id)' = ById(m.id)
    BY <1>2, ByIdIs, ByIdNext DEF Stops
  <2>2. \A n \in Message : task'[n].pc \notin {"save", "link", "adopt", "upsert"}
    BY <1>2 DEF Stops, Dropped, Waiting, Running
  <2>3. QED
    BY <1>0, <1>1, <1>2, <2>1, <2>2 DEF HubAt, Stops
<1>3. ASSUME NEW n \in Message, Begins(n) PROVE HubAt(m)'
  <2>1. ById(m.id)' = ById(m.id)
    BY <1>3, ByIdIs, ByIdNext DEF Begins
  <2>2. n.topic \in CreatedTopic \union {"account.changed"} =>
          task'[n].pc \notin {"save", "link", "adopt", "upsert"}
    BY <1>3 DEF Begins, Goes, First, CreatedTopic, Typed
  <2>3. \A q \in Message \ {n} : task'[q] = task[q]
    BY <1>3 DEF Begins, Alone
  <2>4. directory' = directory
    BY <1>3 DEF Begins
  <2>5. QED
    BY <1>0, <1>1, <2>1, <2>2, <2>3, <2>4 DEF HubAt, CreatedTopic
<1>4. ASSUME NEW n \in Message, Works(n) PROVE HubAt(m)'
  <2>1. Running(n) /\ \A q \in Message \ {n} : task'[q] = task[q]
    BY <1>4 DEF Works, Alone
  <2>2. task[n].pc \in Places(n.topic) /\ task[n] \in [pc : Place, found : BOOLEAN, hub : BOOLEAN]
    BY DEF Typed
  <2>3. CASE Saves(n) /\ n.topic \in CreatedTopic /\ n.id = m.id
    <3>1. n = m
      BY <2>3, OneCreated
    <3>2. ById(m.id) = {} /\ task'[m].pc # "save"
      BY <1>1, <2>2, <2>3, <3>1 DEF HubAt, Saves, Goes
    <3>3. Inserted(mapAccountCreated(m))
      BY <1>4, <2>3, <3>1, Effects DEF Effect, Saves, Upserts, Adopts, Edits, Typed
    <3>4. mapAccountCreated(m).id = m.id /\ mapAccountCreated(m).hub = m.hub
      BY DEF mapAccountCreated, New
    <3>5. ById(m.id)' = {Fresh} /\ directory'[Fresh].hub
      BY <3>2, <3>3, <3>4, ByIdIs, ByIdNext DEF Inserted
    <3>6. \A q \in Message : Changes(q) => task'[q].pc \notin Writing
      <4>1. ASSUME NEW q \in Message, Changes(q), task'[q].pc \in Writing PROVE FALSE
        <5>1. q # m /\ task'[q] = task[q]
          BY <2>1, <3>1, <4>1
        <5>2. Running(q) /\ Running(m)
          BY <2>1, <3>1, <4>1, <5>1 DEF Running
        <5>3. QED
          BY <4>1, <5>2, CrossedNow
      <4>2. QED
        BY <4>1
    <3>7. QED
      BY <1>0, <3>2, <3>5, <3>6 DEF HubAt
  <2>4. CASE Upserts(n) /\ n.id = m.id /\ ById(m.id) = {}
    <3>1. n.topic = "account.changed"
      BY <2>2, <2>4, OneCreated DEF Upserts, Places, ClaimTopic
    <3>2. ~Running(m) /\ n # m
      BY <2>1, <2>4, <3>1, CrossedNow
    <3>3. Inserted([New(n.id, "") EXCEPT !.hub = task[n].hub])
      <4>1. \A l : l \notin ById(n.id)
        BY <2>4
      <4>2. QED
        BY <1>4, <2>2, <2>4, <3>1, <4>1, Effects DEF Effect, Saves, Upserts, Adopts, Edits
    <3>4. PICK d : Inserted(d) /\ d.type = ""
      <4>1. [New(n.id, "") EXCEPT !.hub = task[n].hub].type = ""
        BY DEF New
      <4>2. QED
        BY <3>3, <4>1
    <3>5. \A i \in ById(m.id)' : directory'[i].type = ""
      <4>1. ById(m.id)' \subseteq {Fresh}
        BY <2>4, <3>4, ByIdIs, ByIdNext DEF Inserted
      <4>2. QED
        BY <3>4, <4>1 DEF Inserted
    <3>6. task'[m].pc # "save"
      BY <2>1, <3>2 DEF Running
    <3>7. QED
      BY <3>5, <3>6 DEF HubAt
  <2>5. CASE ById(m.id)' = ById(m.id)
    <3>1. ASSUME task'[m].pc = "save" PROVE ById(m.id) = {}
      <4>1. CASE n = m
        BY <1>4, <2>2, <3>1, <4>1
        DEF Works, Looks, Saves, Upserts, Adopts, Edits, Goes, AfterLink, AfterFailure, ClaimTopic
      <4>2. CASE n # m
        BY <1>1, <2>1, <3>1, <4>2 DEF HubAt
      <4>3. QED
        BY <4>1, <4>2
    <3>2. ById(m.id) \subseteq DOMAIN directory
      BY ByIdIs
    <3>3. CASE \A i \in ById(m.id) : directory[i].type = ""
      <4>1. \A i \in ById(m.id)' : directory'[i].type = ""
        BY <1>4, <2>5, <3>2, <3>3, DocumentStep DEF Alike
      <4>2. QED
        BY <2>5, <3>1, <4>1 DEF HubAt
    <3>4. CASE /\ ~ \A i \in ById(m.id) : directory[i].type = ""
               /\ \A i \in ById(m.id) : directory[i].hub
               /\ \A q \in Message : Changes(q) /\ task[q].pc \in Writing => task[q].hub
      <4>1. ASSUME NEW i \in ById(m.id) PROVE directory'[i].hub
        <5>1. CASE directory'[i].hub = directory[i].hub
          BY <3>4, <5>1
        <5>2. CASE Upserts(n) /\ i \in ById(n.id) /\ directory'[i].hub = task[n].hub
          <6>1. n.id = m.id
            BY <5>2, ByIdIs
          <6>2. n.topic = "account.changed"
            BY <2>2, <5>2, <6>1, OneCreated DEF Upserts, Places, ClaimTopic
          <6>3. QED
            BY <3>4, <5>2, <6>1, <6>2 DEF Upserts
        <5>3. QED
          BY <1>4, <3>2, <5>1, <5>2, DocumentStep
      <4>2. ASSUME NEW q \in Message, Changes(q), task'[q].pc \in Writing PROVE task'[q].hub
        <5>1. CASE q # n
          BY <2>1, <3>4, <4>2, <5>1
        <5>2. CASE q = n /\ task[n].pc = "read"
          <6>0. AfterFailure(n) = "commit"
            BY <4>2, <5>2 DEF AfterFailure
          <6>1. task'[n].hub = (ById(n.id) # {} /\ directory[Least(ById(n.id))].hub)
            BY <1>4, <2>2, <4>2, <5>2, <6>0
            DEF Works, Looks, Saves, Upserts, Adopts, Edits, Goes, CreatedTopic, ClaimTopic
          <6>2. ById(m.id) # {}
            BY <3>4
          <6>3. Least(ById(m.id)) \in ById(m.id)
            BY <3>2, <6>2, FoundIn
          <6>4. directory[Least(ById(m.id))].hub
            BY <3>4, <6>3
          <6>5. n.id = m.id
            BY <4>2, <5>2
          <6>6. QED
            BY <5>2, <6>1, <6>2, <6>4, <6>5
        <5>3. CASE q = n /\ task[n].pc # "read"
          <6>1. task[n].pc \in Writing /\ task'[n].hub = task[n].hub
            BY <1>4, <2>2, <4>2, <5>3
            DEF Works, Looks, Saves, Upserts, Adopts, Edits, Goes, AfterLink, AfterFailure, CreatedTopic,
                ClaimTopic, Places
          <6>2. QED
            BY <3>4, <4>2, <5>3, <6>1
        <5>4. QED
          BY <5>1, <5>2, <5>3
      <4>3. QED
        BY <1>0, <2>5, <3>1, <4>1, <4>2 DEF HubAt
    <3>5. QED
      BY <1>1, <3>3, <3>4 DEF HubAt
  <2>6. QED
    BY <1>4, <2>3, <2>4, <2>5, ByIdStep
<1>5. CASE UNCHANGED vars
  <2>1. ById(m.id)' = ById(m.id)
    BY <1>5, ByIdIs, ByIdNext DEF vars
  <2>2. QED
    BY <1>0, <1>1, <1>5, <2>1 DEF HubAt, vars
<1>6. QED
  BY <1>2, <1>3, <1>4, <1>5, Kinds

\* useDeliveryHub of an account survives its changed messages, unless one was
\* handled together with the message that created it.
THEOREM HubAlwaysKept == Spec => []HubKept
<1> DEFINE Inv == Typed /\ TogetherOK /\ HubOK
<1>1. Init => Inv
  <2>1. ASSUME Init PROVE HubOK
    <3>1. directory = <<>> /\ DOMAIN directory = {}
      BY <2>1 DEF Init
    <3>2. \A id : ById(id) = {}
      BY <3>1, ByIdIs
    <3>3. QED
      BY <3>2 DEF HubOK, HubAt
  <2>2. QED
    BY <2>1, TypedInit, TogetherInit
<1>2. Inv /\ [Next]_vars => Inv'
  BY TypedStep, TogetherStep, HubStep
<1>3. Inv => HubKept
  <2>1. ASSUME Inv, NEW m \in Message, m.topic = "account.created", m.hub,
               NEW i \in Accounts(m.id), ~directory[i].hub
        PROVE  Crossed(m)
    <3>1. i \in ById(m.id) /\ directory[i].type = "account"
      BY ByIdIs, AccountsIs
    <3>2. QED
      BY <2>1, <3>1 DEF HubOK, HubAt
  <2>2. QED
    BY <2>1 DEF HubKept, Crossed
<1> HIDE DEF Inv
<1>4. QED
  BY <1>1, <1>2, <1>3, PTL DEF Spec

------------------------------------------------------------------------------
(* Locations know their account.                                            *)

\* The exceptions of UnlinkedExplained.
Excused(m) ==
  \/ \E n \in Message : AboutAccount(n, m.tenant) /\ Overlapped(m, n)
  \/ m.id \in passed
  \/ \E i \in ById(m.id) \union ById(m.tenant) : directory[i].type = ""

\* The account's handler has saved it and has not adopted its location yet.
Linking(id) ==
  \E n \in Message : n.topic = "account.created" /\ n.id = id /\ task[n].pc \in {"link", "adopt"}

\* A location has one document; and it does not wait for an account that is
\* known, unless that one is being linked.
LinkAt(m) ==
  /\ task[m].pc = "save" => ById(m.id) = {}
  /\ task[m].pc \in {"exists", "save"} /\ ~task[m].found => Accounts(m.tenant) = {}
  /\ \A i, j \in ById(m.id) : i = j
  /\ \A i \in ById(m.id) :
       /\ directory[i].owner = m.tenant /\ directory[i].named = directory[i].accounts
       /\ directory[i].accounts \/ Accounts(m.tenant) = {} \/ Linking(m.tenant)

LinkOK == \A m \in Message : m.topic = "location.created" => Excused(m) \/ LinkAt(m)

\* Documents with an id stay, and keep their type.
LEMMA ByIdStays ==
  ASSUME Typed, [Next]_vars, NEW id
  PROVE  /\ ById(id) \subseteq ById(id)'
         /\ \A i \in ById(id) : directory'[i].type = directory[i].type
<1>1. CASE directory' = directory
  BY <1>1, ByIdIs, ByIdNext
<1>2. ASSUME NEW m \in Message, Works(m)
      PROVE  /\ ById(id) \subseteq ById(id)'
             /\ \A i \in ById(id) : directory'[i].type = directory[i].type
  <2>1. \A i \in ById(id) : i \in DOMAIN directory /\ directory[i].id = id
    BY ByIdIs
  <2>2. \A i \in ById(id) : i \in DOMAIN directory' /\ Alike(directory'[i], directory[i])
    BY <1>2, <2>1, DocumentStep
  <2>3. QED
    BY <2>1, <2>2, ByIdNext DEF Alike
<1>3. QED
  BY <1>1, <1>2, Kinds DEF Begins, Stops, vars

LEMMA ExcusedStays ==
  ASSUME Typed, [Next]_vars, NEW m \in Message, Excused(m) PROVE Excused(m)'
<1>1. Message' = Message /\ together \subseteq together' /\ passed \subseteq passed'
  BY RecordStays
<1>2. /\ ById(m.id) \subseteq ById(m.id)'
      /\ \A i \in ById(m.id) : directory'[i].type = directory[i].type
  BY ByIdStays
<1>3. /\ ById(m.tenant) \subseteq ById(m.tenant)'
      /\ \A i \in ById(m.tenant) : directory'[i].type = directory[i].type
  BY ByIdStays
<1>4. CASE \E n \in Message : AboutAccount(n, m.tenant) /\ Overlapped(m, n)
  BY <1>1, <1>4 DEF Excused, Overlapped, AboutAccount
<1>5. CASE m.id \in passed
  BY <1>1, <1>5 DEF Excused
<1>6. CASE \E i \in ById(m.id) \union ById(m.tenant) : directory[i].type = ""
  BY <1>2, <1>3, <1>6 DEF Excused
<1>7. QED
  BY <1>4, <1>5, <1>6 DEF Excused

\* Handlers of a location and of its account that run at once.
LEMMA ExcusedNow ==
  ASSUME Typed, TogetherOK, NEW m \in Message, NEW n \in Message,
         m.topic = "location.created", AboutAccount(n, m.tenant), Running(m), Running(n)
  PROVE  Excused(m)
<1>1. m # n /\ m.tenant \in Subject(m) \intersect Subject(n)
  BY DEF Subject, AboutAccount
<1>2. Overlapped(m, n)
  BY <1>1 DEF TogetherOK
<1>3. QED
  BY <1>2 DEF Excused

\* Who knows the account: a document that is there learns it only when it is
\* adopted.
LEMMA LinkStep ==
  ASSUME Typed, NEW m \in Message, Works(m), NEW i \in DOMAIN directory
  PROVE  \/ /\ directory'[i].named = directory[i].named
            /\ directory'[i].accounts = directory[i].accounts
         \/ /\ Adopts(m) /\ i \in Orphans(m.id)
            /\ directory'[i].named = TRUE /\ directory'[i].accounts = TRUE
<1>0. Effect(m) /\ directory[i] \in Document
  BY Effects DEF Typed
<1>1. CASE directory' = directory \/ \E d : Inserted(d)
  BY <1>1 DEF Inserted
<1>2. ASSUME NEW l \in DOMAIN directory, NEW d, Rewritten(l, d),
             d.named = directory[l].named, d.accounts = directory[l].accounts
      PROVE  /\ directory'[i].named = directory[i].named
             /\ directory'[i].accounts = directory[i].accounts
  BY <1>2 DEF Rewritten
<1>3. ASSUME NEW l \in DOMAIN directory, NEW b
      PROVE  /\ [directory[l] EXCEPT !.hub = b].named = directory[l].named
             /\ [directory[l] EXCEPT !.hub = b].accounts = directory[l].accounts
             /\ [directory[l] EXCEPT !.edited = b].named = directory[l].named
             /\ [directory[l] EXCEPT !.edited = b].accounts = directory[l].accounts
  <2>1. directory[l] \in Document
    BY DEF Typed
  <2>2. QED
    BY <2>1 DEF Document
<1>4. ASSUME NEW l \in Orphans(m.id), Adopts(m),
             Rewritten(l, [directory[l] EXCEPT !.named = TRUE, !.accounts = TRUE])
      PROVE  \/ /\ directory'[i].named = directory[i].named
                /\ directory'[i].accounts = directory[i].accounts
             \/ /\ Adopts(m) /\ i \in Orphans(m.id)
                /\ directory'[i].named = TRUE /\ directory'[i].accounts = TRUE
  <2>1. l \in DOMAIN directory /\ directory[l] \in Document
    BY OrphansIs DEF Typed
  <2>2. /\ [directory[l] EXCEPT !.named = TRUE, !.accounts = TRUE].named = TRUE
        /\ [directory[l] EXCEPT !.named = TRUE, !.accounts = TRUE].accounts = TRUE
    BY <2>1 DEF Document
  <2>3. QED
    BY <1>4, <2>2 DEF Rewritten
<1>5. ById(m.id) \subseteq DOMAIN directory
  BY ByIdIs
<1>6. QED
  BY <1>0, <1>1, <1>2, <1>3, <1>4, <1>5 DEF Effect

\* The handler that adopts leaves out only documents that go on record.
LEMMA AdoptStep ==
  ASSUME Typed, NEW m \in Message, Works(m), Adopts(m), NEW i \in Orphans(m.id),
         directory[i].id \notin passed'
  PROVE  directory'[i].accounts = TRUE
<1>1. PICK l \in Orphans(m.id) :
        /\ directory' = [directory EXCEPT ![l] =
                           [directory[l] EXCEPT !.named = TRUE, !.accounts = TRUE]]
        /\ Ids(Orphans(m.id) \ {l}) \subseteq passed'
  BY DEF Adopts
<1>2. l = i
  BY <1>1 DEF Ids
<1>3. i \in DOMAIN directory /\ directory[i] \in Document
  BY OrphansIs DEF Typed
<1>4. QED
  BY <1>1, <1>2, <1>3 DEF Document

\* The accounts of an id: a step adds one only by saving it.
LEMMA AccountsStep ==
  ASSUME Typed, NEW m \in Message, Works(m), NEW id
  PROVE  \/ Accounts(id)' = Accounts(id)
         \/ m.topic = "account.created" /\ Saves(m) /\ m.id = id
<1>0. Effect(m)
  BY Effects
<1>1. ASSUME NEW l, NEW d, Rewritten(l, d) PROVE Accounts(id)' = Accounts(id)
  BY <1>1, AccountsIs, AccountsNext DEF Rewritten, Alike
<1>2. ASSUME NEW d, Inserted(d), d.id # id \/ d.type # "account"
      PROVE  Accounts(id)' = Accounts(id)
  BY <1>2, AccountsIs, AccountsNext DEF Inserted
<1>3. CASE directory' = directory
  BY <1>3, AccountsIs, AccountsNext
<1>4. mapAccountCreated(m).id = m.id
  BY DEF mapAccountCreated, New
<1>5. mapAccountLocationCreated(m, task[m].found).type = "location"
  BY DEF mapAccountLocationCreated, New
<1>6. [New(m.id, "") EXCEPT !.hub = task[m].hub].type = ""
  BY DEF New
<1>7. QED
  BY <1>0, <1>1, <1>2, <1>3, <1>4, <1>5, <1>6 DEF Effect

\* A location message is the only created message of its id.
LEMMA OneLocation ==
  ASSUME Typed, NEW m \in Message, NEW n \in Message, m.topic = "location.created", n.id = m.id
  PROVE  n.topic \in CreatedTopic => n = m
BY IdAssumption DEF Typed, CreatedTopic

\* What a document says that is inserted while m is not excused.
LEMMA LinkInserts ==
  ASSUME Typed, NEW m \in Message, m.topic = "location.created", ~Excused(m)',
         NEW n \in Message, Works(n), NEW d, Inserted(d)
  PROVE  \/ d.id # m.id
         \/ /\ n = m /\ Saves(m) /\ d.id = m.id /\ d.owner = m.tenant
            /\ d.named = task[m].found /\ d.accounts = task[m].found
<1>0. Effect(n) /\ Message' = Message /\ m.tenant # ""
  BY Effects, MessageAssumption DEF Works, Alone, Typed
<1>1. d = directory'[Fresh] /\ DOMAIN directory' # DOMAIN directory
  BY DEF Inserted
<1>2. CASE n.topic = "account.created" /\ d = mapAccountCreated(n)
  <2>1. d.id = n.id /\ d.owner = ""
    BY <1>2 DEF mapAccountCreated, New
  <2>2. n.id # m.id
    BY <1>2, OneLocation DEF CreatedTopic
  <2>3. QED
    BY <1>0, <2>1, <2>2
<1>3. CASE n.topic = "location.created" /\ Saves(n)
           /\ d = mapAccountLocationCreated(n, task[n].found)
  <2>1. /\ d.id = n.id /\ d.owner = n.tenant
        /\ d.named = task[n].found /\ d.accounts = task[n].found
    BY <1>3 DEF mapAccountLocationCreated, New
  <2>2. n.id = m.id => n = m
    BY <1>3, OneLocation DEF CreatedTopic
  <2>3. QED
    BY <1>3, <2>1, <2>2
<1>4. CASE d = [New(n.id, "") EXCEPT !.hub = task[n].hub]
  <2>1. d.id = n.id /\ d.owner = "" /\ d.type = ""
    BY <1>4 DEF New
  <2>2. ASSUME n.id = m.id PROVE FALSE
    <3>1. Fresh \in ById(m.id)'
      BY <2>1, <2>2, ByIdNext DEF Inserted
    <3>2. QED
      BY <1>1, <2>1, <3>1 DEF Excused
  <2>3. QED
    BY <1>0, <2>1, <2>2
<1>5. ASSUME NEW l, NEW e, Rewritten(l, e) PROVE FALSE
  BY <1>1, <1>5 DEF Rewritten
<1>6. ASSUME NEW e, Inserted(e) PROVE e = d
  BY <1>1, <1>6 DEF Inserted
<1>7. QED
  BY <1>0, <1>1, <1>2, <1>3, <1>4, <1>5, <1>6 DEF Effect

\* A step inserts one document at most.
LEMMA Grows ==
  ASSUME Typed, NEW n \in Message, Works(n)
  PROVE  DOMAIN directory' = DOMAIN directory \/ \E d : Inserted(d)
BY Effects DEF Effect, Rewritten

\* Who is left waiting.
LEMMA LeftByHas ==
  ASSUME NEW S, NEW q \in S, q.topic = "account.created", task[q].pc \in {"link", "adopt"},
         NEW i \in Orphans(q.id)
  PROVE  directory[i].id \in LeftBy(S)
<1> DEFINE Cut == {n \in S : n.topic = "account.created" /\ task[n].pc \in {"link", "adopt"}}
<1>1. i \in UNION {Orphans(n.id) : n \in Cut}
  OBVIOUS
<1> HIDE DEF Cut
<1>2. directory[i].id \in Ids(UNION {Orphans(n.id) : n \in Cut})
  BY <1>1 DEF Ids
<1>3. QED
  BY <1>2 DEF Cut, LeftBy

LEMMA LinkWorks ==
  ASSUME Typed, TogetherOK, NEW m \in Message, m.topic = "location.created", LinkAt(m),
         ~Excused(m)', ~Excused(m), NEW n \in Message, Works(n)
  PROVE  LinkAt(m)'
<1> DEFINE T == m.tenant
<1>0. /\ Running(n) /\ Message' = Message /\ \A q \in Message \ {n} : task'[q] = task[q]
      /\ task[n].pc \in Places(n.topic) /\ task[n] \in [pc : Place, found : BOOLEAN, hub : BOOLEAN]
  BY DEF Works, Alone, Typed
\* the documents of m
<1>1. \A i \in DOMAIN directory : i \in DOMAIN directory' /\ Alike(directory'[i], directory[i])
  BY DocumentStep
<1>2. \/ ById(m.id)' = ById(m.id)
      \/ n = m /\ Saves(m) /\ ById(m.id)' = {Fresh} /\ ById(m.id) = {}
  <2>1. CASE Saves(n) /\ n.topic \in CreatedTopic /\ n.id = m.id
    BY <2>1, OneLocation, ByIdStep DEF Saves, LinkAt
  <2>2. CASE Upserts(n) /\ n.id = m.id /\ ById(m.id)' = ById(m.id) \union {Fresh} /\ ById(m.id) = {}
    <3>1. CASE DOMAIN directory' = DOMAIN directory
      BY <1>1, <2>2, <3>1, ByIdIs, ByIdNext DEF Alike
    <3>2. ASSUME NEW d, Inserted(d) PROVE FALSE
      <4>1. d.id = m.id
        BY <2>2, <3>2, ByIdNext DEF Inserted
      <4>2. Saves(n)
        BY <3>2, <4>1, LinkInserts
      <4>3. QED
        BY <2>2, <4>2 DEF Saves, Upserts
    <3>3. QED
      BY <3>1, <3>2, Grows
  <2>3. QED
    BY <2>1, <2>2, ByIdStep
<1>3. task'[m].pc = "save" => ById(m.id)' = {}
  <2>1. CASE n = m
    <3>1. ~Saves(m) \/ task'[m].pc # "save"
      BY <1>0, <2>1 DEF Saves, Goes
    <3>2. task'[m].pc = "save" => ById(m.id) = {}
      BY <1>0, <2>1
      DEF Works, Looks, Saves, Upserts, Adopts, Edits, Goes, AfterLink, AfterFailure, ClaimTopic
    <3>3. QED
      BY <1>2, <3>1, <3>2
  <2>2. CASE n # m
    BY <1>0, <1>2, <2>2 DEF LinkAt
  <2>3. QED
    BY <2>1, <2>2
\* the account of m
<1>4. \/ Accounts(T)' = Accounts(T)
      \/ n.topic = "account.created" /\ Saves(n) /\ n.id = T
  BY AccountsStep
<1>5. task'[m].pc \in {"exists", "save"} /\ ~task'[m].found => Accounts(T)' = {}
  <2>1. CASE n = m
    <3>1. Accounts(T)' = Accounts(T)
      BY <1>4, <2>1
    <3>2. task'[m].pc \in {"exists", "save"} /\ ~task'[m].found => Accounts(T) = {}
      BY <1>0, <2>1
      DEF Works, Looks, Saves, Upserts, Adopts, Edits, Goes, AfterLink, AfterFailure, ClaimTopic, LinkAt
    <3>3. QED
      BY <3>1, <3>2
  <2>2. CASE n # m /\ n.topic = "account.created" /\ n.id = T
    <3>1. ~Running(m)
      BY <1>0, <2>2, ExcusedNow DEF AboutAccount
    <3>2. QED
      BY <1>0, <2>2, <3>1 DEF Running
  <2>3. CASE n # m /\ Accounts(T)' = Accounts(T)
    BY <1>0, <2>3 DEF LinkAt
  <2>4. QED
    BY <1>4, <2>1, <2>2, <2>3
<1>6. \A i, j \in ById(m.id)' : i = j
  BY <1>2 DEF LinkAt
<1>8. ASSUME NEW i \in ById(m.id)'
      PROVE  /\ directory'[i].owner = T /\ directory'[i].named = directory'[i].accounts
             /\ directory'[i].accounts \/ Accounts(T)' = {} \/ Linking(T)'
  <2>1. CASE i \notin ById(m.id)
    <3>1. n = m /\ Saves(m) /\ i = Fresh
      BY <1>2, <2>1
    <3>2. PICK d : Inserted(d) /\ d = directory'[Fresh]
      <4>1. m.topic # "account.created"
        OBVIOUS
      <4>2. Inserted(mapAccountLocationCreated(m, task[m].found))
        <5>1. Effect(m)
          BY <3>1, Effects
        <5>2. ~Upserts(m) /\ ~Adopts(m) /\ ~Edits(m)
          BY <3>1 DEF Saves, Upserts, Adopts, Edits
        <5>3. QED
          BY <3>1, <5>1, <5>2 DEF Effect
      <4>3. QED
        BY <4>2 DEF Inserted
    <3>3. d.id = m.id
      BY <1>8, <3>1, <3>2, ByIdNext
    <3>4. d.owner = T /\ d.named = task[m].found /\ d.accounts = task[m].found
      BY <3>2, <3>3, LinkInserts
    <3>5. task[m].found \/ Accounts(T) = {}
      BY <3>1 DEF LinkAt, Saves
    <3>6. Accounts(T)' = Accounts(T)
      BY <1>4, <3>1
    <3>7. QED
      BY <3>1, <3>2, <3>4, <3>5, <3>6
  <2>2. CASE i \in ById(m.id)
    <3>1. i \in DOMAIN directory /\ directory[i] \in Document
      BY <2>2, ByIdIs DEF Typed
    <3>2. /\ directory[i].owner = T /\ directory[i].named = directory[i].accounts
          /\ directory[i].accounts \/ Accounts(T) = {} \/ Linking(T)
      BY <2>2 DEF LinkAt
    <3>3. \/ /\ directory'[i].named = directory[i].named
             /\ directory'[i].accounts = directory[i].accounts
          \/ directory'[i].named = TRUE /\ directory'[i].accounts = TRUE
      BY <3>1, LinkStep
    <3>4. directory'[i].owner = T /\ directory'[i].named = directory'[i].accounts
      BY <1>1, <3>1, <3>2, <3>3 DEF Alike
    <3>0. directory[i].accounts # TRUE => i \in Orphans(T) /\ directory[i].id = m.id
      BY <2>2, <3>1, <3>2, OrphansIs, ByIdIs DEF Document
    <3>5. CASE Accounts(T) = {}
      <4>1. CASE n.topic = "account.created" /\ Saves(n) /\ n.id = T
        <5>1. CASE task'[n].pc = "link"
          BY <1>0, <3>4, <4>1, <5>1 DEF Linking
        <5>2. CASE Ids(Orphans(T)) \subseteq passed'
          <6>1. m.id \notin passed'
            BY DEF Excused
          <6>2. directory[i].accounts = TRUE
            BY <3>0, <5>2, <6>1 DEF Ids
          <6>3. QED
            BY <3>3, <3>4, <6>2
        <5>3. QED
          BY <1>0, <4>1, <5>1, <5>2 DEF Saves, Goes
      <4>2. QED
        BY <1>4, <3>4, <3>5, <4>1
    <3>6. CASE Accounts(T) # {} /\ directory[i].accounts # TRUE
      <4>1. PICK q \in Message : /\ q.topic = "account.created" /\ q.id = T
                                 /\ task[q].pc \in {"link", "adopt"}
        BY <3>1, <3>2, <3>6 DEF Linking, Document
      <4>2. CASE q # n
        BY <1>0, <3>4, <4>1, <4>2 DEF Linking
      <4>0. /\ i \in Orphans(T) /\ directory[i].id = m.id
            /\ m.id \notin passed'
        BY <3>0, <3>6 DEF Excused
      <4>0a. ASSUME q = n PROVE ~(LeftBy({n}) \subseteq passed')
        BY <4>0, <4>0a, <4>1, LeftByHas
      <4>3. CASE q = n /\ task[n].pc = "link"
        <5>1. task'[n].pc = "adopt"
          BY <1>0, <3>6, <4>0a, <4>1, <4>3
          DEF Works, Looks, Saves, Upserts, Adopts, Edits, Goes, ClaimTopic
        <5>2. QED
          BY <1>0, <3>4, <4>1, <4>3, <5>1 DEF Linking
      <4>4. CASE q = n /\ task[n].pc = "adopt"
        <5>1. Adopts(n)
          BY <1>0, <4>0a, <4>1, <4>4
          DEF Works, Looks, Saves, Upserts, Adopts, Edits, CreatedTopic, ClaimTopic
        <5>2. directory'[i].accounts = TRUE
          BY <4>0, <4>1, <4>4, <5>1, AdoptStep
        <5>3. QED
          BY <3>4, <5>2
      <4>5. QED
        BY <4>1, <4>2, <4>3, <4>4
    <3>7. CASE directory[i].accounts = TRUE
      BY <3>3, <3>4, <3>7
    <3>8. QED
      BY <3>5, <3>6, <3>7
  <2>3. QED
    BY <2>1, <2>2
<1>9. QED
  BY <1>3, <1>5, <1>6, <1>8 DEF LinkAt

LEMMA LinkOKStep == ASSUME Typed, TogetherOK, LinkOK, [Next]_vars PROVE LinkOK'
<1>0. Message' = Message
  BY RecordStays
<1> SUFFICES ASSUME NEW m \in Message, m.topic = "location.created", ~Excused(m)'
             PROVE  LinkAt(m)'
  BY <1>0 DEF LinkOK
<1>1. LinkAt(m) /\ ~Excused(m)
  BY ExcusedStays DEF LinkOK
<1>2. ASSUME directory' = directory
      PROVE  /\ ById(m.id)' = ById(m.id) /\ Accounts(m.tenant)' = Accounts(m.tenant)
  BY <1>2, ByIdIs, ByIdNext, AccountsIs, AccountsNext
<1>3. CASE Stops
  <2>1. task'[m].pc \notin {"exists", "save"}
    BY <1>3 DEF Stops, Dropped, Waiting, Running
  <2>2. directory' = directory /\ LeftBy(Message) \subseteq passed' /\ m.id \notin passed'
    BY <1>3 DEF Stops, Excused
  <2>3. ASSUME NEW i \in ById(m.id), Linking(m.tenant), directory[i].accounts # TRUE PROVE FALSE
    <3>1. i \in DOMAIN directory /\ directory[i] \in Document /\ directory[i].id = m.id
      BY ByIdIs DEF Typed
    <3>2. i \in Orphans(m.tenant)
      BY <1>1, <2>3, <3>1, OrphansIs DEF LinkAt, Document
    <3>3. PICK q \in Message : /\ q.topic = "account.created" /\ q.id = m.tenant
                               /\ task[q].pc \in {"link", "adopt"}
      BY <2>3 DEF Linking
    <3>4. directory[i].id \in LeftBy(Message)
      BY <3>2, <3>3, LeftByHas
    <3>5. QED
      BY <2>2, <3>1, <3>4
  <2>4. \A i \in ById(m.id) : directory[i].accounts = TRUE \/ Accounts(m.tenant) = {}
    BY <1>1, <2>3, ByIdIs DEF LinkAt, Typed, Document
  <2>5. QED
    BY <1>1, <1>2, <2>1, <2>2, <2>4 DEF LinkAt
<1>4. ASSUME NEW n \in Message, Begins(n) PROVE LinkAt(m)'
  <2>1. /\ directory' = directory /\ task[n].pc = "waiting" /\ task'[n].pc = First(n)
        /\ \A q \in Message \ {n} : task'[q] = task[q]
    BY <1>4 DEF Begins, Alone, Goes, Typed
  <2>2. n = m => task'[m].pc = "account"
    BY <2>1 DEF First
  <2>3. Linking(m.tenant) => Linking(m.tenant)'
    BY <1>0, <2>1 DEF Linking
  <2>4. CASE n = m
    BY <1>1, <1>2, <2>1, <2>2, <2>3, <2>4 DEF LinkAt
  <2>5. CASE n # m
    BY <1>1, <1>2, <2>1, <2>3, <2>5 DEF LinkAt
  <2>6. QED
    BY <2>4, <2>5
<1>5. ASSUME NEW n \in Message, Works(n) PROVE LinkAt(m)'
  BY <1>1, <1>5, LinkWorks
<1>6. CASE UNCHANGED vars
  <2>1. Linking(m.tenant)' = Linking(m.tenant)
    BY <1>0, <1>6 DEF Linking, vars
  <2>2. directory' = directory /\ task' = task
    BY <1>6 DEF vars
  <2>3. QED
    BY <1>1, <1>2, <2>1, <2>2 DEF LinkAt
<1>7. QED
  BY <1>3, <1>4, <1>5, <1>6, Kinds

\* When every message is handled a location knows its account, whichever came
\* first, but for the exceptions that UnlinkedExplained names.
THEOREM LocationsLinked == Spec => []UnlinkedExplained
<1> DEFINE Inv == Typed /\ TogetherOK /\ LinkOK
<1>1. Init => Inv
  <2>1. ASSUME Init PROVE LinkOK
    <3>1. directory = <<>> /\ DOMAIN directory = {}
      BY <2>1 DEF Init
    <3>2. \A id : ById(id) = {} /\ Accounts(id) = {}
      BY <3>1, ByIdIs, AccountsIs
    <3>3. QED
      BY <3>1, <3>2 DEF LinkOK, LinkAt
  <2>2. QED
    BY <2>1, TypedInit, TogetherInit
<1>2. Inv /\ [Next]_vars => Inv'
  BY TypedStep, TogetherStep, LinkOKStep
<1>3. Inv => UnlinkedExplained
  <2>1. ASSUME Inv, AtRest, NEW m \in Message, m.topic = "location.created",
               Accounts(m.tenant) # {}, ~Excused(m)
        PROVE  \A i \in ById(m.id) : directory[i].accounts
    <3>1. ~Linking(m.tenant)
      BY <2>1 DEF AtRest, Linking
    <3>2. QED
      BY <2>1, <3>1 DEF LinkOK, LinkAt
  <2>2. QED
    BY <2>1 DEF UnlinkedExplained, Excused
<1> HIDE DEF Inv
<1>4. QED
  BY <1>1, <1>2, <1>3, PTL DEF Spec

------------------------------------------------------------------------------
(* Carriers.                                                                *)

\* The carrier as a message of its topics describes it.
Claim(m, b) == [name |-> m.name, document |-> m.document, credentials |-> b]

\* What is stored of a carrier is what one of its messages says.
ClaimsOK ==
  /\ carriers = [c \in DOMAIN carriers |-> carriers[c]]
  /\ \A m \in Message : m.topic \in CarrierTopic => m.id \in DOMAIN carriers
  /\ \A c \in DOMAIN carriers :
       \/ carriers[c] = NoCarrier
       \/ \E m \in Message, b \in BOOLEAN :
            m.topic \in ClaimTopic /\ m.id = c /\ carriers[c] = Claim(m, b)
  /\ \A m \in Message :
       m.topic = "http.credentials" /\ task[m].pc = "save" => carriers[m.id] # NoCarrier

\* The last changed message comes after the others, and what it wrote stays.
LastAt(m) ==
  /\ task[m].pc # "waiting" =>
       \A n \in Message \ {m} : n.topic = m.topic /\ n.id = m.id => task[n].pc = "done"
  /\ task[m].pc \in {"commit", "done"} => \E b \in BOOLEAN : carriers[m.id] = Claim(m, b)

LastOK == \A m \in Message : LastChange(m) /\ m \notin failed /\ ~Contended(m) => LastAt(m)

LEMMA ClaimNotNone ==
  ASSUME Typed, NEW m \in Message, m.topic \in ClaimTopic, NEW b \in BOOLEAN
  PROVE  Claim(m, b) # NoCarrier
BY MessageAssumption DEF Typed, Claim

LEMMA DataIs == \A m : Data(m) = Claim(m, FALSE)
BY DEF Data, Claim

\* A record with three fields is known by them.
LEMMA FieldsTell ==
  ASSUME NEW q, NEW x, NEW y, NEW b,
         q = [f \in {"name", "document", "credentials"} |-> q[f]],
         q.name = x, q.document = y, q.credentials = b
  PROVE  q = [name |-> x, document |-> y, credentials |-> b]
OBVIOUS

LEMMA ClaimSays ==
  ASSUME NEW n, NEW m, NEW a, NEW b, Claim(n, a) = Claim(m, b)
  PROVE  Claim(n, TRUE) = Claim(m, TRUE)
<1>1. Claim(n, a).name = Claim(m, b).name /\ Claim(n, a).document = Claim(m, b).document
  OBVIOUS
<1>2. n.name = m.name /\ n.document = m.document
  BY <1>1 DEF Claim
<1>3. QED
  BY <1>2 DEF Claim

LEMMA UpdateEnds ==
  ASSUME Typed, NEW m \in Message, UpdateCarrier(m)
  PROVE  task[m].pc = "save" /\ task'[m].pc = "commit"
<1>1. Goes(m, "commit") /\ task[m].pc = "save"
  BY GotoGoes DEF UpdateCarrier
<1>2. task[m] \in [pc : Place, found : BOOLEAN, hub : BOOLEAN]
  BY DEF Typed
<1>3. QED
  BY <1>1, <1>2 DEF Goes

\* A message with a conflict is about a carrier that another one claims.
LEMMA ConflictIs ==
  ASSUME ClaimsOK, NEW m \in Message, m.topic \in ClaimTopic, Conflict(m)
  PROVE  Contended(m)
<1>1. PICK c \in DOMAIN carriers \ {m.id} :
        /\ carriers[c] # NoCarrier
        /\ carriers[c].name = m.name \/ carriers[c].document = m.document
  BY DEF Conflict
<1>2. PICK n \in Message, b \in BOOLEAN :
        n.topic \in ClaimTopic /\ n.id = c /\ carriers[c] = Claim(n, b)
  BY <1>1 DEF ClaimsOK
<1>3. n.name = m.name \/ n.document = m.document
  BY <1>1, <1>2 DEF Claim
<1>4. QED
  BY <1>1, <1>2, <1>3 DEF Contended

\* The carriers after a step: those of the other ids are as before.
Written(m) ==
  /\ DOMAIN carriers' = DOMAIN carriers
  /\ carriers' = [c \in DOMAIN carriers' |-> carriers'[c]]
  /\ \A c \in DOMAIN carriers \ {m.id} : carriers'[c] = carriers[c]
  /\ \/ /\ m.topic = "carrier.created" /\ carriers[m.id] = NoCarrier
        /\ carriers'[m.id] = Claim(m, FALSE)
     \/ /\ UpdateCarrier(m) /\ ~Conflict(m)
        /\ \E b \in BOOLEAN : carriers'[m.id] = Claim(m, b)
     \/ /\ m.topic = "http.credentials"
        /\ \E n \in Message, b \in BOOLEAN :
             /\ n.topic \in ClaimTopic /\ n.id = m.id
             /\ carriers[m.id] = Claim(n, b) /\ carriers'[m.id] = Claim(n, TRUE)

LEMMA PutWrites ==
  ASSUME ClaimsOK, NEW m \in Message, m.topic \in CarrierTopic, NEW d,
         carriers' = [carriers EXCEPT ![m.id] = d]
  PROVE  /\ DOMAIN carriers' = DOMAIN carriers
         /\ carriers' = [c \in DOMAIN carriers' |-> carriers'[c]]
         /\ \A c \in DOMAIN carriers \ {m.id} : carriers'[c] = carriers[c]
         /\ carriers'[m.id] = d
BY DEF ClaimsOK

LEMMA CarrierWrites ==
  ASSUME Typed, ClaimsOK, NEW m \in Message, CarrierStep(m)
  PROVE  \/ carriers' = carriers /\ (UpdateCarrier(m) => Conflict(m))
         \/ Written(m)
<1>1. CASE CreateCarrier(m)
  <2>0. m.topic = "carrier.created" /\ m.topic \in CarrierTopic
    BY <1>1 DEF CreateCarrier, CarrierTopic
  <2>1. CASE carriers[m.id] # NoCarrier \/ Conflict(m)
    BY <1>1, <2>0, <2>1 DEF CreateCarrier, UpdateCarrier
  <2>2. CASE ~(carriers[m.id] # NoCarrier \/ Conflict(m))
    <3>1. carriers' = [carriers EXCEPT ![m.id] = Claim(m, FALSE)]
      BY <1>1, <2>2, DataIs DEF CreateCarrier
    <3>2. QED
      BY <2>0, <2>2, <3>1, PutWrites DEF Written
  <2>3. QED
    BY <2>1, <2>2
<1>2. CASE UpdateCarrier(m)
  <2>0. m.topic = "carrier.changed" /\ m.topic \in CarrierTopic
    BY <1>2 DEF UpdateCarrier, CarrierTopic
  <2>1. CASE Conflict(m)
    BY <1>2, <2>1 DEF UpdateCarrier
  <2>2. CASE ~Conflict(m) /\ carriers[m.id] = NoCarrier
    <3>1. carriers' = [carriers EXCEPT ![m.id] = Claim(m, FALSE)]
      BY <1>2, <2>2, DataIs DEF UpdateCarrier
    <3>2. QED
      BY <1>2, <2>0, <2>2, <3>1, PutWrites DEF Written
  <2>3. CASE ~Conflict(m) /\ carriers[m.id] # NoCarrier
    <3>1. PICK n \in Message, b \in BOOLEAN : carriers[m.id] = Claim(n, b)
      BY <2>0, <2>3 DEF ClaimsOK
    <3>2. carriers' = [carriers EXCEPT ![m.id] =
                         [carriers[m.id] EXCEPT !.name = m.name, !.document = m.document]]
      BY <1>2, <2>3 DEF UpdateCarrier
    <3>3. carriers' = [carriers EXCEPT ![m.id] = Claim(m, b)]
      <4>1. PICK r : r = carriers[m.id]
        OBVIOUS
      <4> DEFINE q == [r EXCEPT !.name = m.name, !.document = m.document]
      <4>2. r = [name |-> n.name, document |-> n.document, credentials |-> b]
        BY <3>1, <4>1 DEF Claim
      <4>3. carriers' = [carriers EXCEPT ![m.id] = q]
        BY <3>2, <4>1, Zenon
      <4>4. /\ q = [f \in {"name", "document", "credentials"} |-> q[f]]
            /\ q.name = m.name /\ q.document = m.document /\ q.credentials = b
        BY <4>2
      <4> HIDE DEF q
      <4>5. q = Claim(m, b)
        BY <4>4, FieldsTell DEF Claim
      <4>6. QED
        BY <4>3, <4>5
    <3>4. QED
      BY <1>2, <2>0, <2>3, <3>3, PutWrites DEF Written
  <2>4. QED
    BY <2>1, <2>2, <2>3
<1>3. CASE FindCarrier(m)
  BY <1>3 DEF FindCarrier, UpdateCarrier
<1>4. CASE updateCredentials(m)
  <2>0. m.topic = "http.credentials" /\ m.topic \in CarrierTopic /\ carriers[m.id] # NoCarrier
    BY <1>4 DEF updateCredentials, CarrierTopic, ClaimsOK
  <2>1. PICK n \in Message, b \in BOOLEAN :
          n.topic \in ClaimTopic /\ n.id = m.id /\ carriers[m.id] = Claim(n, b)
    BY <2>0 DEF ClaimsOK
  <2>2. carriers' = [carriers EXCEPT ![m.id] = [carriers[m.id] EXCEPT !.credentials = TRUE]]
    BY <1>4 DEF updateCredentials
  <2>3. carriers' = [carriers EXCEPT ![m.id] = Claim(n, TRUE)]
    <3>1. PICK r : r = carriers[m.id]
      OBVIOUS
    <3> DEFINE q == [r EXCEPT !.credentials = TRUE]
    <3>2. r = [name |-> n.name, document |-> n.document, credentials |-> b]
      BY <2>1, <3>1 DEF Claim
    <3>3. carriers' = [carriers EXCEPT ![m.id] = q]
      BY <2>2, <3>1, Zenon
    <3>4. /\ q = [f \in {"name", "document", "credentials"} |-> q[f]]
          /\ q.name = n.name /\ q.document = n.document /\ q.credentials = TRUE
      BY <3>2
    <3> HIDE DEF q
    <3>5. q = Claim(n, TRUE)
      BY <3>4, FieldsTell DEF Claim
    <3>6. QED
      BY <3>3, <3>5
  <2>4. QED
    BY <2>0, <2>1, <2>3, PutWrites DEF Written
<1>5. QED
  BY <1>1, <1>2, <1>3, <1>4 DEF CarrierStep

\* A step that is not a handler's of a carrier leaves them.
LEMMA CarriersStep ==
  ASSUME Typed, ClaimsOK, [Next]_vars
  PROVE  \/ carriers' = carriers /\ \A m \in Message : UpdateCarrier(m) => Conflict(m)
         \/ \E m \in Message : Written(m) /\ CarrierStep(m)
<1>1. ASSUME NEW m \in Message, CarrierStep(m), NEW n \in Message, UpdateCarrier(n)
      PROVE  n = m
  <2>1. Works(m) /\ Works(n)
    BY <1>1, LookKind DEF CarrierStep
  <2>2. task'[n].pc = "commit" /\ task[n].pc = "save"
    BY <1>1, UpdateEnds
  <2>3. QED
    BY <2>1, <2>2 DEF Works, Alone
<1>2. ASSUME NEW n \in Message, UpdateCarrier(n) PROVE CarrierStep(n)
  BY <1>2 DEF CarrierStep
<1>3. CASE \E m \in Message : CarrierStep(m)
  BY <1>1, <1>3, CarrierWrites
<1>4. CASE carriers' = carriers /\ ~ \E m \in Message : CarrierStep(m)
  BY <1>2, <1>4
<1>5. CASE Next
  BY <1>3, <1>4, <1>5
  DEF Next, Start, AccountStep, FindExisting, SaveAccount, FindAccount, SaveLocation,
      ReadForUpdate, FindToLink, AdoptLocation, UpsertAccount, FindToEdit, Edit,
      removeFromQueue, FailedCall, UnansweredSave, Crash
<1>6. QED
  BY <1>3, <1>4, <1>5 DEF vars

\* A carrier that is stored stays stored.
LEMMA StoredStays ==
  ASSUME Typed, ClaimsOK, [Next]_vars, NEW c \in DOMAIN carriers, carriers[c] # NoCarrier
  PROVE  carriers'[c] # NoCarrier
<1>1. ASSUME NEW m \in Message, Written(m), CarrierStep(m) PROVE carriers'[c] # NoCarrier
  <2>1. CASE c # m.id
    BY <1>1, <2>1 DEF Written
  <2>2. CASE c = m.id
    <3>1. m.topic \in ClaimTopic => \A b \in BOOLEAN : Claim(m, b) # NoCarrier
      BY ClaimNotNone
    <3>2. \A n \in Message : n.topic \in ClaimTopic => Claim(n, TRUE) # NoCarrier
      BY ClaimNotNone
    <3>3. UpdateCarrier(m) => m.topic \in ClaimTopic
      BY DEF UpdateCarrier, ClaimTopic
    <3>4. QED
      BY <1>1, <2>2, <3>1, <3>2, <3>3 DEF Written
  <2>3. QED
    BY <2>1, <2>2
<1>2. QED
  BY <1>1, CarriersStep

\* An edit that is about to be written has found its carrier.
LEMMA CredentialsStep ==
  ASSUME Typed, ClaimsOK, [Next]_vars, NEW m \in Message,
         m.topic = "http.credentials", task'[m].pc = "save"
  PROVE  carriers[m.id] # NoCarrier
<1>0. task[m] \in [pc : Place, found : BOOLEAN, hub : BOOLEAN] /\ task[m].pc \in Places(m.topic)
  BY DEF Typed
<1>1. CASE task[m].pc = "save"
  BY <1>1 DEF ClaimsOK
<1>2. CASE FindCarrier(m)
  <2>1. Goes(m, IF carriers[m.id] = NoCarrier THEN "done" ELSE "save")
    BY <1>2, GotoGoes DEF FindCarrier
  <2>2. QED
    BY <1>0, <2>1 DEF Goes
<1>3. CASE task[m].pc # "save" /\ ~FindCarrier(m)
  <2>1. CASE Stops
    BY <1>3, <2>1 DEF Stops, Dropped, Waiting
  <2>2. ASSUME NEW n \in Message, Start(n) PROVE FALSE
    <3>1. Begins(n)
      BY <2>2, StartKind
    <3>2. n = m
      BY <1>3, <3>1 DEF Begins, Alone
    <3>3. task'[m].pc = "exists"
      BY <1>0, <3>1, <3>2 DEF Begins, Goes, First
    <3>4. QED
      BY <3>3
  <2>3. ASSUME NEW n \in Message, AccountStep(n) \/ CarrierStep(n) \/ removeFromQueue(n)
        PROVE  FALSE
    <3>1. Works(n)
      BY <2>3, LookKind, WriteKind DEF AccountStep
    <3>2. n = m
      BY <1>3, <3>1 DEF Works, Alone
    <3>3. task[m].pc = "exists"
      BY <1>0, <1>3, <3>1, <3>2 DEF Places, Works, Running, ClaimTopic
    <3>4. QED
      BY <1>3, <2>3, <3>2, <3>3
      DEF AccountStep, CarrierStep, FindExisting, SaveAccount, FindAccount, SaveLocation,
          ReadForUpdate, FindToLink, AdoptLocation, UpsertAccount, FindToEdit, Edit,
          removeFromQueue, CreateCarrier, UpdateCarrier, updateCredentials
  <2>4. ASSUME NEW n \in Message, FailedCall(n) \/ UnansweredSave(n) PROVE FALSE
    <3>1. Works(n)
      BY <2>4, FailureKind
    <3>2. n = m
      BY <1>3, <3>1 DEF Works, Alone
    <3>3. task[m].pc = "exists"
      BY <1>0, <1>3, <3>1, <3>2 DEF Places, Works, Running, ClaimTopic
    <3>4. task'[m].pc = "done"
      <4>1. Goto(m, AfterFailure(m)) /\ AfterFailure(m) = "done"
        BY <2>4, <3>2, <3>3 DEF FailedCall, UnansweredSave, AfterFailure
      <4>2. Goes(m, "done")
        BY <4>1, GotoGoes
      <4>3. QED
        BY <1>0, <4>2 DEF Goes
    <3>5. QED
      BY <3>4
  <2>5. CASE Next
    BY <2>1, <2>2, <2>3, <2>4, <2>5, CrashKind DEF Next
  <2>6. QED
    BY <1>3, <2>5 DEF vars
<1>4. QED
  BY <1>1, <1>2, <1>3

LEMMA ClaimsStep == ASSUME Typed, ClaimsOK, [Next]_vars PROVE ClaimsOK'
<1>0. Message' = Message
  BY RecordStays
<1>1. /\ DOMAIN carriers' = DOMAIN carriers
      /\ carriers' = [c \in DOMAIN carriers' |-> carriers'[c]]
  BY CarriersStep DEF Written, ClaimsOK
<1>2. ASSUME NEW c \in DOMAIN carriers
      PROVE  \/ carriers'[c] = NoCarrier
             \/ \E m \in Message, b \in BOOLEAN :
                  m.topic \in ClaimTopic /\ m.id = c /\ carriers'[c] = Claim(m, b)
  <2>1. CASE carriers'[c] = carriers[c]
    BY <2>1 DEF ClaimsOK
  <2>2. ASSUME NEW m \in Message, Written(m), c = m.id
        PROVE  \E n \in Message, b \in BOOLEAN :
                 n.topic \in ClaimTopic /\ n.id = c /\ carriers'[c] = Claim(n, b)
    BY <2>2 DEF Written, UpdateCarrier, ClaimTopic
  <2>3. QED
    BY <2>1, <2>2, CarriersStep DEF Written
<1>3. ASSUME NEW m \in Message, m.topic = "http.credentials", task'[m].pc = "save"
      PROVE  carriers'[m.id] # NoCarrier
  <2>1. m.id \in DOMAIN carriers
    BY <1>3 DEF ClaimsOK, CarrierTopic
  <2>2. QED
    BY <1>3, <2>1, CredentialsStep, StoredStays
<1>4. QED
  BY <1>0, <1>1, <1>2, <1>3 DEF ClaimsOK

\* How the handler of a changed message comes to its end.
LEMMA CommitsAfter ==
  ASSUME Typed, [Next]_vars, NEW m \in Message, m.topic = "carrier.changed",
         task'[m].pc \in {"commit", "done"}
  PROVE  task[m].pc \in {"commit", "done"} \/ UpdateCarrier(m) \/ m \in failed'
<1>0. task[m].pc \in {"waiting", "done", "commit", "save"}
  BY DEF Typed, Places, ClaimTopic
<1>1. SUFFICES ASSUME task[m].pc \in {"waiting", "save"}, ~UpdateCarrier(m), m \notin failed'
               PROVE  FALSE
  BY <1>0
<1>2. CASE Stops
  BY <1>1, <1>2 DEF Stops, Dropped, Waiting, Running
<1>3. ASSUME NEW n \in Message, Start(n) PROVE FALSE
  <2>1. Begins(n)
    BY <1>3, StartKind
  <2>2. n = m
    BY <1>1, <2>1 DEF Begins, Alone
  <2>3. task'[m].pc = "save"
    BY <2>1, <2>2 DEF Begins, Goes, First, Typed
  <2>4. QED
    BY <2>3
<1>4. ASSUME NEW n \in Message, AccountStep(n) \/ CarrierStep(n) \/ removeFromQueue(n)
      PROVE  FALSE
  <2>1. Works(n)
    BY <1>4, LookKind, WriteKind DEF AccountStep
  <2>2. n = m
    BY <1>1, <2>1 DEF Works, Alone
  <2>3. task[m].pc = "save"
    BY <1>1, <2>1, <2>2 DEF Works, Running
  <2>4. QED
    BY <1>1, <1>4, <2>2, <2>3
    DEF AccountStep, CarrierStep, FindExisting, SaveAccount, FindAccount, SaveLocation,
        ReadForUpdate, FindToLink, AdoptLocation, UpsertAccount, FindToEdit, Edit,
        removeFromQueue, CreateCarrier, FindCarrier, updateCredentials
<1>5. ASSUME NEW n \in Message, FailedCall(n) \/ UnansweredSave(n) PROVE FALSE
  BY <1>1, <1>5, FailureKind DEF Works, Alone
<1>6. CASE Next
  BY <1>2, <1>3, <1>4, <1>5, <1>6, CrashKind DEF Next
<1>7. QED
  BY <1>1, <1>6 DEF vars

\* A handler that is done stays so, and one that waits begins in its turn.
LEMMA DoneStays ==
  ASSUME Typed, [Next]_vars, NEW m \in Message
  PROVE  /\ task[m].pc = "done" => task'[m].pc = "done"
         /\ task[m].pc = "waiting" => task'[m].pc = "waiting" \/ Begins(m)
BY Kinds DEF Begins, Works, Stops, Alone, Running, vars

LEMMA LastStep ==
  ASSUME Typed, ClaimsOK, LastOK, [Next]_vars PROVE LastOK'
<1>0. Message' = Message
  BY RecordStays
<1> SUFFICES ASSUME NEW m \in Message, LastChange(m), m \notin failed', ~Contended(m)
             PROVE  LastAt(m)'
  BY <1>0 DEF LastOK, LastChange, Contended
<1>1. LastAt(m) /\ m.topic = "carrier.changed" /\ m.id \in DOMAIN carriers
  BY RecordStays DEF LastOK, LastChange, ClaimsOK, CarrierTopic
<1>2. ASSUME task'[m].pc # "waiting", NEW n \in Message \ {m}, n.topic = m.topic, n.id = m.id
      PROVE  task'[n].pc = "done"
  <2>1. task[n].pc = "done"
    <3>1. CASE task[m].pc # "waiting"
      BY <1>1, <1>2, <3>1 DEF LastAt
    <3>2. CASE Begins(m)
      <4>1. n.no \in Nat /\ m.no \in Nat /\ n.no # m.no
        <5>1. n.no \in Nat /\ m.no \in Nat
          BY MessageAssumption DEF Typed
        <5>2. n.no = m.no => n = m
          BY <1>1, <1>2, IdAssumption DEF Typed
        <5>3. QED
          BY <5>1, <5>2
      <4>2. n.no < m.no
        BY <1>2, <4>1 DEF LastChange
      <4>3. QED
        BY <1>2, <3>2, <4>2 DEF Begins
    <3>3. QED
      BY <1>2, <3>1, <3>2, DoneStays
  <2>2. QED
    BY <2>1, DoneStays
<1>3. ASSUME task'[m].pc \in {"commit", "done"}
      PROVE  \E b \in BOOLEAN : carriers'[m.id] = Claim(m, b)
  <2>1. CASE UpdateCarrier(m)
    <3>1. ~Conflict(m)
      BY <1>1, ConflictIs DEF ClaimTopic
    <3>2. PICK n \in Message : Written(n) /\ CarrierStep(n)
      BY <2>1, <3>1, CarriersStep
    <3>3. n = m
      <4>1. Works(n) /\ task[m].pc = "save" /\ task'[m].pc = "commit"
        BY <2>1, <3>2, LookKind, UpdateEnds
      <4>2. QED
        BY <4>1 DEF Works, Alone
    <3>4. QED
      BY <1>1, <3>2, <3>3 DEF Written
  <2>2. CASE task[m].pc \in {"commit", "done"}
    <3>1. PICK b \in BOOLEAN : carriers[m.id] = Claim(m, b)
      BY <1>1, <2>2 DEF LastAt
    <3>2. ASSUME NEW n \in Message, Written(n), CarrierStep(n), n.id = m.id
          PROVE  \E a \in BOOLEAN : carriers'[m.id] = Claim(m, a)
      <4>1. carriers[m.id] # NoCarrier
        BY <1>1, <3>1, ClaimNotNone DEF ClaimTopic
      <4>2. ~UpdateCarrier(n)
        <5>1. ASSUME UpdateCarrier(n) PROVE FALSE
          <6>1. n.topic = "carrier.changed" /\ task[n].pc = "save"
            BY <5>1 DEF UpdateCarrier
          <6>2. n # m
            BY <2>2, <6>1
          <6>3. task[n].pc = "done"
            BY <1>1, <2>2, <3>2, <6>1, <6>2 DEF LastAt
          <6>4. QED
            BY <6>1, <6>3
        <5>2. QED
          BY <5>1
      <4>3. PICK q \in Message, a \in BOOLEAN :
              carriers[m.id] = Claim(q, a) /\ carriers'[m.id] = Claim(q, TRUE)
        BY <3>2, <4>1, <4>2 DEF Written
      <4>4. Claim(q, TRUE) = Claim(m, TRUE)
        BY <3>1, <4>3, ClaimSays
      <4>5. QED
        BY <4>3, <4>4
    <3>3. QED
      BY <1>1, <3>1, <3>2, CarriersStep DEF Written
  <2>3. QED
    BY <1>1, <1>3, <2>1, <2>2, CommitsAfter
<1>4. QED
  BY <1>0, <1>2, <1>3 DEF LastAt

\* When every message is handled a carrier is as its last changed message says,
\* unless the call that wrote it failed or another carrier claims the name or
\* the document it brings.
THEOREM CarriersUpToDate == Spec => []CarrierUpToDate
<1> DEFINE Inv == Typed /\ ClaimsOK /\ LastOK
<1>1. Init => Inv
  <2>1. ASSUME Init PROVE ClaimsOK /\ LastOK
    <3>1. /\ \A m \in Message : task[m].pc = "waiting"
          /\ carriers = [c \in {m.id : m \in {n \in Message : n.topic \in CarrierTopic}} |-> NoCarrier]
      BY <2>1 DEF Init, Waiting, Message
    <3>2. QED
      BY <3>1 DEF ClaimsOK, LastOK, LastAt
  <2>2. QED
    BY <2>1, TypedInit
<1>2. Inv /\ [Next]_vars => Inv'
  BY TypedStep, ClaimsStep, LastStep
<1>3. Inv => CarrierUpToDate
  <2>1. ASSUME Inv, AtRest, NEW m \in Message, LastChange(m), m \notin failed, ~Contended(m)
        PROVE  carriers[m.id].name = m.name /\ carriers[m.id].document = m.document
    <3>1. PICK b \in BOOLEAN : carriers[m.id] = Claim(m, b)
      BY <2>1 DEF LastOK, LastAt, AtRest
    <3>2. QED
      BY <3>1 DEF Claim
  <2>2. QED
    BY <2>1 DEF CarrierUpToDate
<1> HIDE DEF Inv
<1>4. QED
  BY <1>1, <1>2, <1>3, PTL DEF Spec

==============================================================================
