# SpringRestAPI: a verification project

SpringRestAPI is the REST server of a recruiting system: a Spring Boot
application of stateless controllers, one service per domain and one DAO per
domain, over several Oracle databases that it shares with other programs. It
keeps little state of its own, but what it keeps is where it is hard to test:
queues and timers of the webhooks, maps that mirror tables, pooled connections,
and records that are read, checked and written back by requests that overlap.

This directory holds TLA+ modules for those parts, the TLC configurations that
check them on small instances and proofs of the main results for every instance.
`PROJECT.json` lists components, runs, mutants, hazards, theorems, and for every
definition the lines it models. The Java paths below are relative to
`src/src/main/java/com/jobdiva/api/`, the SQL ones to
`src/divers/webhook-db-script/`.

    tlc -config DeliveryFaults.cfg MCWebhookDelivery     # a run
    tlapm WebhookDeliveryProofs.tla                      # the proofs of a module


## 1. Inventory

### How the parts interact

    row change -> trigger (PL/SQL) --HTTP--> WebhookController -> WebhookService
                                                  |  syncList, one Timer per item
                                                  v  after 4 s
    customer's URL <--POST-- WebhookDao.send <- WebhookDao.syncWebhook
                                  |  TWEBHOOK_LOG     ^ WebhookRequestDataDao
                                  v                   | (a connection by hand)
                              WebhookScheduler, every 10 minutes

    client --JWT--> JwtRequestFilter (session cache) -> controller -> service
                         -> inTransaction { DAO ... } -> Hikari pool -> database

The triggers are the only callers of the webhook endpoint. The webhook
configuration (`TWEBHOOK_CONFIGURATION`, `webHooksMap`) is read by the sending
threads and written by requests. Every DAO borrows from the pool of the main
database its team belongs to.

### Components

| component | state | operations | hard behaviour | what makes it correct | model |
|---|---|---|---|---|---|
| Webhook delivery (`dao/webhook/WebhookDao`, `WebhookScheduler`) | `TWEBHOOK_LOG` rows, sending threads, `globalList` of a run | `syncWebhook`, `send`, `waitAndRetry`, `insertWebhookLog`, `updateWebhookLog`, `reSendFaultRequests` | retries against a batch claimed by a timer, crashes, lost answers, a configuration that changes in between | one sender per message, at most one receipt, "sent" is final and true, failed rows come back | `WebhookDelivery`, `WebhookOutbox` |
| Webhook configuration (`WebhookDao`) | table, `webHooksMap`, `syncObj` | update, delete, `refresh`, `init` | write and refresh of two requests interleave, a read fails under the lock | the map agrees with the table once writers are through, the lock is handed back | `WebhookConfig`, `WebhookMirror` |
| Webhook queue (`service/WebhookService`) | `syncList`, timers | `syncWebhook`, `canExecute`, the timer task | an event arrives while the timer fires, the change is not yet committed | no change is lost by coalescing | `WebhookQueue`, `WebhookChanges` |
| Webhook triggers (PL/SQL) | none | post inside the transaction | post before commit | every change is posted | partly in `WebhookQueue` |
| Webhook message data (`WebhookRequestDataDao`, `BIDataDaoOld`) | none | queries | a connection taken by hand | it goes back | partly in `ConnectionPool` |
| Pools and transactions (`dao/setup/JobDivaConnectivity`, `service/AbstractService`) | Hikari pools | `inTransaction`, `getConnection` by hand | the pool runs out, statements fail on every path | what is taken goes back, nothing is lent twice | `ConnectionPool` |
| Job record (`dao/job/JobDao`, `JobUserDao`, `JobContactDao`) | `TRFQ`, `TRFQ_CUSTOMERS`, `TRECRUITERRFQ`, `TRFQ_STATUSLOG` | `createJob`, `updateJob`, `assignUserToJob`, `updateUserRoleForJob`, `unassignUserFromJob` | read, check, write back; two ways of computing a role | the tables agree, one shown contact, one primary of each kind | `JobRecord` |
| Job notes, attachments, applications, user fields | their tables | inserts, searches | a note number from a MAX | numbers are unique | - |
| Session cache and authentication (`config/JobdivaCacheBasedUserCache`, `config/jwt`, `controller/*/authenticate`) | the session of a user in the memory of each node, its rows in `TRESTAPI_CACHE` | three login endpoints, `get`/`put`/`removeUserFromCache`, the token filter, Spring's provider | a lookup and a login, or two logins, cross on several nodes; the user's record changes meanwhile | what a login replaced stays replaced, its token is known, only the record refuses | `SessionCache` |
| Company and contact records (`dao/company`, `dao/contact`) | owners, addresses | create, update | lists of items worked through on rows read before; counters that count items | one primary owner, one default address, the last item decides | `CustomerRecord` |
| Company search and notes | their tables | queries, inserts | - | - | - |
| Events and tasks (`dao/event`) | events, their users and notifications | create, update | a helper that commits half-way | all or nothing, true answers | `updateEvent` in `ConnectionPool` |
| Billing and pay records, invoices (`dao/invoice`) | records, rates, approval | create, update, approve, unapprove | numbering from a MAX, approval against invoices | numbers are unique, no invoice on an unapproved record | not modelled yet |
| Starts and assignments (`dao/activity`) | activity dates, status, log | set, update, terminate | order of dates, failures after a servlet call | dates in order, log complete | not modelled yet |
| Swagger UI (`resources/META-INF/resources/webjars`) | none | third-party scripts, packed | - | - | not modelled |
| Timesheets, submittals, candidates and resumes, hotlists, onboarding, Coddler, chatbot, job boards, BI feeds, proxy and Okta, request limit, controllers and models | their tables, or none | row inserts and updates, queries, remote calls | little beyond single statements | - | not modelled, reasons in `PROJECT.json` |

### What is hard to test

`PROJECT.json` lists the hazards with their lines. In short: the interleaving of
the ten-minute batches with threads that retry; a row claimed and never released;
map and table refreshed in another order than written; an event that meets a
firing timer; a pool whose last connections wait for each other; a transaction
that commits half-way; checks made on rows that two requests read before either
wrote, or that count the items of a request instead of the rows it leaves; a
session that comes back after the login that replaced it.


## 2. Modules

| module | models | extends |
|---|---|---|
| `WebhookDelivery` | one message from its timer to the customer, all nodes | - |
| `WebhookOutbox` | abstract: what delivery promises about a message | - |
| `WebhookConfig` | table, maps, lock and requests of the configuration | - |
| `WebhookMirror` | abstract: what the map of each node shows of the table | - |
| `WebhookQueue` | events, `syncList`, timers, commits | - |
| `WebhookChanges` | abstract: what becomes of a change | - |
| `ConnectionPool` | the pool of one main database, and what its requests commit | - |
| `JobRecord` | the contacts, users, roles and status of one job | - |
| `SessionCache` | the session of one user on all nodes | - |
| `CustomerRecord` | the owners and addresses of one company or contact | - |
| `MC<module>` | constants of the instances | the module |
| `<module>Proofs` | theorems and their lemmas | the module, `TLAPS` |

Each of the three webhook modules instantiates its abstract one under a refinement
mapping: `Phase` of a message in `WebhookDelivery`, `Shown` and `Due` of a node in
`WebhookConfig`, `Phase` of a change in `WebhookQueue`.

Definitions introduced by a "Mutant" comment are variants of the
action below them with a plausible bug; no specification uses them. Each
property of a passing run has one that breaks it (`PROJECT.json`, "mutants").

### WebhookDelivery

A sending thread is a record: the message it holds, whether it is a fresh event
or a claimed row (`resend`), the rest of its batch (`todo`), the attempt and where
it stands in `send`. A scheduler is the local state of `reSendFaultRequests`:
databases left, `list` (`found`), `globalList` (`claimed`).

| action | code |
|---|---|
| `SyncWebhook` | `WebhookDao.syncWebhook` for a fresh event; dropped by `enableSyncType` |
| `Send` | lookup in `webHooksMap` at the start of `send`; an inactive or missing configuration returns and leaves the row alone |
| `PostOk`, `PostFails` | `postForEntity`: 200; another status, or an exception, after which the customer may have the message ("answerLost") |
| `Wake` | the five seconds of `waitAndRetry`, then `send` again with a higher counter |
| `WriteLog` | `insertWebhookLog` or `updateWebhookLog`, whose catch swallows errors ("logWrite"); the thread goes on with its batch |
| `Tick`, `SelectFaults`, `Claim`, `FinishRun` | the timer task: a SELECT per database, the batch UPDATE of INPROGRESS, the thread for all claimed rows |
| `AbortRun` | the catch around the loop ("claim") |
| `SetConfig`, `Crash` | the configuration of a team as `send` sees it on one node; a node stops and starts |

Every node serves events and has its own map (`config`). Only the nodes in
`Schedulers` run the timer task: `enable.webhook` says which (`WebhookScheduler.java:64`),
and nothing in the code keeps two nodes from having it set.

The message of a fresh event and its row have one name. A fresh event's row
appears with `WriteLog` and has status 1 or 2. `received` counts 0, 1 and "more";
no property tells two receipts from three. JSON, URL, signature, COUNTER and
timings are left out.

`WebhookOutbox` says the same of a message without threads, lists and retries:
new, sending, failed, sent, abandoned. Sent and abandoned are final, a confirmed
message has been received. A crash of a sender is `Abandon`; what the code lets
happen to a message is visible there at a glance. That every step of the detailed
module is one of these steps or a stutter is checked by `delivery_faults` and proved
in `WebhookOutboxProofs`.

### WebhookConfig

A request (update, insert, or delete when its setting is `Absent`) writes the
table and then runs `refresh` in three steps under `syncObj`: remove, read, put.
Rows of a team are kept by the request that inserted them, because UPDATE-then-
INSERT can leave a team with two; the read returns any. The URL, secret and
ACTIVE are one `Settings` value. `Fail` is an exception of any statement,
`Restart` the loss of the map and `refresh(null)`. The table is common to the nodes,
the map and `syncObj` are a node's own: a request refreshes the map of the node that
served it and no other.

`WebhookMirror` has the table, the maps and the refreshes each node still owes,
without locks and requests: a map changes by one step that takes a row as it is then.
A node shows there what the request between its read and its put has read (`Shown`),
and owes a refresh of a team while a request of its own has written and not yet read
(`Due`).

### WebhookQueue

An event is one change of an entity. The order of an entity's events is open: after
the DELETE of a row come the updates of rows that hang on it (`tr_webhook_delete.sql`
posts a candidate for each of its categories), or whatever follows a rollback.

| action | code |
|---|---|
| `Post` | `syncWebhook` under `synObj`: the item is added, or the event coalesced |
| `Schedule`, `ScheduleFails` | `new Timer()`; "threads": the JVM has none |
| `Commit` | the change's transaction, of its own because the trigger posts before it |
| `Fire` | the four seconds are over: `canExecute` takes the item off |
| `Read` | `WebhookDao.syncWebhook`: the message, with the data committed by then unless it tells of a Delete |
| `Skip`, `Configure` | `enableSyncType` is false and `syncWebhook` returns; "config": what the map enables changes |
| `ReadFails` | "data": a query throws, or `getBiDataInfo` swallows the error and its null does |
| `Crash` | "crash": list and timers are gone |

`Skip` and `ReadFails` come after the item was taken off, and the timer task
swallows the exception: what was coalesced is lost with no trace (`missed`), until a
later event has data of the entity sent. What a posted change is answered by is kept
in `shown` (its change was in the data), `overtaken` (its transaction was open then)
and `deleted` (it was coalesced and the message told of a Delete, which carries no
data). `SyncItem` joins team, id and type as the code does, digits and all; a type is
one symbol. `validParameters` refuses nothing the triggers post and is left out.

`WebhookChanges` says what becomes of a change without list and timers: pending until
a message answers for it, then shown, overtaken or deleted, lost only where a fault
hit its entity, and brought back by the next change. A pending change is one that an
event with a timer or a read to come will answer for (`Covers`, `Phase`).

### ConnectionPool

`holder` is the pool's book, `main` and `extra` what a request has, `pending` and
`kept` what it has written and what of that is committed. Four kinds of requests:

| kind | code |
|---|---|
| `transaction` | `AbstractService.inTransaction`, as in most services |
| `byHand` | a connection with a finally block (`createCandidateHoltilst`, `getBiDataInfo`); the catch may answer null |
| `createJob` | a transaction that takes a second connection for `Get_Rfqno_Team` |
| `updateEvent` | a transaction with up to two batches of users (`modifyUsersOnEvent`), each between `setAutoCommit(false)` and `setAutoCommit(true)` |

`Batch` commits whatever was pending, since turning the autocommit on does so in
JDBC. `End` is commit, rollback or close: it gives the connection back (`GiveBack`)
and decides about what is pending (`Settle`). `StatementFails` includes the commit of
an `updateEvent`, which a driver may refuse on a connection with its autocommit on.
`TimeOut` is Hikari's `connectionTimeout`, which the configuration leaves at 30 s. One
pool is modelled; a request uses one. Left out: a commit that succeeds and whose
answer is lost, and the INSERT of a hotlist's recruiter, whose failure
`createCandidateHoltilst` swallows.

### JobRecord

`job`, `contact`, `user`, `roleId`, `logged` are the columns of the five tables the
properties need; a `request` holds what a running `updateJob` has read, and the
statements of other calls come between its reads:

| action | code |
|---|---|
| `Load`, `ReadContacts`, `ReadUsers` | the row of the job, later its contacts, later its users |
| `ReadUser`, `ReadContactRow` | for one user of the request after the other: `jobuser` (line 2062), then the row in `TRFQ_CUSTOMERS` (2154) |
| `Save`, `RollBack` | the checks, the writes and the commit; a check that fails, an exception |
| `Assign`, `UpdateUserRole`, `Unassign` | `JobUserDao`, both rows of a user |
| `MissUser`, `FinishLate` | a role change or removal whose first statement finds no row, and its second one later |

`Save` makes the writes in one step: they are in one transaction, and what others see
of it is the commit. It applies what the request asks for to the rows there are by
then, as the statements do: an UPDATE or DELETE of a row that has gone does nothing,
an INSERT whose key is taken fails (`KeysAreFree`), and whether a row is inserted or
updated depends on what was read. All calls write a user's row in `TRECRUITERRFQ`
first and whoever hit it keeps the others out until the commit, so the two writes of
a call are one step where the first one finds its row. Where it finds none nothing is
locked; hence `MissUser` and `FinishLate`.

The code leaves the two tables apart in two ways, and `crossed` (a history variable)
names the users concerned: a user removed after an `updateJob` has read a row of
theirs gets a contact row without a user row, or keeps one; a user assigned between
the two statements of a role change or removal ends with a contact row of another
role, or none. `RolesAgree` says that nothing else does. `SwitchRole` (createJob,
updateJob) and `ChainRole` (the other two) are the two computations of a role number.

Assumptions of the model: a user has at most one row in `TRECRUITERRFQ` and in
`TRFQ_CUSTOMERS` per job (their keys); a request names a user once; users that `updateJob` and `createJob` change have a customer row (they
refuse others); a contact of the client is not at the same time a user. Left out,
hence "partly": the other columns of `TRFQ`, `TRECRUITERRFQ_ROLES`, job boards, notes,
e-mails, user fields, and the checks of who may do what.


### SessionCache

A session is named by the login that retrieved it and the version of the user's
record it was made of. Every call of the cache and every statement is an action:
nothing in the code keeps those of two requests apart.

| action | code |
|---|---|
| `LookInMemory`, `Select`, `Fill` | `getUserFromCache`: the memory, the table, `cache.put` of the row that was read |
| `Evict`, `Delete` | `removeUserFromCache`, once or twice at the start of a login, by endpoint (`Rounds`) |
| `Keep`, `Clear`, `Insert` | `putUserInCache`: the memory, DELETE and INSERT of the row |
| `Begin` | `/authenticate`, `/internalAuthenticate`, `/appAuthenticate` |
| `Check` | `AbstractUserDetailsAuthenticationProvider.authenticate` and the copy of it in the repository: a session of the cache that passes (`Usable`) is the answer, any other sends the login on to `Retrieve` (`cacheWasUsed`) |
| `Retrieve` | `JobDivaAuthenticateDao.authenticate`: its password check and the new session |
| `Ask` | `JwtRequestFilter`, a request with a token |
| `Change`, `StatementFails`, `Crash` | the user's record changes, a statement throws, a node restarts |

`began`, `before`, `stored` and `clean` are history for the properties. Left out,
hence "partly": the signing and the expiry of tokens, permissions by name, the
controllers of the ATS, a session that does not survive JSON, the two SELECTs of
`Retrieve` as two, and `removeUserFromCache` at `JwtRequestFilter.java:106`, which
nothing reaches. A login may be answered with a session that another request put into
memory after its DELETE; it does not write the table then, and other nodes refuse its
token. `TokenIsKnown` has that late lookup in its premise (`clean`).

### CustomerRecord

One record, a company or a contact, and overlapping requests that bring a list of
owners or of addresses. The names of the variables are those of the local variables
of `UpdateCompanyDao` (`all`, `numOfprimary`, `pairs`, `maxAddId_tmp`,
`maxAddressId`, `update`); `ContactDao` has the same method for owners and its own
for addresses.

| action | code |
|---|---|
| `ReadOwners`, `ReadAddresses` | the SELECT at the start, with the counters |
| `RemoveOwner`, `PutOwner` | an item with action 2, with any other one |
| `PutCompanyAddress`, `DeleteCompanyAddress` | an item of `updateCompanyAddress` |
| `AddContactAddress`, `PutContactAddress`, `DeleteContactAddress` | an item of `updateContactAddresses` |
| `CommitOwners`, `CommitAddresses` | the check at the end, the statements, the commit |
| `Refuse` | a check that fails, an exception, the rollback |

What a request writes takes effect at its commit, on the rows of that moment: an
UPDATE that finds no row leaves none (`LeavesAddress`), an INSERT of a row that exists
fails (`OwnersFit`, `AddressesFit`), which assumes that (record, recruiter) and
(record, address number) are keys. `clean`, `honest` and `word` are history. The
model shows how much the checks need: with a removal flagged primary by mistake
two primary owners remain (`honest`), with another request in between two as well
(`clean`), and a company can end without a default address, since no update writes
its flags. Left out, hence "partly": the other columns, phones, types, user fields,
financials.


## 3. Runs

| run | expects | distinct states | question and answer |
|---|---|---|---|
| `delivery_faults` | pass | 390,096 | Two nodes, one of which runs the scheduler, with every fault but a lost answer: one sender per message (`OneOwner`), at most one receipt (`AtMostOnce`), sent only after a 200 (`SentWasReceived`), sent is final (`SentIsFinal`), and delivery implements `WebhookOutbox` |
| `delivery_live` | pass | 124,827 | With refused and ambiguous POSTs: a claimed row has somebody who comes back to it (`NoStranding`), senders let go (`SendersLetGo`), and a customer who answers gets everything (`EventuallySent`) |
| `delivery_stuck` | violation | | "Resend every ten minutes" (`FailedIsResent`) fails, see finding 1 |
| `config_faults` | pass | 738,412 | On two nodes: the map agrees with the table when writers are through (`Coherent`), never shows a setting no row has (`NeverStale`), a lookup under the lock sees no gap (`LockedLookup`), requests end (`RequestsEnd`), and all of it implements `WebhookMirror` |
| `queue_faults` | pass | 219,268 | With crashes, no threads, a changing configuration and failing queries: items and timers belong together (`ItemsHaveOwners`), coalescing loses no change (`NoLostUpdate`), each is answered or its entity hit (`EventuallyShown`), and the queue implements `WebhookChanges` |
| `queue_delete` | violation | | A posted Delete need not be reported (`DeleteTold`), finding 2 |
| `pool_faults` | pass | 186,096 | Only `createJob` keeps a connection (`OnlyJobsKeep`), none is lent twice (`LentOnce`), a request is committed wholly or not at all (`NoHalves`) and its answer says which (`AnswersAreTrue`), but for an `updateEvent` with batches, and requests end though they wait for each other (`RequestsEnd`) |
| `pool_leak` | violation | | The pool is not whole after `createJob` (`PoolIsWhole`), finding 3 |
| `job_sequential` | pass | 708,860 | One `updateJob` at a time, its reads among assignments, role changes and removals: the tables agree on users not `crossed` (`RolesAgree`), the shown contact is the job's (`ShownIsCustomer`), the status is the logged one (`StatusIsLogged`), one primary of each kind after it (`UpdateKeepsOnePrimary`) |
| `job_shown` | violation | | Two `updateJob` leave two contacts shown (`OneShown`), finding 4 |
| `session_faults` | pass | 7,636,775 | What a login replaced does not come back to its node or the table (`ReplacedForGood`), two rows come from crossed logins only (`RowsCrossed`), a login's token is known (`TokenIsKnown`), no stale session refuses a login (`RefusedByTheRecord`) |
| `record_checks` | pass | 2,410,183 | A request that met no other leaves one primary owner at most (`OnePrimaryLeft`) and one default address (`OneDefaultLeft`), and the last item about an owner decides (`LastWordCounts`) |

Each passing run also checks its module's `TypeOK`.

### Bounds, and why they are enough

* Delivery: two messages of two teams in two databases; the safety run has two nodes,
  one of them with the scheduler, and three threads, two on that node and one on the
  other. Two threads let the thread of a fresh message, a batch and the next batch
  meet pairwise; the third sends from a node whose configuration may differ, and
  crashes apart from the scheduler; two databases let a run fail between them. The two
  threads of one node are symmetric there (it checks no liveness). The
  other two runs have one node. `MaxAttempts` is 2, and the code's 5 in
  `delivery_live`. A failed attempt only counts up, so the number matters at its end,
  which all of them reach. With two schedulers `OneOwner` is false (hazard at
  `WebhookScheduler.java:94`): both select a row before either claims it. What is left
  then is proved, `FreshAloneAlways` and the theorems for any number of
  schedulers.
* Configuration: three requests on two teams with two settings, two on one node and
  one on another. Three suffice for a write between the write and the refresh of two
  others, from the same node or not.
* Queue: an insert, an update and a delete of a job, in any order, and an update of
  another job of the team: one event that starts a timer, one coalesced, one that
  meets the firing timer, an update coalesced into a Delete and the reverse; the
  other job has an item of its own but shares the entry of the map.
* Pool: two connections, two `createJob`, one transaction, one by hand, two
  `updateEvent`, one with both batches and one with the second only: exhaustion by
  two that wait for each other, every kind at once, a failure before, between and
  after the batches.
* Job: two users, two contacts, two statuses, and two sets of roles on which the two
  computations differ in form and which hold a primary each: `{S, R, PR}` and
  `{S, PS}`. One role change or removal at a time may be between its statements
  (`MaxLate`). Users, contacts and statuses are symmetric (no liveness is checked
  there). A user without a row in `TCUSTOMER` differs in one write only and is left to
  the proofs. `job_shown` is about two requests and the contacts; one user with one
  role is enough there.
* Session: two nodes, one login by each of the three endpoints, one client that
  sends requests with a token, one after the other. Three logins let a third find
  what two crossed ones left; the record changes once, and with it the password,
  which one login presents new and the others old. Nodes are symmetric.
* Record: two recruiters, three address numbers, a request with up to three items
  and one with one: three items remove, put and remove an owner again, or delete,
  revive and number an address; the second request comes at any time in between.
  Recruiters are symmetric.
* `received` stops at 2 ("more than once"), `counter` at `MaxAttempts`.

### Fairness

Steps of a thread, a timer or a request that has started are weakly fair: the JVM
schedules threads and timers. That includes the answer of a POST, which is an
assumption: the `RestTemplate` has no time-out (`WebhookDao.java:247`), and a customer
who holds the connection for ever holds the thread. In the pool it includes the
end of a wait, which Hikari's time-out gives. Nothing is assumed of new events,
new requests, commits, configuration changes or faults. `EventuallySent` has the
premise `CustomerAnswers`, strong fairness of the 200: it is about the customer,
not the code, and the property says so. `SendersLetGo` needs no such premise.
CHECK_DEADLOCK is off where a run of the system may end because all events or
requests of the instance are used up.


## 4. Findings

1. `delivery_stuck`: a failed row is claimed (INPROGRESS = 1), the configuration is
   found inactive when its turn comes, `send` returns without a log write, and no run
   selects the row again, also after the configuration is active again.
2. `queue_delete`: `syncList` is keyed without the operation, so a Delete within
   four seconds of an Insert or Update is reported as that Insert or Update, and the
   other way round.
3. `pool_leak`: `createJob` closes the statement of `Get_Rfqno_Team` and not its
   connection.
4. `job_shown`: two overlapping `updateJob` both pass "one and only one contact
   shown on job" on rows read before either wrote.

Each is quoted with its lines in `PROJECT.json`.


## 5. Theorems

For every value of the constants that satisfies the modules' assumptions
(`ConstantsAssumption`, `ConfigAssumption`, ...; TLC checks them in each run):

| theorem | says | under |
|---|---|---|
| `WebhookDeliveryProofs!TypeCorrect` | types, `counter <= MaxAttempts` | - |
| `...!OneOwnerAlways` | one sender per message, all faults | at most one scheduler, any number of nodes |
| `...!SentStaysSent` | a sent row never changes | at most one scheduler |
| `...!SentMeansReceived` | sent implies received | any number of schedulers |
| `...!AtMostOnceAlways` | at most one receipt | at most one scheduler, no lost answer |
| `...!NoStrandingAlways` | every claim has somebody who comes back to it | nothing but POSTs fail; any number of schedulers |
| `...!FreshAloneAlways` | a fresh event has one sender, before its row is written; two senders are two batches | any number of schedulers |
| `...!SendersAdvance` | every step of a sender brings it closer to its end | - |
| `WebhookOutboxProofs!OutboxIsImplemented` | delivery implements `WebhookOutbox` | at most one scheduler |
| `...!AbandonedForGood` | what is let go of is never sent or marked again | at most one scheduler |
| `WebhookConfigProofs!TypeCorrect` | types | - |
| `...!CoherentAlways`, `NeverStaleAlways`, `LockedLookupAlways` | map and table | any number of nodes; of the node that serves all requests of a team |
| `...!HolderIsInside` | who has `syncObj` is inside `refresh` | any number of nodes |
| `...!MirrorIsImplemented` | the configuration implements `WebhookMirror` | any number of nodes, all faults |
| `...!RequestsAdvance` | every step of a request brings it nearer to its end | - |
| `WebhookQueueProofs!ItemsAlwaysHaveOwners` | items and timers one to one | - |
| `...!NoUpdateIsLost` | coalescing loses no change but of entities a fault has hit since data of them was sent | all faults; distinct strings of `getSyncItem` |
| `...!ChangesIsImplemented` | the queue implements `WebhookChanges` | all faults; distinct strings of `getSyncItem` |
| `...!EqualTeamsAreDistinct`, `KeysMayCollide` | the strings are distinct where the numbers of the teams are equally long; in general they are not | - |
| `...!TypeCorrect` | types; messages tell of entities that changed | - |
| `ConnectionPoolProofs!TypeCorrect`, `LentOnceAlways`, `OnlyJobsKeepAlways` | the pool's book is right | - |
| `...!NoHalvesAlways`, `AnswersAreTrueAlways` | what is committed, and what is answered | - |
| `...!OnlyJobsStall` | when all that run wait for a connection, every connection is with a `createJob` | - |
| `...!RequestsAdvance` | every step of a request brings it nearer to its end | - |
| `JobRecordProofs!TypeCorrect`, `RolesAgreeAlways` | the tables agree on users not `crossed` | any number of `updateJob`, their reads apart |
| `...!UpdatePrimaries` | at most one primary of each kind after `updateJob` | its picture of them is true |
| `...!SoloAlways`, `StatusIsLoggedAlways` | shown contact and status | one `updateJob` at a time |
| `SessionCacheProofs!TypeCorrect`, `ReplacedForGoodAlways`, `RowsCrossedAlways`, `TokenIsAlwaysKnown`, `RefusedByTheRecordAlways` | all four properties of the cache | any nodes, logins, lookups, faults |
| `CustomerRecordProofs!TypeCorrect`, `OnePrimaryLeftAlways`, `LastWordCountsAlways`, `OneDefaultLeftAlways` | what the checks achieve | any rows, requests and lists |

The arguments:

* Delivery. `Typing` bounds the counter of a thread by where it stands
  (`CountingThread`: below the limit unless it has given up). `OneOwner` is not
  inductive: a scheduler that has selected rows does not own them yet. The invariant
  (`QuietInv`: nodes without the scheduler have an idle one) adds what each part
  says of the log: a thread's messages are accepted, a fresh one has no row and a
  resent one's row is claimed (`ThreadInv`); what a scheduler collected is claimed,
  what it found is failed and still unclaimed (`SchedInv`); only failed rows are
  claimed (`LogInv`); and no two owners overlap (`Disjoint`). `SentWasReceived`
  needs `AnsweredInv`: a settled thread's message has been received. `AtMostOnce`
  needs `OnceInv`: a message somebody may still post, now or in a later batch, has
  not been received. `NoStranding` needs `ClaimsInv`: every claimed row has an
  owner, and a scheduler between two runs has an empty list. With several schedulers
  `BatchInv` remains: what a fresh thread holds has no row, and batches are made of
  rows. `ImplementsOutbox` uses the invariant of `OneOwner`: a message's owner and
  its row determine its phase (`Facts`), and a step either lets messages go, which
  the outbox abandons (`LetGo`), moves one message (`OneMoves`), claims a set of
  failed ones, or leaves owners and rows alone. `AbandonedForGood` is a fact about
  the outbox then. `SendersAdvance` compares what is left of the batch, then the
  counter, then the place in `send` (`Closer`).
* Configuration. `BlockInv` is about the lock and holds on any number of nodes: a
  request inside `refresh` holds the lock of its node and no other does (`LockInv`,
  `HolderInv`), between remove and put the entry is missing (`GapInv`), and the row
  a request may insert is not there before (`RowInv`). `FreshInv` and `GotInv`, for
  the node that serves all requests of a team (`Local`): what was read is still in
  the table, or a writer has still to refresh. `ImplementsMirror` needs `BlockInv`
  alone: with it a remove drops an entry, a read loads one, and the put is a
  stutter.
* Queue. `OwnerInv` ties an item to the one event whose timer will take it off;
  `CoveredInv` says of every posted event that it is shown, overtaken or deleted,
  that an event which answers for it has its timer or read still to come, or that its
  entity was hit by a fault and no data of it sent since. `ImplementsChanges` follows
  the same `Covers`: a fact for each kind of step says whose phase it may change
  (`PhaseFact`), and `CoveredInv` that what got lost was hit. That the
  strings of `getSyncItem` are distinct is an assumption; `SyncItemSplits` takes a
  string apart again where the numbers of two teams are equally long.
* Pool. `PlaceInv` says which connections a request may have at each place,
  `BookInv` that a connection that is out is one its holder knows of. For the
  commits `DataInv` says at each place what a request has pending and what is kept
  of it; `NoHalves` and `AnswersAreTrue` read it off. `OnlyJobsStall` is a
  consequence of `PlaceInv` and `BookInv`: a request that waits for its first
  connection has none, and one that waits for its second is a `createJob`.
* Job. `SameRole` compares the two computations on the sets a request can name;
  `RolesAgree` is not inductive, since an `updateJob` writes by what it has read:
  `AgreeInv` adds, for users nothing crossed, that who was found is still there and
  has a contact row, and that who has a contact row is there (`ReadInv`). A write by a
  true picture leaves the tables in agreement (`SaveAgrees`). `SoloInv` adds
  `PictureInv`: the row and the contacts the one `updateJob` read are still those in
  the tables.
* Session. `OriginInv` says where sessions come from: a row is from a login that has
  answered, what is in memory or in a hand from one that has retrieved it. With
  `OverInv` (who is noted as over is over) `ReplacedForGood` is inductive: older
  sessions come to a node only from a row or a hand, and the last DELETE left
  neither. `CrossInv` adds to `RowsCrossed` what a login about to insert knows of
  the table. `VersionInv` and `AloneInv` (who meets nobody finds nothing in the
  cache and leaves its row) give `TokenIsKnown`; `RefusedByTheRecord` is inductive
  as it is.
* Record. `WordInv` ties the items to what a request will write, `OwnersInv` what it
  read to the table while no other one commits, `CountInv` bounds the primary owners
  it leaves by `numOfprimary`, which needs honest removals. `FlagsInv`: the flags of
  a contact are those of the rows as its own statements leave them. `CompanyInv`: a
  company has one default address at most, and a new one is never it.

Only model-checked: everything under fairness (`EventuallySent`, `SendersLetGo`,
`RequestsEnd` of configuration and pool, `EventuallyShown`), which TLAPS does not do.
Of three of them the part without fairness is proved: each step of a sender
(`SendersAdvance`) or of a request (`RequestsAdvance`) leads towards the end, none of
another takes it back, and the lock and the pool are held only by who has steps left
(`HolderIsInside`) or by `createJob` (`OnlyJobsStall`). That such a step is then
possible and taken is what the runs show.
The four properties of the violation runs are false.


## 6. Not modelled

HTTP and JSON, the texts of queries, permissions, the remote servlets (not in
the repository), PL/SQL of packages, the other programs that write to the same
tables. `PROJECT.json` gives a reason for each component left out.

The scripts under `resources/META-INF/resources/webjars` (`swagger-ui-bundle.js`,
`swagger-ui-standalone-preset.js`, `springfox.js`) are most of the repository's
JavaScript. They are packed third-party code that shows the documentation of the API
in a browser; nothing of the API runs through them, and nothing here is about them.

Three hazards are listed without a property: the POST without time-outs (excluded
by the fairness assumed), and two of the billing records.


## 7. Plan

Done, in this order: delivery with its outbox, configuration, queue, pool, job
record, session cache, the transaction of events (in the pool), company and
contact records; theorems for each; delivery and configuration on several nodes;
the three refinements, each checked and proved for every instance.

Left:

1. `BillingRecord`: numbering, approval and its withdrawal against invoices.
2. `StartLifecycle`: dates, termination, the log. Much of it happens in a servlet
   of another server.
3. `WebhookPipeline`: queue and delivery composed, with a change in the database
   as input and the customer's picture as output. `WebhookChanges` and `WebhookOutbox`
   are the two halves it would compose.
4. What two schedulers can do to a message at most: how often it is posted, as a
   function of their number.
