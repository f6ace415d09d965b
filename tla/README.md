# A TLA+ model of whmcstemplate-bridge

The bridge is a Django service between a storefront (SPA) and WHMCS, the system
of record for customers, invoices, orders and services. It keeps little state of
its own: one row per login and one row per payment attempt in the database, and
in Redis the read cache, the version counters, the refresh locks, and the
idempotency keys of orders. Everything else is a call to WHMCS or to the Zibal payment gateway.
What is hard about it is therefore not computation. It is what happens between
two of those calls: another worker, a lost answer, a second click, a process
that dies, an entry that expires.

Paths below are relative to `src/`.

## 1. Inventory

### The components, their state and their operations

| component | code | state | operations |
|---|---|---|---|
| payments | `apps/payments/services.py`, `zibal.py`, `models.py`, `views.py`, `reconcile_payments.py` | the `PaymentAttempt` table | `start`, `settle` (from the browser callback and from cron), `reconcile_payments` |
| orders | `apps/orders/views.py`, `apps/whmcs/services/orders.py` | the result and the lock of each Idempotency-Key, in the cache | `POST /orders/`, list, detail, cancel |
| accounts | `apps/accounts/*`, `apps/whmcs/services/accounts.py` | the `User` table, JWTs | login, registration, `link_to_whmcs`, password change, profile, logout |
| core cache | `apps/core/cache.py` | entries, namespace counters, refresh locks, a thread pool per process | `get_or_set`, `_schedule_refresh`, `invalidate` |
| client and transport | `apps/whmcs/client.py`, `actions.py`, `transport.py`, `exceptions.py` | none, but the retry loop of a call | `call` |
| billing | `apps/billing/*`, `apps/whmcs/services/billing.py` | none | invoices and quotes (cached reads), `record_payment` |
| hosting, domains, upgrades | `apps/hosting/*`, `apps/whmcs/services/hosting.py` | none | lists, detail, nameservers, lock, password, cancellation, upgrade; each behind an ownership gate that is a cached read |
| support | `apps/support/*`, `apps/whmcs/services/support.py`, `attachments.py` | none | tickets, replies, uploads |
| catalogue | `apps/whmcs/services/catalogue.py` | none | products, TLD prices, currencies |
| exception handler | `apps/core/exceptions.py` | none | `api_exception_handler`: what the storefront is told |
| tasks | `apps/whmcs/tasks.py`, `config/celery.py` | the broker's queue | `place_order`, warm-up, with late acknowledgement and retries |
| aggregate, dashboard | `apps/core/aggregate.py`, `dashboard.py` | a thread pool per page | parallel reads with a deadline |
| request helpers | `apps/core/http.py` | none | `client_ip` |
| deployment | `deploy/gunicorn.conf.py` | the threads of a worker, the connection pool they share | |
| readiness, throttling | `apps/core/views.py`, `throttling.py` | a cached probe; rates | |
| pagination, normalizers, permissions, middleware, configuration | `apps/core/*`, `apps/whmcs/normalizers.py`, `config/*` | none | |

`PROJECT.json` lists the same parts with what is modelled of each.

### How they interact

- Every view reads through `get_or_set`, and every write is followed by
  `invalidate` of the client's namespaces. Both go to a cache that all threads
  of all workers (gunicorn, Celery) share, one command at a time.
- `settle` runs in any number of callback requests and in the cron command, and
  these share only the attempt's row, whose lock is held for one short
  transaction, never across a call.
- `create_order` and `record_payment` rely on `transport.py` for the meaning of
  an exception: a WHMCS error must mean that nothing was done, a transport error
  that anything may have happened.
- Every write on a service, a domain or a ticket begins with a cached read, which is
  its ownership gate: WHMCS itself acts on any id it is given. So the staleness
  of the cache decides what such a write may do.
- The threads of a worker, those of its dashboards and the cache's refreshers share
  one pool of connections, so a page may keep the call of another request waiting.
- `api_exception_handler` turns every exception into the code that the storefront acts
  on: it decides whether a customer tries again.
- `link_to_whmcs` runs in logins and registrations; they share the `User` table
  and its two unique columns. The client id it stores scopes every later call.

### What is hard, and what makes each part correct

| component | hard behaviour | what has to hold |
|---|---|---|
| payments | verify is read before the row lock and used after it; a call to WHMCS after the lock; a timed-out AddInvoicePayment processed later; crashes between any two steps; two attempts for one invoice, or an invoice paid elsewhere meanwhile; answers that confirm nothing | WHMCS is credited only with money taken, as asked, once; a closed attempt was credited, as far as WHMCS' answer told; nothing final is undone; paid money reaches WHMCS in the end |
| orders | double clicks, answers that are lost or confirm nothing, expiry of the lock and of the result, crashes; a task delivered again | one key, and one task, buys once; a replay is the key's own order; a rejected basket bought nothing; WHMCS is sent the basket that was asked for |
| accounts | first logins racing, emails that WHMCS moves, rows that administrators edit, a password verified in one call and written in another | only clients that WHMCS confirmed, or an administrator chose, are linked; whoever is confirmed gets in; a change is proven |
| cache | a slow reader or a background refresh storing after an invalidation; a counter that expires; locks of dead refreshes | a read that begins after an invalidation does not see older data; stale entries are refreshed |
| hosting, support, billing | a gate that is stale; several invalidations after one write; a ticket read again while others fill the cache; upgrades ordered and paid in any order | a page shows what was answered as done; a stale gate lets through no more than the promise of the cache allows; a service stays in its product group |
| transport, exception handler | late processing of an abandoned attempt; error pages instead of answers | a write is carried out at most once; an error that says so means it was not |
| aggregate, deployment | sections that fail, hang or end after the deadline; connections running out | a page lacks only what it says it lacks; nobody else's call is starved; every request is answered |

Every hazard has its line and its properties in `PROJECT.json` under `hazards`;
those without a property say why.

## 2. The modules

| module | what it is | composes |
|---|---|---|
| `Settlement` | the promise of the checkout, per attempt: Take, Credit, Presume, Close | |
| `Payments` | start, settle, callback, reconcile_payments; gateway and WHMCS external | refines `Settlement` |
| `Basket` | what create_order makes of a basket, as WHMCS reads it back; `client_ip` | |
| `Orders` | POST /orders/ with key, lock and result, create_order; the task place_order and its broker | extends `Basket` |
| `CachedReads` | the promise of the cache to its callers: when a read may answer with what | |
| `Cache` | one namespace, one key of it, all its versions | refines `CachedReads` |
| `ClientArea` | the pages of one customer, and what is done from them: hosting, support, billing, cancel_order, the profile | uses `CachedReads`, once for each namespace |
| `WhmcsWrite` | what a service may take a writing call for: confirmed, rejected, or of unknown outcome, in one step | |
| `Transport` | one call: allowlist, retries, `_parse`, `_classify` | refines `WhmcsWrite` |
| `Errors` | the exceptions, the handler, and what an error answer means | extends `Transport` |
| `Worker` | a gunicorn worker: threads, dashboards with `gather`, refreshers, one connection pool | |
| `Accounts` | login, registration, link_to_whmcs, password change | |
| `XProofs` | the theorems about `X` and their proofs | extends `X` |
| `MCX` | the instance of `X` for TLC: symmetry, constant values | extends `X` |

Definitions keep the source's names where they have one there (`settle`'s
`verify`, `is_settled`, `record_payment`, `_parse`, `link_to_whmcs`' steps), and
the `map` of `PROJECT.json` gives the lines each one stands for.

An operator `X_Y` whose comment begins with "Fault:" is not part of any
specification. It is a version of `X` with a plausible mistake, and stands just
before it. Putting it in place of `X` must make TLC refute a property: this is how
each property was shown to depend on the code. `mutants` in `PROJECT.json` says
which one goes with which property.

### How state and actions correspond to the code

**Payments.** `row` is the table (`status`, `amount`, and whether a trackId was
saved), one row per attempt; `session` is the gateway's session, `invoice`,
`credits` and `transids` are WHMCS. `settler` is the program counter of each call
of `settle` with what it has read: `verify` (the gateway is asked), `apply` (the
transaction under `select_for_update`), `record` (AddInvoicePayment), `save`
(RECORDED). A browser is a callback request, a job a reconcile_payments process
with its `queue`, the query evaluated once. Dying, raising and timing out are
actions; a timed-out call goes into `late`, from where WHMCS processes it at any
later time. A cancelled callback needs no action of its own:
`ZibalCallbackView` settles whatever the gateway's `success` parameter says.
What the gateway may answer to verify is `Verifications`: besides the truth, an answer of another
code (102 to 104 are about the merchant, 203 about the trackId) that `verify` takes for unpaid, and
one without an amount, if `OddAnswers` has them. `RecordUnconfirmed` is the answer of WHMCS, or of what
stands before it, that `_parse` returns as data although nothing confirms the call: the settle goes
on to `save`, and the attempt is in `unconfirmed` (history). `PaidElsewhere` is every payment of
the invoice that the checkout has no part in; `overtaken` (history) has the attempts that had begun,
and were not credited, when another payment of their invoice came, by it or by another attempt.

**Orders.** `post` is one process per POST (`lookup`, `lock`, `check`, `call`,
`store`, `release`), `lock` and `memo` are the two cache keys of each
Idempotency-Key, `placed` is WHMCS. Two history variables say when the guard is
known to be gone: `forgotten` (the lock or the result has expired, or was deleted
by a handler although the order exists) and `failed` (the invalidation after
AddOrder raised, or its answer could not be decoded, and the view released the lock as after
a rejection). An answer that confirms nothing makes the request go on with no order
(`AddOrderUnconfirmed`): the id 0 that `to_int` makes of it is stored and replayed, and the request is in
`unconfirmed`. A message of `place_order` is `queued`, `working` or
`acknowledged`; it is delivered again when its worker is lost (`repeated`, history:
lost with a purchase made or on its way), and never for any other reason.

**Basket** is the pure part of `create_order`: a line of a basket becomes entries of
parallel arrays (`put`), a dictionary becomes PHP's serialization, and the address
of the buyer is the n-th from the right of the parts of X-Forwarded-For that are not blank.
What the serializers do not declare is dropped, and what they require has to be there. Options and custom
fields are texts under keys, as they were written; `_numeric_keys` makes numbers of the keys, and of two keys for one
number ("1" and "01") keeps the later text. Each is read back the way WHMCS
reads it, and `OrderIsAsAsked` compares the two ends in every state in which an
order has been placed.

**Cache.** A value is named by the number of changes the data had seen when it
was read, so "older" is `<`. `entry` has one entry per version because the version
is part of the cache key. `settled` (the latest change whose invalidation has
returned), `base` and `counted` are history. All cache commands are steps of their
own: get of the counter, its set when it is missing, get of the entry, add of
the lock, the producer, set of the entry, delete of the lock, incr.

**CachedReads** has neither versions nor entries: `data` counts the changes,
`settled` is the latest one whose invalidation has returned, and a reader that began
when `settled` was s is answered with some moment of `Answers(s)`, s to now, or
any moment once the counter is lost (`kept`). `Cache` maps `kept` to `counted` and
each reader to what it will be able to show (`Seen`).

**ClientArea.** `req` is the program counter of each request: `gate` (the cached
read), `order` (the live read of `cancel_order`), `call`, `invalidate` (with `todo`, the namespaces to come), `reread`
(`get_ticket(fresh=True)`, and the profile after `update_profile`), `done`. A moment is named by the number of changes
that WHMCS had seen, so that a page is the moment it shows; `product` has the
service's product at each moment, which is what a stale page is about, and
`upgrades` the products with an unpaid upgrade order. `lost` is the moment from which a resource
belongs to somebody else. `told` (history) is the latest change that an answer has
reported as done, for each page. The tables `Gate`, `Shows` and `Invalidates` say
for each operation what stands in front of it, which pages show its effect
(from what WHMCS does with the call) and what the service invalidates. The first and the last are
compared (`NothingForgotten`), and what does not agree stands in a table of its own, `Forgotten`: the
domains, which a payment may register or renew. `told` is about the rest (`Vouched`). An
answered write is taken for one that was carried out: what an answer does that confirms nothing is in the modules of
the callers where it matters.

**Transport.** One call; `wire` holds the attempts that WHMCS has not processed,
`answer` what the attempt waited for has got back. The answers range over all
combinations of status class and body that `_parse` distinguishes and that
WHMCS or a proxy in front of it can send. A body that httpx cannot decode is not an
answer: its exception is none of those that the loop catches, and leaves it at once (`Undecodable`). Actions are pairs (verb, rest), as
only the verb decides about a retry.

**WhmcsWrite** is the same call as its caller sees it, without attempts and answers. It is
still to come until the call has returned (`Ended`), and then has an `Outcome`: confirmed (data of a 2xx
answer), rejected (an error of WHMCS, and a refusal before anything was sent), unknown (a
transport error), unconfirmed (data of another status), or escaped (an exception that the retry
loop does not know). `Orders` and `Payments` take AddOrder and AddInvoicePayment for its
steps: `AddOrder`, `AddOrderRejected`, `AddOrderUnanswered`, `AddOrderUnconfirmed` and
`AddOrderUndecodable` there, `record_payment`, `RecordRaises`, `RecordTimesOut` (also for an escaped exception)
and `RecordUnconfirmed` here, and `LateArrives` in both.

**Errors** continues where the call ends:
the exception, what the views of orders and logins make of it (`Raised`), and the
handler's answer (`Answered`), to be compared with what WHMCS has done.

**Worker.** `job` has every call that could be under way, by whom and for what: a section
of a page, a request's own, a refresher's. Its attempts wait for a connection, have
one, or end; the reads of a section are one job, as they come one after the
other. `thread` is where each request thread is: `collect` (`as_completed`), `leave` (the
end of the `with`, which waits), `call`, `answered`. A section that is a cache hit is
finished at once. The deadline may strike at any moment while a page collects.

**Accounts.** `user` has one row per email; `owner` and `password` are WHMCS.
`req` is the program counter of each request: `validate`, `add`, `get`, `create`,
`reget` (the three steps of Django's get_or_create), `update`, `save`, `answer`,
`write`, and `raised`, the IntegrityError that ends it. An answer without the field that has the id gives
`Zero`, the default of `to_int`, with which the request goes on (`LoginUnconfirmed`, `RegisterUnconfirmed`,
and `RegisterUnprocessed`, when WHMCS has made no client). `AdminSaves` is the form of /admin: a row's client and its
activity. `vouched` (the clients that an answer named for an email, or an administrator gave it; `Zero` for an
answer that named none) and `moved` (has an email ever changed its client, or a row been given another
client than its email has) are history; `odd` counts such answers, moves and forms, up to `MAX_ODD`.

## 3. What TLC checks

| run | instance | result |
|---|---|---|
| `safety` | two attempts, one invoice, one callback, one cron job, balances in hundredths of which one is rounded and one is below the gateway's minimum, multiplier 1, verify answers that deny a payment, answers of WHMCS that confirm nothing, payments elsewhere; 1,243,400 states | `CreditOnlyMoneyTaken`, `RecordedIsCredited`, `SuccessIsTrue`, `CreditedOnce`, `CreditIsWorthTheMoney`, `OverpaidIsOvertaken`, `RecordedIsFinal` hold, and `Payments` implements `Settlement` (`KeepsPromise`) |
| `live` | one attempt, callback and cron, with both kinds of odd verify answers, and with fairness; 11,517 states | `PaidIsCredited`, `AbandonedIsVerified` hold |
| `stale` | one attempt, callback and cron | `PaidIsNeverFailed` is **violated** |
| `lost_response` | one attempt, cron only, with fairness | `PaidIsRecorded` is **violated** |
| `retries` | three processes with two keys or none, one message, and all baskets of at most two lines (`AllBaskets`), answers that confirm nothing or cannot be decoded; 1,416,441 states | `OneOrderPerKey`, `ReplayIsOriginal`, `RejectedIsNotPlaced`, `TaskBuysOnce`, `OrderIsAsAsked` hold |
| `reads` | one reader, writer and refresh, two versions, two changes, with fairness; 303,780 states | `ReadYourWrites`, `InvalidationRetires`, `StaleIsRefreshed` hold, and `Cache` implements `CachedReads` (`KeepsPromise`) |
| `lapse` | the same, safety only | `NothingOlderSurvives` is **violated** |
| `calls` | every allowed and forbidden action, two retries, with fairness; 26,277 states | `WriteAppliedOnce`, `OutcomeIsKnown`, `CallReturns` hold, and `Transport` implements `WhmcsWrite` (`CallIsOneStep`) |
| `logins` | two requests, two emails (one of staff), two clients, two passwords, two of odd answers, moves and forms; 3,139,115 states | `LinkIsVouched`, `LinkingSucceeds`, `ChangeIsProven` hold |
| `pages` | two requests, two changes, three products in two groups, one operation of each kind and five of the seven pages (`Pages`; the other two, invoices and transactions, are invalidated along with these); 1,845,989 states | `PagesShowFinishedWrites`, `OwnChangeIsShown`, `GivenAwayIsLeftAlone`, `UpgradesStayInGroup` hold |
| `worker` | two threads, two sections, one refresher, four connections, one retry, with fairness; 97,872 states | `UnavailableIsExplained`, `CallsAreNotStarved`, `RequestsReturn` hold |
| `moved` | one request, two emails, one client | `ConfirmedIsLinked` is **violated** |

Each passing run also checks the module's `TypeOK`.

### The four disagreements

- `stale`: a settle that asked the gateway before the customer had paid applies
  "not paid" after another settle has committed PAID: the row becomes FAILED.
  `services.py` promises "never as FAILED". If the other settle's call to WHMCS
  then fails, nothing selects the row again.
- `lost_response`: AddInvoicePayment was carried out and its answer lost. Every
  retry is refused as a duplicate, an exception like any other, so the row
  stays PAID for ever. No money is lost; `CreditedOnce` holds. The gap
  `reconcile_payments` says it closes stays open in the bridge's own table.
- `lapse`: the counter of a namespace may expire or be evicted before the entries
  of its versions. It then starts at 1 again, and version 1's old entry is
  readable, which the comment in `invalidate` says must not be.
- `moved`: a client whose email was changed in WHMCS cannot log in with the new
  one: the old row has the client id, and the new row violates its unique column.

### Why the bounds are enough

- *Payments*: amounts are in hundredths. The races need two settlers of different kinds and one row. Two
  attempts add what two sessions do to one invoice, and rows in the queue of a
  job while another is settled. In `safety` the balances are one below the
  gateway's minimum and one with decimals, whose amount in rial is rounded; in `live`, one that is rounded to the even
  neighbour, below. The gateway takes what was asked or one less. An invoice is paid elsewhere
  in whole or down to a smaller balance, which is what an attempt can be overtaken by. `safety` has the
  verify answers that deny a payment, `live` also those without an amount, which to a row is a mismatch like the
  amounts that are wrong; `stale` and `lost_response` have none, so that what they find is due to the order of steps alone. Whatever the number of attempts, settlers and
  amounts, the theorems of section 5 hold.
- *Orders*: of three processes, two with one key are a holder and a racing second, or a purchase and the
  retry after an expiry; two keys show that keys do not mix, and a task is
  delivered again after each of its steps. The baskets are of up to two lines (three are refused), where either may
  lack a field that the other has: with parallel arrays, this is what can go wrong.
  For baskets of any length, and any number of proxies, `OrderIsAsAsked` is proved (section 5). The baskets are looked at in
  every state in which something was ordered, and are not themselves part of the state. Some
  have a field that is not declared, lack one that is required, or are not host names, and some
  requests have blank parts in X-Forwarded-For. The keys of options are one number, two in another order than the
  numbers', two for the same number, and one that is no number.
- *Cache*: one reader, one writer and one task give each race of two threads with an
  invalidation, and `MaxVersion = 2` the restart at 1 and the restart at 2. The
  bound cuts `invalidate` off at the last version. The safety theorems hold for
  any number of readers, writers, tasks, versions and changes.
- *Transport*: `MaxRetries = 2`, the default of the settings; every action of the two lists.
- *Worker*: two threads, as one starves the other; two sections, so that one fails while
  the other runs; and (2 - 1) * 2 + 1 + 1 = 4 connections, the least that
  `CallsAreNotStarved` asks for: with three of them TLC refutes it without `Roomy`.
  As configured it is (4 - 1) * 5 + 4 + 1 = 20 of 20 (`gunicorn.conf.py:18`,
  `dashboard.py:37`, `cache.py:39`, `config.py:38`), which nothing in the code ties together.
- *Accounts*: two requests race for one row or for one client; a third would be in
  a race of the same kind. Two clients and two emails are the least that can be
  swapped, with two moves (`MAX_ODD`); two answers without a client are the least of which the second collides with the first.
- *ClientArea*: `Offered` has one operation of each kind: a write behind a gate
  with one invalidation, one with three, a live read behind a gate, a write without
  a gate, one that reads again, a payment with four invalidations, cancel_order
  with a live gate and five. The others
  differ from these only in their rows of the tables. Two requests are a write and
  what reads or writes next to it; two changes are an own one and somebody else's (a
  resource given away, a second upgrade). The products are two of a group and one of
  another; the proofs also cover those that the catalogue does not list.

Symmetry is used in safety runs only.

### Fairness

- *Payments*: weak fairness of each step of a settle, because both HTTP clients
  have timeouts and the transaction is short. Strong fairness of the cron
  command's own steps: cron starts it again and again, and neither the
  gateway nor WHMCS refuses for ever. Nothing is assumed of the customer or the
  callback.
- *Cache*: reads keep coming, threads make progress, locks expire (their TTL), and
  neither the request nor the refresh fails at the same step for ever.
- *Transport*: each step of the loop, as every request has a timeout and every
  sleep an end. Nothing is assumed of WHMCS.
- *Worker*: each call makes progress (a connection is granted or waiting for it times out,
  an answer comes or its timeout) and each thread goes on. Nothing is assumed of the
  order in which the pool hands out connections, of the deadline, or of new requests.

`Orders`, `Accounts` and `ClientArea` have no liveness: a client gives up or tries again, and
the code promises nothing about it. There deadlock is unchecked in `Orders` and
`Transport`, whose finite set of requests simply ends.

## 4. Preconditions taken from the code and its surroundings

- The row lock: `select_for_update` locks on the production database. The sqlite
  of the local settings ignores it; there `RecordedIsFinal` rests on sqlite's
  single writer.
- `transid`: WHMCS refuses a transaction id it knows. `settle` sends the refNumber
  of the verify answer or, without one, the trackId. The runs, `NoDoubleCredit`,
  `OverpaidTakesOvertaking` and `PromiseKept` take a gateway that names a payment the same way in every
  answer (`RefAnswers` a singleton); with both kinds of answers for one
  payment, two settles send two ids and both are credited: twice is then the most
  (`NoCreditPerReplay`, which assumes nothing of the gateway).
- `OverpaidTakesOvertaking` assumes that no invoice has a negative balance to begin with. A balance only
  falls (`PaidElsewhere`): that staff add a line or a late fee to an invoice is not modelled.
- `OrderIsAsAsked` is about baskets in which no number is written as two keys (`KeysAreDistinct`).
  Without this TLC refutes it, with the keys "1" and "01": one of the two options is not ordered. That
  `isdigit` accepts digits which `int` does not (a superscript two) ends in a server error before any call.
- An administrator's form is one step, and sets a row's client and activity. Edits of its email, its password or
  `is_staff`, rows that are added or deleted by hand, are not modelled; the proofs about `Staff` take the set for constant.
- A proxy appends the address of a connection, which is never blank (`RoutesAssumption` in
  `Basket`); what the client has put before it may be anything.
- The catalogue (`ClientArea`): products keep their group, GetProducts lists the same
  ones all the time, and staff move a service only to another product that its
  customer has ordered. A group id of 0 (which WHMCS does not give) would be taken
  for "no group" by `list_products`, and every product would be offered.
- What a write shows (`Shows`) is WHMCS' doing, and a payment may let WHMCS
  register or renew domains, whose namespace `record_payment` does not invalidate. This is the one entry
  of `Forgotten`, which `PagesShowFinishedWrites` excepts. With the entry removed TLC refutes the property, in the
  steps of one payment: the change settles, the call is answered, four namespaces are invalidated,
  the answer is given, and the page of the domains still shows the moment before.
- WHMCS answers a call either before or after the bridge has given up on it,
  processes each request at most once, and a WHMCS error means that the action
  was not carried out. The last is what `_parse` and its callers rely on, too; and
  so is that a 429 means that nothing was done, whoever sends it.
- The broker (`Orders`) delivers a message that has not been acknowledged again only when
  its worker was lost.
- A customer pays only a session to which the bridge has sent him (`CustomerPays`).
- A request has made no change before the call whose error it answers with (`Errors`).

## 5. What is proved

TLAPS checks the following for every value of the constants (`PROJECT.json`,
`theorems`). Each proof module has the same shape: a lemma that the initial
states satisfy the inductive invariant, one lemma for each group of actions that
the group preserves it, with a step per action and below it the conjuncts that
the action can disturb; then the temporal theorem.

**Payments** (`PaymentsProofs`). The invariant is `TypeOK /\ SettleInv`. The three
safety properties are not inductive: whether a settle may credit depends on the
answer it carries. `SettlerInv` says what a settle may rely on at each program
counter (an answer "paid" stays true however late it is used; at `record` the
money has been taken as asked; at `save` WHMCS has it, or has given an answer that confirms nothing), and a conjunct says
the same of the calls in `late`. From it: `TypeCorrect`, `NoFalseCredit`,
`NoFalseClosure`, `NoFalseSuccess`, `CreditsAreWorthIt` (what WHMCS is credited with is the money taken,
to half a rial), and `RecordedStays` (the second look under the
lock is what makes RECORDED final).
`NoDoubleCredit` adds an invariant that ties `credits` to `transids`, under the
assumption that `RefAnswers` is a singleton. `NoCreditPerReplay` does without it: WHMCS credits an
attempt once per form of its reference, and there are two of them.
`OverpaidTakesOvertaking`: whatever lowers the balance, a credit or a payment elsewhere, overtakes every other
attempt that has begun and is not credited, so one that is neither overtaken nor credited asks for
the balance as it is (`DueInv`); its credit makes it nothing, and one that makes it less is an overtaken
attempt's. No sum over attempts is needed.
`PaidIsReconcilable` is the safety half of `PaidIsCredited`: a paid row (`PaidInv`) is one that the cron
command selects until it is too old, and it leaves "paid" in four ways (`PaidLeavesFor`): as recorded, by the
settle that `stale` is about (`AskedTooEarly`), by one whose answer denied the payment (`DenialApplied`), or by one
whose answer had no amount (`NoAmountApplied`). `PromiseKept` is the refinement:
the initial states map to `Settlement`'s and each step maps to Take, Credit, Presume, Close or
a stutter; monotonicity lemmas (`CreditMonotone`, `TakenStays`) carry it. An attempt is presumed to be
credited after an answer that confirms nothing, and only its money taken as asked allows it. `PromiseSuffices` is the other
direction of use: whatever implements `Settlement` credits once, only as taken, and
closes only what was credited or presumed to be.

**Orders** (`OrdersProofs`). `OrderInvariance`: `TypeOK /\ OrderInv`. `KeyInv`
is the strengthening: for a key the cache has not forgotten, an order bought or
on its way is guarded by lock or result, there is at most one holder, and who has
bought is the holder. `Committed` includes calls that WHMCS has yet to
process, without which a late call breaks the induction. From it `KeysBuyOnce`,
`ReplaysAreOriginal` and `RejectionsPlaceNothing`, each with its exceptions, requests in `unconfirmed` and in `failed`. `TaskInv` does the same for messages: one that
has bought and is not `repeated` is no longer queued; with it, `TasksBuyOnce`.
`OrdersAreAsAsked` has two halves. `BasketIsKept`: by `ArraysKeepLines` a line of the
parallel arrays has the fields that were put for it, and no others (`indexed` with its
holes); `ProductIsAsAsked` and `DomainIsAsAsked` say that these fields mean what the customer asked
for, by way of what validation adds and drops (`CleanedProduct`, `CleanedDomain`) and of the lengths in PHP's
serialization (`TextsAreWhole`), and by way of `_numeric_keys`, which loses nothing when the keys are distinct; and `NoDomainTwice` keeps the domains of two lines apart. `AddressIsObserved`: the
proxies' own hops are the last ones and none of them is blank, so that counting from the right finds the one wanted.

**Cache** (`CacheProofs`). `WarmInvariance`: `counted => Warm`. `base[v]`, the
changes that were settled when v became current, is the middle term: nothing
stored under v is older than `base[v]`, and a reader that holds version v began
no later than that. `CountedBefore` shows that `counted` cannot become true
again, so the invariant may be assumed before each step. From it
`ReadsFollowInvalidations`, `InvalidationRetiresAll`, and the refinement
`PromiseKept`: with the invariant, every step is a step of `CachedReads` or a
stutter. The `Known` lemmas say that a reader's since is never ahead of `settled`. `PromiseSuffices` shows
`ReadYourWrites` of `CachedReads` alone, so that `ClientArea` loses nothing by using it.

**ClientArea** (`ClientAreaProofs`). `AreaInvariance`: what an answer vouches for
(`told`) is settled; a write has settled, or has still in `todo`, every page that
it vouches for (`NothingForgotten` compares the tables, with `Forgotten` as the difference); the ticket that is read
again is promised as of the reply; and at `call`, the gate has shown a moment at which the
resource was still the caller's, and a product of the first one's group. Every
step is one of three kinds: one request moves (`OneRequest`, `OneSettles`), WHMCS changes
(`ProcessInv`, `LaterInv`), a counter is lost. From it `FinishedWritesAreShown`,
`OwnChangesAreShown`, `FormerOwnerIsStopped`, `UpgradesAreConfined`. The theorems are
about all operations at once, where the run has one of each kind.

**Transport** (`TransportProofs`). `CallInvariance`; `WritesAreNotRetried` (no
prefix fits a write) and `AnswersAreTrue` (what `_parse` makes of an answer
is true of WHMCS) are the two facts it rests on. From it `WritesHappenOnce`,
`RejectionsAreFinal`, `SuccessesAreTrue`, and, with two lemmas about the tables of
`Errors`, `OutcomesAreKnown` (three codes leave the outcome open: `upstream_unreachable`, `order_outcome_unknown`
and `internal_error`). `CallsAreOneStep` is the refinement: the steps before a write has returned map to stutters,
`OutcomeIsTrue` makes the step in which it returns one of Confirmed, Rejected and Unknown, and after it only what is
left on the `wire` can happen (`EndInv`: one attempt at most). `CallsCountDown` has
the measure behind `CallReturns`: `StepsLeft` goes down with each step of the call.

**Worker** (`WorkerProofs`). `WorkerInvariance`: `CallInv` says that a thread's own call
and the calls of its page exclude one another and end with their request, and `PageInv` that
a page is only left when it is complete or late. `GapsAreExplained` follows from the second.
`EnoughConnections` counts with the first: when a thread waits for a connection of its own
call, those in use belong to sections of other threads (at most one per section), to
other threads' own calls (and such a thread has no section's) or to refreshers; an injection into
(other threads x sections) plus refreshers gives `(T - 1) * S + R`, which is below
the number of connections. Three theorems are what `RequestsReturn` rests on: whoever waits has something under way to wait
for (`NobodyWaitsInVain`, by `WaitInv`), calls under way only count down, whatever others do (`CallsCountDown`),
and requests only move forward (`RequestsMoveOn`).

**Accounts** (`AccountsProofs`). `AccountInvariance`: `RequestInv` says what a request
may rely on at each program counter (its client was confirmed for its email, and
still has the email unless WHMCS has moved one; the row it read is still there).
`Keeps` names what no step takes back, so that `OthersStay` proves for all
requests but the moving one at once, and each action is left with its own. The
argument behind `LinkingNeverRaises` is `LinkedIsMoved`: while no email has moved and no row was given another's client,
a row that has the client has the email too, so an INSERT that collides finds its row
at the second look; the id 0, which several emails may have been answered with, is left out. From it also `LinksAreVouched`, `PasswordsAreStaffs` and the
action property `ChangesAreProven`.

The assumptions are those named in the modules: the constants' types, distinct
`None`, browsers and jobs disjoint, at least two cache versions, proxies that append addresses.

Only model-checked: liveness (`PaidIsCredited`, `AbandonedIsVerified`,
`StaleIsRefreshed`, `CallReturns`, `RequestsReturn`), which is out of the prover's reach: it needs ENABLED
of the fair actions. Of the first and the last two, the parts that are safety are proved. The inductive invariants (`SettleInv`, `OrderInv`, `WarmInv`,
`WriteInv`, `AccountInv`, `AreaInv`, `CallInv`, `PageInv`, `DueInv`, `PaidInv`, `WaitInv`) were checked with TLC before they
were proved; the runs have only what they are for.

## 6. Weaknesses that the models show and no run singles out

- `--include-abandoned` verifies sessions that are still being paid and fails
  them; the payment that follows is looked at only if the customer's browser
  comes back.
- An invalidation that raises after AddOrder makes the view delete the lock and
  report a rejected basket although the order exists (`failed` in `Orders`).
- In a namespace without a counter, a reader's `set` of 1 may undo an
  invalidation's 2 (`counted` in `Cache`).
- A refresh lock that expires lets a second refresh start, and the first one's
  `finally` deletes the second's lock.
- `_parse` reads the body before the status: a JSON object with a 4xx or 5xx
  status that names no error is returned as data (`unconfirmed` in `WhmcsWrite`), and the callers look at nothing
  but the fields they want. WHMCS may have done nothing, or do it later:
  - `record_payment` ignores the answer: the row is saved as RECORDED, the customer is told "success", and
    reconcile_payments never selects the row again (`RecordUnconfirmed` in `Payments`).
  - `create_order` returns the order id 0, which the view stores under the key and replays for as long as the result lives
    (`AddOrderUnconfirmed` in `Orders`).
  - `validate_login` and `register` return the client id 0: the row, even one that has a client, is linked to it, and
    its owner gets a JWT. `IsLinkedToWhmcsClient` takes 0 for no client, so that this token opens nothing until a later login
    links the row again. The next row to which this happens collides with the first, and raises (`LoginUnconfirmed`, `RegisterUnconfirmed` in `Accounts`).
- `httpx.DecodingError` is not a TransportError: an answer whose body cannot be decoded leaves the
  retry loop at once and is answered with 500 "internal_error" (`Undecodable` in `Transport`). For the
  view of orders it is an exception like a rejection: the lock is deleted, although the order may exist
  (`AddOrderUndecodable`).
- `verify` takes any code but 100 and 201 for "not paid": a paid row is FAILED by an answer about the merchant's account
  (102 to 104) or the trackId (203), and parked as MISMATCH by one without an amount. A later callback may
  set it right; reconcile_payments selects neither (`DenialApplied`, `NoAmountApplied` in `Payments`).
- AddInvoicePayment's amount is the attempt's, and the invoice is not looked at
  again: an attempt that another payment has overtaken overpays it, whether another attempt's or one on WHMCS' page, by
  staff or from credit (`OverpaidIsOvertaken` says that nothing else does).
- `record_payment` does not invalidate the domains that a payment may register or renew
  (`Forgotten` in `ClientArea`): their page stays as it was for the time it lives.
- `_numeric_keys` makes one number of two keys: of the options "1" and "01" one is dropped without an error.
- The former owner of a service, domain or ticket keeps passing the cached gate
  until his copy of the page expires or one of his own writes is answered
  (`GivenAwayIsLeftAlone` is about after that). For writes through the gate
  WHMCS does not check the owner again.
- When the answer of a write is lost, nothing is invalidated: the pages stay as
  they were for the time they live (`AnswerLost` in `ClientArea`).
- upgrade has no idempotency key: a second attempt after a lost answer orders,
  and is invoiced, again.
- cancel_order reads "Pending" and cancels in a second call: an order that was paid
  in between is cancelled all the same, although only a pending order "may" be
  withdrawn (`get_order` and `Process` in `ClientArea`). When its last read fails, the
  customer is told of an error, and the order is cancelled.

- The lock that is "deliberately kept" after an unknown outcome (`orders/views.py:81-82`)
  lives 120 seconds: a retry with the same key after that places the order again. In
  `Orders` the lock expires at any moment, and such a key counts as `forgotten`.
- `order_outcome_unknown` is an `ApplicationError` without a status of its own, so it is
  answered with 400, like a basket that was rejected: only the code tells them apart (`Raised`
  in `Errors`).
- `place_order` is acknowledged late: when its worker is lost after AddOrder, the broker
  delivers the message again and the customer is billed twice, which its
  docstring (`tasks.py:75-78`) rules out for lost answers (`repeated` in `Orders`). It also
  names an idempotency key that the task does not have.
- `refresh_client_cache` re-reads "hot data after a webhook/write" through `get_or_set`: while
  the page is cached and nothing was invalidated, it reads nothing (`tasks.py:51`).
- A dashboard waits for the sections it has given up on (`Leave` in `Worker`), so its 25
  seconds are no bound on the answer, and a section that ends between the deadline
  and the answer is reported as unavailable all the same.
- Dashboards may starve one another: four of them ask for 20 connections, and the refreshers for
  four more, of 20. Only calls outside of dashboards are safe (`CallsAreNotStarved`), and with the
  settings as they are, by exactly one connection; what sections suffer ends in
  `unavailable`. These are the settings of `deploy/gunicorn.conf.py`. `docker-compose.yml:4` and `Dockerfile:24` start gunicorn
  without that file, with one thread per process: there 0 * 5 + 4 + 1 = 5 of the 20 are enough, and a dashboard
  competes with refreshers only. `docs/DEPLOYMENT.md:193` advises raising `GUNICORN_THREADS` first of all: with five
  threads it would take 4 * 5 + 4 + 1 = 25 of the 20, and nothing says that `WHMCS_MAX_CONNECTIONS` has to follow.

## 7. What is not modelled, and the plan

Left out for good: public lists, wording and serialization, normalizers,
logging, middleware, permissions, settings, entry points, `benchmark_api` and `whmcs_ping`;
they keep no state that a step could get wrong. Left out inside modelled parts:
parameter encoding of the transport, the keep-alive of its connections (`Worker` has the pool, `Transport`
does without), throttling of logins, JWT expiry and blacklisting, `ttl = 0` in the cache, and the
warm-up tasks, which are readers of the cache like any others.

- *Readiness* (`core/views.py`): the probe's verdict is cached for `PROBE_TTL`. Two requests that
  find no verdict both probe ("One upstream probe per PROBE_TTL", `views.py:69`, holds only
  for requests one after the other), and a slow probe that fails may overwrite the newer verdict of
  one that did not. It was tried as a part of `Worker`; the product of its states with
  the calls' is too large for the liveness check, and on its own it is one variable with a TTL.
- *Throttling*: rates are counted by the framework, not in this repository.
- *Pagination, attachments*: pure functions of one request and its answer. Nothing else in the models depends on what they compute.
- *Catalogue*: public reads, shared by all customers, that nothing invalidates; `Cache` covers how
  they are cached, and `ClientArea` the product groups that upgrades read.

What would come next:

1. Pure functions against a reference definition: pagination, attachment limits.
2. The readiness verdict as a module of its own, with the clock of its TTL.
3. `Orders` and `Payments` with an instance of `WhmcsWrite` for each of their calls, in place of the
   actions that stand for its steps, and `ClientArea` with writes whose answers confirm nothing.
