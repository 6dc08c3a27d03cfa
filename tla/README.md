# Invoice Management API: TLA+ models and proofs

These modules model the part of the service where requests, background jobs,
the cache, the mail server and deployments meet: what happens to the rows when
handlers of `app/` interleave at every `await`, when processes die between two
steps, and when a decision was made on a value that is no longer current. All
paths below are relative to the repository's `app/`, unless they start with
`alembic/`, `infra/`, `README.md` or `entrypoint.sh`.

## 1. Inventory

### 1.1 Components

| component | source | state it keeps | operations |
|---|---|---|---|
| writes to an existing invoice | `routers/{invoices,payments,lineitems}.py`, `crud/{invoices,payments,lineitems}.py` | rows `invoice`, `invoice_line_item`, `invoice_payment` in PostgreSQL; an identity map per request | add and refund a payment, add and drop a line item, PUT, PATCH, `/send`, DELETE |
| money | `schemas.py`, `models.py`, `crud/invoices.py` | `NUMERIC(15, 2)` columns | validation, rounding, sums, the status derived from them |
| dates of an invoice | `routers/invoices.py`, `schemas.py` | `issue_date`, `due_date` | PUT, PATCH; every read validates them again |
| read cache | `crud/invoices.py`, `crud/clients.py`, `redis.py` | Redis keys `invoice:{id}`, `client:{id}` with a TTL of 300 s | fill on GET, delete on writes |
| overdue job | `tasks.py`, `celery.py` | `status`, `reminder_sent_at`; messages on the Redis broker | beat's tick, one pass over all due invoices |
| dispatch of a sent invoice | `routers/invoices.py`, `tasks.py` | `status`; messages on the broker | `/send`, task `send_invoice_email` |
| creation and ownership | `crud/{clients,users,invoices}.py`, `models.py` | `client`, `invoice`, foreign keys, ORM cascades | create and delete clients and invoices, delete users |
| accounts and tokens | `crud/users.py`, `routers/{users,auth}.py`, `security.py`, `dependencies.py` | `user` with its unique email, JWT naming an email | register, log in, change email, resolve a token |
| lists and pagination | `crud/*.py`, `dependencies.py` | none; a caller keeps its offset | one page |
| rate limiting | `limiter.py` | counters in Redis with a TTL | count, refuse |
| migrations | `alembic/`, `entrypoint.sh` | the schema, `alembic_version` | upgrade at the start of a web container, downgrade by hand |
| mail bodies, wiring, settings, health, deployment | `email.py`, `main.py`, `settings.py`, `routers/health.py`, `infra/` | none of their own | - |

### 1.2 How they interact

* Every request opens a database session of its own (`database.get_db`), with
  SQLAlchemy's defaults: autoflush, attributes expired at commit, PostgreSQL at
  READ COMMITTED. Requests share nothing in memory; they meet in PostgreSQL and
  Redis.
* A handler typically SELECTs the invoice with its children once
  (`get_invoice_nocache`), decides on what it loaded, and commits. The rows may
  have changed by then; no handler locks a row or compares a version.
* Writers delete the cache key around their commit, most of them after it, the
  payments before it, the overdue job not at all.
* `/send` publishes a message after its commit. Celery acknowledges a message
  when a worker begins it. `celery.py:9` leaves two defaults in place: a push is
  repeated when its reply is lost (`task_publish_retry`), and a message that a
  busy worker has reserved for an hour is delivered again (Redis'
  `visibility_timeout`). So the broker can hold a message twice.
* Beat publishes one `check_overdue_invoices` a day, whether or not the last has
  run.
* A request's user is found anew each time, by the email in its token. Rows hang
  on that user by foreign keys; what is deleted along with a row is what the ORM
  had loaded, and the foreign keys refuse the rest.
* Every endpoint but `/health` asks the rate limiter before its own code runs,
  and after FastAPI has resolved its dependencies: a request whose token is
  refused (`dependencies.py:21`) is a 401 and counts no hit.
* Web containers of a new image migrate the database while those of the old one
  may still serve.

### 1.3 What is hard, and what correct means

| component | hard behaviour | correct means |
|---|---|---|
| writes | overlapping payments do not see each other; checks on stale statuses; DELETE against inserted children; waiting for row locks | the status reflects the payments; no payment on a draft; no orphans; every operation acts as if alone; every request ends |
| dates | column-wise UPDATE of two valid bodies | a stored invoice can be read |
| cache | fill races delete; delete before commit; failure between commit and delete | a cached value is the committed one, or soon gone |
| overdue job | mail inside a transaction that commits at the end; retries; two workers; one address that fails all | one reminder per invoice; everyone due is marked |
| dispatch | failure between commit and publication; acknowledgement before the work; two `/send` | each sending mails once, and once more for each repeated message; only drafts are sent |
| ownership | checks on rows that are gone by the time of the INSERT; cascades that miss what was inserted meanwhile | no row under another user, none without its parents; an account goes as a whole or not at all |
| accounts | email changes hands while tokens live, or during a log-in | a token speaks for the user it was issued to |
| money | the value a handler decides on is not the one the column keeps | the status fits the stored rows up to half a cent |
| lists | rows come and go between two pages | what a walk misses or repeats is accounted for; it ends |
| rate limiting | window boundary; refused hits and strangers' hits count | no interval sees more than two windows allow; a caller gets through |
| migrations | two containers at once; a crash half way; images of different age | the version row tells the schema; who serves finds its columns; everyone comes up |

Every hazard is listed with its line in `PROJECT.json` ("hazards"), with the
properties that watch it. Some do happen, and the properties make an exception for
them: these are listed with a note that names the exception instead (3.2).

## 2. Modules

| module | role |
|---|---|
| `InvoiceRules` | constants and arithmetic: entered and stored amounts, totals, and the status `update_invoice_status` derives |
| `InvoiceLedger` | abstract specification: every operation on an invoice is one step |
| `InvoiceBook` | abstract specification: the rows of an invoice without its status |
| `InvoiceSessions` | the handlers as database sessions; implements `InvoiceLedger` one request at a time and `InvoiceBook` under any overlap |
| `InvoiceDates` | PUT and PATCH of the two dates |
| `InvoiceCache` | the cache-aside protocol |
| `OverdueJob` | beat, queue, workers and the daily pass over all invoices |
| `Outbox` | abstract specification: of an accepted sending one mail is due; it goes out, is lost, or is repeated by a fault |
| `InvoiceDispatch` | `/send`, the message, and the mail; implements `Outbox` |
| `Accounts` | users, their unique email, tokens, and how a request finds its user |
| `TenantTree` | abstract specification: a forest of users, clients and invoices, every operation one step |
| `Ownership` | EXTENDS `Accounts` with the rows under a user; implements `TenantTree` under any overlap |
| `RateLimiter` | slowapi's fixed window |
| `Listing` | EXTENDS `RateLimiter` with a caller that walks the pages of a list |
| `Migrations` | the schema and the containers that change it |
| `MC...` | constants of the small instances for TLC |
| `...Proofs` | theorems and their proofs |

`InvoiceSessions` EXTENDS `InvoiceRules` and instantiates `InvoiceLedger`: the
refinement mapping is the identity on the rows and forgets the sessions. It
instantiates `InvoiceBook` with the payments that are flushed and not yet
committed (`Drawn`) in place of the sessions. `InvoiceDispatch` instantiates
`Outbox` with the mails `Due` of each sending: one with its handler, one for each
message on the broker, one with each worker that has yet to mail it.
`Ownership` instantiates `TenantTree` with sets of pairs computed from its
columns: a user and its email, a client and its user, an invoice and its client.
Operators whose names end in an underscore and a word (`Free_Always`) are never
used by the specifications: each is a plausible mistake in the definition below
it, and `PROJECT.json` ("mutants") names the property that finds it.

### 2.1 InvoiceRules and InvoiceSessions

A payment has two values, `Entered` (what the request says) and `Value` (what
`NUMERIC(15, 2)` keeps), at most half a cent apart, in a unit finer than a cent.
`update_invoice_status` sums the objects of its session: the stored values of
the payments it selects, and the entered value of the one it has just flushed,
which no refresh has rounded yet (`Counted`; `crud/invoices.py:83`). A total is
a product of two columns and is not rounded at all.

State: the committed rows (`live`, `status`, `lineitems`, `payments`), the keys
handed out (`issued`), and for each request slot how far it is (`pc`), which
operation it serves (`op`), the payment it inserts or deletes (`own`), its
identity map (`seen`) and the status it is about to write (`next`). `clean` is
a history variable: the requests no commit has *disturbed* since their first
SELECT. `Disturbs` is the table of what disturbs whom:

| a request that | is disturbed by the commit of |
|---|---|
| pays or refunds | a refund at any time; another payment, PUT or PATCH of the status, `/send` or the job once it has loaded the row; a line item added or dropped once it has loaded the line items |
| sends | a payment, a refund, PUT or PATCH of the status, another `/send` |
| is the job's pass | a payment, a refund, PUT or PATCH of the status |
| does anything else | nothing |

DELETE is not in the table: a handler whose rows are gone finds out when it
flushes or commits. The table is as small as it can be: without any one of its
entries TLC finds a request that does something else than its operation.

| action | code |
|---|---|
| `LookUpPayment`, `SelectInvoice`, `SelectLineItems`, `SelectPayments` | `get_payment`; the SELECTs of `get_invoice_nocache` (`crud/invoices.py:145`) |
| `FlushInsert`, `FlushDelete` | `session.flush()` in `routers/payments.py:104`, `:138` |
| `Recompute` | `update_invoice_status` (`crud/invoices.py:77`): payments by a new SELECT, line items and old status from the identity map |
| `CommitPayment` | `session.commit()` in `routers/payments.py:108`, `:142` |
| `CommitAddItem`, `CommitDropItem`, `CommitEdit`, `CommitSend`, `CommitOverdue`, `CommitDelete` | the handlers that flush and commit in one call |
| `Refuse`, `Fail` | HTTP errors and exceptions; a cancelled request or lost connection at any `await` |

What PostgreSQL and SQLAlchemy contribute is written at the head of the module:
an INSERT of a child key-share locks the invoice, a DELETE locks the payment,
an UPDATE writes changed columns only and raises when the row is gone, a loaded
attribute is not refreshed by a second SELECT.

The initial states are those after `create_invoice` and some editing: a draft
or sent invoice with any line items.

### 2.2 InvoiceDates

`stored` is the committed pair, `loaded[r]` the copy of request `r`. `Put`
takes any ordered pair, `Patch` any body whose *effective* pair (its own fields
completed with the loaded ones, `routers/invoices.py:167`) is ordered; both
write the columns that differ from the loaded copy. `overtaken` and `crossed`
are history. A PATCH with an explicit `null` date ends in `Refuse`: the column
is NOT NULL.

### 2.3 InvoiceCache

Contents are version numbers: `row` for the invoice row, `kids` for its children
(the cached value holds totals). A reader misses, SELECTs the row, SELECTs the
children, and sets the key. Writers differ only in the order of commit and
delete, which is what `Kinds` selects: `edit` (PUT, PATCH: commit, refresh,
delete), `send`, `line`, `erase` (commit, delete), `pay` (delete, commit) and
`job` (commit). `raced` and `excused` are history: which readers a commit
overtook between SELECT and SET, and whether the cached value comes from one of
these or survived a lost delete; `late` whether a write that deletes no key
afterwards has overtaken it. `GET /clients/{id}` is the same protocol with
`edit` and `erase`.

### 2.4 OverdueJob

`task[w]` is the session of worker process `w`: the invoices it has selected
and not processed (`todo`), those marked (`done`), mailed and flagged
(`flagged`), and the `reminder_sent_at` it loaded (`silent`). `Process` is one
turn of the loop (`tasks.py:31-35`), `Rejected` the exception of a refused
recipient, `Fault` any other failure with or without a mail gone out, `Commit`
the single commit (`tasks.py:36`). Any number of processes may run at once:
celery forks one per core, and messages that waited on the broker are taken side
by side. A message that celery puts on the broker twice (1.2) is one `Tick` more:
no property of the job counts messages. Users' requests are single steps here (`SetStatus`, `Extend`,
`Delete`): `InvoiceSessions` takes them apart.

### 2.5 InvoiceDispatch

`request[r]` is a `/send` handler, `queue` the broker, `job[w]` a worker. A
sending that commits is given an identity, so that `mails[s]` can be counted by
sending although the real message carries the invoice's key only. `queue` counts
messages, because the broker can hold several of one sending: `LoseReply` is a
push that arrived and is about to be repeated, `Redeliver` the visibility timeout
of a reserved message. `again[s]` counts these repetitions, `lost[s]` the messages
(and handlers) that a fault or the deletion of the invoice cut short; both are
history.

| action | code |
|---|---|
| `Load`, `TurnAway` | `routers/invoices.py:99-118`: the draft is loaded, or refused |
| `Commit`, `Refresh`, `RefreshRaises` | `crud/invoices.py:68`; `session.refresh` (`routers/invoices.py:120`) |
| `Publish`, `LoseReply`, `HandlerFault` | `send_invoice_email.delay` (`routers/invoices.py:122`), its retries, and its failure |
| `Take`, `LoadInvoice`, `NotFound`, `Mail`, `Finish` | the worker and its task (`tasks.py:39-57`) |
| `WorkerFault`, `Redeliver` | a worker dies or its task raises; a busy worker's message goes to another |

### 2.6 Accounts, Ownership and TenantTree

`email[u]` is the unique column; `used` and `taken` are the keys sequences have
handed out, so that no key comes back. A token is the email its user had at log
in; `of` in a token and in a request, and `owners`, are history. A log-in is two
steps, `LookUp` and `Issue`, with the verification of the password between them
(`crud/users.py:11`, `routers/auth.py:33`). Every other request starts with
`Authenticate` (`dependencies.py:21`) and goes on from the user it loaded.

| action | code |
|---|---|
| `CreateClient` | `POST /clients`: INSERT, if the user still exists |
| `CheckClient`, `CreateInvoice` | `POST /invoices` (`routers/invoices.py:77`): the check and, some awaits later, the INSERT with its two foreign keys |
| `LoadClient`, `DeleteClient` | `DELETE /clients/{id}`: refused while an invoice refers to the client, since the ORM would set a NOT NULL column to NULL (`crud/clients.py:90`) |
| `LoadInvoice`, `DeleteInvoice` | `DELETE /invoices/{id}`, also when the row is gone by then |
| `Collect`, `DeleteUser` | `DELETE /users` (`crud/users.py:68`): what `session.delete` loads through the cascades of `models.py:29-34`, and the flush that deletes this and no more; `Covers` is what the foreign keys ask of it |
| `Rename` | PUT and PATCH of a user; a taken email is a 500 (`Close`) |

### 2.7 RateLimiter and Listing

A bucket of the limiter is a counter and the ticks to its expiry; `Hit` is INCR
with EXPIRE on the first hit, so refused hits count and extend nothing. `recent`
is history: the hits admitted in the last `Window` ticks, each with its age and
its number in its window, which `Burst` and `RefusedOnlyAtLimit` count. Windows belong to
a path and a key, the subject of the token (`limiter.py:12`); `Other` is a
request to the same path with the same key.

In `Listing` the rows are their ids. `Insert` takes the next id, `CommitInsert`
shows the row, in whatever order transactions end. `Page` is
`ORDER BY id LIMIT ... OFFSET ...`. A caller `Begin`s a walk and `Ask`s for pages
until one is short; a refusal leaves it where it was. `was`, `came` and `gone`
are history: the rows at the beginning, and those that have appeared and
disappeared since.

### 2.8 Migrations

`schema` is the set of objects the three revisions touch, `rev` the row of
`alembic_version`. A revision is what it needs to find, must not find, adds and
drops, as its file says. `box[i]` is a web container: down, migrating with the
schema and revision it found and those of its open transaction, or serving.
`Start` reads the version, `Migrate` runs one revision inside the transaction,
`Commit` ends it and starts uvicorn, `Abort` is an error in a revision or at the
lock of another container's DDL, and `set -e` ends the container. `Head[i]` is
the last revision its image knows: images of different age meet in a deployment
and after one that was rolled back. `DowngradeByHand` is the operator's
`alembic downgrade -1`.

## 3. What the runs check

States are distinct states as TLC counts them.

| run | instance | checks | result |
|---|---|---|---|
| `sessions_all` | 2 requests, 8 operations, 1 item (3 units), payments of 2 and 1; 1.3 million states | `TypeOK`, `NoOrphans`, `UndisturbedIsAtomic`, `ImplementsBook` | holds |
| `sessions_covered` | 2 requests, 2 items, 3 payments rounded up, down and to nothing, without refund, added items and PUT; 1.5 million | `PaidIsCovered` | holds |
| `sessions_serial` | 1 request, 8 operations, the same amounts; 34 thousand | `ImplementsLedger`, `StatusReflectsPayments`, `StatusFitsRows` | holds |
| `sessions_live` | 2 requests, pay, refund, delete; 35 thousand | `RequestsFinish` | holds |
| `sessions_overlap` | 2 payments that overlap | `StatusReflectsPayments` | **violated** |
| `dates_overtaken` | 3 requests, 4 points in time; 3 thousand | `TypeOK`, `ReadableUnlessCrossed` | holds |
| `cache_all` | 2 readers, 2 writers of every kind, 2 versions; 99 thousand | `TypeOK`, `FreshUnlessRaced`, `CacheSettles` | holds |
| `overdue_workers` | 2 invoices, one with a refused address, 2 workers, 1 fault; 540 thousand | `TypeOK`, `ReminderBeforeFlag`, `ExtraOnlyAfterFailure`, `SilentOnceFlagged`, `EveryoneMarked` | holds |
| `dispatch_all` | 2 handlers, 2 workers, 2 sendings, 3 faults; 340 thousand | `OneMailPerSend`, `SentIsMailed`, `ImplementsOutbox` | holds |
| `ownership_all` | 2 users, emails, clients, invoices and requests each; 650 thousand up to symmetry | `TypeOK`, `ActsForHolder`, `Rooted`, `ImplementsTree` | holds |
| `listing_all` | 1 caller, pages of 2, 4 ids, 2 hits in 2 ticks, 2 strangers' hits; 690 thousand | `TypeOK`, `Burst`, `RefusedOnlyAtLimit`, `SkipsAreDeletions`, `RepeatsAreLateCommits`, `WalksEnd` | holds |
| `migrations_all` | 2 containers at head 3, 1 at head 2, 1 crash, 3 downgrades; 7 thousand | `TypeOK`, `SchemaIsRevision`, `ServesAtHead`, `RevisionsApply`, `ComesUp` | holds |

### 3.1 The properties in words

* `NoOrphans`: no interleaving of DELETE with the child routers leaves a line
  item or payment without its invoice. Locks and foreign keys do it, not the handlers.
* `UndisturbedIsAtomic`: a request no commit disturbed does exactly what the
  one-step operation of `InvoiceLedger` does, or nothing. So payments may overlap
  line items they have yet to load, edits and line items may overlap anything,
  and `/send` may overlap line items.
* `ImplementsBook`: whatever overlaps, the rows other than the status go through
  the operations of `InvoiceBook`, one at a time: a payment's key is used once,
  drawn, then kept or abandoned, and refunded once at most; the invoice goes with
  all its children, and not while a payment is drawn.
* `PaidIsCovered`: overlapping payments may miss each other, but never make an
  invoice PAID whose stored payments fall short by more than half a cent, while
  nothing takes payments back.
* `StatusReflectsPayments`: a commit that adds or removes a payment leaves the
  status that all payments then in the table call for, the new one as entered;
  true of one request at a time.
* `StatusFitsRows`: the same against the *stored* rows, up to half a cent. The
  error does not add up: with the next payment the earlier ones are read back
  rounded. A payment of less than half a cent is stored as 0.00 and moves the
  status, but by no more than that.
* `FreshUnlessRaced`: a stale cached value comes from a raced fill or a lost
  delete, was overtaken by a payment or the job, or is about to be deleted.
  `InvalidatedOnWrites` (a theorem) is the same without the payments and the job
  left out; it is true of the writes that commit before they delete the key.
* `CacheSettles`: once the writes cease, the cache is empty or current for good,
  although an overtaken reader may still put a stale value back after an
  earlier one has expired.
* `SilentOnceFlagged`: after a committed `reminder_sent_at` only the runs that
  were already on their way mail that invoice, each once; no later run joins
  them. `ExtraOnlyAfterFailure`: one reminder per worker process, and one more
  per failed run.
* `EveryoneMarked`: a due invoice is marked, or stops being due, as long as
  faults are finitely many, unless an invoice with a refused address is due
  again and again.
* `OneMailPerSend`: a `/send` that does not commit mails nothing; one that does
  mails once at most, and once more for each time its message was put on the
  broker again. Nothing else repeats a mail: not the death of a worker, since the
  message is acknowledged before the work, nor a handler that fails after its
  commit.
* `SentIsMailed`: a `/send` that commits is mailed in the end, unless faults or
  the deletion of the invoice took every message of it there was; a status that
  others write meanwhile does not keep it.
* `ImplementsOutbox`: handlers, broker and workers pass a sending on and lose
  nothing on the way; one fault takes or repeats one mail of one sending at most,
  and a sending of which nothing is due any more does not turn up again.
* `ReadableUnlessCrossed`: only a request overtaken between its SELECT and its
  UPDATE can put the dates in the wrong order; the next that is not restores
  them.
* `ActsForHolder`: a request acts for the user its token was issued to, as long
  as nobody else has ever had the email in it. `Rooted`: an invoice's client and
  user exist and the client is that user's. `ImplementsTree`: each commit is one
  operation on the forest.
* `Burst`: an interval as long as a window sees at most one hit less than two
  limits. `RefusedOnlyAtLimit`: who is refused has had its limit within the last
  window; refused hits do not lengthen the wait. `WalksEnd`: a caller gets to its last page through all the refusals.
* `SkipsAreDeletions`: a walk misses a row that was there all the time only
  behind a deleted one, one row for each deletion. `RepeatsAreLateCommits`: it
  shows a row twice only behind one that was inserted earlier and committed
  later, one row for each of these.
* `SchemaIsRevision`: the version row tells the schema, but for the enum type.
  `ServesAtHead`: who serves has its revisions in place. `RevisionsApply`: a
  revision fails only behind another container or at that type, and no downgrade
  fails; it is what `ComesUp` rests on. `ComesUp`: every web
  container serves in the end, unless its image is older than the database or
  the enum type is left over from a downgrade to nothing.

### 3.2 Where code and documentation part

One run ends in a short trace: `sessions_overlap`, in which two overlapping
payments that together cover the total leave PARTIALLY_PAID
(`crud/invoices.py:83`; `tests/test_payments.py:416`).

The properties that hold have their exceptions written into them, and each
exception really happens: the instance reaches it.

* Two valid PUT or PATCH bodies can leave `due_date` before `issue_date`; every
  read of the invoice, and every list page with it, then fails in `InvoiceRead`
  (`crud/invoices.py:199`; `schemas.py:92`): `crossed` in
  `ReadableUnlessCrossed`.
* Payments delete the cache key before they commit (`crud/invoices.py:87`), and
  the job never does (`tasks.py:36`), so a GET caches or finds the old totals for
  up to 300 s (`README.md:11`, "invalidated on writes"): `late` in
  `FreshUnlessRaced`.
* One refused recipient keeps every due invoice of every user from being marked,
  each day anew (`tasks.py:34`; `tests/test_tasks.py:113`): the second
  disjunct of `EveryoneMarked`. The mails of a run that is rolled back are not
  unsent: `failed` in `ExtraOnlyAfterFailure`.
* Two overlapping `/send` both find a draft and both mail, and a payment can land
  on an invoice that was put back to DRAFT after the check
  (`routers/payments.py:96`): `UndisturbedIsAtomic` promises nothing for a
  request that a commit disturbed.
* One `/send` mails twice when a push to Redis is repeated after a lost reply, or
  its message waits reserved for an hour (`routers/invoices.py:122`;
  `celery.py:9`): `again` in `OneMailPerSend`. No document promises otherwise.
* A token issued for an email keeps working for the next user who takes that
  email, until it expires (`dependencies.py:34`): `owners` in `ActsForHolder`.
* List endpoints are "bounded, deterministic" (`README.md:11`) page by page; a
  walk over several pages can skip and repeat rows.
* A deployment that is rolled back after its migration leaves the older image
  unable to start ("auto-rollback on failure", `README.md:77`;
  `entrypoint.sh:9`), and after a downgrade to nothing the first revision fails
  on the type its downgrade leaves behind
  (`alembic/versions/cb22edc478b0_initial.py:90`): `Blocked` in `ComesUp`.

### 3.3 Bounds, and why they are enough

* Two requests show every pairwise race, and the table `Disturbs` speaks of
  pairs; the third in `dates_overtaken` shows
  that an undisturbed request repairs what two others did. The theorems lift
  the safety properties to any number.
* Amounts are chosen at the edge. Without rounding: the first payment is one
  unit short of the item's price, the second covers it exactly. With rounding (a
  cent is 4 units): 6 is stored as 8, 5 as 4 and 1 as 0, against prices of 7 and
  5, so that a payment is short until it is stored, or covers until it is stored.
* `Items` and `Pays` bound the keys a sequence hands out: an operation that
  finds none left is turned away (`OutOfKeys`). Keys of users, clients and
  invoices in `Ownership` are handed out once, too: two of each are enough for a
  row to be deleted under a request and for another's to be next to it.
* `MaxVersion` (cache) bounds the changes of the row and of the children: two of
  each are enough for a fill to be overtaken twice. `MaxQueue`, `MaxFaults` and
  `Sends` bound messages waiting, failures and sendings. With three faults in
  `dispatch_all` a message can be repeated and both copies lost, or repeated
  twice and one lost.
* `MaxCount` and `MaxFailed` are where the counters of mails and of failed runs
  saturate; `SaturationAssumption` keeps the comparison between them meaningful:
  with two workers, a third reminder without a failed run shows. `Statuses` leaves out DRAFT and PAID in `overdue_workers`: the job tells
  only "SENT or PARTIALLY_PAID" from the rest, and OVERDUE stands for that.
* `Limit` 2 and `Window` 2: a window's last hit and the next one's first two can
  fall in one interval. `MaxOthers` bounds strangers' hits (with infinitely many
  a caller may never get through, as in the code), `MaxId` the ids: with four, a
  row can be shifted off the first page and one be inserted before it.
* `MaxDowngrades` 3 goes all the way down, `MaxCrashes` 1 kills any container at
  any step; after the last, the platform's restarts still repeat without bound.
* Symmetry is used in safety runs only.
* `CHECK_DEADLOCK FALSE` is set where deleted rows, used-up keys or a finished
  deployment leave nothing to do. `OverdueJob`, `InvoiceCache` and `Listing`
  never stop.

### 3.4 Fairness

* `InvoiceSessions!FairSpec`: strong fairness of each request's own steps. The
  event loop runs a handler to its end; a handler that waits for a row lock is
  queued by PostgreSQL and gets it in turn, though others take and release it
  before. Calls by users and failures are not fair.
* `InvoiceCache!FairSpec`: weak fairness of `Expire`, the TTL.
* `OverdueJob!FairSpec`: beat ticks, and a worker with a message works on it;
  users' requests and the passing of due dates are not fair.
* `InvoiceDispatch!FairSpec`: a handler that has begun and a worker with a
  message go on; no request has to be made.
* `Listing!FairSpec`: time passes, and a caller that has begun asks on, as the
  429 invites it to; inserts and deletions need not happen or end.
* `Migrations!FairSpec`: weak fairness of `Proceed`. ECS and Render start a
  container that ended, and alembic runs to its end.

## 4. What is proved

`tlapm` checks every proof to the last leaf, for every value of the constants.

| theorem | assumptions on constants | argument |
|---|---|---|
| `InvoiceSessionsProofs!PaidGrows`, `TotalGrows` | finite key sets, natural amounts | sums are cardinalities of sets of units; a larger set of rows has a larger set of units |
| `!CountedIsClose` | columns round by half a cent at most | one new payment contributes the only difference |
| `!TypeCorrect` | as above | inductive by itself |
| `!ChildrenHaveInvoice` | as above | `NoOrphans` is inductive because it speaks of flushed inserts too: the key-share lock, with the foreign keys |
| `!UndisturbedRequestsAreAtomic` | as above | invariants `Protocol` (which operation may be in which state, what it owns) and `Undisturbed` (of what a clean request has loaded, all that it decides on *is* the committed state, and `next` is what the rule gives for it). One lemma per row of the table `Disturbs` shows that a commit outside of it spares what the others rest on (`SparedBy...`) |
| `!SessionsImplementBook` | as above | invariant `OwnKeys`: a payment flushed by a session is in no other session and not in the table, so each key is drawn, kept or abandoned once; with `NoOrphans`, DELETE finds nothing drawn (`InDrawn`), and one lemma per kind of action gives its effect on `Drawn` |
| `!PaidMeansCovered` | no refund, added items or manual edits | invariant `Covering`: whatever a request is about to write as PAID is covered, up to half a cent, by what is committed plus its own payment, because payments only grow and line items only shrink |
| `!SerialImplementsLedger` | one request | invariant `Alone` (a request in progress is clean), then atomicity makes each step a ledger step or a stutter |
| `!SerialStatusIsRight`, `!SerialStatusFitsRows` | one request | the same, what `Settle` does to the status, and `CountedIsClose` |
| `InvoiceDatesProofs!OrderLostOnlyIfCrossed`, `SerialRequestsKeepOrder` | any set of integers as dates; one request for the second | invariant `Current`: the copy of a request that was not overtaken is the stored row, so its effective pair is what gets stored |
| `InvoiceCacheProofs!StaleOnlyIfRaced` | any kinds of writers | invariant: a reader that was not raced holds the current versions, and a stale value has a pending delete |
| `!CommitThenDeleteInvalidates` | neither payments nor the job | `late` is never set |
| `OverdueJobProofs!FlagMeansMailed` | any number of workers | `ReminderBeforeFlag` strengthened to the flags still in a session |
| `!OnlyOpenRunsMail` | any number of workers | a run that mails leaves `Open`, and no run that starts after the flag enters it |
| `!FailuresPayForExtras` | any number of workers | invariant `Counted`: before the flag, a mail is held by a session or paid for by a failed run; after it, mails and open runs together are |
| `!FlaggedStaysSilent` | one worker process | invariant `Alone`: the session's copy of the flags is the committed one, and processed invoices are not selected |
| `InvoiceDispatchProofs!EachSendMailsOnce` | finitely many handlers and workers | invariant `Balance`: mails out, mails due and mails lost of a sending are together its commit plus its repetitions. `OneMailPerSend` is not inductive, as it says nothing of what is still due. `Flow` says what a step lets in, repeats, lets out and loses; one lemma per kind of action shows that the mails due, which are cardinalities, change by just that (`DueOfHandler`, `DueOfWorker`, `DueOfBroker`) |
| `!DispatchImplementsOutbox` | finitely many handlers and workers | with `Balance`, invariants `Uncommitted` and `Singles`: a handler holds nothing before its commit, and a handler and a worker hold one sending each, so every step moves one mail at most (`StepFlow`) and each kind of flow is one step of the outbox |
| `OwnershipProofs!TokenActsForHolder` | any numbers | invariant `Witnessed`: whoever has an email, is recorded in a token or acts under one is among the owners of that email, and `owners` only grows |
| `!RowsStayRooted` | any numbers | invariant `Kinds`: keys are never handed out twice (`Recorded`), so a row a request has loaded is still its user's or is gone (`Loaded`), and what DELETE loaded is one row (`Picked`) |
| `!SessionsImplementTree` | any numbers | with the same invariant, one lemma per action: its effect on the sets of pairs is one operation of `TenantTree` or none |
| `MigrationsProofs!VersionTellsSchema`, `ServersFindTheirSchema` | any containers and images | invariant `Inv`: a migrating container carries the schema of a revision between the one it found and its head, and commits only on what it found |
| `!RevisionsFit` | any containers and images | the same invariant, and what each revision asks for is in the schema of the one before it (`UpgradeApplies`, `DowngradeApplies`) |
| `ListingProofs!BurstsAreBounded` | `Limit`, `Window` positive | invariant `Windows`: a hit of the open window is no older than it, has a number no larger than the counter, and no two of its hits have the same; among the hits before it the first of their window is gone, for it came a whole window before the end. So the numbers of the old hits are 2 to `Limit`, those of the new ones 1 to `Limit` |
| `!RefusalsAreDue` | `Limit`, `Window` positive | invariant `Filled`: each number up to the counter, and to `Limit`, is that of an admitted hit of the open window, which is shorter than `Window`; a bucket that refuses has them all |
| `!SkipsAreOnlyDeletions`, `!RepeatsAreOnlyLateCommits` | any page size, numbers of rows and callers | invariant `Accounts`: lasting rows that slipped before the offset unseen are paid for by deletions, rows pushed behind it after they were shown by late commits. A deletion or a commit moves at most one row across the offset (`PlaceAfter`, `PlacesDiffer`), and `ShortPage`: a page that is not full leaves no row behind it |
| `...TypeCorrect` of each module | - | inductive, with the ranges of loaded keys in `OwnershipProofs` |

Every invariant and every safety property over steps that a run checks is
stated by one of these theorems. Only model-checked: the liveness properties (`RequestsFinish`, `CacheSettles`,
`EveryoneMarked`, `SentIsMailed`, `WalksEnd`, `ComesUp`), because liveness under
fairness and ENABLED are beyond the prover.

## 5. What is not modelled, and the plan

Left out for good: mail texts, settings, wiring and health (a constant answer),
and the infrastructure beyond the start of web containers. Formatting and
logging nowhere matter to a property. The lists of an invoice's line items and
payments are the SELECT of `Listing` after a 404 and a 403 check.

Abstracted: one invoice at a time in `InvoiceSessions`, `InvoiceDates`,
`InvoiceCache` and `InvoiceDispatch`; UPDATE and COMMIT of a handler are one
step (nothing the handlers decide lies between them, and row locks keep writers
of one row apart); `DeleteUser`, `DeleteClient` and the like wait for no lock:
a transaction that would wait takes its step after the other's commit. Line
items and payments hang on their invoice in `InvoiceSessions` and are left out
of `Ownership`. Passwords are right or the request never began. Redis does not
lose counters or keys, and does not fail between a commit and a delete except by
`FailWrite`. A worker that starts before its migration fails like any other run.

Next, in this order:

1. A composition of `InvoiceSessions` with `InvoiceCache`, to state freshness of
   the cached *status* and not of a version; of `InvoiceDispatch` with
   `OverdueJob`, which share the worker processes.
2. Theorems: abstract specifications of the overdue job and of the cache, and a
   bound on the staleness that payments leave in it.
3. Redis outages: a limiter that raises, a cache that is emptied, a broker that
   forgets its queue.
