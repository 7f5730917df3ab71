# Formal models of dmoft-pro

TLA+ specifications of the billing service and of the client of dmoft-pro, the TLC
configurations that check them on small instances, and TLAPS proofs, for every
instance, of their invariants and of a refinement.

| module | models | extended by |
|---|---|---|
| `LicenseService` | the transactions of `billing/src/lib/{license-service,challenges,devices,db}.ts` | `MCLicenseService`, `LicenseServiceProofs` |
| `LicenseLedger` | what those transactions promise, without requests and locks | instantiated by `LicenseService` |
| `BillingProjection` | `billing/src/lib/{webhook,stripe-sync}.ts` and the webhook route | `BillingProjectionProofs` |
| `Purchase` | `billing/src/lib/accounts.ts`, the pool of `db.ts`, the Checkout and Portal routes | `MCPurchase`, `PurchaseProofs` |
| `LicenseProtocol` | the three exchanges between client and service, end to end | `MCLicenseProtocol`, `LicenseProtocolProofs` |
| `ClientFiles` | `client/src/dmoft_pro_client/{device,storage}.py` as the commands of `cli.py` use them | `IssuerKeys`, `ClientFilesProofs` |
| `IssuerKeys` | key rotation, the keyset route, `keyset.py`, the verifier of each command, over `ClientFiles` | `IssuerKeysProofs` |
| `CameraScanner` | `client/src/dmoft_pro_client/camera.py` | `CameraScannerProofs` |
| `CaptureSession` | `client/src/dmoft_pro_client/{web.py,static/app.js}` | `CaptureSessionProofs` |

To check: `tlc -config LicenseService.cfg MCLicenseService` (the module and the cfg
of every run are in `PROJECT.json`); `tlapm LicenseServiceProofs.tla`.

## 1. The system

dmoft-pro is two programs. `billing/` is a Next.js service over PostgreSQL and
Stripe that sells a subscription and issues signed, device-bound licences.
`client/` is a Python program that activates a device, verifies licences offline and
runs the camera features on the local machine.

**Licence service** (`license-service.ts`, `challenges.ts`, `devices.ts`, `db.ts`,
`migrations/`). State: the tables `accounts`, `devices`, `license_challenges`,
`issued_licenses`, `checkout_activations`, and the row locks of open transactions.
Operations: create a challenge (activation, enrollment, refresh), complete one
(`activateDevice`, `enrollAdditionalDevice`, `refreshDeviceLicense`), revoke a device.
Each completion is a transaction of five to eight statements under READ COMMITTED.
Hard: transactions of different kinds interleave at every row lock and every read;
a completion is repeated when its answer is lost; the order of locks differs between
refresh and the other operations. Correct when: one Checkout Session activates one
device, one challenge buys one licence, the device limit holds, a revoked device
never gets a licence again, and no request waits for ever.

**Billing projection** (`webhook.ts`, `stripe-sync.ts`, the webhook route,
`entitlements.ts`). State: `subscriptions`, `stripe_entitlements`, and
`stripe_events` with its status and five-minute lease. Operations: claim an event,
synchronize a Customer, mark the event; every challenge creation synchronizes too.
Hard: duplicate, late and reordered deliveries; workers that die, or that outlive
their lease; synchronizations that overlap between the fetch and the store.
Correct when: no acknowledged change is lost, and the projection converges to Stripe.

**Accounts, Checkout and Portal** (`accounts.ts`, `db.ts`, the checkout and portal
routes). State: the account row with its Stripe Customer and its lock, the pool's
connections; at Stripe the Customers, the Checkout Sessions, and the answers it
remembers for idempotency keys. Operations: open a Checkout Session (creating the
Customer first), open the Portal. Hard: requests of one user overlap; the transaction
that creates a Customer keeps a connection and the row during a call to Stripe; it may
fail, or lose its connection, after Stripe has acted; Stripe forgets keys. Correct
when: every Session is for the Customer its account row names, an account has one
Customer, and every request ends.

**Licence protocol** (both programs). State: the clocks of the two machines, the
projection, the device row, the challenge rows, the client's `license.token`. Hard:
what the service computes from its clock and the subscription
(`licenseTimes`, `claimsFor`) has to be what the client accepts by
its own clock (`activation.py`, `entitlement.py`), although requests and answers are
lost and late. Correct when: a valid answer is thrown away only if the two clocks are on
different sides of the licence's end, offline use after
cancellation or revocation is bounded, and a lost answer can be made up for.

**Issuer keys** (`license.ts`, the keyset route, `keyset.py`, `entitlement.py`). State:
the service's active key and published keyset, the client's keyset file, the keyset a
command has in memory. Operations: the operator's rotation, `keyset-fetch`, the
verifier every command builds. Hard: licences outlive the key that signed them, three
copies of a keyset are of different ages, and a fetch may be killed. Correct when: a
licence that was saved can be verified until it ends.

**Local state** (`storage.py`, `device.py`, `output.py`). The device key
is created with `O_EXCL` and written in place; licence, keyset and output files are
written beside and renamed (a first keyset is created in place). Hard: no lock between
processes, so that two first activations race for the key; a process killed, or a full
disk, between the creation and the write; a reader between `lstat` and `open` while the
file is replaced. Correct when: the key of a registered device is never lost and the
token fits it.

**Camera scanner** (`camera.py`). State: the OpenCV handle, the scanning flag, the
adaptive controller, the counters of the scan, the time of the last authorization. Hard:
any step of start may fail after the camera has been opened, and a later start may ask
for another camera; a callback may stop the
scanner or raise in mid-scan; the licence changes while a scan runs. Correct when: a
camera is left open by nothing but the one error path of start that forgets it, a scan
releases its camera and ends, and it goes on
without its licence no longer than the recheck interval.

**Browser capture** (`web.py`, `static/app.js`). State: the server's receiver,
session flags, frame counter and asyncio lock; the page's `running` flag, stream
handle and buttons. Hard: start, stop and frame requests overtake one another, the
lock is held across awaits, handlers of the page go on after an await in a
page that has changed, and a page may be loaded again while its requests are under way. Correct when: a session does not change while a frame is
worked on, so that a result belongs to the session that is shown;
the page stops when the server has, and stopping frees the camera.

**Rate limiter** (`rate-limit.ts`): one upsert per request. **API routes of licences and
devices**: authentication, parsing and rate limiting in front of the functions above.
**Token format, device cryptography** (`device-crypto.ts`, `encoding.ts`,
`schemas.ts`), **configuration, migrations, errors**, **web pages**: no state that
changes while the system runs.

How the parts interact: Checkout links the account to its Customer, on which the
projection and the activation of a purchase rely; the routes call the licence service;
creating a challenge calls the synchronization of the billing projection and then reads
it; completions read it again (`getLicenseContext`). Client and service exchange HTTP
requests only. The browser page calls the local server, which authorizes each request
with the stored licence; the CLI and the camera scanner read the same file, and verify
it with the keyset file.

## 2. Modules, state and actions

### LicenseService

The committed rows are `status`/`home` (a row of `devices`), `challenge`, `licence`
(a row of `issued_licenses`, by the challenge that bought it), `checkout`/`consumer`
(`checkout_activations`) and `deviceLimit` (what the projected entitlements
grant). `owner` is the row-lock table of PostgreSQL. `req[r]` is a request: `pc`
names its next statement. One action is one statement that can wait for a lock or
reads committed rows, with the code up to the next such statement; the statements of
the three completions are shared as far as the code is the same:

| action | code |
|---|---|
| `CreateActivationChallenge`, `CreateEnrollmentChallenge`, `CreateRefreshChallenge`, `SyncBilling`, `PersistChallenge` | `create*Challenge`: checks, synchronization with Stripe, `persistChallenge` |
| `BeginCompletion` | `lockedChallenge`, and the replay of a stored licence |
| `ReadContext` | `getLicenseContext`, read without a lock |
| `LockCheckout` | `SELECT ... FOR UPDATE` of the Checkout Session |
| `LockAccount`, `NoDevice`, `LockDevice`, `InsertDevice` | `registerDevice`; `LockDevice` also the device rows of refresh and revocation |
| `CommitLicence`, `CommitRevoke` | the writes and the commit; the foreign-key lock of the account that inserting a licence takes |
| `BeginRevoke` | `revokeAccountDevice` up to its first lock |
| `ConnectionLost`, `DeadlockVictim` (with `Rollback`) | a failed statement, a lost connection, the deadlock detector; `db.ts` rolls back |
| `WebhookSync`, `Tick` | a webhook changes the projection; time passes |

Writes become visible at the commit, all at once, because the other transactions
cannot see them earlier.

### LicenseLedger

The abstract specification of the above: devices, licences and consumed Checkout
Sessions, and two steps. `Issue(c, a, d)` fills the slot of challenge `c` with a licence
for a device that is an active one of the account, or becomes one while some limit
allows it, and may consume one open Checkout Session of that account. `Revoke(d)` ends
a device with every licence it has. `LicenseService` maps its rows to the ledger's
(`LedgerLicence`, `LedgerConsumer`: account, device and state are kept; times and the
challenge's own state are dropped) and promises `LedgerImplemented == Ledger!Spec`.

### BillingProjection

A `worker` is one request: a webhook delivery or a challenge creation. Both fetch
from Stripe (`Fetch`) and store in a later transaction (`Write`); in between, anything
happens. A state of the subscription or of the entitlements is a version number, so
"older" and "newer" can be said. `row` and `leased` are the status and the lease in
`stripe_events`; `acked` is what Stripe knows. `Fail` and `Crash` end a worker
at any place, with and without the mark `failed`. Subscription and entitlements of
one Customer are synchronized by the code one after the other, and are two
`Parts` here. History variables say what the code does not record: `newest` (the
highest version ever stored), `alone` (a copy no other fetch has met), `shared` (the
last store of a part was not alone), `outlived` (an event that was claimed while an
earlier worker was busy with it).

### Purchase

`req[r]` is a request of `User[r]`. Each statement outside a transaction, and each
transaction, takes one of the pool's `connected` connections; `lock[a]` is the row lock
of the account. `AskAccount` and `GetOrCreateAccount` are the upsert of the account
row, `BeginTransaction` to `RecordCustomer` are `ensureStripeCustomer`, `OpenSession` and
`OpenPortal` the calls that end the request. Stripe is external: `created` are its
Customers, `customerOf` and `sessionOf` what it answers to a known idempotency key,
`KeysExpire` its forgetting of them. `Fail` ends a request at any place, what Stripe has
done stays done; `Disconnect` takes the connection, and with it the row lock, from a
request that is waiting for Stripe, which then goes on to a failing `UPDATE`
(`RecordFails`). A missing Idempotency-Key header is a key no other request has. The
plan, the accepted terms and the URLs are abstracted.

### LicenseProtocol

One installation against the service. A transaction of the service is one step
(`LicenseService` has their interleavings), a command of the client is four (ask, sign,
complete, verify and save). A completion request stays on its way after it was
sent: `Issue`, `Replay` and `Refuse` may serve it at any later time and again, also
after the command was killed. The shipped client does not repeat a completion itself;
`docs/LICENSE_PROTOCOL_V1.md:49` promises the exact retry and the service implements
it, so it is modelled. `clock` is the service's time, `clock + offset` the
client's; the offset is fixed. `eligible` is the last time at which the device was
active on an account with access (history).

What the model also shows: a client whose clock is ahead, or to which the answer comes
late, refuses a valid licence when the service called it active just before its `exp`
(`activation.py:360`); so does one that is behind with a licence called grace just after. Its
challenge is spent by then, and another refresh makes up for it. `SameSide` is the exact
condition.

### ClientFiles

`process[p]` runs a command; an action is one access to a shared file or the exchange
with the service. `keyFile` is `Absent`, `Empty` (created and not written, or
written in part) or a key; a token is its device and a serial number, which also
stands for the inode that `read_private_file` compares. A temporary file is
private to its process, so writing and renaming it is one step, `SaveToken`. `Fault` is a
kill or a failing file operation at any step; it leaves the files as they are. Power
loss after `fsync` is not modelled, nor is the deletion of files by the user.

What the model also shows, and no document speaks of: a kill between
`os.open` and the write of the key leaves the empty file that every later command
refuses, and `license refresh` may end a scan that is reading the token at that moment.

### IssuerKeys

Takes the actions of `ClientFiles` as they are and conjoins what they need and do with
keys, so its steps on `ClientFiles`' variables are steps of `ClientFiles` or stutter, by
construction (`KeysAreFiles`). `Publish`, `Activate`, `Retire` and `LicenceDies` are the operator
who follows "License key rotation" of `billing/README.md`, save that he may sign with a
key before he publishes it: only the keyset route would notice (`BuildPublicKeyset`).
`FetchKeyset`, `CreateKeyset`, `WriteKeyset`, `RenameKeyset` are `keyset-fetch` without and
with `--overwrite`; a wrong fingerprint, a failed request or a malformed keyset ends it
without effect. `FetchKilled` may strike without bound. `ReadKeyset` is `_verifier` of
`cli.py`: a command reads the file once, before its first exchange or authorization, and
trusts it until it ends. `VerifyAndSave` and `Authorize` are `ClientFiles`' `SaveToken`,
`StatToken` and `ReadToken` under the verification. One `keyset-fetch` runs at a time.

### CameraScanner

`open` are the cameras this program holds, `opened` is the local handle of a `start`
under way, `capture` what `_capture` names, `state` the flag. A `start` opens any camera that
is not open, whatever `_capture` names, and overwrites `_capture` without a release.
`Start`, `OpenCapture`, `ConfigureCapture` are `start` with every place where it can
raise; `LoopTop`, `ReadFrame`, `ProcessFrame`, `Reconstruct` are the loop of `scan`, each
with its errors and its `finally`. In `ProcessFrame` the callback returns, stops the
scanner, or raises. `Observe` is the adaptive controller. `age` and `authAge` count the
ticks since the scan and the last periodic authorization began, `waited` those since the
loop decided to read a frame, `gap` those between the authorization of `start` and the scan,
until the first periodic one. `lapsed` (since when a feature is missing), `streak` and
`leftBehind` (cameras that a refused adaptive start did not release) are history.
`Collected` is the destructor of a `cv2.VideoCapture` that nothing names any more: CPython
usually runs it at once, but nothing in the code makes it. Not modelled: Ctrl+C inside `start`
or `stop`, a callback that calls `stop` and then `start`; a `release` that raises.

What the model also shows: an adaptive start with `--fps` below 4 raises with the camera
open (`camera.py:193`). A caller's `stop` still finds and releases it. A second `start` on
another index does not: it overwrites `_capture` (`camera.py:189`) and no call of the
scanner reaches the first camera again. The CLI calls `start` outside its `try`
and leaves the camera to the end of its process. `CameraIsReachable` and
`StoppedHoldsNothing` say that this is the only way.

### CaptureSession

A `task` is one activation of `bootstrap`, `startCamera`, `stopCamera` or `captureLoop`,
suspended at an `await`: `permission` and `playing` are those of `getUserMedia` and
`video.play`, each of which may reject, `blob` that of the JPEG, which may fail and is
tried again. `sent`/`queued`/`answered` are the places of its request:
on its way and authorized, waiting for the asyncio lock, answered. `ReadFrame`,
`ProcessFrame` and `Reconstruct` run under the lock; each reads `session.receiver` afresh
(`task[t].session` is the session it finds), but for `Reconstruct`, whose receiver was
read before its await. A frame belongs to the session that is current when it takes the
lock: one that was sent before, and is overtaken by a new start, counts for the new
session, in the code as in the model. `cameras` are the streams whose tracks are
live, `stream` is the page's one handle. `LoadPage` opens the page, at any time and again:
the browser ends its tasks and streams, while the requests that are under way
(`task[t].gone`) are served or not, and nobody reads their answers (`Lost`).

## 3. What the runs check

| run | instance | shows |
|---|---|---|
| `license_service` | two accounts, two devices, one Checkout Session, three challenges, two requests at a time | `LedgerImplemented`: however transactions overlap, wait, deadlock and fail, the rows change as the ledger does; `CheckoutActivatesOneDevice`, `ChallengeSpentIffLicensed`, `DeviceLimitRespected`; `DeadlockNeedsRefresh` |
| `license_time` | one device, a clock that moves | `RevocationDeadlineHolds`, `LicenceNeverReplaced`, and `RequestsEnd` under fairness |
| `billing_projection` | two workers, two events, one fault | `AckedEventsWereApplied`, `EventsAcknowledged`: no change is dropped, each is acknowledged; `OnlyOverlapGoesBack`, `LoneStoreIsCurrent`: overlap alone makes the projection old, and a lone synchronization repairs it; `HandledUnlessOutlived` |
| `purchase` | three requests of two users, two connections, one fault, one expired key | `SessionsMatchAccount`, `OneCustomerPerKey`, `CustomerIsForever`, and `RequestsEnd` under fairness |
| `license_protocol` | one command, two challenges, one fault, clocks one unit apart | `AnswersAgree`: the programs agree on a licence; `NeverTooLong`: and on the lifetime of a challenge; `ExposureBounded`; `StoreHoldsVerified`; `RefreshRecovers` |
| `issuer_keys` | two processes, two device keys, two licences, one rotation, one fault | `SavedLicenceVerifies` through rotations and downloads; `RegisteredKeyIsKept`, `TokenFitsDevice`; `KeyIsCreated` |
| `camera_scanner` | two cameras, rates below, at and above the controller's minimum, a window of four frames | `CameraIsReachable`, `StoppedHoldsNothing`: one error path alone leaves a camera open; `RecheckBoundsExposure`, `RateRisesAfterStreak`, `ScanEnds` |
| `capture_session` | three tasks, two streams, two sessions of two frames | `ResultIsOfItsSession`; `PageFollowsSession` |

Each of them also checks the type invariant of its module (`license_time` has that of
`license_service`).

Four runs show where a document and the code disagree; TLC finds the state or step.

| run | the document says | the code does |
|---|---|---|
| `enroll_recheck` | the transaction locks the account, then rechecks access | `enrollAdditionalDevice` reads the context before it waits for the account row and counts against that limit |
| `billing_overlap` | an older event cannot overwrite a newer state | two overlapping synchronizations may store the older answer last |
| `keyset_not_atomic` | `keyset-fetch` stores the keyset atomically | a first fetch creates the file and writes it afterwards; one that dies in between leaves an empty file, and the next fetch refuses without `--overwrite` |
| `capture_camera_leak` | stopping capture releases every media track and camera handle | a late frame answer of the last session runs `releaseCamera`, which enables Start while a start waits for the camera; a second start overwrites the handle of a live stream |

`billing_overlap` ends with every event acknowledged, so nothing repairs the
projection until the next change or challenge creation. `LoneStoreIsCurrent` and
`OnlyOverlapGoesBack` say that nothing else but overlap does this, whatever fails, dies
or is delivered twice. Likewise `HandledUnlessOutlived` says exactly when an acknowledged
event is not `processed` (`billing/README.md:143`): a worker outlived its lease.

Each property of a passing run has a mutant in `PROJECT.json`: a plausible mistake
in one definition under which TLC finds the property violated.

### Bounds

- `LicenseService`: the requests in flight are two, each of any kind, repeated
  without limit. All the conflicts of the code are between two transactions over one account, one
  device, one Checkout Session or one challenge. The second account and device let a
  device be tried from the wrong account and the limit 1 be exceeded; the third
  challenge lets a used one, a stale one and a fresh one exist together. Deadlocks of more than two
  transactions are covered by the theorem. With `MaxTime = 1`
  challenges and licences without grace end, and those with grace do not yet;
  `license_service` stands still in time, because no property of it speaks of time.
- `BillingProjection`: two workers are what one overlap takes; two events let an old
  and a new one be exchanged, in the same or in different parts; a fault may hit each
  place of a worker. `MaxFaults` bounds failures only, duplicates are unlimited. The
  theorems have no bound.
- `Purchase`: two requests of one user overlap at every statement, the third is another
  user's and makes three of them wait for two connections. `MaxFaults` bounds failures
  and lost connections together, `MaxExpired` the forgotten keys. Three Customers are enough for
  these bounds: a second Customer of an account takes an expired key and a transaction
  that did not record the first one, and there is one fault for both accounts.
- `LicenseProtocol`: `TTL = 2`, `MaxTime = 3` let a token be fresh, due, in grace and
  ended. The four plans have grace, a period that ends, no `camera.live`, and a
  cancellation. Two challenges let a late request meet a newer one. With `MaxChallenge` one
  above `ChallengeTTL`, the client that is one unit behind is at the limit of `NeverTooLong`.
- `IssuerKeys`: two processes are the creator of the device key and one that loses the
  race or reads; one rotation has an old and a new key, before, between and after
  publication, use and retirement; two licences are one of each key. More processes,
  keys and rotations are covered by the theorems.
- `CameraScanner`: `Requested` has an illegal rate, one below the controller's minimum, one
  above and one at the maximum; a window of four has counts in all three of the
  controller's ranges; `FrameLimit`, `DurationLimit` and `ReadFailures` are reached, and
  a recheck falls before, at or after the end of the licence (`MaxTime` bounds the ticks
  of a scan, `MaxGap` those between `start` and the scan). Two cameras are what it takes
  to overwrite the handle of one by that of another.
- `CaptureSession`: three tasks are a start, a stop and a frame loop, two loops
  that overlap, or a new page with two requests of the old one; two frames reach the
  limit, pages are loaded without limit. `MaxSessions` bounds the starts (three in
  the violation run).

### Fairness

- `LicenseService`: a request whose next statement can run runs it; strong fairness,
  because PostgreSQL queues the waiters of a row lock and a lock that becomes free again and again
  reaches each of them. The deadlock detector acts (weak fairness). No fairness
  on new requests, failures, time or webhooks.
- `BillingProjection`: workers go on, a lease ends (weak). Stripe delivers an
  event until it is acknowledged (strong: it retries, and finds a worker free only now and then).
- `Purchase`: a request goes on, and gets a connection or the row when they become free
  again and again (strong: both queue their waiters). Stripe answers or the call fails.
- `LicenseProtocol`: commands go on and sent requests are served (weak). That the user
  runs refresh again and again is the premise of `RefreshRecovers`; it is strong
  fairness of `Ask(p, "refresh")`. Faults are bounded.
- `IssuerKeys`: commands go on (weak). That the user repeats `activate` is the premise
  of `KeyIsCreated` (strong fairness of `BeginCommand(p, "activate")`), as is that
  nothing fails. Nothing makes the operator or `keyset-fetch` act.
- `CameraScanner`: a running scan takes its next step, as the calls of the camera, the
  receiver and the callback return (weak). The clock need not move: `ScanEnds` holds by the
  counts of frames and of failures.
- `CaptureSession`: the event loops of page and server run what is ready (weak);
  `asyncio.Lock` serves its waiters in order (strong), and the encoding of a JPEG, when it is
  tried again and again, does not fail each time (strong). Nothing makes the user click or
  answer the permission prompt.

No cfg switches the deadlock check off: in each model the environment can always go
on (a webhook, a refresh, a change of the licence).

## 4. What is proved

Every theorem is for any sets of nodes and any bounds; `PROJECT.json` lists them with the
properties they state. Each inductive invariant was also checked by TLC on the instances
of the runs.

**`LicenseServiceProofs`**: every invariant of `license_service` and `license_time` and
every action property. `IInv` is the inductive invariant:

- `RequestInv`, for each request: `WellFormed` (which statements an operation has),
  `LockDiscipline` (it holds exactly the locks of its place), `ChallengeStands` (past
  the check, its challenge is still unused and its Checkout Session still open),
  `DecisionStands` (at its commit the device is still as it was decided upon).
  These are what a check-then-act under a lock means; none of the row properties is
  inductive without them, because a commit applies decisions that were read several
  statements earlier.
- `RowInv`: the row properties, with `RowsConsistent`, which relates a licence
  to its challenge, its device and its Checkout Session.
- `RevocationDeadlineHolds`: inductive with the rest, as a licence for a revoked device
  would need `Usable` at its commit.

The proof has one lemma per action (`Inv...`); steps that only move a request share
`QuietStep`, which says that nothing but its own facts has to be shown. The action properties
follow from `IInv` and `OnlyCommitsWrite`. `DeadlockSafety` is an argument about the
order of locks: without refresh the row kinds are ordered challenge, checkout,
account, device (`HolderIsLater`), so a set of waiting requests has a last one that
waits for nobody in it. Assumptions: `RowsAssumption` (row kinds are disjoint),
`DevicesAssumption` (finitely many devices, for cardinalities), `BuyerAssumption`,
`NumbersAssumption`. Three of its theorems (a live licence is for an active device
of its account, a registered device has a licence, a registration is final) have no
run of their own: they follow from `LedgerImplemented`.

The last part of the module is `LedgerRefinement`, `Spec => Ledger!Spec`. Every commit is one
step of the ledger, everything else a stutter. `IInv` gives the conditions of that step
(the device, challenge and Session are still as they were decided upon); `GrantInv`, a
second invariant, says that a request about to insert a device has counted the active
ones under the account lock and found them below a limit.

**`BillingProjectionProofs`**: all invariants and `OnlyOverlapGoesBack`. The invariant:
every change has its event (`EventsOfChanges`); copies and the projection are no newer
than Stripe (`CopiesAreOld`); a worker's copy is as new as the event it handles, and by the time
it marks the event that change was stored (`Progress`); a copy that is alone is newer than all
that was stored (`Lone`); an event that nobody outlived has one handler
(`OneHandler`).

**`PurchaseProofs`**: all invariants and `CustomerIsForever`. A transaction between the
second look at the account row and its commit holds the row lock and its connection, and
the row has no Customer (`RowInv`): one that finds a Customer ends at once. So nobody else
records one meanwhile, unless the connection, and with it the lock, is lost, after which
the `UPDATE` fails. What a request knows of its Customer is what the row says
(`KnowledgeInv`), and every Customer of an account but one takes a forgotten key
(`CustomersInv`). `NoDeadlock`, for any size of the pool: who waits for a connection
waits for somebody that has one, who waits for a row waits for a transaction that has
both, and that one waits for Stripe alone. `RequestsEnd` remains with TLC for the
fairness it takes. Assumptions: `UserAssumption`, `NumbersAssumption` (at least one
connection), `NoneAssumption`.

**`LicenseProtocolProofs`**: all invariants. Whatever is in a challenge row, in an answer on its
way or in the store is `Genuine`: issued no later than the device was last entitled,
with the lifetime and the grace the service computes. From that, `ExposureBounded`
and `AnswersAgree` are arithmetic on the times of one licence: for the latter, an answer whose
licence the two clocks see on the same side of `exp` passes every check of the client, for any
delay and any offset. `NeverTooLong` takes one more invariant, that no challenge is left to
run longer than its lifetime (`ExpiryInv`). Late, lost and repeated
messages do not matter because nothing in the invariant speaks of their order.

**`ClientFilesProofs`**: `RegisteredKeyIsKept` and `TokenFitsDevice`. Who has an
identity has the one in the file and at most one process is writing it
(`OneWriter`): creation needs an absent file, so at that moment nobody has an identity,
nothing is registered, and it stays so until the writer is done.

**`IssuerKeysProofs`**: both properties above for the composed system, because its steps are
steps of `ClientFiles`; and `SavedLicenceVerifies`. From a command's memory to
the file, the download and the published keyset, a newer keyset lacks only retired
keys (`KeysetsGrow`), and a retired key has signed nothing that is still live (`SignersLive`).
The file's keyset is therefore enough for a licence that an older or a newer one has
verified.

**`CameraScannerProofs`**: all invariants and action properties, for any number of cameras.
`CameraInv` relates the open cameras to the two names of them, and to those left behind, at
every step of `start`: a stopped scanner's `_capture` is empty or names one that was left
behind. `LoopInv` says that the scan has
been without its licence no longer than since the last authorization, the one of `start`
included; `StreakInv` that a window
without a rejected frame is part of the streak.

**`CaptureSessionProofs`**: `ResultIsOfItsSession`. A task works on a frame exactly while it holds the lock, the
session it found is still the current one and is still scanning: start, stop and a refused frame
need the free lock, so they never find a frame in progress; a page that is loaded does
not touch the lock.

### Each disagreement has one cause

The four violation runs show that something goes wrong; a theorem for each shows when it
does. The hypothesis is an action property that excludes one step in one situation and
leaves everything else, failures, kills and late or repeated messages included; under
it the documented claim is proved, with an inductive invariant of its own.

| theorem | the claim holds unless | invariant |
|---|---|---|
| `StaleAccessHasOneCause` | the projection of the account changes between the reading of a completion's context and its account lock | `AccessStands` |
| `OverlapIsTheCause` | a synchronization of a part fetches while another one is between its fetch and its store (one worker never does: `OneAtATimeIsCurrent`) | `AllAlone` |
| `IncompleteHasOneCause` | a first `keyset-fetch` is killed between the creation of the file and its content | `KeysetIsWhole` |
| `CameraLeakHasOneCause` | Start is clicked while a frame, or the stop, of the run before is unanswered | `PageInv` |

So a fix of that one place is enough. Each of these invariants was checked by TLC under its
hypothesis on the instance of its run (`PageInv`: 836,092 states).

`ChallengeFits` proves `NeverTooLong`: a challenge is never too long-lived for a client
whose clock is at most `MaxChallenge - ChallengeTTL` behind, which is 600 seconds with the
default lifetime and none with the largest that `env.ts:57` allows.

Further results of the same kind are about hazards that no document speaks of, so that
no run holds the code to them:

- `OlderLicenceHasOneCause`: an installation replaces its licence by an older one only when
  two of its commands overlap, however late, lost, repeated or replayed the answers
  are. With one command at a time, what a command may still store is no older than
  the store (`NewerThanStored`); TLC checked this on two commands (2,164,337 states),
  and finds the exchange in 14 steps when the hypothesis is dropped.
- `KeysetIsReplacedWhole`: a keyset that is there is never replaced by an absent or
  incomplete file; only the first download is not atomic.
- `ScanIsFinite`: the loop of a scan has at most `4 * (FrameLimit + 1) * ReadFailures`
  steps, as each round takes a frame or counts a failure and failures start again only
  after a frame. The number `StepsLeft` falls with every step of the loop. What
  `ScanEnds` adds is that the calls of camera and receiver return.

Only model-checked: all liveness (`RequestsEnd` of both services, `EventsAcknowledged`,
`RefreshRecovers`, `PageFollowsSession`, `KeyIsCreated`, `ScanEnds`), as fairness and ENABLED are
beyond the provers. Every invariant and action property of a passing run is a theorem.

## 5. Plan

Done, in this order: (1) `LicenseService`; (2) `BillingProjection`; (3)
`LicenseProtocol`; (4) `CaptureSession`; (5) `ClientFiles`; (6) `LicenseLedger` with
its refinement; (7) the proofs of `BillingProjection` and `LicenseProtocol`; (8)
`CameraScanner`; (9) `IssuerKeys` over `ClientFiles`; (10) `Purchase`; (11) the
reload of the page in `CaptureSession`; (12) the proofs of `Purchase`; (13) the theorems
about the causes of the four disagreements.

Left: two pages at once in `CaptureSession`.

## 6. Not modelled

- Rate limiter: one upsert per request on a fixed window. A refused request ends before
  it does anything the models know of; how far twice the limit passes is arithmetic on
  the window.
- Output file of a scan: one writer with a private temporary file and one rename; no
  other part of the system reads it.
- API routes of licences and devices, token format, device cryptography: authentication,
  parsing, signatures, canonical JSON and identifiers have no state of their own. A
  token in `LicenseProtocol` is what its verified claims say, a signature in `IssuerKeys`
  is right when the key is in the keyset.
- Configuration, migrations, errors, web pages: constants of the models, run once by hand,
  or static. The commands that only report (`doctor`, device list) and those that pass on an
  answer (`checkout`, `portal`) keep no state.
- Stripe's own API and PostgreSQL are external: what the code relies on is modelled (row
  locks, READ COMMITTED, foreign-key locks, the deadlock detector, at-least-once delivery,
  idempotency keys).
- `listAccountDevices` and the status and result routes of `web.py` read only.
- `BillingProjection` assumes that the Customer of a subscription is linked to an
  account (`stripe-sync.ts:54-55` ignores the others); that this is so for every
  purchase is `SessionsMatchAccount`.
- The deletion of rows: the code deletes stored entitlements only (`stripe-sync.ts`), which is a
  change of the projection. Clock changes while the client runs: the offset of
  `LicenseProtocol` is fixed per behaviour.
