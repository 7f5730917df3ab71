--------------------------- MODULE LicenseService ---------------------------
(***************************************************************************)
(* The licence service of billing/: single-use challenges, Checkout        *)
(* activation, additional-device enrollment, licence refresh and device    *)
(* revocation, as concurrent PostgreSQL transactions (READ COMMITTED) that *)
(* take row locks with SELECT ... FOR UPDATE.                              *)
(*                                                                         *)
(* The committed rows are the variables status, home, challenge, licence,  *)
(* checkout, consumer and deviceLimit.  A request of the API is a small    *)
(* program: req[r].pc says what its next statement is, and one action is   *)
(* one statement that can wait for a lock or that reads committed rows,    *)
(* with the code up to the next such statement.  A transaction's writes    *)
(* are invisible to the others until it commits, so Commit applies them    *)
(* all; a rejection or a lost connection rolls back and only releases the  *)
(* locks.                                                                  *)
(***************************************************************************)
EXTENDS Naturals, FiniteSets

CONSTANTS
  Accounts,      \* rows of accounts, each with its Stripe Customer
  Devices,       \* device identities (identifier and public key)
  Checkouts,     \* complete, paid Stripe Checkout Sessions
  Challenges,    \* slots for challenge rows
  Requests,      \* API requests in flight
  Buyer,         \* the account each Checkout Session was opened for
  Limits,        \* device limits that Stripe entitlements may grant
  ChallengeTTL,  \* CHALLENGE_TTL_SECONDS
  LicenseTTL,    \* LICENSE_TTL_DAYS
  Grace,         \* OFFLINE_GRACE_DAYS
  MaxTime,       \* bound on the clock
  None

Rows == Accounts \cup Devices \cup Checkouts \cup Challenges

\* The kinds of rows are distinct, and a lock holder is distinguishable from
\* no holder.  Nothing is assumed about how many rows of each kind there are.
ASSUME RowsAssumption ==
  /\ Accounts \cap Devices = {}
  /\ Accounts \cap Checkouts = {}
  /\ Accounts \cap Challenges = {}
  /\ Devices \cap Checkouts = {}
  /\ Devices \cap Challenges = {}
  /\ Checkouts \cap Challenges = {}
  /\ None \notin Requests \cup Rows

ASSUME DevicesAssumption == IsFiniteSet(Devices)

ASSUME BuyerAssumption == Buyer \in [Checkouts -> Accounts]

ASSUME NumbersAssumption ==
  /\ Limits \subseteq Nat
  /\ ChallengeTTL \in Nat
  /\ LicenseTTL \in Nat
  /\ Grace \in Nat
  /\ MaxTime \in Nat

VARIABLES
  now,          \* whole seconds: instant t stands for all of [t, t+1)
  status,       \* status[d]: "absent" (no devices row), "active", "revoked"
  home,         \* home[d]: devices.account_id
  challenge,    \* license_challenges by slot
  licence,      \* issued_licenses by the challenge that bought them
  checkout,     \* checkout_activations: "unregistered", "open", "consumed"
  consumer,     \* checkout_activations.consumed_device_id
  deviceLimit,  \* limit the projected entitlements grant; 0 = not entitled
  owner,        \* owner[x]: the request that holds the lock of row x
  req,          \* what each request is doing
  announced     \* announced[d]: last offline_token_valid_until (0 is null)

rowVars == <<status, home, challenge, licence, checkout, consumer, deviceLimit>>
vars == <<now, status, home, challenge, licence, checkout, consumer,
          deviceLimit, owner, req, announced>>

Purposes == {"activate", "enroll", "refresh"}
Creations == {"createActivate", "createEnroll", "createRefresh"}

Challenge == [purpose  : Purposes \cup {"none"},
              account  : Accounts \cup {None},
              device   : Devices \cup {None},
              checkout : Checkouts \cup {None},
              expires  : Nat,
              used     : BOOLEAN]

\* The token itself is reduced to what it promises offline: it is accepted
\* through grace_until ("until"), and "state" is the revoked_at audit mark.
Licence == [state   : {"none", "valid", "revoked"},
            account : Accounts \cup {None},
            device  : Devices \cup {None},
            until   : Nat]

Request == [pc        : {"idle", "sync", "persist", "context", "checkout",
                         "account", "device", "insert", "commit"},
            op        : Purposes \cup Creations \cup {"revoke", "none"},
            challenge : Challenges \cup {None},
            account   : Accounts \cup {None},
            device    : Devices \cup {None},
            checkout  : Checkouts \cup {None},
            limit     : Nat,
            since     : Nat,
            until     : Nat]

NoChallenge == [purpose |-> "none", account |-> None, device |-> None,
                checkout |-> None, expires |-> 0, used |-> FALSE]
NoLicence == [state |-> "none", account |-> None, device |-> None, until |-> 0]

\* A request that works with op on account a, device d, challenge c and
\* Checkout Session k, and that has read the clock at t.
Doing(pc, op, a, d, c, k, t) ==
  [pc |-> pc, op |-> op, challenge |-> c, account |-> a, device |-> d,
   checkout |-> k, limit |-> 0, since |-> t, until |-> 0]

Idle == Doing("idle", "none", None, None, None, None, 0)

TypeOK ==
  /\ now \in Nat
  /\ status \in [Devices -> {"absent", "active", "revoked"}]
  /\ home \in [Devices -> Accounts \cup {None}]
  /\ challenge \in [Challenges -> Challenge]
  /\ licence \in [Challenges -> Licence]
  /\ checkout \in [Checkouts -> {"unregistered", "open", "consumed"}]
  /\ consumer \in [Checkouts -> Devices \cup {None}]
  /\ deviceLimit \in [Accounts -> Limits \cup {0}]
  /\ owner \in [Rows -> Requests \cup {None}]
  /\ req \in [Requests -> Request]
  /\ announced \in [Devices -> Nat]

Init ==
  /\ now = 0
  /\ status = [d \in Devices |-> "absent"]
  /\ home = [d \in Devices |-> None]
  /\ challenge = [c \in Challenges |-> NoChallenge]
  /\ licence = [c \in Challenges |-> NoLicence]
  /\ checkout = [k \in Checkouts |-> "unregistered"]
  /\ consumer = [k \in Checkouts |-> None]
  /\ deviceLimit = [a \in Accounts |-> 0]
  /\ owner = [x \in Rows |-> None]
  /\ req = [r \in Requests |-> Idle]
  /\ announced = [d \in Devices |-> 0]

-----------------------------------------------------------------------------
(***************************************************************************)
(* Row locks and the shape of a request                                    *)
(***************************************************************************)
Free(x) == owner[x] = None

\* Mutants: a SELECT that lost its FOR UPDATE.
LockNoDevice(r, x) == owner' = IF x \in Devices THEN owner ELSE [owner EXCEPT ![x] = r]
LockNoAccount(r, x) == owner' = IF x \in Accounts THEN owner ELSE [owner EXCEPT ![x] = r]
LockNoCheckout(r, x) == owner' = IF x \in Checkouts THEN owner ELSE [owner EXCEPT ![x] = r]
LockNoChallenge(r, x) == owner' = IF x \in Challenges THEN owner ELSE [owner EXCEPT ![x] = r]

Lock(r, x) == owner' = [owner EXCEPT ![x] = r]

\* COMMIT and ROLLBACK both release every lock of the transaction.
Released(r) == [x \in Rows |-> IF owner[x] = r THEN None ELSE owner[x]]

Goto(r, pc) == req' = [req EXCEPT ![r].pc = pc]

\* Mutants: the challenge is marked used outside the transaction; the
\* connection goes back to the pool without a ROLLBACK.
RollbackKeepsUsed(r) ==
  /\ owner' = Released(r)
  /\ req' = [req EXCEPT ![r] = Idle]
  /\ challenge' = IF req[r].pc = "commit" /\ req[r].op \in Purposes
                  THEN [challenge EXCEPT ![req[r].challenge].used = TRUE] ELSE challenge
  /\ UNCHANGED <<now, status, home, licence, checkout, consumer, deviceLimit, announced>>
RollbackKeepsLocks(r) ==
  /\ req' = [req EXCEPT ![r] = Idle]
  /\ UNCHANGED <<now, rowVars, owner, announced>>

\* ROLLBACK: an HttpError, a database error or a lost connection leaves no
\* trace but the released locks.
Rollback(r) ==
  /\ owner' = Released(r)
  /\ req' = [req EXCEPT ![r] = Idle]
  /\ UNCHANGED <<now, rowVars, announced>>

Registers(r) == req[r].op \in {"activate", "enroll"}

Licences(d) == {c \in Challenges : licence[c].state # "none" /\ licence[c].device = d}

ActiveDevices(a) == {d \in Devices : status[d] = "active" /\ home[d] = a}

-----------------------------------------------------------------------------
(***************************************************************************)
(* Challenge creation: checks, then the Stripe synchronization, then the   *)
(* INSERT, each in a transaction of its own.                               *)
(***************************************************************************)
\* Bound: a creation starts only while a challenge slot is left for it.
SlotLeft == Cardinality({c \in Challenges : challenge[c].purpose = "none"})
              > Cardinality({r \in Requests : req[r].op \in Creations})

Begin(r, op, a, d, k) ==
  /\ req[r].pc = "idle"
  /\ SlotLeft
  /\ req' = [req EXCEPT ![r] = Doing("sync", op, a, d, None, k, now)]

\* The upsert of checkout_activations is one statement: it waits for a
\* transaction that holds the row or, on the INSERT path, the account.
CreateActivationChallenge(r, k, d) ==
  /\ Free(k)
  /\ checkout[k] = "unregistered" => Free(Buyer[k])
  /\ checkout[k] # "consumed"
  /\ checkout' = [checkout EXCEPT ![k] = "open"]
  /\ Begin(r, "createActivate", Buyer[k], d, k)
  /\ UNCHANGED <<now, status, home, challenge, licence, consumer, deviceLimit,
                 owner, announced>>

CreateRefreshChallenge(r, d) ==
  /\ status[d] = "active"
  /\ Begin(r, "createRefresh", home[d], d, None)
  /\ UNCHANGED <<now, rowVars, owner, announced>>

CreateEnrollmentChallenge(r, a, d) ==
  /\ Begin(r, "createEnroll", a, d, None)
  /\ UNCHANGED <<now, rowVars, owner, announced>>

\* Mutant: the device limits of repeated answers add up.
SyncBillingAdds(r) ==
  /\ req[r].pc = "sync"
  /\ \E limit \in Limits \cup {0} :
       /\ deviceLimit' = [deviceLimit EXCEPT ![req[r].account] = @ + limit]
       /\ req' = [req EXCEPT ![r] = IF req[r].op = "createEnroll" /\ limit = 0
                                    THEN Idle
                                    ELSE [@ EXCEPT !.pc = "persist"]]
  /\ UNCHANGED <<now, status, home, challenge, licence, checkout, consumer,
                 owner, announced>>

\* refreshCustomerBillingProjection: Stripe may answer with any entitlements.
\* Enrollment alone then insists on an eligible context.
SyncBilling(r) ==
  /\ req[r].pc = "sync"
  /\ \E limit \in Limits \cup {0} :
       /\ deviceLimit' = [deviceLimit EXCEPT ![req[r].account] = limit]
       /\ req' = [req EXCEPT ![r] = IF req[r].op = "createEnroll" /\ limit = 0
                                    THEN Idle
                                    ELSE [@ EXCEPT !.pc = "persist"]]
  /\ UNCHANGED <<now, status, home, challenge, licence, checkout, consumer,
                 owner, announced>>

PurposeOf(op) == CASE op = "createActivate" -> "activate"
                   [] op = "createEnroll"   -> "enroll"
                   [] OTHER                 -> "refresh"

\* expires_at is computed before the INSERT, whose foreign key check waits for
\* a transaction that holds the account row.
PersistChallenge(r) ==
  /\ req[r].pc = "persist"
  /\ Free(req[r].account)
  /\ \E c \in Challenges, t \in req[r].since .. now :
       /\ challenge[c].purpose = "none"
       /\ challenge' = [challenge EXCEPT ![c] =
            [purpose |-> PurposeOf(req[r].op), account |-> req[r].account,
             device |-> req[r].device, checkout |-> req[r].checkout,
             expires |-> t + ChallengeTTL, used |-> FALSE]]
  /\ req' = [req EXCEPT ![r] = Idle]
  /\ UNCHANGED <<now, status, home, licence, checkout, consumer, deviceLimit,
                 owner, announced>>

-----------------------------------------------------------------------------
(***************************************************************************)
(* The completion transactions: activateDevice, enrollAdditionalDevice and *)
(* refreshDeviceLicense.  A request that does not repeat the bindings of   *)
(* the challenge, or whose signature does not verify, is rejected at once  *)
(* and changes nothing, so only matching requests are taken up here.       *)
(***************************************************************************)

\* lockedChallenge: the first statement.  Refresh locks the device next, the
\* others first look at the challenge.
BeginCompletion(r, c) ==
  /\ req[r].pc = "idle"
  /\ challenge[c].purpose # "none"
  /\ Free(c)
  /\ Lock(r, c)
  /\ req' = [req EXCEPT ![r] =
       Doing(IF challenge[c].purpose = "refresh" THEN "device" ELSE "context",
             challenge[c].purpose, challenge[c].account, challenge[c].device,
             c, challenge[c].checkout, 0)]
  /\ UNCHANGED <<now, rowVars, announced>>

\* A used challenge: the stored claims are signed again, or 409 when there are
\* none or they have expired.  Either way nothing is written.
Replay(r) ==
  /\ req[r].pc = "context"
  /\ challenge[req[r].challenge].used
  /\ Rollback(r)

FreshChallenge(c) == challenge[c].expires > now

UnusableContext(r) ==
  /\ req[r].pc = "context"
  /\ ~challenge[req[r].challenge].used
  /\ Rollback(r)

\* Stamped(r, pc): licenseTimes and claimsFor.  The period end is whatever the
\* subscription row says, so exp is any instant in (now, now + TTL].
Stamped(r, pc, limit) ==
  \E exp \in now + 1 .. now + LicenseTTL, grace \in {0, Grace} :
    req' = [req EXCEPT ![r] = [@ EXCEPT !.pc = pc, !.limit = limit, !.until = exp + grace]]

\* getLicenseContext reads the projection without a lock.  It may find no
\* eligible subscription, or one that ends now: UnusableContext.
ReadContext(r) ==
  /\ req[r].pc = "context"
  /\ ~challenge[req[r].challenge].used
  /\ FreshChallenge(req[r].challenge)
  /\ deviceLimit[req[r].account] > 0
  /\ IF req[r].op = "refresh"
     THEN Stamped(r, "commit", deviceLimit[req[r].account])
     ELSE req' = [req EXCEPT ![r] =
            [@ EXCEPT !.limit = deviceLimit[req[r].account],
                      !.pc = IF req[r].op = "activate" THEN "checkout" ELSE "account"]]
  /\ UNCHANGED <<now, rowVars, owner, announced>>

CheckoutOpen(k) == checkout[k] = "open"

LockCheckout(r) ==
  /\ req[r].pc = "checkout"
  /\ Free(req[r].checkout)
  /\ \/ /\ CheckoutOpen(req[r].checkout)
        /\ Lock(r, req[r].checkout)
        /\ Goto(r, "account")
        /\ UNCHANGED <<now, rowVars, announced>>
     \/ /\ ~CheckoutOpen(req[r].checkout)
        /\ Rollback(r)

LockAccount(r) ==
  /\ req[r].pc = "account"
  /\ Free(req[r].account)
  /\ Lock(r, req[r].account)
  /\ Goto(r, "device")
  /\ UNCHANGED <<now, rowVars, announced>>

\* SELECT ... FOR UPDATE of the devices row.  Without a committed row there is
\* nothing to lock and nothing to wait for, even while another transaction is
\* inserting it.  Revocation only looks for a device of its own account.
DeviceAbsent(r) ==
  \/ status[req[r].device] = "absent"
  \/ req[r].op = "revoke" /\ home[req[r].device] # req[r].account

UnderLimit(r) == Cardinality(ActiveDevices(req[r].account)) < req[r].limit

Usable(r) == status[req[r].device] = "active" /\ home[req[r].device] = req[r].account

NoDevice(r) ==
  /\ req[r].pc = "device"
  /\ DeviceAbsent(r)
  /\ \/ /\ Registers(r)
        /\ UnderLimit(r)
        /\ Goto(r, "insert")
        /\ UNCHANGED <<now, rowVars, owner, announced>>
     \/ /\ ~(Registers(r) /\ UnderLimit(r))
        /\ Rollback(r)

LockDevice(r) ==
  /\ req[r].pc = "device"
  /\ ~DeviceAbsent(r)
  /\ Free(req[r].device)
  /\ \/ /\ req[r].op = "revoke"
        /\ Lock(r, req[r].device)
        /\ Goto(r, "commit")
        /\ UNCHANGED <<now, rowVars, announced>>
     \/ /\ req[r].op = "refresh"
        /\ Usable(r)
        /\ Lock(r, req[r].device)
        /\ Goto(r, "context")
        /\ UNCHANGED <<now, rowVars, announced>>
     \/ /\ Registers(r)
        /\ Usable(r)
        /\ Lock(r, req[r].device)
        /\ Stamped(r, "commit", req[r].limit)
        /\ UNCHANGED <<now, rowVars, announced>>
     \/ /\ req[r].op # "revoke"
        /\ ~Usable(r)
        /\ Rollback(r)

\* INSERT INTO devices waits for another transaction that is inserting the
\* same primary key, and fails when that transaction has committed.
InsertDevice(r) ==
  /\ req[r].pc = "insert"
  /\ Free(req[r].device)
  /\ \/ /\ status[req[r].device] = "absent"
        /\ Lock(r, req[r].device)
        /\ Stamped(r, "commit", req[r].limit)
        /\ UNCHANGED <<now, rowVars, announced>>
     \/ /\ status[req[r].device] # "absent"
        /\ Rollback(r)

\* licenseTimes runs after registerDevice: a period that ended meanwhile
\* undoes the registration as well.
SubscriptionEnded(r) ==
  /\ Registers(r)
  /\ req[r].pc \in {"device", "insert"}
  /\ Free(req[r].device)
  /\ Rollback(r)

\* persistIssuedLicense and what follows it, up to COMMIT.  The INSERT INTO
\* issued_licenses checks its foreign key on the account: refresh, which does
\* not hold that row, waits here for whoever does.
CommitLicence(r) ==
  LET c == req[r].challenge
      d == req[r].device
      a == req[r].account
      k == req[r].checkout
  IN
  /\ req[r].pc = "commit"
  /\ req[r].op \in Purposes
  /\ req[r].op = "refresh" => Free(a)
  /\ challenge' = [challenge EXCEPT ![c].used = TRUE]
  /\ licence' = [licence EXCEPT ![c] =
       [state |-> "valid", account |-> a, device |-> d, until |-> req[r].until]]
  /\ IF Registers(r)
     THEN /\ status' = [status EXCEPT ![d] = "active"]
          /\ home' = [home EXCEPT ![d] = a]
     ELSE UNCHANGED <<status, home>>
  /\ IF req[r].op = "activate"
     THEN /\ checkout' = [checkout EXCEPT ![k] = "consumed"]
          /\ consumer' = [consumer EXCEPT ![k] = d]
     ELSE UNCHANGED <<checkout, consumer>>
  /\ owner' = Released(r)
  /\ req' = [req EXCEPT ![r] = Idle]
  /\ UNCHANGED <<now, deviceLimit, announced>>

-----------------------------------------------------------------------------
(***************************************************************************)
(* revokeAccountDevice                                                     *)
(***************************************************************************)

\* Mutant: the device row is locked before the account row.
BeginRevokeDeviceFirst(r, a, d) ==
  /\ req[r].pc = "idle"
  /\ home[d] = a
  /\ Free(d)
  /\ Lock(r, d)
  /\ req' = [req EXCEPT ![r] = Doing("account", "revoke", a, d, None, None, now)]
  /\ UNCHANGED <<now, rowVars, announced>>

\* now() in SQL is the start of the transaction: "since".  (The wait for the
\* account row comes after it.)
BeginRevoke(r, a, d) ==
  /\ req[r].pc = "idle"
  /\ req' = [req EXCEPT ![r] = Doing("account", "revoke", a, d, None, None, now)]
  /\ UNCHANGED <<now, rowVars, owner, announced>>

\* Mutant: licences that an earlier revocation marked are left out.
DeadlinesUnmarked(d, t) ==
  {licence[c].until : c \in {e \in Licences(d) : licence[e].state = "valid" /\ licence[e].until > t}}
Deadlines(d, t) == {licence[c].until : c \in {e \in Licences(d) : licence[e].until > t}}

\* max(grace_until) of the licences that have not ended; NULL is 0.
Announce(d, t) ==
  \E latest \in Deadlines(d, t) \cup {0} :
    /\ \A u \in Deadlines(d, t) : u <= latest
    /\ announced' = [announced EXCEPT ![d] = latest]

CommitRevoke(r) ==
  LET d == req[r].device IN
  /\ req[r].pc = "commit"
  /\ req[r].op = "revoke"
  /\ status' = [status EXCEPT ![d] = "revoked"]
  /\ licence' = [c \in Challenges |->
       IF c \in Licences(d) THEN [licence[c] EXCEPT !.state = "revoked"] ELSE licence[c]]
  /\ Announce(d, req[r].since)
  /\ owner' = Released(r)
  /\ req' = [req EXCEPT ![r] = Idle]
  /\ UNCHANGED <<now, home, challenge, checkout, consumer, deviceLimit>>

-----------------------------------------------------------------------------
(***************************************************************************)
(* Waiting, deadlocks and failures                                         *)
(***************************************************************************)

\* The rows whose lock the next statement of r waits for.
Wanted(r) ==
  CASE req[r].pc = "persist"  -> {req[r].account}
    [] req[r].pc = "checkout" -> {req[r].checkout}
    [] req[r].pc = "account"  -> {req[r].account}
    [] req[r].pc = "device"   -> IF DeviceAbsent(r) THEN {} ELSE {req[r].device}
    [] req[r].pc = "insert"   -> {req[r].device}
    [] req[r].pc = "commit" /\ req[r].op = "refresh" -> {req[r].account}
    [] OTHER                  -> {}

WaitsFor(r, s) == r # s /\ \E x \in Wanted(r) : owner[x] = s

Stuck(S) == S # {} /\ \A r \in S : \E s \in S : WaitsFor(r, s)

\* A smallest stuck set is a cycle of the waits-for graph.
InCycle(r) ==
  \E S \in SUBSET Requests :
    r \in S /\ Stuck(S) /\ \A T \in SUBSET S : Stuck(T) => T = S

\* PostgreSQL aborts one transaction of a cycle; the API answers 500.
DeadlockVictim(r) == InCycle(r) /\ Rollback(r)

\* The connection or the process is lost, or a statement fails.
ConnectionLost(r) == req[r].pc # "idle" /\ Rollback(r)

\* A Stripe event changes the projection at any time.
WebhookSync(a) ==
  /\ \E limit \in Limits \cup {0} : deviceLimit' = [deviceLimit EXCEPT ![a] = limit]
  /\ UNCHANGED <<now, status, home, challenge, licence, checkout, consumer,
                 owner, req, announced>>

Tick ==
  /\ now < MaxTime
  /\ now' = now + 1
  /\ UNCHANGED <<rowVars, owner, req, announced>>

Start(r) ==
  \/ \E k \in Checkouts, d \in Devices : CreateActivationChallenge(r, k, d)
  \/ \E d \in Devices : CreateRefreshChallenge(r, d)
  \/ \E a \in Accounts, d \in Devices : CreateEnrollmentChallenge(r, a, d)
  \/ \E c \in Challenges : BeginCompletion(r, c)
  \/ \E a \in Accounts, d \in Devices : BeginRevoke(r, a, d)

Continue(r) ==
  \/ SyncBilling(r) \/ PersistChallenge(r)
  \/ Replay(r) \/ UnusableContext(r) \/ ReadContext(r)
  \/ LockCheckout(r) \/ LockAccount(r)
  \/ NoDevice(r) \/ LockDevice(r) \/ InsertDevice(r) \/ SubscriptionEnded(r)
  \/ CommitLicence(r) \/ CommitRevoke(r)

Next ==
  \/ \E r \in Requests : Start(r) \/ Continue(r) \/ DeadlockVictim(r) \/ ConnectionLost(r)
  \/ \E a \in Accounts : WebhookSync(a)
  \/ Tick

Spec == Init /\ [][Next]_vars

\* Fairness.  A request goes on when it can; SF and not WF for the statements
\* that wait for a row lock, because PostgreSQL queues the waiters of a row and
\* serves them in turn.  deadlock_timeout makes PostgreSQL look for a cycle.
FairSpec ==
  /\ Spec
  /\ \A r \in Requests : SF_vars(Continue(r)) /\ WF_vars(DeadlockVictim(r))

-----------------------------------------------------------------------------
(***************************************************************************)
(* Safety                                                                  *)
(***************************************************************************)

\* A licence that is not marked revoked belongs to a device that is active and
\* registered to the licence's account, whatever registrations, refreshes and
\* revocations overlap (license-service.ts:184-193 and 358-364, devices.ts:66-90).
LiveLicenceMatchesDevice ==
  \A c \in Challenges : licence[c].state = "valid" =>
    /\ status[licence[c].device] = "active"
    /\ home[licence[c].device] = licence[c].account

\* One Checkout Session activates one device, although many activation
\* challenges may be created for it before the first one is completed
\* (license-service.ts:261-277; the check at challenges.ts:117 alone would be stale).
CheckoutActivatesOneDevice ==
  \A c1, c2 \in Challenges :
    /\ licence[c1].state # "none" /\ challenge[c1].purpose = "activate"
    /\ licence[c2].state # "none" /\ challenge[c2].purpose = "activate"
    /\ challenge[c1].checkout = challenge[c2].checkout
    => c1 = c2 /\ consumer[challenge[c1].checkout] = licence[c1].device

\* A challenge is spent exactly when its licence exists, so the answer
\* challenge_already_used without a stored licence (license-service.ts:247, 319,
\* 368) never happens and a lost response can always be replayed.
ChallengeSpentIffLicensed ==
  \A c \in Challenges : challenge[c].used <=> licence[c].state # "none"

\* A device row never exists without a licence for its account: a completion
\* that fails half way leaves nothing behind (license-service.ts:278-291, db.ts:37-50).
RegisteredDeviceWasLicensed ==
  \A d \in Devices : status[d] # "absent" =>
    \E c \in Licences(d) : licence[c].account = home[d]

\* The transactions that can deadlock include a refresh: it alone holds a device
\* while it waits for an account (license-service.ts:358 then the foreign key of
\* 154-171); the others lock challenge, checkout, account, device in that order.
DeadlockNeedsRefresh ==
  \A S \in SUBSET Requests : Stuck(S) => \E r \in S : req[r].op = "refresh"

\* The deadline a revocation announced still covers every licence of the device
\* that has not ended: nothing was issued to it later (devices.ts:85-98).
RevocationDeadlineHolds ==
  \A c \in Challenges :
    licence[c].state = "revoked" /\ licence[c].until > now
      => licence[c].until <= announced[licence[c].device]

-----------------------------------------------------------------------------
(***************************************************************************)
(* Action properties                                                       *)
(***************************************************************************)

\* An account gains an active device only up to the limit that the registering
\* transaction read, however many registrations overlap
\* (license-service.ts:181-202, billing/README.md:218).
DeviceLimitRespected ==
  [][\A a \in Accounts :
       \/ ActiveDevices(a)' \subseteq ActiveDevices(a)
       \/ \E r \in Requests : /\ req[r].pc = "commit" /\ req'[r].pc = "idle"
                              /\ req[r].account = a
                              /\ Cardinality(ActiveDevices(a)') <= req[r].limit]_vars

\* A registered device never changes its account and a revoked one is never
\* active again (license-service.ts:188-193).
RegistrationIsFinal ==
  [][\A d \in Devices :
       /\ status[d] # "absent" => status'[d] # "absent" /\ home'[d] = home[d]
       /\ status[d] = "revoked" => status'[d] = "revoked"]_vars

\* A stored licence is never replaced: only its revocation mark changes.  The
\* UNIQUE constraint on challenge_id (0001_initial.sql:87) is never what saves it.
LicenceNeverReplaced ==
  [][\A c \in Challenges : licence[c].state # "none" =>
       licence'[c] \in {licence[c], [licence[c] EXCEPT !.state = "revoked"]}]_vars

-----------------------------------------------------------------------------
(***************************************************************************)
(* The abstract specification                                              *)
(***************************************************************************)

\* The ledger in the committed rows: a consumer counts once the session is consumed.
LedgerLicence ==
  [c \in Challenges |-> [state |-> licence[c].state, account |-> licence[c].account,
                         device |-> licence[c].device]]

LedgerConsumer ==
  [k \in Checkouts |-> IF checkout[k] = "consumed" THEN consumer[k] ELSE None]

Ledger == INSTANCE LicenseLedger WITH licence <- LedgerLicence, consumer <- LedgerConsumer

\* However the transactions overlap, wait and fail, the committed rows only change
\* as the ledger does: a commit of a licence is one Issue, a commit of a revocation
\* one Revoke (license-service.ts:122-202, devices.ts:66-98).
LedgerImplemented == Ledger!Spec

-----------------------------------------------------------------------------
(***************************************************************************)
(* The inductive invariant behind the theorems of LicenseServiceProofs     *)
(***************************************************************************)

\* Which statements each kind of request goes through, and about what.
WellFormed(r) ==
  /\ req[r].pc = "idle" <=> req[r].op = "none"
  /\ req[r].op \in Creations => req[r].pc \in {"sync", "persist"}
  /\ req[r].op = "activate" =>
       req[r].pc \in {"context", "checkout", "account", "device", "insert", "commit"}
  /\ req[r].op = "enroll" =>
       req[r].pc \in {"context", "account", "device", "insert", "commit"}
  /\ req[r].op = "refresh" => req[r].pc \in {"device", "context", "commit"}
  /\ req[r].op = "revoke" => req[r].pc \in {"account", "device", "commit"}
  /\ req[r].op # "none" => req[r].account \in Accounts /\ req[r].device \in Devices
  /\ req[r].op \in Purposes => req[r].challenge \in Challenges
  /\ req[r].op \in {"activate", "createActivate"} => req[r].checkout \in Checkouts
  /\ req[r].since <= now

\* The rows a request has locked, by the statement it has come to.
Held(r) ==
  {x \in Rows :
    \/ x = req[r].challenge /\ req[r].op \in Purposes
    \/ x = req[r].checkout /\ req[r].op = "activate"
         /\ req[r].pc \in {"account", "device", "insert", "commit"}
    \/ x = req[r].account /\ (Registers(r) \/ req[r].op = "revoke")
         /\ req[r].pc \in {"device", "insert", "commit"}
    \/ x = req[r].device /\ (\/ req[r].op \in Purposes \cup {"revoke"} /\ req[r].pc = "commit"
                             \/ req[r].op = "refresh" /\ req[r].pc = "context")}

LockDiscipline(r) == \A x \in Rows : owner[x] = r <=> x \in Held(r)

\* A completion agrees with its challenge, and past the context it has seen
\* that the challenge is unused and that the Checkout Session is open.
ChallengeStands(r) ==
  req[r].op \in Purposes =>
    /\ challenge[req[r].challenge].purpose = req[r].op
    /\ challenge[req[r].challenge].account = req[r].account
    /\ challenge[req[r].challenge].device = req[r].device
    /\ challenge[req[r].challenge].checkout = req[r].checkout
    /\ \/ req[r].pc \in {"checkout", "account", "insert", "commit"}
       \/ req[r].pc = "device" /\ Registers(r)
       => ~challenge[req[r].challenge].used
    /\ req[r].op = "activate" /\ req[r].pc \in {"account", "device", "insert", "commit"}
       => checkout[req[r].checkout] = "open"

\* At its commit a request still sees the device it decided on: its account's
\* own and active, or new and within the limit.
DecisionStands(r) ==
  /\ Registers(r) /\ req[r].pc = "insert" => UnderLimit(r)
  /\ Registers(r) /\ req[r].pc = "commit" =>
       Usable(r) \/ (status[req[r].device] = "absent" /\ UnderLimit(r))
  /\ req[r].op = "refresh" /\ req[r].pc \in {"context", "commit"} => Usable(r)
  /\ req[r].op = "revoke" /\ req[r].pc = "commit" =>
       status[req[r].device] # "absent" /\ home[req[r].device] = req[r].account

RequestInv(r) ==
  WellFormed(r) /\ LockDiscipline(r) /\ ChallengeStands(r) /\ DecisionStands(r)

RowsConsistent ==
  /\ \A d \in Devices : status[d] # "absent" => home[d] \in Accounts
  /\ \A c \in Challenges :
       /\ challenge[c].purpose = "none" => ~challenge[c].used
       /\ challenge[c].purpose # "none" =>
            /\ challenge[c].account \in Accounts /\ challenge[c].device \in Devices
            /\ challenge[c].purpose = "activate" => challenge[c].checkout \in Checkouts
       /\ licence[c].state # "none" =>
            /\ licence[c].account = challenge[c].account
            /\ licence[c].device = challenge[c].device
            /\ status[licence[c].device] # "absent"
            /\ home[licence[c].device] = licence[c].account
            /\ challenge[c].purpose = "activate" =>
                 /\ checkout[challenge[c].checkout] = "consumed"
                 /\ consumer[challenge[c].checkout] = licence[c].device

RowInv ==
  /\ RowsConsistent
  /\ LiveLicenceMatchesDevice
  /\ CheckoutActivatesOneDevice
  /\ ChallengeSpentIffLicensed
  /\ RegisteredDeviceWasLicensed

IInv ==
  /\ TypeOK
  /\ \A r \in Requests : RequestInv(r)
  /\ RowInv
  /\ RevocationDeadlineHolds

\* What the refinement needs besides: an activation is for the account of its
\* Checkout Session, and a registration that goes on has been granted a limit.
Granted(q) ==
  /\ q.op \in {"createActivate", "activate"} => q.account = Buyer[q.checkout]
  /\ q.op \in {"activate", "enroll"} /\ q.pc # "context" => q.limit \in Limits

GrantInv ==
  /\ \A c \in Challenges : challenge[c].purpose = "activate" =>
       challenge[c].account = Buyer[challenge[c].checkout]
  /\ \A r \in Requests : Granted(req[r])

-----------------------------------------------------------------------------
(***************************************************************************)
(* Liveness                                                                *)
(***************************************************************************)

\* Every request ends, deadlocks included (db.ts:37-50).
RequestsEnd == \A r \in Requests : req[r].pc # "idle" ~> req[r].pc = "idle"

-----------------------------------------------------------------------------
(***************************************************************************)
(* What the documents say and the code does not do                         *)
(***************************************************************************)

\* LICENSE_PROTOCOL_V1.md:142: the transaction locks the account row, rechecks
\* current projected access, counts active devices.  A request that is granted
\* the account lock should hold no older answer about the limit.
AccessRecheckedUnderLock ==
  [][\A r \in Requests :
       req[r].pc = "account" /\ req'[r].pc = "device"
         => req[r].limit \in {0, deviceLimit[req[r].account]}]_vars

\* It does when the projection of an account stands still from the reading of the
\* context of a completion until the account lock is granted to it.
ProjectionHeld ==
  [][\A a \in Accounts, r \in Requests :
       /\ deviceLimit'[a] # deviceLimit[a]
       /\ Registers(r) /\ req[r].account = a
       => req[r].pc \notin {"checkout", "account"}]_vars

AccessStands ==
  \A r \in Requests : req[r].pc \in {"checkout", "account"} =>
    req[r].limit = IF Registers(r) THEN deviceLimit[req[r].account] ELSE 0

=============================================================================
