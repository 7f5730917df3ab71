------------------------------ MODULE Purchase ------------------------------
(***************************************************************************)
(* Accounts and their Stripe Customers: POST /api/v1/checkout, which       *)
(* creates the Customer of an account on its first use and opens a         *)
(* Checkout Session for it, and POST /api/v1/portal, which opens the       *)
(* Customer Portal.                                                        *)
(*                                                                         *)
(* Requests overlap.  Each statement and each transaction takes one of the *)
(* pool's connections, waits with it for the account row, and the          *)
(* transaction that creates a Customer keeps both during its call to       *)
(* Stripe.  Stripe remembers what it answered to an idempotency key, for a *)
(* limited time.                                                           *)
(***************************************************************************)
EXTENDS Naturals, FiniteSets

CONSTANTS
  Requests,     \* requests in flight
  Accounts,     \* rows of accounts
  User,         \* the account each request is authenticated for
  Customers,    \* Customers that Stripe may create: a bound
  Keys,         \* values of the Idempotency-Key header
  Connections,  \* size of the pool
  MaxFaults,    \* bound on failures and lost connections
  MaxExpired,   \* bound on idempotency keys of one account that Stripe forgets
  None

ASSUME NoneAssumption == None \notin Requests \cup Accounts \cup Customers \cup Keys
ASSUME UserAssumption == User \in [Requests -> Accounts]
ASSUME NumbersAssumption ==
  Connections \in Nat \ {0} /\ MaxFaults \in Nat /\ MaxExpired \in Nat

VARIABLES
  customer,   \* customer[a]: accounts.stripe_customer_id
  lock,       \* lock[a]: the transaction that holds the row of a
  connected,  \* requests that hold a connection of the pool
  req,        \* what each request is doing
  created,    \* created[c]: the account for which Stripe has created Customer c
  customerOf, \* customerOf[a]: Stripe's answer to the key dmoft-customer-<a>
  sessions,   \* Checkout Sessions
  sessionOf,  \* sessionOf[a][k]: Stripe's answer to the key checkout:<a>:<k>
  expired,    \* expired[a]: how often Stripe has forgotten customerOf[a] (history)
  faults

vars == <<customer, lock, connected, req, created, customerOf, sessions, sessionOf,
          expired, faults>>
stripeVars == <<created, customerOf, sessions, sessionOf, expired>>

Session == [account : Accounts, customer : Customers]

Request == [pc : {"idle", "account", "read", "begin", "lock", "create", "record", "open"},
            op : {"checkout", "portal"},
            key : Keys \cup {None},
            customer : Customers \cup {None}]

Idle == [pc |-> "idle", op |-> "checkout", key |-> None, customer |-> None]

TypeOK ==
  /\ customer \in [Accounts -> Customers \cup {None}]
  /\ lock \in [Accounts -> Requests \cup {None}]
  /\ connected \subseteq Requests /\ Cardinality(connected) <= Connections
  /\ req \in [Requests -> Request]
  /\ created \in [Customers -> Accounts \cup {None}]
  /\ customerOf \in [Accounts -> Customers \cup {None}]
  /\ sessions \subseteq Session
  /\ sessionOf \in [Accounts -> [Keys -> Session \cup {None}]]
  /\ expired \in [Accounts -> 0 .. MaxExpired]
  /\ faults \in 0 .. MaxFaults

Init ==
  /\ customer = [a \in Accounts |-> None]
  /\ lock = [a \in Accounts |-> None]
  /\ connected = {}
  /\ req = [r \in Requests |-> Idle]
  /\ created = [c \in Customers |-> None]
  /\ customerOf = [a \in Accounts |-> None]
  /\ sessions = {}
  /\ sessionOf = [a \in Accounts |-> [k \in Keys |-> None]]
  /\ expired = [a \in Accounts |-> 0]
  /\ faults = 0

-----------------------------------------------------------------------------
Goto(r, pc) == req' = [req EXCEPT ![r].pc = pc]
End(r) == req' = [req EXCEPT ![r] = Idle]

\* Mutant: a pool without a maximum.
ConnectAlways(r) == connected' = connected \cup {r}

\* getPool().connect(): one of the connections is free.
Connect(r) ==
  /\ Cardinality(connected) < Connections
  /\ connected' = connected \cup {r}

\* COMMIT, ROLLBACK, or a connection that dies: locks and connection are gone.
Release(r) ==
  /\ connected' = connected \ {r}
  /\ lock' = [a \in Accounts |-> IF lock[a] = r THEN None ELSE lock[a]]

\* The user of an account calls the service.  Without an Idempotency-Key header the
\* key is random: one that no other request has.
Begin(r, op, k) ==
  /\ req[r].pc = "idle"
  /\ req' = [req EXCEPT ![r] = [Idle EXCEPT !.pc = "account", !.op = op, !.key = k]]
  /\ UNCHANGED <<customer, lock, connected, stripeVars, faults>>

AskAccount(r) ==
  /\ req[r].pc = "account"
  /\ Connect(r)
  /\ Goto(r, "read")
  /\ UNCHANGED <<customer, lock, stripeVars, faults>>

\* getOrCreateAccount: INSERT ... ON CONFLICT DO UPDATE waits for the row.  The
\* portal needs a Customer; the checkout goes on with the one it has seen.
GetOrCreateAccount(r) ==
  LET seen == customer[User[r]] IN
  /\ req[r].pc = "read"
  /\ lock[User[r]] = None
  /\ Release(r)
  /\ \/ /\ seen # None
        /\ req' = [req EXCEPT ![r].pc = "open", ![r].customer = seen]
     \/ /\ seen = None /\ req[r].op = "checkout"
        /\ Goto(r, "begin")
     \/ /\ seen = None /\ req[r].op = "portal"
        /\ End(r)
  /\ UNCHANGED <<customer, stripeVars, faults>>

\* ensureStripeCustomer.
BeginTransaction(r) ==
  /\ req[r].pc = "begin"
  /\ Connect(r)
  /\ Goto(r, "lock")
  /\ UNCHANGED <<customer, lock, stripeVars, faults>>

\* Mutant: the row is locked but what was read before the lock is trusted.
LockAccountTrusting(r) ==
  /\ req[r].pc = "lock"
  /\ lock[User[r]] = None
  /\ lock' = [lock EXCEPT ![User[r]] = r]
  /\ Goto(r, "create")
  /\ UNCHANGED <<connected, customer, stripeVars, faults>>

\* Mutant: a request that finds a Customer begins the transaction once more.
LockAccountAgain(r) ==
  /\ req[r].pc = "lock"
  /\ lock[User[r]] = None
  /\ \/ /\ customer[User[r]] # None
        /\ Release(r)
        /\ Goto(r, "begin")
     \/ /\ customer[User[r]] = None
        /\ lock' = [lock EXCEPT ![User[r]] = r]
        /\ Goto(r, "create")
        /\ UNCHANGED connected
  /\ UNCHANGED <<customer, stripeVars, faults>>

\* SELECT ... FOR UPDATE, and another look at the Customer.
LockAccount(r) ==
  LET now == customer[User[r]] IN
  /\ req[r].pc = "lock"
  /\ lock[User[r]] = None
  /\ \/ /\ now # None
        /\ Release(r)
        /\ req' = [req EXCEPT ![r].pc = "open", ![r].customer = now]
     \/ /\ now = None
        /\ lock' = [lock EXCEPT ![User[r]] = r]
        /\ Goto(r, "create")
        /\ UNCHANGED connected
  /\ UNCHANGED <<customer, stripeVars, faults>>

\* Stripe makes up an identifier: one that is not in use, whichever it is.
Unused == {c \in Customers : created[c] = None}
NewCustomer == CHOOSE c \in Unused : TRUE

\* Mutant: the call carries no idempotency key.
CreateCustomerAnew(r) ==
  /\ req[r].pc = "create"
  /\ Unused # {}
  /\ created' = [created EXCEPT ![NewCustomer] = User[r]]
  /\ req' = [req EXCEPT ![r].pc = "record", ![r].customer = NewCustomer]
  /\ UNCHANGED <<customer, lock, connected, customerOf, sessions, sessionOf, expired, faults>>

\* customers.create with the key dmoft-customer-<account>.
CreateCustomer(r) ==
  LET a == User[r] IN
  /\ req[r].pc = "create"
  /\ \/ /\ customerOf[a] # None
        /\ req' = [req EXCEPT ![r].pc = "record", ![r].customer = customerOf[a]]
        /\ UNCHANGED <<created, customerOf>>
     \/ /\ customerOf[a] = None
        /\ Unused # {}
        /\ created' = [created EXCEPT ![NewCustomer] = a]
        /\ customerOf' = [customerOf EXCEPT ![a] = NewCustomer]
        /\ req' = [req EXCEPT ![r].pc = "record", ![r].customer = NewCustomer]
  /\ UNCHANGED <<customer, lock, connected, sessions, sessionOf, expired, faults>>

\* UPDATE accounts and COMMIT, on the connection the transaction began with.
RecordCustomer(r) ==
  /\ req[r].pc = "record"
  /\ r \in connected
  /\ customer' = [customer EXCEPT ![User[r]] = req[r].customer]
  /\ Release(r)
  /\ Goto(r, "open")
  /\ UNCHANGED <<stripeVars, faults>>

\* The connection was lost during the call to Stripe: the UPDATE throws.
RecordFails(r) ==
  /\ req[r].pc = "record"
  /\ r \notin connected
  /\ End(r)
  /\ UNCHANGED <<customer, lock, connected, stripeVars, faults>>

OpenPortal(r) ==
  /\ req[r].pc = "open" /\ req[r].op = "portal"
  /\ End(r)
  /\ UNCHANGED <<customer, lock, connected, stripeVars, faults>>

\* checkout.sessions.create with the key checkout:<account>:<Idempotency-Key>.
OpenSession(r) ==
  LET a == User[r]
      k == req[r].key
      s == [account |-> a, customer |-> req[r].customer]
  IN
  /\ req[r].pc = "open" /\ req[r].op = "checkout"
  /\ IF sessionOf[a][k] # None
     THEN UNCHANGED <<sessions, sessionOf>>
     ELSE /\ sessions' = sessions \cup {s}
          /\ sessionOf' = [sessionOf EXCEPT ![a][k] = s]
  /\ End(r)
  /\ UNCHANGED <<customer, lock, connected, created, customerOf, expired, faults>>

\* A call fails, five seconds pass without a free connection, or the process dies;
\* what Stripe has done by then stays done.
Fail(r) ==
  /\ req[r].pc # "idle"
  /\ faults < MaxFaults
  /\ faults' = faults + 1
  /\ Release(r)
  /\ End(r)
  /\ UNCHANGED <<customer, stripeVars>>

\* The connection is lost while the request waits for Stripe, and goes on waiting.
Disconnect(r) ==
  /\ req[r].pc = "create" /\ r \in connected
  /\ faults < MaxFaults
  /\ faults' = faults + 1
  /\ Release(r)
  /\ UNCHANGED <<customer, req, stripeVars>>

\* Stripe forgets an answer after a day or later: the key of account a, and perhaps
\* those of its sessions.
KeysExpire(a) ==
  /\ customerOf[a] # None
  /\ expired[a] < MaxExpired
  /\ expired' = [expired EXCEPT ![a] = @ + 1]
  /\ customerOf' = [customerOf EXCEPT ![a] = None]
  /\ sessionOf' \in {sessionOf, [sessionOf EXCEPT ![a] = [k \in Keys |-> None]]}
  /\ UNCHANGED <<customer, lock, connected, req, created, sessions, faults>>

Work(r) ==
  \/ AskAccount(r) \/ GetOrCreateAccount(r)
  \/ BeginTransaction(r) \/ LockAccount(r) \/ CreateCustomer(r)
  \/ RecordCustomer(r) \/ RecordFails(r)
  \/ OpenPortal(r) \/ OpenSession(r)

Next ==
  \/ \E r \in Requests, k \in Keys : Begin(r, "checkout", k)
  \/ \E r \in Requests : Begin(r, "portal", None)
  \/ \E r \in Requests : Work(r) \/ Fail(r) \/ Disconnect(r)
  \/ \E a \in Accounts : KeysExpire(a)

Spec == Init /\ [][Next]_vars

\* A request goes on; the pool and the row serve those who wait in turn: SF.
FairSpec == Spec /\ \A r \in Requests : SF_vars(Work(r))

-----------------------------------------------------------------------------
\* Whatever overlaps, fails or is forgotten by Stripe, the Customer of every Session
\* is the one its account's row names, and was created for that account: the webhooks
\* and the activation of a purchase find the account (stripe-sync.ts:54-55,
\* challenges.ts:75-80), the portal shows all of the account's purchases, and nobody
\* pays as another user.
SessionsMatchAccount ==
  \A s \in sessions : customer[s.account] = s.customer /\ created[s.customer] = s.account

\* An account's row never turns to another Customer (accounts.ts:27-40).
CustomerIsForever ==
  [][\A a \in Accounts : customer[a] # None => customer'[a] = customer[a]]_vars

\* Failed and overlapping requests leave no second Customer at Stripe while it
\* remembers the key of the account (accounts.ts:36-39).
CustomersOf(a) == {c \in Customers : created[c] = a}
OneCustomerPerKey == \A a \in Accounts : Cardinality(CustomersOf(a)) <= 1 + expired[a]

\* Every request ends, although requests wait for the row with a connection of the
\* pool and the one that has the row waits for Stripe (db.ts:36-50, accounts.ts:26-46).
RequestsEnd == \A r \in Requests : req[r].pc # "idle" ~> req[r].pc = "idle"

\* Requests that wait for a connection, and requests that wait with one for a row,
\* never all wait for each other: while a request is under way, one of them needs
\* nothing but an answer of Stripe or of its own connection (db.ts:6-20, 37-50).
CanGoOn(r) ==
  \/ req[r].pc \in {"account", "begin"} /\ Cardinality(connected) < Connections
  \/ req[r].pc \in {"read", "lock"} /\ lock[User[r]] = None
  \/ req[r].pc \in {"create", "record", "open"}
SomebodyCanGoOn ==
  (\E r \in Requests : req[r].pc # "idle") => \E r \in Requests : CanGoOn(r)

-----------------------------------------------------------------------------
(***************************************************************************)
(* The inductive invariant behind the theorems of PurchaseProofs           *)
(***************************************************************************)
\* Who holds a connection: a statement or a transaction that runs.
PoolInv ==
  /\ IsFiniteSet(connected)
  /\ \A r \in Requests :
       /\ req[r].pc \in {"read", "lock"} => r \in connected
       /\ r \in connected => req[r].pc \in {"read", "lock", "create", "record"}

\* A row is held by the transaction that is about to give its account a Customer.
InTransaction(r) == req[r].pc \in {"create", "record"} /\ r \in connected
RowInv ==
  /\ \A a \in Accounts :
       lock[a] # None => InTransaction(lock[a]) /\ User[lock[a]] = a
  /\ \A r \in Requests :
       InTransaction(r) => lock[User[r]] = r /\ customer[User[r]] = None

\* What a request knows of its account is still so.
KnowledgeInv ==
  \A r \in Requests :
    /\ req[r].pc = "record" =>
         req[r].customer \in Customers /\ created[req[r].customer] = User[r]
    /\ req[r].pc = "open" =>
         req[r].customer \in Customers /\ req[r].customer = customer[User[r]]

\* The Customers that a row or Stripe's answer names belong to the account, and one
\* that no answer names any more is counted in expired.
CustomersInv ==
  \A a \in Accounts :
    /\ customer[a] # None => created[customer[a]] = a
    /\ customerOf[a] # None => created[customerOf[a]] = a
    /\ IsFiniteSet(CustomersOf(a))
    /\ Cardinality(CustomersOf(a)) <= expired[a] + (IF customerOf[a] = None THEN 0 ELSE 1)

IInv ==
  /\ TypeOK
  /\ PoolInv
  /\ RowInv
  /\ KnowledgeInv
  /\ CustomersInv
  /\ SessionsMatchAccount

=============================================================================
