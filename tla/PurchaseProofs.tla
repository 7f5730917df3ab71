--------------------------- MODULE PurchaseProofs ---------------------------
(***************************************************************************)
(* Theorems about Purchase, for every number of requests, users,           *)
(* connections, failures and forgotten idempotency keys.                   *)
(***************************************************************************)
EXTENDS Purchase, FiniteSetTheorems, TLAPS

LEMMA IInvInit == Init => IInv
<1> SUFFICES ASSUME Init PROVE IInv
  OBVIOUS
<1>1. IsFiniteSet(connected) /\ Cardinality(connected) = 0
  BY FS_EmptySet DEF Init
<1>2. TypeOK
  BY <1>1, NumbersAssumption DEF Init, TypeOK, Idle, Request
<1>3. PoolInv /\ RowInv /\ KnowledgeInv /\ SessionsMatchAccount
  BY <1>1 DEF Init, Idle, PoolInv, RowInv, InTransaction, KnowledgeInv, SessionsMatchAccount
<1>4. ASSUME NEW a \in Accounts
      PROVE  IsFiniteSet(CustomersOf(a)) /\ Cardinality(CustomersOf(a)) = 0
  <2>1. CustomersOf(a) = {}
    BY NoneAssumption DEF Init, CustomersOf
  <2> QED
    BY <2>1, FS_EmptySet
<1>5. CustomersInv
  BY <1>4 DEF Init, CustomersInv
<1> QED
  BY <1>2, <1>3, <1>5 DEF IInv

-----------------------------------------------------------------------------
(***************************************************************************)
(* One request                                                             *)
(***************************************************************************)
LEMMA RequestFields ==
  ASSUME TypeOK, NEW r \in Requests
  PROVE  /\ req[r].pc \in {"idle", "account", "read", "begin", "lock", "create", "record", "open"}
         /\ req[r].customer \in Customers \cup {None}
         /\ User[r] \in Accounts
         /\ customer[User[r]] \in Customers \cup {None}
BY UserAssumption DEF TypeOK, Request

\* What a step of request r does to the requests: the others do not notice it.
Counters == {"idle", "account", "read", "begin", "lock", "create", "record", "open"}

LEMMA GotoFields ==
  ASSUME TypeOK, NEW r \in Requests, NEW pc \in Counters, Goto(r, pc)
  PROVE  /\ req' \in [Requests -> Request]
         /\ req'[r].pc = pc /\ req'[r].customer = req[r].customer
         /\ \A s \in Requests : s # r => req'[s] = req[s]
BY DEF TypeOK, Request, Goto, Counters

LEMMA LearnFields ==
  ASSUME TypeOK, NEW r \in Requests, NEW pc \in Counters, NEW c \in Customers \cup {None},
         req' = [req EXCEPT ![r].pc = pc, ![r].customer = c]
  PROVE  /\ req' \in [Requests -> Request]
         /\ req'[r].pc = pc /\ req'[r].customer = c
         /\ \A s \in Requests : s # r => req'[s] = req[s]
<1>1. req[r] \in Request /\ req \in [Requests -> Request]
  BY DEF TypeOK
<1>2. req' = [req EXCEPT ![r] = [req[r] EXCEPT !.pc = pc, !.customer = c]]
  BY <1>1
<1>3. [req[r] EXCEPT !.pc = pc, !.customer = c] \in Request
  BY <1>1 DEF Request, Counters
<1> QED
  BY <1>1, <1>2, <1>3 DEF Request

LEMMA EndFields ==
  ASSUME TypeOK, NEW r \in Requests, End(r)
  PROVE  /\ req' \in [Requests -> Request]
         /\ req'[r].pc = "idle"
         /\ \A s \in Requests : s # r => req'[s] = req[s]
BY DEF TypeOK, Request, End, Idle

\* A connection that is given back leaves the pool no larger, with the rest as it was.
LEMMA ReleaseFields ==
  ASSUME TypeOK, PoolInv, NEW r \in Requests, Release(r)
  PROVE  /\ connected' \subseteq Requests /\ IsFiniteSet(connected')
         /\ Cardinality(connected') <= Connections
         /\ r \notin connected'
         /\ \A s \in Requests : s # r => (s \in connected' <=> s \in connected)
         /\ lock' \in [Accounts -> Requests \cup {None}]
         /\ \A a \in Accounts : lock'[a] = IF lock[a] = r THEN None ELSE lock[a]
<1>1. /\ IsFiniteSet(connected \ {r}) /\ Cardinality(connected) \in Nat
      /\ \/ Cardinality(connected \ {r}) = Cardinality(connected) - 1
         \/ Cardinality(connected \ {r}) = Cardinality(connected)
  BY FS_RemoveElement, FS_CardinalityType DEF PoolInv
<1>2. Cardinality(connected \ {r}) <= Connections
  BY <1>1, NumbersAssumption DEF TypeOK
<1>3. connected' = connected \ {r}
  BY DEF Release
<1>4. connected' \subseteq Requests /\ r \notin connected'
  BY <1>3 DEF TypeOK
<1>5. /\ lock' \in [Accounts -> Requests \cup {None}]
      /\ \A a \in Accounts : lock'[a] = IF lock[a] = r THEN None ELSE lock[a]
  BY DEF Release, TypeOK
<1> QED
  BY <1>1, <1>2, <1>3, <1>4, <1>5

LEMMA ConnectFields ==
  ASSUME TypeOK, PoolInv, NEW r \in Requests, Connect(r)
  PROVE  /\ connected' \subseteq Requests /\ IsFiniteSet(connected')
         /\ Cardinality(connected') <= Connections
         /\ r \in connected'
         /\ \A s \in Requests : s # r => (s \in connected' <=> s \in connected)
<1>1. /\ IsFiniteSet(connected \cup {r}) /\ Cardinality(connected) \in Nat
      /\ \/ Cardinality(connected \cup {r}) = Cardinality(connected) + 1
         \/ Cardinality(connected \cup {r}) = Cardinality(connected)
  BY FS_AddElement, FS_CardinalityType DEF PoolInv
<1>2. Cardinality(connected) < Connections /\ connected' = connected \cup {r}
  BY DEF Connect
<1>3. Cardinality(connected \cup {r}) <= Connections
  BY <1>1, <1>2, NumbersAssumption
<1> QED
  BY <1>1, <1>2, <1>3 DEF TypeOK

(***************************************************************************)
(* Steps that write neither the rows of the accounts nor anything at       *)
(* Stripe: only the pool, the locks and the request itself are at stake.   *)
(***************************************************************************)
LEMMA SameCustomers ==
  ASSUME IInv, UNCHANGED <<customer, stripeVars>>
  PROVE  CustomersInv' /\ SessionsMatchAccount'
BY DEF IInv, CustomersInv, CustomersOf, SessionsMatchAccount, stripeVars

\* The request does not enter the transaction on this step.
LEMMA StepOutside ==
  ASSUME IInv, NEW r \in Requests, UNCHANGED <<customer, stripeVars>>,
         req' \in [Requests -> Request],
         \A s \in Requests : s # r => req'[s] = req[s],
         connected' \subseteq Requests, IsFiniteSet(connected'),
         Cardinality(connected') <= Connections,
         \A s \in Requests : s # r => (s \in connected' <=> s \in connected),
         lock' \in [Accounts -> Requests \cup {None}],
         \A a \in Accounts : lock'[a] = IF lock[a] = r THEN None ELSE lock[a],
         ~InTransaction(r)',
         r \in connected' <=> req'[r].pc \in {"read", "lock"},
         req'[r].pc = "record" =>
           req'[r].customer \in Customers /\ created[req'[r].customer] = User[r],
         req'[r].pc = "open" =>
           req'[r].customer \in Customers /\ req'[r].customer = customer[User[r]],
         faults' \in 0 .. MaxFaults
  PROVE  IInv'
<1>0. TypeOK /\ PoolInv /\ RowInv /\ KnowledgeInv
  BY DEF IInv
<1>1. TypeOK'
  BY <1>0 DEF TypeOK, stripeVars
<1>2. PoolInv'
  BY <1>0 DEF PoolInv
<1>3. \A s \in Requests : s # r => (InTransaction(s)' <=> InTransaction(s))
  BY DEF InTransaction
<1>4. RowInv'
  <2>1. ASSUME NEW a \in Accounts, lock'[a] # None
        PROVE  (InTransaction(lock[a]) /\ User[lock[a]] = a)'
    <3>1. lock'[a] = lock[a] /\ lock[a] # r /\ lock[a] \in Requests
      BY <1>0, <2>1 DEF TypeOK
    <3>2. InTransaction(lock[a]) /\ User[lock[a]] = a
      BY <1>0, <2>1, <3>1 DEF RowInv
    <3>3. InTransaction(lock[a])'
      BY <3>1, <3>2 DEF InTransaction
    <3> QED
      BY <3>1, <3>2, <3>3 DEF InTransaction
  <2>2. ASSUME NEW s \in Requests, InTransaction(s)'
        PROVE  lock'[User[s]] = s /\ customer'[User[s]] = None
    <3>1. s # r /\ User[s] \in Accounts
      BY <2>2, UserAssumption
    <3> QED
      BY <1>0, <1>3, <2>2, <3>1 DEF RowInv
  <2> QED
    BY <2>1, <2>2 DEF RowInv
<1>5. KnowledgeInv'
  BY <1>0 DEF KnowledgeInv, stripeVars
<1> QED
  BY <1>1, <1>2, <1>4, <1>5, SameCustomers DEF IInv

-----------------------------------------------------------------------------
(***************************************************************************)
(* One lemma per action                                                    *)
(***************************************************************************)
LEMMA BeginInv ==
  ASSUME IInv, NEW r \in Requests, NEW op \in {"checkout", "portal"},
         NEW k \in Keys \cup {None}, Begin(r, op, k)
  PROVE  IInv'
<1>0. TypeOK /\ PoolInv /\ RowInv
  BY DEF IInv
<1>1. /\ req' \in [Requests -> Request] /\ req'[r].pc = "account"
      /\ \A s \in Requests : s # r => req'[s] = req[s]
  <2>1. [Idle EXCEPT !.pc = "account", !.op = op, !.key = k] \in Request
        /\ [Idle EXCEPT !.pc = "account", !.op = op, !.key = k].pc = "account"
    BY DEF Idle, Request
  <2> QED
    BY <1>0, <2>1 DEF Begin, TypeOK
<1>2. r \notin connected /\ UNCHANGED <<customer, lock, connected, stripeVars, faults>>
  BY <1>0 DEF Begin, PoolInv
<1>3. \A a \in Accounts : lock[a] # r
  BY <1>0, <1>2, NoneAssumption DEF RowInv, InTransaction
<1> QED
  BY <1>0, <1>1, <1>2, <1>3, StepOutside DEF TypeOK, InTransaction, PoolInv

\* A request that waits for a connection, or with one for a row, holds no row.
LEMMA NoRowOutside ==
  ASSUME IInv, NEW r \in Requests, req[r].pc \notin {"create", "record"} \/ r \notin connected,
         NEW a \in Accounts
  PROVE  lock[a] # r
BY NoneAssumption DEF IInv, RowInv, InTransaction

LEMMA ConnectInv ==
  ASSUME IInv, NEW r \in Requests, AskAccount(r) \/ BeginTransaction(r)
  PROVE  IInv'
<1>0. TypeOK /\ PoolInv /\ req[r].pc \in {"account", "begin"}
  BY DEF IInv, AskAccount, BeginTransaction
<1>1. PICK pc \in {"read", "lock"} : Goto(r, pc)
  BY DEF AskAccount, BeginTransaction
<1>2. /\ req' \in [Requests -> Request] /\ req'[r].pc = pc
      /\ \A s \in Requests : s # r => req'[s] = req[s]
  BY <1>0, <1>1, GotoFields DEF Counters
<1>3. Connect(r) /\ UNCHANGED <<customer, lock, stripeVars, faults>>
  BY DEF AskAccount, BeginTransaction
<1>4. lock \in [Accounts -> Requests \cup {None}] /\ \A a \in Accounts : lock[a] # r
  BY <1>0, NoRowOutside DEF TypeOK
<1> QED
  BY <1>0, <1>2, <1>3, <1>4, ConnectFields, StepOutside DEF TypeOK, InTransaction

\* The end of a statement or of a transaction that has written nothing.
LEMMA ReleaseInv ==
  ASSUME IInv, NEW r \in Requests, Release(r), UNCHANGED <<customer, stripeVars>>,
         req' \in [Requests -> Request],
         \A s \in Requests : s # r => req'[s] = req[s],
         req'[r].pc \notin {"read", "lock"},
         req'[r].pc = "record" =>
           req'[r].customer \in Customers /\ created[req'[r].customer] = User[r],
         req'[r].pc = "open" =>
           req'[r].customer \in Customers /\ req'[r].customer = customer[User[r]],
         faults' \in 0 .. MaxFaults
  PROVE  IInv'
<1>1. TypeOK /\ PoolInv
  BY DEF IInv
<1> QED
  BY <1>1, ReleaseFields, StepOutside DEF InTransaction

LEMMA FindsCustomer ==
  ASSUME IInv, NEW r \in Requests, Release(r), customer[User[r]] # None,
         req' = [req EXCEPT ![r].pc = "open", ![r].customer = customer[User[r]]],
         UNCHANGED <<customer, stripeVars, faults>>
  PROVE  IInv'
<1>1. TypeOK /\ customer[User[r]] \in Customers
  BY RequestFields DEF IInv
<1>2. /\ req' \in [Requests -> Request]
      /\ req'[r].pc = "open" /\ req'[r].customer = customer[User[r]]
      /\ \A s \in Requests : s # r => req'[s] = req[s]
  BY <1>1, LearnFields DEF Counters
<1> QED
  BY <1>1, <1>2, ReleaseInv DEF TypeOK

LEMMA GetOrCreateAccountInv ==
  ASSUME IInv, NEW r \in Requests, GetOrCreateAccount(r)
  PROVE  IInv'
<1>0. TypeOK /\ Release(r) /\ UNCHANGED <<customer, stripeVars, faults>>
  BY DEF IInv, GetOrCreateAccount
<1>1. CASE customer[User[r]] # None
  BY <1>0, <1>1, FindsCustomer DEF GetOrCreateAccount
<1>2. CASE Goto(r, "begin")
  <2>1. /\ req' \in [Requests -> Request] /\ req'[r].pc = "begin"
        /\ \A s \in Requests : s # r => req'[s] = req[s]
    BY <1>0, <1>2, GotoFields DEF Counters
  <2> QED
    BY <1>0, <2>1, ReleaseInv DEF TypeOK
<1>3. CASE End(r)
  BY <1>0, <1>3, EndFields, ReleaseInv DEF TypeOK
<1> QED
  BY <1>1, <1>2, <1>3 DEF GetOrCreateAccount

LEMMA LockAccountInv ==
  ASSUME IInv, NEW r \in Requests, LockAccount(r)
  PROVE  IInv'
<1>0. /\ TypeOK /\ PoolInv /\ RowInv /\ KnowledgeInv
      /\ req[r].pc = "lock" /\ lock[User[r]] = None /\ User[r] \in Accounts
      /\ UNCHANGED <<customer, stripeVars, faults>>
  BY UserAssumption DEF IInv, LockAccount
<1>1. CASE customer[User[r]] # None
  BY <1>0, <1>1, FindsCustomer DEF LockAccount
<1>2. CASE customer[User[r]] = None
  <2>1. /\ lock' = [lock EXCEPT ![User[r]] = r] /\ Goto(r, "create") /\ UNCHANGED connected
    BY <1>2 DEF LockAccount
  <2>2. /\ req' \in [Requests -> Request] /\ req'[r].pc = "create"
        /\ \A s \in Requests : s # r => req'[s] = req[s]
    BY <1>0, <2>1, GotoFields DEF Counters
  <2>3. /\ lock' \in [Accounts -> Requests \cup {None}] /\ lock'[User[r]] = r
        /\ \A a \in Accounts : a # User[r] => lock'[a] = lock[a]
    BY <1>0, <2>1 DEF TypeOK
  <2>4. TypeOK'
    BY <1>0, <2>1, <2>2, <2>3 DEF TypeOK, stripeVars
  <2>5. PoolInv' /\ r \in connected
    BY <1>0, <2>1, <2>2 DEF PoolInv
  <2>6. /\ InTransaction(r)' /\ ~InTransaction(r)
        /\ \A s \in Requests : s # r => (InTransaction(s)' <=> InTransaction(s))
    BY <1>0, <2>1, <2>2, <2>5 DEF InTransaction
  <2>7. RowInv'
    <3>1. ASSUME NEW a \in Accounts, lock'[a] # None
          PROVE  (InTransaction(lock[a]) /\ User[lock[a]] = a)'
      <4>1. CASE a = User[r]
        BY <2>3, <2>6, <4>1 DEF InTransaction
      <4>2. CASE a # User[r]
        <5>1. lock'[a] = lock[a] /\ lock[a] \in Requests
          BY <1>0, <2>3, <3>1, <4>2 DEF TypeOK
        <5>2. InTransaction(lock[a]) /\ User[lock[a]] = a
          BY <1>0, <3>1, <5>1 DEF RowInv
        <5>3. lock[a] # r
          BY <2>6, <5>2
        <5>4. req'[lock[a]] = req[lock[a]]
          BY <2>2, <5>1, <5>3
        <5> QED
          BY <2>1, <5>1, <5>2, <5>4 DEF InTransaction
      <4> QED
        BY <4>1, <4>2
    <3>2. ASSUME NEW s \in Requests, InTransaction(s)'
          PROVE  lock'[User[s]] = s /\ customer'[User[s]] = None
      <4>1. CASE s = r
        BY <1>0, <1>2, <2>3, <4>1
      <4>2. CASE s # r
        <5>1. lock[User[s]] = s /\ customer[User[s]] = None
          BY <1>0, <2>6, <3>2, <4>2 DEF RowInv
        <5>2. User[s] # User[r] /\ User[s] \in Accounts
          BY <1>0, <5>1, NoneAssumption, UserAssumption
        <5> QED
          BY <1>0, <2>3, <5>1, <5>2
      <4> QED
        BY <4>1, <4>2
    <3> QED
      BY <3>1, <3>2 DEF RowInv
  <2>8. KnowledgeInv'
    BY <1>0, <2>2 DEF KnowledgeInv, stripeVars
  <2> QED
    BY <1>0, <2>4, <2>5, <2>7, <2>8, SameCustomers DEF IInv
<1> QED
  BY <1>1, <1>2

\* What Stripe answers to customers.create: the Customer is the account's, what the
\* other rows and answers name stays as it was, and a new one is counted.
LEMMA StripeAnswers ==
  ASSUME TypeOK, CustomersInv, NEW r \in Requests, CreateCustomer(r)
  PROVE  \E c \in Customers :
           /\ req' = [req EXCEPT ![r].pc = "record", ![r].customer = c]
           /\ created' \in [Customers -> Accounts \cup {None}] /\ created'[c] = User[r]
           /\ customerOf' \in [Accounts -> Customers \cup {None}]
           /\ \A d \in Customers : created[d] # None => created'[d] = created[d]
           /\ CustomersInv'
<1> DEFINE a == User[r]
<1>0. a \in Accounts /\ UNCHANGED <<customer, expired>>
  BY UserAssumption DEF CreateCustomer
<1>1. CASE customerOf[a] # None
  <2>1. /\ req' = [req EXCEPT ![r].pc = "record", ![r].customer = customerOf[a]]
        /\ UNCHANGED <<created, customerOf>>
    BY <1>1 DEF CreateCustomer
  <2>2. customerOf[a] \in Customers /\ created[customerOf[a]] = a
    BY <1>0, <1>1 DEF TypeOK, CustomersInv
  <2>3. CustomersInv'
    BY <1>0, <2>1 DEF CustomersInv, CustomersOf
  <2> QED
    BY <2>1, <2>2, <2>3 DEF TypeOK
<1>2. CASE customerOf[a] = None
  <2> DEFINE n == NewCustomer
  <2>1. /\ Unused # {}
        /\ created' = [created EXCEPT ![n] = a]
        /\ customerOf' = [customerOf EXCEPT ![a] = n]
        /\ req' = [req EXCEPT ![r].pc = "record", ![r].customer = n]
    BY <1>2 DEF CreateCustomer
  <2>2. n \in Customers /\ created[n] = None
    BY <2>1 DEF NewCustomer, Unused
  <2> HIDE DEF n
  <2>3. /\ created' \in [Customers -> Accounts \cup {None}] /\ created'[n] = a
        /\ \A d \in Customers : d # n => created'[d] = created[d]
        /\ customerOf' \in [Accounts -> Customers \cup {None}] /\ customerOf'[a] = n
        /\ \A b \in Accounts : b # a => customerOf'[b] = customerOf[b]
    BY <1>0, <2>1, <2>2 DEF TypeOK
  <2>4. \A d \in Customers : created[d] # None => created'[d] = created[d]
    BY <2>2, <2>3
  <2>5. ASSUME NEW b \in Accounts
        PROVE  /\ customer'[b] # None => created'[customer'[b]] = b
               /\ customerOf'[b] # None => created'[customerOf'[b]] = b
    <3>1. b # None
      BY NoneAssumption
    <3>2. customer[b] # None => customer[b] \in Customers /\ created[customer[b]] = b
      BY DEF TypeOK, CustomersInv
    <3>3. customerOf[b] # None => customerOf[b] \in Customers /\ created[customerOf[b]] = b
      BY DEF TypeOK, CustomersInv
    <3> QED
      BY <1>0, <2>3, <2>4, <3>1, <3>2, <3>3
  <2>6. ASSUME NEW b \in Accounts
        PROVE  /\ IsFiniteSet(CustomersOf(b)')
               /\ Cardinality(CustomersOf(b)') <=
                    expired'[b] + (IF customerOf'[b] = None THEN 0 ELSE 1)
    <3>1. /\ IsFiniteSet(CustomersOf(b)) /\ expired[b] \in Nat
          /\ Cardinality(CustomersOf(b)) <= expired[b] + (IF customerOf[b] = None THEN 0 ELSE 1)
      BY NumbersAssumption DEF CustomersInv, TypeOK
    <3>2. CASE b # a
      <4>1. CustomersOf(b)' = CustomersOf(b)
        BY <2>2, <2>3, <3>2, NoneAssumption DEF CustomersOf
      <4> QED
        BY <1>0, <2>3, <3>1, <3>2, <4>1
    <3>3. CASE b = a
      <4>1. CustomersOf(b)' = CustomersOf(b) \cup {n} /\ n \notin CustomersOf(b)
        BY <2>2, <2>3, <3>3, NoneAssumption DEF CustomersOf
      <4>2. /\ IsFiniteSet(CustomersOf(b)')
            /\ Cardinality(CustomersOf(b)') = Cardinality(CustomersOf(b)) + 1
        BY <3>1, <4>1, FS_AddElement
      <4>3. Cardinality(CustomersOf(b)) <= expired[b] /\ Cardinality(CustomersOf(b)) \in Nat
        BY <1>2, <3>1, <3>3, FS_CardinalityType
      <4>4. customerOf'[b] # None /\ expired'[b] = expired[b]
        BY <1>0, <2>2, <2>3, <3>3, NoneAssumption
      <4> QED
        BY <3>1, <4>2, <4>3, <4>4
    <3> QED
      BY <3>2, <3>3
  <2>7. CustomersInv'
    BY <2>5, <2>6 DEF CustomersInv
  <2> QED
    BY <2>1, <2>2, <2>3, <2>4, <2>7
<1> QED
  BY <1>1, <1>2

LEMMA CreateCustomerInv ==
  ASSUME IInv, NEW r \in Requests, CreateCustomer(r)
  PROVE  IInv'
<1>0. /\ TypeOK /\ PoolInv /\ RowInv /\ KnowledgeInv /\ CustomersInv /\ SessionsMatchAccount
      /\ req[r].pc = "create" /\ \A s \in Requests : User[s] \in Accounts /\ User[s] # None
      /\ UNCHANGED <<customer, lock, connected, sessions, sessionOf, expired, faults>>
  BY UserAssumption, NoneAssumption DEF IInv, CreateCustomer
<1>1. PICK c \in Customers :
        /\ req' = [req EXCEPT ![r].pc = "record", ![r].customer = c]
        /\ created' \in [Customers -> Accounts \cup {None}] /\ created'[c] = User[r]
        /\ customerOf' \in [Accounts -> Customers \cup {None}]
        /\ \A d \in Customers : created[d] # None => created'[d] = created[d]
        /\ CustomersInv'
  BY <1>0, StripeAnswers
<1>2. /\ req' \in [Requests -> Request] /\ req'[r].pc = "record" /\ req'[r].customer = c
      /\ \A s \in Requests : s # r => req'[s] = req[s]
  BY <1>0, <1>1, LearnFields DEF Counters
<1>3. TypeOK'
  BY <1>0, <1>1, <1>2 DEF TypeOK
<1>4. PoolInv'
  BY <1>0, <1>2 DEF PoolInv
<1>5. \A s \in Requests : InTransaction(s)' <=> InTransaction(s)
  BY <1>0, <1>2 DEF InTransaction
<1>6. RowInv'
  <2>1. ASSUME NEW a \in Accounts, lock'[a] # None
        PROVE  (InTransaction(lock[a]) /\ User[lock[a]] = a)'
    <3>1. lock'[a] = lock[a] /\ lock[a] \in Requests
      BY <1>0, <2>1 DEF TypeOK
    <3>2. InTransaction(lock[a]) /\ User[lock[a]] = a
      BY <1>0, <2>1, <3>1 DEF RowInv
    <3>3. req'[lock[a]].pc \in {"create", "record"}
      BY <1>2, <3>1, <3>2 DEF InTransaction
    <3> QED
      BY <1>0, <3>1, <3>2, <3>3 DEF InTransaction
  <2>2. ASSUME NEW s \in Requests, InTransaction(s)'
        PROVE  lock'[User[s]] = s /\ customer'[User[s]] = None
    BY <1>0, <1>5, <2>2 DEF RowInv
  <2> QED
    BY <2>1, <2>2 DEF RowInv
<1>7. KnowledgeInv'
  <2>1. ASSUME NEW s \in Requests, s # r
        PROVE  /\ req'[s].pc = "record" =>
                    req'[s].customer \in Customers /\ created'[req'[s].customer] = User[s]
               /\ req'[s].pc = "open" =>
                    req'[s].customer \in Customers /\ req'[s].customer = customer'[User[s]]
    BY <1>0, <1>1, <1>2, <2>1 DEF KnowledgeInv
  <2> QED
    BY <1>1, <1>2, <2>1 DEF KnowledgeInv
<1>8. SessionsMatchAccount'
  <2>1. ASSUME NEW x \in sessions
        PROVE  customer'[x.account] = x.customer /\ created'[x.customer] = x.account
    <3>1. x.account \in Accounts /\ x.customer \in Customers /\ x.account # None
      BY <1>0, <2>1, NoneAssumption DEF TypeOK, Session
    <3> QED
      BY <1>0, <1>1, <2>1, <3>1 DEF SessionsMatchAccount
  <2> QED
    BY <1>0, <2>1 DEF SessionsMatchAccount
<1> QED
  BY <1>1, <1>3, <1>4, <1>6, <1>7, <1>8 DEF IInv

LEMMA RecordCustomerInv ==
  ASSUME IInv, NEW r \in Requests, RecordCustomer(r)
  PROVE  IInv'
<1> DEFINE a == User[r]
           c == req[r].customer
<1>0. /\ TypeOK /\ PoolInv /\ RowInv /\ KnowledgeInv /\ CustomersInv /\ SessionsMatchAccount
      /\ \A s \in Requests : User[s] \in Accounts
      /\ UNCHANGED <<created, customerOf, sessions, sessionOf, expired, faults>>
  BY UserAssumption DEF IInv, RecordCustomer, stripeVars
<1>1. InTransaction(r) /\ req[r].pc = "record" /\ Release(r)
  BY DEF RecordCustomer, InTransaction
<1>2. lock[a] = r /\ customer[a] = None /\ c \in Customers /\ c # None /\ created[c] = a
  BY <1>0, <1>1, NoneAssumption DEF RowInv, KnowledgeInv
<1>3. /\ customer' \in [Accounts -> Customers \cup {None}] /\ customer'[a] = c
      /\ \A b \in Accounts : b # a => customer'[b] = customer[b]
  BY <1>0, <1>2 DEF RecordCustomer, TypeOK
<1>4. /\ req' \in [Requests -> Request] /\ req'[r].pc = "open" /\ req'[r].customer = c
      /\ \A s \in Requests : s # r => req'[s] = req[s]
  BY <1>0, GotoFields DEF RecordCustomer, Counters
<1>5. /\ connected' \subseteq Requests /\ IsFiniteSet(connected')
      /\ Cardinality(connected') <= Connections
      /\ r \notin connected'
      /\ \A s \in Requests : s # r => (s \in connected' <=> s \in connected)
      /\ lock' \in [Accounts -> Requests \cup {None}]
      /\ \A b \in Accounts : lock'[b] = IF lock[b] = r THEN None ELSE lock[b]
  BY <1>0, <1>1, ReleaseFields
<1>6. TypeOK'
  BY <1>0, <1>3, <1>4, <1>5 DEF TypeOK
<1>7. PoolInv'
  BY <1>0, <1>4, <1>5 DEF PoolInv
<1>8. RowInv'
  <2>1. ASSUME NEW b \in Accounts, lock'[b] # None
        PROVE  (InTransaction(lock[b]) /\ User[lock[b]] = b)'
    <3>1. lock'[b] = lock[b] /\ lock[b] # r /\ lock[b] \in Requests
      BY <1>0, <1>5, <2>1 DEF TypeOK
    <3>2. InTransaction(lock[b]) /\ User[lock[b]] = b
      BY <1>0, <2>1, <3>1 DEF RowInv
    <3>3. req'[lock[b]].pc \in {"create", "record"} /\ lock[b] \in connected'
      BY <1>4, <1>5, <3>1, <3>2 DEF InTransaction
    <3> QED
      BY <3>1, <3>2, <3>3 DEF InTransaction
  <2>2. ASSUME NEW s \in Requests, InTransaction(s)'
        PROVE  lock'[User[s]] = s /\ customer'[User[s]] = None
    <3>1. s # r /\ InTransaction(s)
      BY <1>4, <1>5, <2>2 DEF InTransaction
    <3>2. lock[User[s]] = s /\ customer[User[s]] = None
      BY <1>0, <3>1 DEF RowInv
    <3>3. User[s] # a
      BY <1>2, <3>1, <3>2
    <3> QED
      BY <1>0, <1>3, <1>5, <3>1, <3>2, <3>3
  <2> QED
    BY <2>1, <2>2 DEF RowInv
<1>9. KnowledgeInv'
  <2>1. ASSUME NEW s \in Requests, s # r
        PROVE  /\ req'[s].pc = "record" =>
                    req'[s].customer \in Customers /\ created'[req'[s].customer] = User[s]
               /\ req'[s].pc = "open" =>
                    req'[s].customer \in Customers /\ req'[s].customer = customer'[User[s]]
    <3>1. req[s].pc = "open" => User[s] # a
      BY <1>0, <1>2, NoneAssumption DEF KnowledgeInv
    <3> QED
      BY <1>0, <1>3, <1>4, <2>1, <3>1 DEF KnowledgeInv
  <2> QED
    BY <1>2, <1>3, <1>4, <2>1 DEF KnowledgeInv
<1>10. CustomersInv'
  <2>1. \A b \in Accounts : customer'[b] # None => created'[customer'[b]] = b
    BY <1>0, <1>2, <1>3 DEF CustomersInv
  <2> QED
    BY <1>0, <2>1 DEF CustomersInv, CustomersOf
<1>11. SessionsMatchAccount'
  <2>1. ASSUME NEW x \in sessions
        PROVE  customer'[x.account] = x.customer /\ created'[x.customer] = x.account
    <3>1. x.account \in Accounts /\ x.customer # None
      BY <1>0, <2>1, NoneAssumption DEF TypeOK, Session
    <3>2. x.account # a
      BY <1>0, <1>2, <2>1, <3>1 DEF SessionsMatchAccount
    <3> QED
      BY <1>0, <1>3, <2>1, <3>1, <3>2 DEF SessionsMatchAccount
  <2> QED
    BY <1>0, <2>1 DEF SessionsMatchAccount
<1> QED
  BY <1>6, <1>7, <1>8, <1>9, <1>10, <1>11 DEF IInv

\* The request ends, and gives back what it has.
LEMMA EndInv ==
  ASSUME IInv, NEW r \in Requests, End(r), Release(r), UNCHANGED <<customer, stripeVars>>,
         faults' \in 0 .. MaxFaults
  PROVE  IInv'
<1>1. TypeOK
  BY DEF IInv
<1> QED
  BY <1>1, EndFields, ReleaseInv

\* A request outside of a statement and of a transaction has nothing to give back.
LEMMA NothingToRelease ==
  ASSUME IInv, NEW r \in Requests, r \notin connected, UNCHANGED <<lock, connected>>
  PROVE  Release(r)
<1>1. lock \in [Accounts -> Requests \cup {None}] /\ \A a \in Accounts : lock[a] # r
  BY NoRowOutside DEF IInv, TypeOK
<1>2. lock' = [a \in Accounts |-> IF lock[a] = r THEN None ELSE lock[a]]
  BY <1>1
<1> QED
  BY <1>2 DEF Release

LEMMA RecordFailsInv ==
  ASSUME IInv, NEW r \in Requests, RecordFails(r) \/ OpenPortal(r)
  PROVE  IInv'
<1>1. End(r) /\ UNCHANGED <<customer, lock, connected, stripeVars, faults>>
  BY DEF RecordFails, OpenPortal
<1>2. r \notin connected /\ faults' \in 0 .. MaxFaults
  BY <1>1 DEF IInv, PoolInv, TypeOK, RecordFails, OpenPortal
<1> QED
  BY <1>1, <1>2, NothingToRelease, EndInv

LEMMA FailInv ==
  ASSUME IInv, NEW r \in Requests, Fail(r)
  PROVE  IInv'
<1>1. faults' \in 0 .. MaxFaults
  BY NumbersAssumption DEF IInv, TypeOK, Fail
<1> QED
  BY <1>1, EndInv DEF Fail

LEMMA DisconnectInv ==
  ASSUME IInv, NEW r \in Requests, Disconnect(r)
  PROVE  IInv'
<1>1. faults' \in 0 .. MaxFaults /\ req \in [Requests -> Request]
  BY NumbersAssumption DEF IInv, TypeOK, Disconnect
<1> QED
  BY <1>1, ReleaseInv DEF Disconnect

LEMMA OpenSessionInv ==
  ASSUME IInv, NEW r \in Requests, OpenSession(r)
  PROVE  IInv'
<1> DEFINE a == User[r]
           s == [account |-> a, customer |-> req[r].customer]
<1>0. /\ TypeOK /\ PoolInv /\ RowInv /\ KnowledgeInv /\ CustomersInv /\ SessionsMatchAccount
      /\ a \in Accounts /\ req[r].pc = "open" /\ r \notin connected
      /\ UNCHANGED <<customer, lock, connected, created, customerOf, expired, faults>>
  BY UserAssumption DEF IInv, OpenSession, PoolInv
<1>1. s \in Session /\ s.account = a /\ s.customer = customer[a] /\ created[s.customer] = a
  BY <1>0, NoneAssumption DEF KnowledgeInv, CustomersInv, Session
<1>2. /\ req' \in [Requests -> Request] /\ req'[r].pc = "idle"
      /\ \A x \in Requests : x # r => req'[x] = req[x]
  BY <1>0, EndFields DEF OpenSession
<1>3. /\ sessions' \subseteq sessions \cup {s}
      /\ sessionOf' \in [Accounts -> [Keys -> Session \cup {None}]]
  <2>1. CASE UNCHANGED <<sessions, sessionOf>>
    BY <1>0, <2>1 DEF TypeOK
  <2>2. CASE /\ sessions' = sessions \cup {s}
             /\ sessionOf' = [sessionOf EXCEPT ![a][req[r].key] = s]
    <3>1. sessionOf[a] \in [Keys -> Session \cup {None}]
      BY <1>0 DEF TypeOK
    <3>2. [sessionOf[a] EXCEPT ![req[r].key] = s] \in [Keys -> Session \cup {None}]
      BY <1>1, <3>1
    <3>3. sessionOf' = [sessionOf EXCEPT ![a] = [sessionOf[a] EXCEPT ![req[r].key] = s]]
      BY <2>2
    <3> QED
      BY <1>0, <2>2, <3>2, <3>3 DEF TypeOK
  <2> QED
    BY <2>1, <2>2 DEF OpenSession
<1>4. SessionsMatchAccount'
  BY <1>0, <1>1, <1>3 DEF SessionsMatchAccount
<1>5. TypeOK'
  BY <1>0, <1>1, <1>2, <1>3 DEF TypeOK
<1>6. PoolInv' /\ KnowledgeInv'
  BY <1>0, <1>2 DEF PoolInv, KnowledgeInv
<1>7. RowInv'
  <2>1. ASSUME NEW b \in Accounts, lock[b] # None
        PROVE  InTransaction(lock[b])' /\ User[lock[b]] = b
    <3>1. InTransaction(lock[b]) /\ User[lock[b]] = b /\ lock[b] \in Requests /\ lock[b] # r
      BY <1>0, <2>1 DEF RowInv, InTransaction, TypeOK
    <3> QED
      BY <1>0, <1>2, <3>1 DEF InTransaction
  <2>2. ASSUME NEW x \in Requests, InTransaction(x)' PROVE InTransaction(x)
    BY <1>0, <1>2, <2>2 DEF InTransaction
  <2> QED
    BY <1>0, <2>1, <2>2 DEF RowInv
<1>8. CustomersInv'
  BY <1>0 DEF CustomersInv, CustomersOf
<1> QED
  BY <1>4, <1>5, <1>6, <1>7, <1>8 DEF IInv

LEMMA KeysExpireInv ==
  ASSUME IInv, NEW a \in Accounts, KeysExpire(a)
  PROVE  IInv'
<1>0. /\ TypeOK /\ CustomersInv /\ customerOf[a] # None
      /\ UNCHANGED <<customer, lock, connected, req, created, sessions, faults>>
  BY DEF IInv, KeysExpire
<1>1. /\ expired' \in [Accounts -> 0 .. MaxExpired] /\ expired'[a] = expired[a] + 1
      /\ customerOf' \in [Accounts -> Customers \cup {None}] /\ customerOf'[a] = None
      /\ \A b \in Accounts : b # a => expired'[b] = expired[b] /\ customerOf'[b] = customerOf[b]
  BY <1>0, NumbersAssumption DEF KeysExpire, TypeOK
<1>2. sessionOf' \in [Accounts -> [Keys -> Session \cup {None}]]
  BY <1>0 DEF KeysExpire, TypeOK
<1>3. TypeOK'
  BY <1>0, <1>1, <1>2 DEF TypeOK
<1>4. PoolInv' /\ RowInv' /\ KnowledgeInv' /\ SessionsMatchAccount'
  BY <1>0 DEF IInv, PoolInv, RowInv, InTransaction, KnowledgeInv, SessionsMatchAccount
<1>5. CustomersInv'
  <2>1. ASSUME NEW b \in Accounts
        PROVE  Cardinality(CustomersOf(b)) <=
                 expired'[b] + (IF customerOf'[b] = None THEN 0 ELSE 1)
    BY <1>0, <1>1 DEF CustomersInv
  <2> QED
    BY <1>0, <1>1, <2>1 DEF CustomersInv, CustomersOf
<1> QED
  BY <1>3, <1>4, <1>5 DEF IInv

LEMMA IInvNext == IInv /\ [Next]_vars => IInv'
<1> SUFFICES ASSUME IInv, [Next]_vars PROVE IInv'
  OBVIOUS
<1>1. ASSUME NEW r \in Requests, Work(r) PROVE IInv'
  BY <1>1, ConnectInv, GetOrCreateAccountInv, LockAccountInv, CreateCustomerInv,
     RecordCustomerInv, RecordFailsInv, OpenSessionInv DEF Work
<1>2. ASSUME NEW r \in Requests, NEW k \in Keys, Begin(r, "checkout", k) PROVE IInv'
  BY <1>2, BeginInv
<1>3. ASSUME NEW r \in Requests, Begin(r, "portal", None) PROVE IInv'
  BY <1>3, BeginInv
<1>4. CASE UNCHANGED vars
  BY <1>4 DEF IInv, TypeOK, PoolInv, RowInv, InTransaction, KnowledgeInv, CustomersInv,
              CustomersOf, SessionsMatchAccount, vars
<1> QED
  BY <1>1, <1>2, <1>3, <1>4, FailInv, DisconnectInv, KeysExpireInv DEF Next

-----------------------------------------------------------------------------
(***************************************************************************)
(* The theorems                                                            *)
(***************************************************************************)
\* The inductive invariant holds in every reachable state.
THEOREM Invariance == Spec => []IInv
BY IInvInit, IInvNext, PTL DEF Spec

\* Type correctness; no more connections are in use than the pool has (db.ts:6-20).
THEOREM TypeCorrect == Spec => []TypeOK
<1>1. IInv => TypeOK
  BY DEF IInv
<1> QED
  BY <1>1, Invariance, PTL

\* Every Checkout Session is for the Customer that its account's row names and that was
\* created for this account (accounts.ts:25-46, checkout/route.ts:23-53).
THEOREM SessionsAreTheAccounts == Spec => []SessionsMatchAccount
<1>1. IInv => SessionsMatchAccount
  BY DEF IInv
<1> QED
  BY <1>1, Invariance, PTL

\* One Customer for an account, and one more each time Stripe has forgotten the key
\* dmoft-customer-<account> (accounts.ts:34-37).
THEOREM CustomersAreCounted == Spec => []OneCustomerPerKey
<1>1. IInv => OneCustomerPerKey
  <2> SUFFICES ASSUME IInv, NEW a \in Accounts
               PROVE  Cardinality(CustomersOf(a)) <= 1 + expired[a]
    BY DEF OneCustomerPerKey
  <2>1. /\ IsFiniteSet(CustomersOf(a)) /\ expired[a] \in Nat
        /\ Cardinality(CustomersOf(a)) <= expired[a] + (IF customerOf[a] = None THEN 0 ELSE 1)
    BY NumbersAssumption DEF IInv, CustomersInv, TypeOK
  <2>2. Cardinality(CustomersOf(a)) \in Nat
    BY <2>1, FS_CardinalityType
  <2> QED
    BY <2>1, <2>2
<1> QED
  BY <1>1, Invariance, PTL

\* The Customer of an account is written once: the second look under the row lock
\* finds the one another request has recorded (accounts.ts:27-33).
THEOREM CustomersStay == Spec => CustomerIsForever
<1>1. IInv /\ [Next]_vars =>
        [\A a \in Accounts : customer[a] # None => customer'[a] = customer[a]]_vars
  <2> SUFFICES ASSUME IInv, [Next]_vars, NEW a \in Accounts, customer[a] # None
               PROVE  customer'[a] = customer[a]
    OBVIOUS
  <2>1. ASSUME NEW r \in Requests, RecordCustomer(r) PROVE customer'[a] = customer[a]
    <3>1. InTransaction(r)
      BY <2>1 DEF RecordCustomer, InTransaction
    <3>2. customer[User[r]] = None
      BY <3>1 DEF IInv, RowInv
    <3> QED
      BY <2>1, <3>2 DEF RecordCustomer, IInv, TypeOK
  <2>2. ASSUME NEW r \in Requests, Work(r), ~RecordCustomer(r) PROVE UNCHANGED customer
    BY <2>2 DEF Work, AskAccount, GetOrCreateAccount, BeginTransaction, LockAccount,
                CreateCustomer, RecordFails, OpenPortal, OpenSession
  <2>3. ASSUME ~\E r \in Requests : Work(r) PROVE UNCHANGED customer
    BY <2>3 DEF Next, vars, Begin, Fail, Disconnect, KeysExpire
  <2> QED
    BY <2>1, <2>2, <2>3
<1> QED
  BY <1>1, Invariance, PTL DEF Spec, CustomerIsForever

\* No deadlock between the pool and the rows, for any number of connections: who waits
\* for a connection waits for one that has it; who waits for a row waits for a
\* transaction that has both, and that waits for Stripe alone (db.ts:6-20, 37-50,
\* accounts.ts:26-43).
THEOREM NoDeadlock == Spec => []SomebodyCanGoOn
<1>1. IInv => SomebodyCanGoOn
  <2> SUFFICES ASSUME IInv, NEW r \in Requests, req[r].pc # "idle"
               PROVE  \E s \in Requests : CanGoOn(s)
    BY DEF SomebodyCanGoOn
  <2>0. TypeOK /\ PoolInv /\ RowInv
    BY DEF IInv
  <2>1. ASSUME NEW s \in connected PROVE \E x \in Requests : CanGoOn(x)
    <3>1. s \in Requests /\ req[s].pc \in {"read", "lock", "create", "record"}
          /\ User[s] \in Accounts
      BY <2>0, UserAssumption DEF TypeOK, PoolInv
    <3>2. CASE req[s].pc \in {"read", "lock"} /\ lock[User[s]] # None
      <4>1. lock[User[s]] \in Requests /\ InTransaction(lock[User[s]])
        BY <2>0, <3>1, <3>2 DEF TypeOK, RowInv
      <4> QED
        BY <4>1 DEF CanGoOn, InTransaction
    <3> QED
      BY <3>1, <3>2 DEF CanGoOn
  <2>2. CASE req[r].pc \in {"account", "begin"} /\ connected = {}
    <3>1. Cardinality(connected) < Connections
      BY <2>2, FS_EmptySet, NumbersAssumption
    <3> QED
      BY <2>2, <3>1 DEF CanGoOn
  <2>3. CASE req[r].pc \in {"read", "lock"}
    BY <2>0, <2>1, <2>3 DEF PoolInv
  <2>4. CASE req[r].pc \in {"create", "record", "open"}
    BY <2>4 DEF CanGoOn
  <2> QED
    BY <2>0, <2>1, <2>2, <2>3, <2>4, RequestFields
<1> QED
  BY <1>1, Invariance, PTL

=============================================================================
