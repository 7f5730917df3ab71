------------------------ MODULE LicenseServiceProofs ------------------------
(***************************************************************************)
(* Theorems about LicenseService, for every number of accounts, devices,   *)
(* Checkout Sessions, challenges and concurrent requests; the last one is  *)
(* that it implements LicenseLedger.                                       *)
(***************************************************************************)
EXTENDS LicenseService, FiniteSetTheorems, TLAPS

USE DEF Rows

-----------------------------------------------------------------------------
(***************************************************************************)
(* Type correctness                                                        *)
(***************************************************************************)

LEMMA IdleType == Idle \in Request
BY DEF Idle, Doing, Request

LEMMA LimitsType == \A n \in Limits \cup {0} : n \in Nat
BY NumbersAssumption

\* A row is held by nobody or by a request, whatever is locked or released.
LEMMA ReleasedType ==
  ASSUME TypeOK, NEW r \in Requests
  PROVE  Released(r) \in [Rows -> Requests \cup {None}]
BY DEF TypeOK, Released

LEMMA RollbackType ==
  ASSUME TypeOK, NEW r \in Requests, Rollback(r)
  PROVE  TypeOK'
BY ReleasedType, IdleType DEF TypeOK, Rollback, rowVars

LEMMA LockType ==
  ASSUME TypeOK, NEW r \in Requests, NEW x \in Rows, Lock(r, x)
  PROVE  owner' \in [Rows -> Requests \cup {None}]
BY DEF TypeOK, Lock

Counters == {"idle", "sync", "persist", "context", "checkout", "account",
             "device", "insert", "commit"}

\* What a step of request r leaves alone: the other requests, and what the
\* request itself is about.
Others(r) == \A s \in Requests : s # r => req'[s] = req[s]
SameSubject(r) ==
  /\ req'[r].op = req[r].op
  /\ req'[r].challenge = req[r].challenge
  /\ req'[r].account = req[r].account
  /\ req'[r].device = req[r].device
  /\ req'[r].checkout = req[r].checkout
  /\ req'[r].since = req[r].since

LEMMA GotoFields ==
  ASSUME TypeOK, NEW r \in Requests, NEW pc \in Counters, Goto(r, pc)
  PROVE  /\ req' \in [Requests -> Request]
         /\ Others(r)
         /\ SameSubject(r)
         /\ req'[r].pc = pc
         /\ req'[r].limit = req[r].limit
<1>1. [req[r] EXCEPT !.pc = pc] \in Request
  BY DEF TypeOK, Request, Counters
<1> QED BY <1>1 DEF TypeOK, Goto, Others, SameSubject, Request

LEMMA SetFields ==
  ASSUME NEW q \in Request, NEW pc \in Counters, NEW limit \in Nat, NEW until \in Nat
  PROVE  [q EXCEPT !.pc = pc, !.limit = limit, !.until = until] \in Request
BY DEF Request, Counters

LEMMA StampedFields ==
  ASSUME TypeOK, NEW r \in Requests, NEW limit \in Nat, Stamped(r, "commit", limit)
  PROVE  /\ req' \in [Requests -> Request]
         /\ Others(r)
         /\ SameSubject(r)
         /\ req'[r].pc = "commit"
         /\ req'[r].limit = limit
<1>1. PICK exp \in now + 1 .. now + LicenseTTL, grace \in {0, Grace} :
        req' = [req EXCEPT ![r] = [@ EXCEPT !.pc = "commit", !.limit = limit,
                                            !.until = exp + grace]]
  BY DEF Stamped
<1>2. exp + grace \in Nat
  BY NumbersAssumption DEF TypeOK
<1>3. [req[r] EXCEPT !.pc = "commit", !.limit = limit, !.until = exp + grace] \in Request
  BY <1>2, SetFields DEF TypeOK, Counters
<1>4. req' \in [Requests -> Request] /\ Others(r)
  BY <1>1, <1>3 DEF TypeOK, Others
<1>5. req'[r] = [req[r] EXCEPT !.pc = "commit", !.limit = limit, !.until = exp + grace]
  BY <1>1 DEF TypeOK
<1> QED BY <1>4, <1>5 DEF TypeOK, SameSubject, Request

LEMMA DoingType ==
  ASSUME NEW pc \in Counters, NEW op \in Purposes \cup Creations \cup {"revoke"},
         NEW a \in Accounts \cup {None}, NEW d \in Devices \cup {None},
         NEW c \in Challenges \cup {None}, NEW k \in Checkouts \cup {None}, NEW t \in Nat
  PROVE  Doing(pc, op, a, d, c, k, t) \in Request
BY DEF Doing, Request, Counters

\* TypeOK is preserved by every step.
LEMMA TypeStart ==
  ASSUME TypeOK, NEW r \in Requests, Start(r)
  PROVE  TypeOK'
<1>1. ASSUME NEW k \in Checkouts, NEW d \in Devices, CreateActivationChallenge(r, k, d)
      PROVE  TypeOK'
  <2>1. Doing("sync", "createActivate", Buyer[k], d, None, k, now) \in Request
    BY DoingType, BuyerAssumption DEF TypeOK, Counters, Creations
  <2> QED BY <1>1, <2>1 DEF TypeOK, CreateActivationChallenge, Begin
<1>2. ASSUME NEW d \in Devices, CreateRefreshChallenge(r, d)
      PROVE  TypeOK'
  <2>1. Doing("sync", "createRefresh", home[d], d, None, None, now) \in Request
    BY DoingType DEF TypeOK, Counters, Creations
  <2> QED BY <1>2, <2>1 DEF TypeOK, CreateRefreshChallenge, Begin, rowVars
<1>3. ASSUME NEW a \in Accounts, NEW d \in Devices, CreateEnrollmentChallenge(r, a, d)
      PROVE  TypeOK'
  <2>1. Doing("sync", "createEnroll", a, d, None, None, now) \in Request
    BY DoingType DEF TypeOK, Counters, Creations
  <2> QED BY <1>3, <2>1 DEF TypeOK, CreateEnrollmentChallenge, Begin, rowVars
<1>4. ASSUME NEW c \in Challenges, BeginCompletion(r, c)
      PROVE  TypeOK'
  <2>1. challenge[c] \in Challenge /\ challenge[c].purpose \in Purposes
    BY <1>4 DEF TypeOK, BeginCompletion, Challenge
  <2>2. Doing(IF challenge[c].purpose = "refresh" THEN "device" ELSE "context",
              challenge[c].purpose, challenge[c].account, challenge[c].device,
              c, challenge[c].checkout, 0) \in Request
    BY <2>1, DoingType DEF Counters, Challenge
  <2> QED BY <1>4, <2>2, LockType DEF TypeOK, BeginCompletion, rowVars
<1>5. ASSUME NEW a \in Accounts, NEW d \in Devices, BeginRevoke(r, a, d)
      PROVE  TypeOK'
  <2>1. Doing("account", "revoke", a, d, None, None, now) \in Request
    BY DoingType DEF TypeOK, Counters
  <2> QED BY <1>5, <2>1 DEF TypeOK, BeginRevoke, rowVars
<1> QED BY <1>1, <1>2, <1>3, <1>4, <1>5 DEF Start

LEMMA TypeContinue ==
  ASSUME TypeOK, NEW r \in Requests, WellFormed(r), Continue(r)
  PROVE  TypeOK'
<1> DEFINE q == req[r]
<1>0. q \in Request
  BY DEF TypeOK
<1>a. q.pc # "idle" => q.account \in Accounts /\ q.device \in Devices
  BY DEF WellFormed
<1>b. Rollback(r) => TypeOK'
  BY RollbackType
<1>1. CASE SyncBilling(r)
  <2>1. PICK limit \in Limits \cup {0} :
          /\ deviceLimit' = [deviceLimit EXCEPT ![q.account] = limit]
          /\ req' = [req EXCEPT ![r] = IF q.op = "createEnroll" /\ limit = 0
                                       THEN Idle ELSE [@ EXCEPT !.pc = "persist"]]
    BY <1>1 DEF SyncBilling
  <2>2. [q EXCEPT !.pc = "persist"] \in Request
    BY <1>0 DEF Request
  <2>3. req' \in [Requests -> Request]
    BY <2>1, <2>2, IdleType DEF TypeOK
  <2>4. deviceLimit' \in [Accounts -> Limits \cup {0}]
    BY <2>1, <1>a, <1>1 DEF TypeOK, SyncBilling
  <2> QED BY <1>1, <2>3, <2>4 DEF TypeOK, SyncBilling
<1>2. CASE PersistChallenge(r)
  <2>1. PICK c \in Challenges, t \in q.since .. now :
          challenge' = [challenge EXCEPT ![c] =
            [purpose |-> PurposeOf(q.op), account |-> q.account,
             device |-> q.device, checkout |-> q.checkout,
             expires |-> t + ChallengeTTL, used |-> FALSE]]
    BY <1>2 DEF PersistChallenge
  <2>2. PurposeOf(q.op) \in Purposes
    BY DEF PurposeOf, Purposes
  <2>3. t + ChallengeTTL \in Nat
    BY <1>0, NumbersAssumption DEF TypeOK, Request
  <2>4. challenge' \in [Challenges -> Challenge]
    BY <2>1, <2>2, <2>3, <1>0 DEF TypeOK, Challenge, Request
  <2> QED BY <1>2, <2>4, IdleType DEF TypeOK, PersistChallenge
<1>3. CASE Replay(r)
  BY <1>3, <1>b DEF Replay
<1>4. CASE UnusableContext(r)
  BY <1>4, <1>b DEF UnusableContext
<1>5. CASE ReadContext(r)
  <2>1. deviceLimit[q.account] \in Nat
    BY <1>5, <1>a, NumbersAssumption DEF TypeOK, ReadContext
  <2>2. req' \in [Requests -> Request]
    <3>1. CASE q.op = "refresh"
      BY <3>1, <1>5, <2>1, StampedFields DEF ReadContext
    <3>2. CASE q.op # "refresh"
      <4>1. [q EXCEPT !.limit = deviceLimit[q.account],
                      !.pc = IF q.op = "activate" THEN "checkout" ELSE "account"] \in Request
        BY <1>0, <2>1 DEF Request
      <4> QED BY <3>2, <1>5, <4>1 DEF ReadContext, TypeOK
    <3> QED BY <3>1, <3>2
  <2> QED BY <1>5, <2>2 DEF TypeOK, ReadContext, rowVars
<1>6. CASE LockCheckout(r)
  <2>1. q.checkout \in Checkouts
    BY <1>6, <1>0 DEF LockCheckout, WellFormed, Request, Purposes, Creations
  <2>2. CASE Lock(r, q.checkout) /\ Goto(r, "account") /\ UNCHANGED <<now, rowVars, announced>>
    BY <2>1, <2>2, LockType, GotoFields DEF TypeOK, rowVars, Counters
  <2> QED BY <1>6, <1>b, <2>2 DEF LockCheckout
<1>7. CASE LockAccount(r)
  BY <1>7, <1>a, LockType, GotoFields DEF TypeOK, LockAccount, rowVars, Counters
<1>8. CASE NoDevice(r)
  <2>1. CASE Goto(r, "insert") /\ UNCHANGED <<now, rowVars, owner, announced>>
    BY <2>1, GotoFields DEF TypeOK, rowVars, Counters
  <2> QED BY <1>8, <1>b, <2>1 DEF NoDevice
<1>9. CASE LockDevice(r)
  <2>0. q.device \in Devices
    BY <1>9, <1>a DEF LockDevice
  <2>1. ASSUME NEW pc \in Counters, Lock(r, q.device), Goto(r, pc),
               UNCHANGED <<now, rowVars, announced>>
        PROVE  TypeOK'
    BY <2>0, <2>1, LockType, GotoFields DEF TypeOK, rowVars
  <2>2. CASE Lock(r, q.device) /\ Stamped(r, "commit", q.limit)
             /\ UNCHANGED <<now, rowVars, announced>>
    <3>1. q.limit \in Nat
      BY <1>0 DEF Request
    <3> QED BY <2>0, <2>2, <3>1, LockType, StampedFields DEF TypeOK, rowVars
  <2>3. "commit" \in Counters /\ "context" \in Counters
    BY DEF Counters
  <2> QED BY <1>9, <1>b, <2>1, <2>2, <2>3 DEF LockDevice
<1>10. CASE InsertDevice(r)
  <2>1. CASE Lock(r, q.device) /\ Stamped(r, "commit", q.limit)
             /\ UNCHANGED <<now, rowVars, announced>>
    <3>1. q.limit \in Nat /\ q.device \in Devices
      BY <1>0, <1>a, <1>10 DEF Request, InsertDevice
    <3> QED BY <2>1, <3>1, LockType, StampedFields DEF TypeOK, rowVars
  <2> QED BY <1>10, <1>b, <2>1 DEF InsertDevice
<1>11. CASE SubscriptionEnded(r)
  BY <1>11, <1>b DEF SubscriptionEnded
<1>12. CASE CommitLicence(r)
  <2>1. q.op \in Purposes /\ q.challenge \in Challenges
    BY <1>12 DEF CommitLicence, WellFormed
  <2>2. q.account \in Accounts /\ q.device \in Devices /\ q.until \in Nat
    BY <1>12, <1>a, <1>0 DEF CommitLicence, Request
  <2>3. challenge' \in [Challenges -> Challenge]
    <3>1. ASSUME NEW x \in Challenge
          PROVE  [x EXCEPT !.used = TRUE] \in Challenge
      BY DEF Challenge
    <3> QED BY <1>12, <2>1, <3>1 DEF CommitLicence, TypeOK
  <2>4. licence' \in [Challenges -> Licence]
    <3>1. [state |-> "valid", account |-> q.account, device |-> q.device,
           until |-> q.until] \in Licence
      BY <2>2 DEF Licence
    <3> QED BY <1>12, <3>1 DEF CommitLicence, TypeOK
  <2>5. /\ status' \in [Devices -> {"absent", "active", "revoked"}]
        /\ home' \in [Devices -> Accounts \cup {None}]
    BY <1>12, <2>2 DEF CommitLicence, TypeOK
  <2>6. /\ checkout' \in [Checkouts -> {"unregistered", "open", "consumed"}]
        /\ consumer' \in [Checkouts -> Devices \cup {None}]
    BY <1>12, <2>2 DEF CommitLicence, TypeOK
  <2> QED BY <1>12, <2>3, <2>4, <2>5, <2>6, IdleType, ReleasedType DEF TypeOK, CommitLicence
<1>13. CASE CommitRevoke(r)
  <2>1. licence' \in [Challenges -> Licence]
    <3>1. ASSUME NEW c \in Challenges
          PROVE  [licence[c] EXCEPT !.state = "revoked"] \in Licence
      BY DEF TypeOK, Licence
    <3> QED BY <1>13, <3>1 DEF CommitRevoke, TypeOK
  <2>2. announced' \in [Devices -> Nat]
    <3>1. Deadlines(q.device, q.since) \subseteq Nat
      BY DEF Deadlines, Licences, TypeOK, Licence
    <3>2. PICK latest \in Nat : announced' = [announced EXCEPT ![q.device] = latest]
      BY <1>13, <3>1 DEF CommitRevoke, Announce
    <3> QED BY <3>2 DEF TypeOK
  <2>3. status' \in [Devices -> {"absent", "active", "revoked"}]
    BY <1>13 DEF CommitRevoke, TypeOK
  <2> QED BY <1>13, <2>1, <2>2, <2>3, IdleType, ReleasedType DEF TypeOK, CommitRevoke
<1> QED BY <1>1, <1>2, <1>3, <1>4, <1>5, <1>6, <1>7, <1>8, <1>9, <1>10, <1>11,
           <1>12, <1>13 DEF Continue

-----------------------------------------------------------------------------
(***************************************************************************)
(* The inductive invariant: what a step leaves alone                       *)
(***************************************************************************)

\* The part of RequestInv(s) that rests on rows is protected by the locks of s.
LEMMA Frame ==
  ASSUME TypeOK, TypeOK', NEW r \in Requests, NEW s \in Requests, s # r,
         RequestInv(s), Others(r), now <= now',
         \A x \in Rows : owner[x] = s <=> owner'[x] = s,
         \A c \in Challenges : owner[c] = s /\ challenge[c].purpose # "none"
                                 => challenge'[c] = challenge[c],
         \A k \in Checkouts : owner[k] = s => checkout'[k] = checkout[k],
         \A d \in Devices : owner[d] = s => status'[d] = status[d] /\ home'[d] = home[d],
         \A a \in Accounts : owner[a] = s => ActiveDevices(a)' = ActiveDevices(a)
  PROVE  RequestInv(s)'
<1>1. req'[s] = req[s] /\ req[s] \in Request
  BY DEF Others, TypeOK
<1>2. WellFormed(s)'
  <2>1. req[s].since \in Nat /\ now \in Nat /\ now' \in Nat
    BY <1>1 DEF TypeOK, Request
  <2> QED BY <1>1, <2>1 DEF RequestInv, WellFormed
<1>3. LockDiscipline(s)'
  <2>1. Held(s)' = Held(s)
    BY <1>1 DEF Held, Registers
  <2> QED BY <2>1 DEF RequestInv, LockDiscipline
<1>4. ChallengeStands(s)'
  <2>1. SUFFICES ASSUME req[s].op \in Purposes
                 PROVE  ChallengeStands(s)'
    BY <1>1 DEF ChallengeStands
  <2>2. challenge'[req[s].challenge] = challenge[req[s].challenge]
    BY <2>1 DEF RequestInv, WellFormed, LockDiscipline, Held, ChallengeStands, Purposes
  <2>3. req[s].op = "activate" /\ req[s].pc \in {"account", "device", "insert", "commit"}
          => checkout'[req[s].checkout] = checkout[req[s].checkout]
    BY DEF RequestInv, WellFormed, LockDiscipline, Held
  <2> QED BY <1>1, <2>2, <2>3 DEF RequestInv, ChallengeStands, Registers
<1>5. DecisionStands(s)'
  <2>1. Registers(s) /\ req[s].pc \in {"insert", "commit"} =>
          ActiveDevices(req[s].account)' = ActiveDevices(req[s].account)
    <3>1. Registers(s) /\ req[s].pc \in {"insert", "commit"} =>
            req[s].account \in Accounts /\ owner[req[s].account] = s
      BY DEF RequestInv, WellFormed, LockDiscipline, Held, Registers
    <3> QED BY <1>1, <3>1
  <2>2. \/ req[s].op \in Purposes \cup {"revoke"} /\ req[s].pc = "commit"
        \/ req[s].op = "refresh" /\ req[s].pc = "context"
        => /\ status'[req[s].device] = status[req[s].device]
           /\ home'[req[s].device] = home[req[s].device]
    BY DEF RequestInv, WellFormed, LockDiscipline, Held
  <2>3. Registers(s) /\ req[s].pc \in {"insert", "commit"} => (UnderLimit(s)' <=> UnderLimit(s))
    BY <1>1, <2>1 DEF UnderLimit
  <2>4. \/ req[s].op \in Purposes \cup {"revoke"} /\ req[s].pc = "commit"
        \/ req[s].op = "refresh" /\ req[s].pc = "context"
        => (Usable(s)' <=> Usable(s))
    BY <1>1, <2>2 DEF Usable
  <2>5. Registers(s)' <=> Registers(s)
    BY <1>1 DEF Registers
  <2>6. Registers(s) => req[s].op \in Purposes
    BY DEF Registers, Purposes
  <2> QED BY <1>1, <2>2, <2>3, <2>4, <2>5, <2>6 DEF RequestInv, DecisionStands, Purposes
<1> QED BY <1>2, <1>3, <1>4, <1>5 DEF RequestInv

\* A step that writes no row.
LEMMA QuietRows ==
  ASSUME TypeOK, RowInv, UNCHANGED <<status, home, challenge, licence, checkout, consumer>>
  PROVE  RowInv'
BY DEF RowInv, RowsConsistent, LiveLicenceMatchesDevice, CheckoutActivatesOneDevice,
       ChallengeSpentIffLicensed, RegisteredDeviceWasLicensed, Licences

LEMMA QuietDeadline ==
  ASSUME TypeOK, TypeOK', RevocationDeadlineHolds, now <= now', UNCHANGED <<licence, announced>>
  PROVE  RevocationDeadlineHolds'
<1> SUFFICES ASSUME NEW c \in Challenges, licence[c].state = "revoked", licence[c].until > now'
             PROVE  licence[c].until <= announced[licence[c].device]
  BY DEF RevocationDeadlineHolds
<1> QED BY DEF RevocationDeadlineHolds, TypeOK, Licence

\* A step of r that writes no row, advances r and may take a free lock for it.
LEMMA QuietStep ==
  ASSUME IInv, TypeOK', NEW r \in Requests, Others(r), RequestInv(r)',
         UNCHANGED <<now, announced>>,
         UNCHANGED <<status, home, challenge, licence, checkout, consumer>>,
         \A s \in Requests, x \in Rows : s # r => (owner[x] = s <=> owner'[x] = s)
  PROVE  IInv'
<1>1. now <= now'
  BY DEF IInv, TypeOK
<1>2. ASSUME NEW s \in Requests, s # r
      PROVE  RequestInv(s)'
  <2>1. \A a \in Accounts : ActiveDevices(a)' = ActiveDevices(a)
    BY DEF ActiveDevices
  <2>2. \A x \in Rows : owner[x] = s <=> owner'[x] = s
    BY <1>2
  <2> QED BY <1>1, <1>2, <2>1, <2>2, Frame DEF IInv
<1> QED BY <1>1, <1>2, QuietRows, QuietDeadline DEF IInv

LEMMA BecomesIdle ==
  ASSUME TypeOK', NEW r \in Requests, req'[r] = Idle, \A x \in Rows : owner'[x] # r
  PROVE  RequestInv(r)'
<1>1. now' \in Nat
  BY DEF TypeOK
<1>2. WellFormed(r)'
  BY <1>1 DEF WellFormed, Idle, Doing, Creations, Purposes
<1>3. LockDiscipline(r)'
  BY DEF LockDiscipline, Held, Idle, Doing, Purposes, Registers
<1>4. ChallengeStands(r)' /\ DecisionStands(r)'
  BY DEF ChallengeStands, DecisionStands, Idle, Doing, Purposes, Registers
<1> QED BY <1>2, <1>3, <1>4 DEF RequestInv

LEMMA ReleaseAll ==
  ASSUME NEW r \in Requests, owner' = Released(r)
  PROVE  /\ \A x \in Rows : owner'[x] # r
         /\ \A s \in Requests, x \in Rows : s # r => (owner[x] = s <=> owner'[x] = s)
BY RowsAssumption DEF Released

LEMMA RollbackStep ==
  ASSUME IInv, NEW r \in Requests, Rollback(r)
  PROVE  IInv'
<1>1. TypeOK'
  BY RollbackType DEF IInv
<1>2. req'[r] = Idle /\ Others(r)
  BY DEF Rollback, IInv, TypeOK, Others
<1>3. /\ \A x \in Rows : owner'[x] # r
      /\ \A s \in Requests, x \in Rows : s # r => (owner[x] = s <=> owner'[x] = s)
  BY ReleaseAll DEF Rollback
<1>4. RequestInv(r)'
  BY <1>1, <1>2, <1>3, BecomesIdle
<1> QED BY <1>1, <1>2, <1>3, <1>4, QuietStep DEF Rollback, rowVars

-----------------------------------------------------------------------------
(***************************************************************************)
(* The inductive invariant: the first step of a request                    *)
(***************************************************************************)

LEMMA IdleHoldsNothing ==
  ASSUME IInv, NEW r \in Requests, req[r].pc = "idle"
  PROVE  \A x \in Rows : owner[x] # r
BY DEF IInv, RequestInv, WellFormed, LockDiscipline, Held, Purposes, Registers

\* A request that has taken up its work and holds no lock yet.
LEMMA StartedWithoutLock ==
  ASSUME IInv, NEW r \in Requests, req[r].pc = "idle", UNCHANGED <<now, owner>>,
         NEW pc \in Counters, NEW op \in Creations \cup {"revoke"},
         op = "revoke" => pc = "account",
         op # "revoke" => pc = "sync",
         NEW a \in Accounts, NEW d \in Devices, NEW k \in Checkouts \cup {None},
         op = "createActivate" => k \in Checkouts,
         req' = [req EXCEPT ![r] = Doing(pc, op, a, d, None, k, now)]
  PROVE  RequestInv(r)' /\ Others(r)
<1>1. req'[r] = Doing(pc, op, a, d, None, k, now) /\ Others(r)
  BY DEF IInv, TypeOK, Others
<1>2. now \in Nat
  BY DEF IInv, TypeOK
<1>3. WellFormed(r)'
  BY <1>1, <1>2 DEF WellFormed, Doing, Creations, Purposes
<1>4. LockDiscipline(r)'
  BY <1>1, IdleHoldsNothing DEF LockDiscipline, Held, Doing, Creations, Purposes, Registers
<1>5. ChallengeStands(r)' /\ DecisionStands(r)'
  BY <1>1 DEF ChallengeStands, DecisionStands, Doing, Creations, Purposes, Registers
<1> QED BY <1>1, <1>3, <1>4, <1>5 DEF RequestInv

LEMMA InvCreateActivation ==
  ASSUME IInv, TypeOK', NEW r \in Requests, NEW k \in Checkouts, NEW d \in Devices,
         CreateActivationChallenge(r, k, d)
  PROVE  IInv'
<1>1. RequestInv(r)' /\ Others(r)
  <2>1. Buyer[k] \in Accounts
    BY BuyerAssumption
  <2>2. "createActivate" \in Creations /\ "sync" \in Counters
    BY DEF Creations, Counters
  <2> QED BY <2>1, <2>2, StartedWithoutLock DEF CreateActivationChallenge, Begin
<1>2. now <= now' /\ UNCHANGED <<licence, announced, owner, challenge, status, home, consumer>>
  BY DEF CreateActivationChallenge, IInv, TypeOK
<1>3. ASSUME NEW s \in Requests, s # r
      PROVE  RequestInv(s)'
  <2>1. \A l \in Checkouts : owner[l] = s => checkout'[l] = checkout[l]
    BY RowsAssumption DEF CreateActivationChallenge, Free, IInv, TypeOK
  <2>2. \A a \in Accounts : ActiveDevices(a)' = ActiveDevices(a)
    BY <1>2 DEF ActiveDevices
  <2> QED BY <1>1, <1>2, <1>3, <2>1, <2>2, Frame DEF IInv
<1>4. RowInv'
  <2>1. \A l \in Checkouts : checkout[l] = "consumed" => checkout'[l] = "consumed"
    BY DEF CreateActivationChallenge, IInv, TypeOK
  <2> QED BY <1>2, <2>1 DEF IInv, RowInv, RowsConsistent, LiveLicenceMatchesDevice,
            CheckoutActivatesOneDevice, ChallengeSpentIffLicensed,
            RegisteredDeviceWasLicensed, Licences
<1> QED BY <1>1, <1>2, <1>3, <1>4, QuietDeadline DEF IInv

LEMMA InvBeginCompletion ==
  ASSUME IInv, TypeOK', NEW r \in Requests, NEW c \in Challenges, BeginCompletion(r, c)
  PROVE  IInv'
<1> DEFINE ch == challenge[c]
           pc == IF ch.purpose = "refresh" THEN "device" ELSE "context"
<1>1. /\ req'[r] = Doing(pc, ch.purpose, ch.account, ch.device, c, ch.checkout, 0)
      /\ Others(r)
      /\ req[r].pc = "idle"
      /\ owner' = [owner EXCEPT ![c] = r]
      /\ owner[c] = None
  BY DEF BeginCompletion, IInv, TypeOK, Others, Lock, Free
<1>2. ch.purpose \in Purposes
  BY DEF BeginCompletion, IInv, TypeOK, Challenge
<1>3. WellFormed(r)'
  <2>1. now' \in Nat
    BY DEF TypeOK
  <2>2. /\ ch.account \in Accounts /\ ch.device \in Devices
        /\ ch.purpose = "activate" => ch.checkout \in Checkouts
    BY <1>2 DEF IInv, RowInv, RowsConsistent, Purposes
  <2> QED BY <1>1, <1>2, <2>1, <2>2 DEF WellFormed, Doing, Purposes, Creations
<1>4. LockDiscipline(r)'
  <2>1. \A x \in Rows : owner'[x] = r <=> x = c
    BY <1>1, IdleHoldsNothing DEF IInv, TypeOK
  <2>2. \A x \in Rows : x \in Held(r)' <=> x = c
    BY <1>1, <1>2 DEF Held, Doing, Purposes, Registers
  <2> QED BY <2>1, <2>2 DEF LockDiscipline
<1>5. ChallengeStands(r)' /\ DecisionStands(r)'
  <2>1. challenge' = challenge
    BY DEF BeginCompletion, rowVars
  <2> QED BY <1>1, <1>2, <2>1 DEF ChallengeStands, DecisionStands, Doing, Purposes, Registers
<1>6. \A s \in Requests, x \in Rows : s # r => (owner[x] = s <=> owner'[x] = s)
  BY <1>1, RowsAssumption DEF IInv, TypeOK
<1> QED BY <1>1, <1>3, <1>4, <1>5, <1>6, QuietStep DEF RequestInv, BeginCompletion, rowVars

LEMMA InvStart ==
  ASSUME IInv, NEW r \in Requests, Start(r)
  PROVE  IInv'
<1>0. TypeOK'
  BY TypeStart DEF IInv
<1>1. ASSUME NEW k \in Checkouts, NEW d \in Devices, CreateActivationChallenge(r, k, d)
      PROVE  IInv'
  BY <1>0, <1>1, InvCreateActivation
<1>2. ASSUME NEW d \in Devices, CreateRefreshChallenge(r, d)
      PROVE  IInv'
  <2>1. home[d] \in Accounts /\ "createRefresh" \in Creations /\ "sync" \in Counters
    BY <1>2 DEF CreateRefreshChallenge, IInv, RowInv, RowsConsistent, Creations, Counters
  <2>2. RequestInv(r)' /\ Others(r)
    BY <1>2, <2>1, StartedWithoutLock DEF CreateRefreshChallenge, Begin
  <2> QED BY <1>0, <1>2, <2>2, QuietStep DEF CreateRefreshChallenge, rowVars
<1>3. ASSUME NEW a \in Accounts, NEW d \in Devices, CreateEnrollmentChallenge(r, a, d)
      PROVE  IInv'
  <2>1. /\ "createEnroll" \in Creations /\ "sync" \in Counters
        /\ "createEnroll" \notin {"revoke", "createActivate"}
        /\ None \in Checkouts \cup {None}
    BY DEF Creations, Counters
  <2>2. RequestInv(r)' /\ Others(r)
    BY <1>3, <2>1, StartedWithoutLock DEF CreateEnrollmentChallenge, Begin, rowVars
  <2> QED BY <1>0, <1>3, <2>2, QuietStep DEF CreateEnrollmentChallenge, rowVars
<1>4. ASSUME NEW c \in Challenges, BeginCompletion(r, c)
      PROVE  IInv'
  BY <1>0, <1>4, InvBeginCompletion
<1>5. ASSUME NEW a \in Accounts, NEW d \in Devices, BeginRevoke(r, a, d)
      PROVE  IInv'
  <2>1. "account" \in Counters /\ None \in Checkouts \cup {None}
        /\ "revoke" \in Creations \cup {"revoke"} /\ "revoke" # "createActivate"
    BY DEF Counters
  <2>2. RequestInv(r)' /\ Others(r)
    BY <1>5, <2>1, StartedWithoutLock DEF BeginRevoke, rowVars
  <2> QED BY <1>0, <1>5, <2>2, QuietStep DEF BeginRevoke, rowVars
<1> QED BY <1>1, <1>2, <1>3, <1>4, <1>5 DEF Start

-----------------------------------------------------------------------------
(***************************************************************************)
(* The inductive invariant: the later steps of a request                   *)
(***************************************************************************)

LEMMA TakesLock ==
  ASSUME IInv, NEW r \in Requests, NEW x \in Rows, Free(x), Lock(r, x)
  PROVE  /\ \A y \in Rows : owner'[y] = r <=> owner[y] = r \/ y = x
         /\ \A s \in Requests, y \in Rows : s # r => (owner[y] = s <=> owner'[y] = s)
BY RowsAssumption DEF Free, Lock, IInv, TypeOK

LEMMA InvSyncBilling ==
  ASSUME IInv, TypeOK', NEW r \in Requests, SyncBilling(r)
  PROVE  IInv'
<1>1. req[r].op \in Creations /\ req[r] \in Request /\ WellFormed(r) /\ LockDiscipline(r)
  BY DEF SyncBilling, IInv, RequestInv, WellFormed, TypeOK, Request, Purposes, Creations
<1>2. \A x \in Rows : owner[x] # r
  BY <1>1 DEF LockDiscipline, Held, Creations, Purposes, Registers
<1>3. Others(r) /\ (\/ req'[r] = Idle
                    \/ req'[r].pc = "persist" /\ SameSubject(r))
  BY DEF SyncBilling, IInv, TypeOK, Others, SameSubject, Request
<1>4. owner' = owner /\ now' = now
  BY DEF SyncBilling
<1>5. RequestInv(r)'
  <2>1. CASE req'[r] = Idle
    BY <2>1, <1>2, <1>4, BecomesIdle
  <2>2. CASE req'[r].pc = "persist" /\ SameSubject(r)
    <3>1. WellFormed(r)'
      BY <1>1, <1>4, <2>2 DEF WellFormed, SameSubject, Creations, Purposes
    <3>2. LockDiscipline(r)'
      BY <1>1, <1>2, <1>4, <2>2 DEF LockDiscipline, Held, SameSubject, Creations, Purposes, Registers
    <3>3. ChallengeStands(r)' /\ DecisionStands(r)'
      BY <1>1, <2>2 DEF ChallengeStands, DecisionStands, SameSubject, Creations, Purposes, Registers
    <3> QED BY <3>1, <3>2, <3>3 DEF RequestInv
  <2> QED BY <1>3, <2>1, <2>2
<1> QED BY <1>3, <1>4, <1>5, QuietStep DEF SyncBilling

LEMMA InvPersistChallenge ==
  ASSUME IInv, TypeOK', NEW r \in Requests, PersistChallenge(r)
  PROVE  IInv'
<1> DEFINE q == req[r]
<1>1. q.op \in Creations /\ q \in Request /\ WellFormed(r) /\ LockDiscipline(r)
  BY DEF PersistChallenge, IInv, RequestInv, WellFormed, TypeOK, Request, Purposes, Creations
<1>2. \A x \in Rows : owner[x] # r
  BY <1>1 DEF LockDiscipline, Held, Creations, Purposes, Registers
<1>3. Others(r) /\ req'[r] = Idle
  BY DEF PersistChallenge, IInv, TypeOK, Others
<1>4. /\ now <= now'
      /\ UNCHANGED <<now, status, home, licence, checkout, consumer, owner, announced>>
  BY DEF PersistChallenge, IInv, TypeOK
<1>5. RequestInv(r)'
  BY <1>2, <1>3, <1>4, BecomesIdle
<1>6. PICK c \in Challenges, t \in q.since .. now :
        /\ challenge[c].purpose = "none"
        /\ challenge' = [challenge EXCEPT ![c] =
             [purpose |-> PurposeOf(q.op), account |-> q.account,
              device |-> q.device, checkout |-> q.checkout,
              expires |-> t + ChallengeTTL, used |-> FALSE]]
  BY DEF PersistChallenge
<1>7. ASSUME NEW s \in Requests, s # r
      PROVE  RequestInv(s)'
  <2>1. \A e \in Challenges : owner[e] = s /\ challenge[e].purpose # "none"
                                => challenge'[e] = challenge[e]
    BY <1>6 DEF IInv, TypeOK
  <2>2. \A a \in Accounts : ActiveDevices(a)' = ActiveDevices(a)
    BY <1>4 DEF ActiveDevices
  <2> QED BY <1>3, <1>4, <1>7, <2>1, <2>2, Frame DEF IInv
<1>8. RowInv'
  <2>1. licence[c].state = "none"
    BY <1>6 DEF IInv, RowInv, RowsConsistent, ChallengeSpentIffLicensed
  <2>2. \A e \in Challenges : e # c => challenge'[e] = challenge[e]
    BY <1>6 DEF IInv, TypeOK
  <2>3. challenge'[c].used = FALSE
    BY <1>6 DEF IInv, TypeOK
  <2>4. /\ challenge'[c].account \in Accounts /\ challenge'[c].device \in Devices
        /\ challenge'[c].purpose = "activate" => challenge'[c].checkout \in Checkouts
        /\ challenge'[c].purpose # "none"
    <3>1. challenge'[c] = [purpose |-> PurposeOf(q.op), account |-> q.account,
                           device |-> q.device, checkout |-> q.checkout,
                           expires |-> t + ChallengeTTL, used |-> FALSE]
      BY <1>6 DEF IInv, TypeOK
    <3>2. PurposeOf(q.op) = "activate" => q.op = "createActivate"
      BY DEF PurposeOf
    <3>3. PurposeOf(q.op) # "none"
      BY DEF PurposeOf
    <3> QED BY <1>1, <3>1, <3>2, <3>3 DEF WellFormed, Creations
  <2>5. RowsConsistent'
    BY <1>4, <2>1, <2>2, <2>3, <2>4 DEF IInv, RowInv, RowsConsistent
  <2>6. LiveLicenceMatchesDevice' /\ RegisteredDeviceWasLicensed'
    BY <1>4 DEF IInv, RowInv, LiveLicenceMatchesDevice, RegisteredDeviceWasLicensed, Licences
  <2>7. CheckoutActivatesOneDevice' /\ ChallengeSpentIffLicensed'
    BY <1>4, <2>1, <2>2, <2>3 DEF IInv, RowInv, CheckoutActivatesOneDevice, ChallengeSpentIffLicensed
  <2> QED BY <2>5, <2>6, <2>7 DEF RowInv
<1> QED BY <1>4, <1>5, <1>7, <1>8, QuietDeadline DEF IInv

\* What a request is about stays well formed while it only moves on.
LEMMA StillWellFormed ==
  ASSUME IInv, NEW r \in Requests, SameSubject(r), now' = now, req[r].pc # "idle",
         req'[r].pc # "idle",
         req[r].op \in Purposes \cup {"revoke"},
         req[r].op = "activate" =>
           req'[r].pc \in {"context", "checkout", "account", "device", "insert", "commit"},
         req[r].op = "enroll" =>
           req'[r].pc \in {"context", "account", "device", "insert", "commit"},
         req[r].op = "refresh" => req'[r].pc \in {"device", "context", "commit"},
         req[r].op = "revoke" => req'[r].pc \in {"account", "device", "commit"}
  PROVE  WellFormed(r)'
BY DEF WellFormed, SameSubject, IInv, RequestInv, Purposes, Creations

LEMMA InvReadContext ==
  ASSUME IInv, TypeOK', NEW r \in Requests, ReadContext(r)
  PROVE  IInv'
<1> DEFINE q == req[r]
<1>1. /\ q \in Request /\ q.op \in Purposes /\ q.pc = "context"
      /\ LockDiscipline(r) /\ ChallengeStands(r) /\ DecisionStands(r)
      /\ ~challenge[q.challenge].used
  BY DEF ReadContext, IInv, RequestInv, WellFormed, TypeOK, Request, Purposes, Creations
<1>2. q.account \in Accounts
  BY <1>1 DEF IInv, RequestInv, WellFormed, Purposes
<1>3. deviceLimit[q.account] \in Nat
  <2>1. deviceLimit[q.account] \in Limits \cup {0}
    BY <1>2 DEF IInv, TypeOK
  <2> QED BY <2>1, LimitsType
<1>4. /\ Others(r) /\ SameSubject(r)
      /\ req'[r].pc = IF q.op = "refresh" THEN "commit"
                      ELSE IF q.op = "activate" THEN "checkout" ELSE "account"
  <2>1. CASE q.op = "refresh"
    BY <2>1, <1>3, StampedFields DEF ReadContext, IInv
  <2>2. CASE q.op # "refresh"
    <3>1. req' = [req EXCEPT ![r] = [@ EXCEPT !.limit = deviceLimit[q.account],
                      !.pc = IF q.op = "activate" THEN "checkout" ELSE "account"]]
      BY <2>2 DEF ReadContext
    <3>2. req'[r] = [q EXCEPT !.limit = deviceLimit[q.account],
                      !.pc = IF q.op = "activate" THEN "checkout" ELSE "account"]
      BY <3>1 DEF IInv, TypeOK
    <3>3. Others(r)
      BY <3>1 DEF IInv, TypeOK, Others
    <3> QED BY <1>1, <2>2, <3>2, <3>3 DEF SameSubject, Request
  <2> QED BY <2>1, <2>2
<1>5. UNCHANGED <<now, rowVars, owner, announced>>
  BY DEF ReadContext
<1>6. WellFormed(r)'
  BY <1>1, <1>4, <1>5, StillWellFormed DEF Purposes
<1>7. LockDiscipline(r)'
  <2>1. Held(r)' = Held(r)
    BY <1>1, <1>4 DEF Held, SameSubject, Registers, Purposes
  <2> QED BY <1>1, <1>5, <2>1 DEF LockDiscipline
<1>8. ChallengeStands(r)'
  BY <1>1, <1>4, <1>5 DEF ChallengeStands, SameSubject, Registers, rowVars, Purposes
<1>9. DecisionStands(r)'
  BY <1>1, <1>4, <1>5 DEF DecisionStands, SameSubject, Registers, rowVars, Purposes, Usable
<1> QED BY <1>4, <1>5, <1>6, <1>7, <1>8, <1>9, QuietStep DEF RequestInv, rowVars

LEMMA InvLockCheckout ==
  ASSUME IInv, TypeOK', NEW r \in Requests, LockCheckout(r)
  PROVE  IInv'
<1> DEFINE q == req[r]
<1>1. /\ q \in Request /\ q.op = "activate" /\ q.pc = "checkout" /\ q.checkout \in Checkouts
      /\ LockDiscipline(r) /\ ChallengeStands(r) /\ Free(q.checkout)
  BY DEF LockCheckout, IInv, RequestInv, WellFormed, TypeOK, Request, Purposes, Creations
<1>2. CASE /\ CheckoutOpen(q.checkout) /\ Lock(r, q.checkout) /\ Goto(r, "account")
           /\ UNCHANGED <<now, rowVars, announced>>
  <2>1. Others(r) /\ SameSubject(r) /\ req'[r].pc = "account"
    BY <1>2, GotoFields DEF IInv, Counters
  <2>2. /\ \A y \in Rows : owner'[y] = r <=> owner[y] = r \/ y = q.checkout
        /\ \A s \in Requests, y \in Rows : s # r => (owner[y] = s <=> owner'[y] = s)
    BY <1>1, <1>2, TakesLock
  <2>3. WellFormed(r)'
    BY <1>1, <1>2, <2>1, StillWellFormed DEF Purposes
  <2>4. LockDiscipline(r)'
    <3>1. \A y \in Rows : y \in Held(r)' <=> y \in Held(r) \/ y = q.checkout
      BY <1>1, <2>1 DEF Held, SameSubject, Registers, Purposes
    <3> QED BY <1>1, <2>2, <3>1 DEF LockDiscipline
  <2>5. ChallengeStands(r)'
    BY <1>1, <1>2, <2>1 DEF ChallengeStands, SameSubject, Registers, rowVars, Purposes, CheckoutOpen
  <2>6. DecisionStands(r)'
    BY <1>1, <2>1 DEF DecisionStands, SameSubject, Registers
  <2> QED BY <1>2, <2>1, <2>2, <2>3, <2>4, <2>5, <2>6, QuietStep DEF RequestInv, rowVars
<1> QED BY <1>2, RollbackStep DEF LockCheckout

LEMMA InvLockAccount ==
  ASSUME IInv, TypeOK', NEW r \in Requests, LockAccount(r)
  PROVE  IInv'
<1> DEFINE q == req[r]
<1>1. /\ q \in Request /\ q.pc = "account" /\ q.op \in {"activate", "enroll", "revoke"}
      /\ q.account \in Accounts
      /\ LockDiscipline(r) /\ ChallengeStands(r) /\ Free(q.account)
  BY DEF LockAccount, IInv, RequestInv, WellFormed, TypeOK, Request, Purposes, Creations
<1>2. Others(r) /\ SameSubject(r) /\ req'[r].pc = "device"
  BY GotoFields DEF LockAccount, IInv, Counters
<1>3. /\ \A y \in Rows : owner'[y] = r <=> owner[y] = r \/ y = q.account
      /\ \A s \in Requests, y \in Rows : s # r => (owner[y] = s <=> owner'[y] = s)
  BY <1>1, TakesLock DEF LockAccount
<1>4. UNCHANGED <<now, rowVars, announced>>
  BY DEF LockAccount
<1>5. WellFormed(r)'
  BY <1>1, <1>2, <1>4, StillWellFormed DEF Purposes
<1>6. LockDiscipline(r)'
  <2>1. \A y \in Rows : y \in Held(r)' <=> y \in Held(r) \/ y = q.account
    BY <1>1, <1>2 DEF Held, SameSubject, Registers, Purposes
  <2> QED BY <1>1, <1>3, <2>1 DEF LockDiscipline
<1>7. ChallengeStands(r)'
  BY <1>1, <1>2, <1>4 DEF ChallengeStands, SameSubject, Registers, rowVars, Purposes
<1>8. DecisionStands(r)'
  BY <1>1, <1>2 DEF DecisionStands, SameSubject, Registers
<1> QED BY <1>2, <1>3, <1>4, <1>5, <1>6, <1>7, <1>8, QuietStep DEF RequestInv, rowVars

LEMMA InvNoDevice ==
  ASSUME IInv, TypeOK', NEW r \in Requests, NoDevice(r)
  PROVE  IInv'
<1> DEFINE q == req[r]
<1>1. /\ q \in Request /\ q.pc = "device" /\ LockDiscipline(r) /\ ChallengeStands(r)
  BY DEF NoDevice, IInv, RequestInv, TypeOK
<1>2. CASE /\ Registers(r) /\ UnderLimit(r) /\ Goto(r, "insert")
           /\ UNCHANGED <<now, rowVars, owner, announced>>
  <2>1. /\ Others(r) /\ SameSubject(r) /\ req'[r].pc = "insert" /\ req'[r].limit = q.limit
    BY <1>2, GotoFields DEF IInv, Counters
  <2>2. WellFormed(r)'
    BY <1>1, <1>2, <2>1, StillWellFormed DEF Purposes, Registers
  <2>3. LockDiscipline(r)'
    <3>1. Held(r)' = Held(r)
      BY <1>1, <1>2, <2>1 DEF Held, SameSubject, Registers, Purposes
    <3> QED BY <1>1, <1>2, <3>1 DEF LockDiscipline
  <2>4. ChallengeStands(r)'
    BY <1>1, <1>2, <2>1 DEF ChallengeStands, SameSubject, Registers, rowVars, Purposes
  <2>5. DecisionStands(r)'
    BY <1>1, <1>2, <2>1 DEF DecisionStands, SameSubject, Registers, rowVars, UnderLimit, ActiveDevices
  <2> QED BY <1>2, <2>1, <2>2, <2>3, <2>4, <2>5, QuietStep DEF RequestInv, rowVars
<1> QED BY <1>2, RollbackStep DEF NoDevice

LEMMA InvLockDevice ==
  ASSUME IInv, TypeOK', NEW r \in Requests, LockDevice(r)
  PROVE  IInv'
<1> DEFINE q == req[r]
<1>1. /\ q \in Request /\ q.pc = "device" /\ q.device \in Devices /\ q.limit \in Nat
      /\ LockDiscipline(r) /\ ChallengeStands(r) /\ Free(q.device) /\ ~DeviceAbsent(r)
  BY DEF LockDevice, IInv, RequestInv, WellFormed, TypeOK, Request
<1>2. ASSUME Lock(r, q.device), Others(r), SameSubject(r), req'[r].limit = q.limit,
             UNCHANGED <<now, rowVars, announced>>,
             \/ q.op = "revoke" /\ req'[r].pc = "commit"
             \/ q.op = "refresh" /\ Usable(r) /\ req'[r].pc = "context"
             \/ Registers(r) /\ Usable(r) /\ req'[r].pc = "commit"
      PROVE  IInv'
  <2>1. /\ \A y \in Rows : owner'[y] = r <=> owner[y] = r \/ y = q.device
        /\ \A s \in Requests, y \in Rows : s # r => (owner[y] = s <=> owner'[y] = s)
    BY <1>1, <1>2, TakesLock
  <2>2. WellFormed(r)'
    BY <1>1, <1>2, StillWellFormed DEF Purposes, Registers
  <2>3. LockDiscipline(r)'
    <3>1. \A y \in Rows : y \in Held(r)' <=> y \in Held(r) \/ y = q.device
      BY <1>1, <1>2 DEF Held, SameSubject, Registers, Purposes
    <3> QED BY <1>1, <2>1, <3>1 DEF LockDiscipline
  <2>4. ChallengeStands(r)'
    BY <1>1, <1>2 DEF ChallengeStands, SameSubject, Registers, rowVars, Purposes
  <2>5. DecisionStands(r)'
    <3>1. Usable(r) => Usable(r)'
      BY <1>2 DEF Usable, SameSubject, rowVars
    <3>2. q.op = "revoke" => status[q.device] # "absent" /\ home[q.device] = q.account
      BY <1>1 DEF DeviceAbsent
    <3> QED BY <1>2, <3>1, <3>2 DEF DecisionStands, SameSubject, Registers, rowVars
  <2> QED BY <1>2, <2>1, <2>2, <2>3, <2>4, <2>5, QuietStep DEF RequestInv, rowVars
<1>3. "commit" \in Counters /\ "context" \in Counters
  BY DEF Counters
<1>4. TypeOK
  BY DEF IInv
<1>5. CASE q.op = "revoke" /\ Lock(r, q.device) /\ Goto(r, "commit")
           /\ UNCHANGED <<now, rowVars, announced>>
  BY <1>2, <1>3, <1>4, <1>5, GotoFields
<1>6. CASE q.op = "refresh" /\ Usable(r) /\ Lock(r, q.device) /\ Goto(r, "context")
           /\ UNCHANGED <<now, rowVars, announced>>
  BY <1>2, <1>3, <1>4, <1>6, GotoFields
<1>7. CASE Registers(r) /\ Usable(r) /\ Lock(r, q.device) /\ Stamped(r, "commit", q.limit)
           /\ UNCHANGED <<now, rowVars, announced>>
  BY <1>1, <1>2, <1>4, <1>7, StampedFields
<1> QED BY <1>5, <1>6, <1>7, RollbackStep DEF LockDevice

LEMMA InvInsertDevice ==
  ASSUME IInv, TypeOK', NEW r \in Requests, InsertDevice(r)
  PROVE  IInv'
<1> DEFINE q == req[r]
<1>1. /\ q \in Request /\ q.pc = "insert" /\ q.device \in Devices /\ q.limit \in Nat
      /\ q.op \in {"activate", "enroll"} /\ TypeOK
      /\ LockDiscipline(r) /\ ChallengeStands(r) /\ DecisionStands(r) /\ Free(q.device)
  BY DEF InsertDevice, IInv, RequestInv, WellFormed, TypeOK, Request, Purposes, Creations
<1>2. CASE /\ status[q.device] = "absent" /\ Lock(r, q.device)
           /\ Stamped(r, "commit", q.limit) /\ UNCHANGED <<now, rowVars, announced>>
  <2>1. /\ \A y \in Rows : owner'[y] = r <=> owner[y] = r \/ y = q.device
        /\ \A s \in Requests, y \in Rows : s # r => (owner[y] = s <=> owner'[y] = s)
    BY <1>1, <1>2, TakesLock
  <2>2. Others(r) /\ SameSubject(r) /\ req'[r].pc = "commit" /\ req'[r].limit = q.limit
    BY <1>1, <1>2, StampedFields
  <2>3. WellFormed(r)'
    BY <1>1, <1>2, <2>2, StillWellFormed DEF Purposes
  <2>4. LockDiscipline(r)'
    <3>1. \A y \in Rows : y \in Held(r)' <=> y \in Held(r) \/ y = q.device
      BY <1>1, <2>2 DEF Held, SameSubject, Registers, Purposes
    <3> QED BY <1>1, <2>1, <3>1 DEF LockDiscipline
  <2>5. ChallengeStands(r)'
    BY <1>1, <1>2, <2>2 DEF ChallengeStands, SameSubject, Registers, rowVars, Purposes
  <2>6. DecisionStands(r)'
    <3>1. UnderLimit(r)'
      BY <1>1, <1>2, <2>2 DEF DecisionStands, Registers, UnderLimit, ActiveDevices, SameSubject, rowVars
    <3> QED BY <1>1, <1>2, <2>2, <3>1 DEF DecisionStands, SameSubject, Registers, rowVars
  <2> QED BY <1>2, <2>1, <2>2, <2>3, <2>4, <2>5, <2>6, QuietStep DEF RequestInv, rowVars
<1> QED BY <1>2, RollbackStep DEF InsertDevice

-----------------------------------------------------------------------------
(***************************************************************************)
(* The inductive invariant: the commits and the environment                *)
(***************************************************************************)

\* What the commit of a completion finds and writes.
LEMMA CommitLicenceRows ==
  ASSUME IInv, NEW r \in Requests, CommitLicence(r)
  PROVE  LET c == req[r].challenge
             d == req[r].device
             a == req[r].account
         IN  /\ c \in Challenges /\ d \in Devices /\ a \in Accounts
             /\ licence[c].state = "none"
             /\ \/ status[d] = "active" /\ home[d] = a
                \/ status[d] = "absent" /\ Registers(r) /\ UnderLimit(r)
             /\ status'[d] = "active" /\ home'[d] = a
             /\ \A e \in Devices : e # d => status'[e] = status[e] /\ home'[e] = home[e]
             /\ \A e \in Challenges : e # c => licence'[e] = licence[e]
<1> DEFINE q == req[r]
           c == q.challenge
           d == q.device
           a == q.account
<1>1. /\ TypeOK /\ q.op \in Purposes /\ q.pc = "commit"
      /\ c \in Challenges /\ d \in Devices /\ a \in Accounts
      /\ ChallengeStands(r) /\ DecisionStands(r)
  BY DEF CommitLicence, IInv, RequestInv, WellFormed, Purposes, Creations
<1>2. licence[c].state = "none"
  BY <1>1 DEF ChallengeStands, IInv, RowInv, ChallengeSpentIffLicensed
<1>3. \/ status[d] = "active" /\ home[d] = a
      \/ status[d] = "absent" /\ Registers(r) /\ UnderLimit(r)
  BY <1>1 DEF DecisionStands, Usable, Registers, Purposes
<1>4. /\ status'[d] = "active" /\ home'[d] = a
      /\ \A e \in Devices : e # d => status'[e] = status[e] /\ home'[e] = home[e]
  BY <1>1, <1>3 DEF CommitLicence, TypeOK
<1>5. \A e \in Challenges : e # c => licence'[e] = licence[e]
  BY <1>1 DEF CommitLicence, TypeOK
<1> QED BY <1>1, <1>2, <1>3, <1>4, <1>5

LEMMA InvCommitLicence ==
  ASSUME IInv, TypeOK', NEW r \in Requests, CommitLicence(r)
  PROVE  IInv'
<1> DEFINE q == req[r]
           c == q.challenge
           d == q.device
           a == q.account
           k == q.checkout
<1>1. /\ TypeOK /\ q \in Request /\ q.pc = "commit" /\ q.op \in Purposes
      /\ c \in Challenges /\ d \in Devices /\ a \in Accounts
      /\ q.op = "activate" => k \in Checkouts
      /\ LockDiscipline(r) /\ ChallengeStands(r) /\ DecisionStands(r)
  BY DEF CommitLicence, IInv, RequestInv, WellFormed, TypeOK, Purposes, Creations
<1>2. /\ owner[c] = r /\ owner[d] = r
      /\ Registers(r) => owner[a] = r
      /\ q.op = "activate" => owner[k] = r
  BY <1>1 DEF LockDiscipline, Held, Registers, Purposes
<1>3. /\ challenge[c].purpose = q.op /\ challenge[c].account = a
      /\ challenge[c].device = d /\ challenge[c].checkout = k
      /\ ~challenge[c].used
      /\ q.op = "activate" => checkout[k] = "open"
  BY <1>1 DEF ChallengeStands
<1>4. licence[c].state = "none"
  BY CommitLicenceRows
<1>5. \/ status[d] = "active" /\ home[d] = a
      \/ status[d] = "absent" /\ Registers(r)
  BY CommitLicenceRows
<1>6. /\ status'[d] = "active" /\ home'[d] = a
      /\ \A e \in Devices : e # d => status'[e] = status[e] /\ home'[e] = home[e]
  BY CommitLicenceRows
<1>7. /\ \A e \in Challenges : e # c => challenge'[e] = challenge[e] /\ licence'[e] = licence[e]
      /\ licence'[c] = [state |-> "valid", account |-> a, device |-> d, until |-> q.until]
  BY <1>1 DEF CommitLicence, TypeOK
<1>8. /\ challenge'[c].used = TRUE
      /\ challenge'[c].purpose = q.op /\ challenge'[c].account = a
      /\ challenge'[c].device = d /\ challenge'[c].checkout = k
  <2>1. challenge'[c] = [challenge[c] EXCEPT !.used = TRUE] /\ challenge[c] \in Challenge
    BY <1>1 DEF CommitLicence, TypeOK
  <2> QED BY <1>3, <2>1 DEF Challenge
<1>9. /\ \A l \in Checkouts : ~(l = k /\ q.op = "activate") =>
            checkout'[l] = checkout[l] /\ consumer'[l] = consumer[l]
      /\ q.op = "activate" => checkout'[k] = "consumed" /\ consumer'[k] = d
  BY <1>1 DEF CommitLicence, TypeOK
<1>10. req'[r] = Idle /\ Others(r) /\ owner' = Released(r) /\ now' = now /\ announced' = announced
  BY <1>1 DEF CommitLicence, TypeOK, Others
<1>11. /\ \A x \in Rows : owner'[x] # r
       /\ \A s \in Requests, x \in Rows : s # r => (owner[x] = s <=> owner'[x] = s)
  BY <1>10, ReleaseAll
<1>12. RequestInv(r)'
  BY <1>10, <1>11, BecomesIdle
<1>13. ASSUME NEW s \in Requests, s # r
       PROVE  RequestInv(s)'
  <2>1. now <= now'
    BY <1>1, <1>10 DEF TypeOK
  <2>2. \A b \in Accounts : owner[b] = s => ActiveDevices(b)' = ActiveDevices(b)
    <3>1. SUFFICES ASSUME NEW b \in Accounts, owner[b] = s, NEW e \in Devices
                   PROVE  status'[e] = "active" /\ home'[e] = b
                            <=> status[e] = "active" /\ home[e] = b
      BY DEF ActiveDevices
    <3>2. Registers(r) => b # a
      BY <1>2, <1>13, <3>1
    <3> QED BY <1>5, <1>6, <3>2
  <2>3. \A e \in Challenges : owner[e] = s /\ challenge[e].purpose # "none"
                                => challenge'[e] = challenge[e]
    BY <1>2, <1>7, <1>13
  <2>4. \A l \in Checkouts : owner[l] = s => checkout'[l] = checkout[l]
    BY <1>2, <1>9, <1>13
  <2>5. \A e \in Devices : owner[e] = s => status'[e] = status[e] /\ home'[e] = home[e]
    BY <1>2, <1>6, <1>13
  <2>6. \A x \in Rows : owner[x] = s <=> owner'[x] = s
    BY <1>11, <1>13
  <2>7. RequestInv(s)
    BY DEF IInv
  <2> QED BY <1>1, <1>10, <1>13, <2>1, <2>2, <2>3, <2>4, <2>5, <2>6, <2>7, Frame
\* The licences that were there stay as they were, and so does what they rest on.
<1>14. ASSUME NEW e \in Challenges, e # c, licence[e].state # "none"
       PROVE  /\ licence[e].account = challenge[e].account
              /\ licence[e].device = challenge[e].device
              /\ licence[e].device \in Devices
              /\ status'[licence[e].device] # "absent"
              /\ home'[licence[e].device] = licence[e].account
              /\ licence[e].state = "valid" => status'[licence[e].device] = "active"
              /\ challenge[e].purpose = "activate" =>
                   /\ challenge[e].checkout \in Checkouts
                   /\ q.op = "activate" => challenge[e].checkout # k
                   /\ checkout'[challenge[e].checkout] = "consumed"
                   /\ consumer'[challenge[e].checkout] = licence[e].device
  <2>1. /\ licence[e].account = challenge[e].account
        /\ licence[e].device = challenge[e].device
        /\ status[licence[e].device] # "absent"
        /\ home[licence[e].device] = licence[e].account
        /\ challenge[e].purpose = "activate" =>
             /\ checkout[challenge[e].checkout] = "consumed"
             /\ consumer[challenge[e].checkout] = licence[e].device
    BY <1>14 DEF IInv, RowInv, RowsConsistent
  <2>2. challenge[e].purpose # "none"
    BY <1>14 DEF IInv, RowInv, RowsConsistent, ChallengeSpentIffLicensed
  <2>3. challenge[e].device \in Devices
        /\ (challenge[e].purpose = "activate" => challenge[e].checkout \in Checkouts)
    BY <2>2 DEF IInv, RowInv, RowsConsistent
  <2>4. licence[e].state = "valid" => status[licence[e].device] = "active"
    BY DEF IInv, RowInv, LiveLicenceMatchesDevice
  <2>5. licence[e].device \in Devices /\ status'[licence[e].device] # "absent"
        /\ home'[licence[e].device] = licence[e].account
        /\ (licence[e].state = "valid" => status'[licence[e].device] = "active")
    BY <1>5, <1>6, <2>1, <2>3, <2>4
  <2>6. challenge[e].purpose = "activate" =>
          /\ q.op = "activate" => challenge[e].checkout # k
          /\ checkout'[challenge[e].checkout] = "consumed"
          /\ consumer'[challenge[e].checkout] = licence[e].device
    BY <1>3, <1>9, <2>1, <2>3
  <2> QED BY <2>1, <2>3, <2>5, <2>6
<1>15. RowsConsistent'
  <2>1. \A e \in Devices : status'[e] # "absent" => home'[e] \in Accounts
    BY <1>1, <1>6 DEF IInv, RowInv, RowsConsistent
  <2>2. ASSUME NEW e \in Challenges
        PROVE  /\ challenge'[e].purpose = "none" => ~challenge'[e].used
               /\ challenge'[e].purpose # "none" =>
                    /\ challenge'[e].account \in Accounts /\ challenge'[e].device \in Devices
                    /\ challenge'[e].purpose = "activate" => challenge'[e].checkout \in Checkouts
    <3>1. CASE e = c
      BY <1>1, <1>8, <3>1 DEF Purposes
    <3>2. CASE e # c
      BY <1>7, <3>2 DEF IInv, RowInv, RowsConsistent
    <3> QED BY <3>1, <3>2
  <2>3. ASSUME NEW e \in Challenges, licence'[e].state # "none"
        PROVE  /\ licence'[e].account = challenge'[e].account
               /\ licence'[e].device = challenge'[e].device
               /\ status'[licence'[e].device] # "absent"
               /\ home'[licence'[e].device] = licence'[e].account
               /\ challenge'[e].purpose = "activate" =>
                    /\ checkout'[challenge'[e].checkout] = "consumed"
                    /\ consumer'[challenge'[e].checkout] = licence'[e].device
    <3>1. CASE e = c
      BY <1>6, <1>7, <1>8, <1>9, <3>1
    <3>2. CASE e # c
      BY <1>7, <1>14, <2>3, <3>2
    <3> QED BY <3>1, <3>2
  <2> QED BY <2>1, <2>2, <2>3 DEF RowsConsistent
<1>16. LiveLicenceMatchesDevice'
  <2>1. ASSUME NEW e \in Challenges, licence'[e].state = "valid"
        PROVE  /\ status'[licence'[e].device] = "active"
               /\ home'[licence'[e].device] = licence'[e].account
    <3>1. CASE e = c
      BY <1>6, <1>7, <3>1
    <3>2. CASE e # c
      BY <1>7, <1>14, <2>1, <3>2
    <3> QED BY <3>1, <3>2
  <2> QED BY <2>1 DEF LiveLicenceMatchesDevice
<1>17. CheckoutActivatesOneDevice'
  <2>1. ASSUME NEW e \in Challenges, licence'[e].state # "none", challenge'[e].purpose = "activate"
        PROVE  consumer'[challenge'[e].checkout] = licence'[e].device
    BY <1>15, <2>1 DEF RowsConsistent
  <2>2. ASSUME NEW e \in Challenges, NEW f \in Challenges,
               licence'[e].state # "none", challenge'[e].purpose = "activate",
               licence'[f].state # "none", challenge'[f].purpose = "activate",
               challenge'[e].checkout = challenge'[f].checkout
        PROVE  e = f
    <3>1. CASE e # c /\ f # c
      BY <1>7, <2>2, <3>1 DEF IInv, RowInv, CheckoutActivatesOneDevice
    <3>2. CASE e = c /\ f # c
      BY <1>7, <1>8, <1>14, <2>2, <3>2
    <3>3. CASE e # c /\ f = c
      BY <1>7, <1>8, <1>14, <2>2, <3>3
    <3> QED BY <3>1, <3>2, <3>3
  <2> QED BY <2>1, <2>2 DEF CheckoutActivatesOneDevice
<1>18. ChallengeSpentIffLicensed'
  <2>1. ASSUME NEW e \in Challenges
        PROVE  challenge'[e].used <=> licence'[e].state # "none"
    <3>1. CASE e = c
      BY <1>7, <1>8, <3>1
    <3>2. CASE e # c
      BY <1>7, <3>2 DEF IInv, RowInv, ChallengeSpentIffLicensed
    <3> QED BY <3>1, <3>2
  <2> QED BY <2>1 DEF ChallengeSpentIffLicensed
<1>19. RegisteredDeviceWasLicensed'
  <2>1. ASSUME NEW e \in Devices, status'[e] # "absent"
        PROVE  \E f \in Challenges : /\ licence'[f].state # "none" /\ licence'[f].device = e
                                     /\ licence'[f].account = home'[e]
    <3>1. CASE e = d
      BY <1>1, <1>6, <1>7, <3>1
    <3>2. CASE e # d
      <4>1. PICK f \in Challenges : /\ licence[f].state # "none" /\ licence[f].device = e
                                    /\ licence[f].account = home[e]
        BY <1>6, <2>1, <3>2 DEF IInv, RowInv, RegisteredDeviceWasLicensed, Licences
      <4> QED BY <1>4, <1>6, <1>7, <3>2, <4>1
    <3> QED BY <3>1, <3>2
  <2> QED BY <2>1 DEF RegisteredDeviceWasLicensed, Licences
<1>20. RevocationDeadlineHolds'
  BY <1>7, <1>10 DEF IInv, RevocationDeadlineHolds
<1> QED BY <1>12, <1>13, <1>15, <1>16, <1>17, <1>18, <1>19, <1>20 DEF IInv, RowInv

LEMMA InvCommitRevoke ==
  ASSUME IInv, TypeOK', NEW r \in Requests, CommitRevoke(r)
  PROVE  IInv'
<1> DEFINE q == req[r]
           d == q.device
           a == q.account
<1>1. /\ TypeOK /\ q \in Request /\ q.pc = "commit" /\ q.op = "revoke"
      /\ d \in Devices /\ a \in Accounts /\ q.since <= now
      /\ LockDiscipline(r) /\ DecisionStands(r)
  BY DEF CommitRevoke, IInv, RequestInv, WellFormed, TypeOK, Purposes, Creations
<1>2. owner[d] = r /\ owner[a] = r /\ status[d] # "absent" /\ home[d] = a
  BY <1>1 DEF LockDiscipline, DecisionStands, Held, Registers, Purposes
<1>3. /\ status'[d] = "revoked" /\ home' = home
      /\ \A e \in Devices : e # d => status'[e] = status[e]
  BY <1>1 DEF CommitRevoke, TypeOK
<1>4. /\ challenge' = challenge /\ checkout' = checkout /\ consumer' = consumer /\ now' = now
      /\ req'[r] = Idle /\ Others(r) /\ owner' = Released(r)
  BY <1>1 DEF CommitRevoke, TypeOK, Others
<1>5. ASSUME NEW e \in Challenges
      PROVE  /\ licence'[e].account = licence[e].account
             /\ licence'[e].device = licence[e].device
             /\ licence'[e].until = licence[e].until
             /\ licence'[e].state = IF licence[e].state # "none" /\ licence[e].device = d
                                    THEN "revoked" ELSE licence[e].state
  <2>1. licence'[e] = IF e \in Licences(d) THEN [licence[e] EXCEPT !.state = "revoked"]
                      ELSE licence[e]
    BY DEF CommitRevoke
  <2>2. licence[e] \in Licence
    BY <1>1 DEF TypeOK
  <2> QED BY <2>1, <2>2 DEF Licences, Licence
<1>6. /\ \A x \in Rows : owner'[x] # r
      /\ \A s \in Requests, x \in Rows : s # r => (owner[x] = s <=> owner'[x] = s)
  BY <1>4, ReleaseAll
<1>7. RequestInv(r)'
  BY <1>4, <1>6, BecomesIdle
<1>8. ASSUME NEW s \in Requests, s # r
      PROVE  RequestInv(s)'
  <2>1. now <= now'
    BY <1>1, <1>4 DEF TypeOK
  <2>2. \A b \in Accounts : owner[b] = s => ActiveDevices(b)' = ActiveDevices(b)
    <3>1. SUFFICES ASSUME NEW b \in Accounts, owner[b] = s, NEW e \in Devices
                   PROVE  status'[e] = "active" /\ home'[e] = b
                            <=> status[e] = "active" /\ home[e] = b
      BY DEF ActiveDevices
    <3>2. b # a
      BY <1>2, <1>8, <3>1
    <3> QED BY <1>2, <1>3, <3>2
  <2>3. \A e \in Devices : owner[e] = s => status'[e] = status[e] /\ home'[e] = home[e]
    BY <1>2, <1>3, <1>8
  <2>4. \A x \in Rows : owner[x] = s <=> owner'[x] = s
    BY <1>6, <1>8
  <2>5. RequestInv(s)
    BY DEF IInv
  <2> QED BY <1>1, <1>4, <1>8, <2>1, <2>2, <2>3, <2>4, <2>5, Frame
<1>9. RowsConsistent'
  <2>1. \A e \in Devices : status'[e] # "absent" => home'[e] \in Accounts
    BY <1>1, <1>2, <1>3 DEF IInv, RowInv, RowsConsistent
  <2>2. ASSUME NEW e \in Challenges, licence'[e].state # "none"
        PROVE  /\ licence'[e].account = challenge'[e].account
               /\ licence'[e].device = challenge'[e].device
               /\ status'[licence'[e].device] # "absent"
               /\ home'[licence'[e].device] = licence'[e].account
               /\ challenge'[e].purpose = "activate" =>
                    /\ checkout'[challenge'[e].checkout] = "consumed"
                    /\ consumer'[challenge'[e].checkout] = licence'[e].device
    <3>1. licence[e].state # "none"
      BY <1>5, <2>2
    <3>2. /\ licence[e].account = challenge[e].account
          /\ licence[e].device = challenge[e].device
          /\ status[licence[e].device] # "absent"
          /\ home[licence[e].device] = licence[e].account
          /\ challenge[e].purpose = "activate" =>
               /\ checkout[challenge[e].checkout] = "consumed"
               /\ consumer[challenge[e].checkout] = licence[e].device
      BY <3>1 DEF IInv, RowInv, RowsConsistent
    <3>3. licence[e].device \in Devices
      BY <3>1, <3>2 DEF IInv, RowInv, RowsConsistent, ChallengeSpentIffLicensed
    <3>4. status'[licence[e].device] # "absent"
      BY <1>3, <3>2, <3>3
    <3> QED BY <1>3, <1>4, <1>5, <3>2, <3>4
  <2>3. ASSUME NEW e \in Challenges
        PROVE  /\ challenge'[e].purpose = "none" => ~challenge'[e].used
               /\ challenge'[e].purpose # "none" =>
                    /\ challenge'[e].account \in Accounts /\ challenge'[e].device \in Devices
                    /\ challenge'[e].purpose = "activate" => challenge'[e].checkout \in Checkouts
    BY <1>4 DEF IInv, RowInv, RowsConsistent
  <2> QED BY <2>1, <2>2, <2>3 DEF RowsConsistent
<1>10. LiveLicenceMatchesDevice'
  <2>1. ASSUME NEW e \in Challenges, licence'[e].state = "valid"
        PROVE  /\ status'[licence'[e].device] = "active"
               /\ home'[licence'[e].device] = licence'[e].account
    <3>1. licence[e].state = "valid" /\ licence[e].device # d
      BY <1>5, <2>1
    <3>2. /\ status[licence[e].device] = "active"
          /\ home[licence[e].device] = licence[e].account
      BY <3>1 DEF IInv, RowInv, LiveLicenceMatchesDevice
    <3>3. licence[e].device \in Devices
      BY <3>1 DEF IInv, RowInv, RowsConsistent, ChallengeSpentIffLicensed
    <3> QED BY <1>3, <1>5, <3>1, <3>2, <3>3
  <2> QED BY <2>1 DEF LiveLicenceMatchesDevice
<1>11. CheckoutActivatesOneDevice' /\ ChallengeSpentIffLicensed'
  BY <1>4, <1>5 DEF IInv, RowInv, CheckoutActivatesOneDevice, ChallengeSpentIffLicensed
<1>12. RegisteredDeviceWasLicensed'
  <2>1. \A e \in Devices : Licences(e)' = Licences(e)
    BY <1>5 DEF Licences
  <2>2. \A e \in Devices : status'[e] # "absent" => status[e] # "absent"
    BY <1>2, <1>3
  <2>3. ASSUME NEW e \in Devices, status'[e] # "absent"
        PROVE  \E f \in Licences(e)' : licence'[f].account = home'[e]
    <3>1. PICK f \in Licences(e) : licence[f].account = home[e]
      BY <2>2, <2>3 DEF IInv, RowInv, RegisteredDeviceWasLicensed
    <3>2. f \in Challenges
      BY <3>1 DEF Licences
    <3> QED BY <1>3, <1>5, <2>1, <3>1, <3>2
  <2> QED BY <2>3 DEF RegisteredDeviceWasLicensed
<1>13. RevocationDeadlineHolds'
  <2>1. PICK latest \in Deadlines(d, q.since) \cup {0} :
          /\ \A u \in Deadlines(d, q.since) : u <= latest
          /\ announced' = [announced EXCEPT ![d] = latest]
    BY DEF CommitRevoke, Announce
  <2>2. SUFFICES ASSUME NEW e \in Challenges, licence'[e].state = "revoked", licence'[e].until > now'
                 PROVE  licence'[e].until <= announced'[licence'[e].device]
    BY DEF RevocationDeadlineHolds
  <2>3. licence[e] \in Licence /\ q.since \in Nat /\ now \in Nat
    BY <1>1 DEF TypeOK, Request
  <2>4. CASE licence[e].state # "none" /\ licence[e].device = d
    <3>1. licence[e].until > q.since
      BY <1>1, <1>4, <1>5, <2>2, <2>3 DEF Licence
    <3>2. licence[e].until \in Deadlines(d, q.since)
      BY <2>4, <3>1 DEF Deadlines, Licences
    <3>3. announced'[d] = latest
      BY <1>1, <2>1 DEF TypeOK
    <3> QED BY <1>5, <2>1, <2>4, <3>2, <3>3
  <2>5. CASE ~(licence[e].state # "none" /\ licence[e].device = d)
    <3>1. licence[e].state = "revoked" /\ licence[e].device # d /\ licence[e].until > now
      BY <1>4, <1>5, <2>2, <2>5
    <3>2. licence[e].device \in Devices
      BY <3>1 DEF IInv, RowInv, RowsConsistent, ChallengeSpentIffLicensed
    <3>3. licence[e].until <= announced[licence[e].device]
      BY <3>1 DEF IInv, RevocationDeadlineHolds
    <3>4. announced'[licence[e].device] = announced[licence[e].device]
      BY <1>1, <2>1, <3>1, <3>2 DEF TypeOK
    <3> QED BY <1>5, <3>3, <3>4
  <2> QED BY <2>4, <2>5
<1> QED BY <1>7, <1>8, <1>9, <1>10, <1>11, <1>12, <1>13 DEF IInv, RowInv

LEMMA InvContinue ==
  ASSUME IInv, NEW r \in Requests, Continue(r)
  PROVE  IInv'
<1>1. TypeOK'
  BY TypeContinue DEF IInv, RequestInv
<1>2. Replay(r) \/ UnusableContext(r) \/ SubscriptionEnded(r) => Rollback(r)
  BY DEF Replay, UnusableContext, SubscriptionEnded
<1> QED BY <1>1, <1>2, RollbackStep, InvSyncBilling, InvPersistChallenge, InvReadContext,
           InvLockCheckout, InvLockAccount, InvNoDevice, InvLockDevice, InvInsertDevice,
           InvCommitLicence, InvCommitRevoke DEF Continue

\* The clock and the webhook touch no row that a request relies on.
LEMMA EnvironmentStep ==
  ASSUME IInv, TypeOK', now <= now', UNCHANGED <<owner, req, announced>>,
         UNCHANGED <<status, home, challenge, licence, checkout, consumer>>
  PROVE  IInv'
<1>1. ASSUME NEW s \in Requests
      PROVE  RequestInv(s)'
  <2>1. RequestInv(s) /\ req[s].since \in Nat /\ now \in Nat /\ now' \in Nat
    BY DEF IInv, TypeOK, Request
  <2>2. WellFormed(s)'
    BY <2>1 DEF RequestInv, WellFormed
  <2>3. LockDiscipline(s)'
    BY <2>1 DEF RequestInv, LockDiscipline, Held, Registers
  <2>4. ChallengeStands(s)'
    BY <2>1 DEF RequestInv, ChallengeStands, Registers
  <2>5. ActiveDevices(req[s].account)' = ActiveDevices(req[s].account)
    BY DEF ActiveDevices
  <2>6. DecisionStands(s)'
    BY <2>1, <2>5 DEF RequestInv, DecisionStands, Registers, UnderLimit, Usable
  <2> QED BY <2>2, <2>3, <2>4, <2>6 DEF RequestInv
<1> QED BY <1>1, QuietRows, QuietDeadline DEF IInv

LEMMA InvInit ==
  ASSUME Init
  PROVE  IInv
<1>1. TypeOK
  BY IdleType, NumbersAssumption DEF Init, TypeOK, Challenge, Licence, NoChallenge, NoLicence
<1>2. ASSUME NEW r \in Requests
      PROVE  RequestInv(r)
  <2>1. req[r] = Idle /\ now = 0
    BY DEF Init
  <2>2. WellFormed(r)
    BY <2>1 DEF WellFormed, Idle, Doing, Creations, Purposes
  <2>3. LockDiscipline(r)
    BY <2>1, RowsAssumption DEF Init, LockDiscipline, Held, Idle, Doing, Purposes, Registers
  <2>4. ChallengeStands(r) /\ DecisionStands(r)
    BY <2>1 DEF ChallengeStands, DecisionStands, Idle, Doing, Purposes, Registers
  <2> QED BY <2>2, <2>3, <2>4 DEF RequestInv
<1>3. RowInv /\ RevocationDeadlineHolds
  BY DEF Init, RowInv, RowsConsistent, LiveLicenceMatchesDevice, CheckoutActivatesOneDevice,
         ChallengeSpentIffLicensed, RegisteredDeviceWasLicensed, RevocationDeadlineHolds,
         Licences, NoChallenge, NoLicence
<1> QED BY <1>1, <1>2, <1>3 DEF IInv

LEMMA InvNext ==
  ASSUME IInv, [Next]_vars
  PROVE  IInv'
<1>1. ASSUME NEW r \in Requests, Start(r) \/ Continue(r) \/ DeadlockVictim(r) \/ ConnectionLost(r)
      PROVE  IInv'
  <2>1. DeadlockVictim(r) \/ ConnectionLost(r) => Rollback(r)
    BY DEF DeadlockVictim, ConnectionLost
  <2> QED BY <1>1, <2>1, InvStart, InvContinue, RollbackStep
<1>2. ASSUME NEW a \in Accounts, WebhookSync(a)
      PROVE  IInv'
  <2>1. TypeOK' /\ now <= now'
    BY <1>2 DEF IInv, TypeOK, WebhookSync
  <2> QED BY <1>2, <2>1, EnvironmentStep DEF WebhookSync
<1>3. CASE Tick
  <2>1. TypeOK' /\ now <= now'
    BY <1>3 DEF IInv, TypeOK, Tick, rowVars
  <2> QED BY <1>3, <2>1, EnvironmentStep DEF Tick, rowVars
<1>4. CASE UNCHANGED vars
  <2>1. TypeOK' /\ now <= now'
    BY <1>4 DEF IInv, TypeOK, vars
  <2> QED BY <1>4, <2>1, EnvironmentStep DEF vars
<1> QED BY <1>1, <1>2, <1>3, <1>4 DEF Next

-----------------------------------------------------------------------------
(***************************************************************************)
(* Theorems                                                                *)
(***************************************************************************)

\* The rows, locks, requests and decisions of the service fit together in every
\* reachable state, for every number of accounts, devices and requests: the
\* inductive invariant on which the other theorems rest.
THEOREM Invariance == Spec => []IInv
<1>1. Init => IInv
  BY InvInit
<1>2. IInv /\ [Next]_vars => IInv'
  BY InvNext
<1> QED BY <1>1, <1>2, PTL DEF Spec

\* Every variable keeps its type.
THEOREM TypeCorrect == Spec => []TypeOK
<1>1. IInv => TypeOK
  BY DEF IInv
<1> QED BY <1>1, Invariance, PTL

\* A licence not marked revoked belongs to an active device of its own account,
\* whatever registrations, refreshes and revocations overlap.
THEOREM LiveLicenceSafety == Spec => []LiveLicenceMatchesDevice
<1>1. IInv => LiveLicenceMatchesDevice
  BY DEF IInv, RowInv
<1> QED BY <1>1, Invariance, PTL

\* One Checkout Session activates one device.
THEOREM CheckoutSafety == Spec => []CheckoutActivatesOneDevice
<1>1. IInv => CheckoutActivatesOneDevice
  BY DEF IInv, RowInv
<1> QED BY <1>1, Invariance, PTL

\* A challenge is used exactly when the licence it paid for is stored.
THEOREM ChallengeSafety == Spec => []ChallengeSpentIffLicensed
<1>1. IInv => ChallengeSpentIffLicensed
  BY DEF IInv, RowInv
<1> QED BY <1>1, Invariance, PTL

\* No device row is left behind by a completion that failed half way.
THEOREM NoOrphanSafety == Spec => []RegisteredDeviceWasLicensed
<1>1. IInv => RegisteredDeviceWasLicensed
  BY DEF IInv, RowInv
<1> QED BY <1>1, Invariance, PTL

\* A revocation's deadline covers every licence of the device that is still usable.
THEOREM DeadlineSafety == Spec => []RevocationDeadlineHolds
<1>1. IInv => RevocationDeadlineHolds
  BY DEF IInv
<1> QED BY <1>1, Invariance, PTL

-----------------------------------------------------------------------------
(***************************************************************************)
(* Deadlocks: the lock order of everything but refresh                     *)
(***************************************************************************)

\* Who holds a row that a request of a stuck set without refresh waits for.
LEMMA HolderIsLater ==
  ASSUME IInv, NEW r \in Requests, NEW s \in Requests, WaitsFor(r, s),
         req[r].op # "refresh", req[s].op # "refresh"
  PROVE  \/ req[s].pc = "commit"
         \/ req[s].pc \in {"device", "insert"} /\ req[r].pc \notin {"device", "insert"}
         \/ req[s].pc = "account" /\ req[r].pc = "checkout"
<1>1. PICK x \in Wanted(r) : owner[x] = s
  BY DEF WaitsFor
<1>2. /\ \/ req[r].pc \in {"persist", "account"} /\ x = req[r].account
         \/ req[r].pc = "checkout" /\ x = req[r].checkout
         \/ req[r].pc \in {"device", "insert"} /\ x = req[r].device
      /\ req[r].pc # "idle"
  BY <1>1 DEF Wanted
<1>3. /\ req[r].account \in Accounts /\ req[r].device \in Devices
      /\ req[r].pc = "checkout" => req[r].checkout \in Checkouts
  BY <1>2 DEF IInv, RequestInv, WellFormed, TypeOK, Request, Purposes, Creations
<1>4. x \in Rows /\ x \in Held(s)
  BY <1>1, <1>2, <1>3 DEF IInv, RequestInv, LockDiscipline
<1>5. /\ req[s].op \in Purposes => req[s].challenge \in Challenges
      /\ req[s].op = "activate" => req[s].checkout \in Checkouts
      /\ req[s].op # "none" => req[s].account \in Accounts /\ req[s].device \in Devices
  BY DEF IInv, RequestInv, WellFormed
<1>6. \/ x \in Challenges
      \/ x \in Checkouts /\ req[s].pc \in {"account", "device", "insert", "commit"}
      \/ x \in Accounts /\ req[s].pc \in {"device", "insert", "commit"}
      \/ x \in Devices /\ req[s].pc = "commit"
  BY <1>4, <1>5 DEF Held, Registers, Purposes
<1> QED BY <1>2, <1>3, <1>6, RowsAssumption

LEMMA LockOrder == IInv => DeadlockNeedsRefresh
<1> SUFFICES ASSUME IInv, NEW S \in SUBSET Requests, Stuck(S),
                    \A r \in S : req[r].op # "refresh"
             PROVE  FALSE
  BY DEF DeadlockNeedsRefresh
<1>1. \A r \in S : req[r].pc # "commit"
  <2> SUFFICES ASSUME NEW r \in S, req[r].pc = "commit"
               PROVE  FALSE
    OBVIOUS
  <2>1. Wanted(r) = {}
    BY DEF Wanted
  <2> QED BY <2>1 DEF Stuck, WaitsFor
<1>2. \A r \in S : \E s \in S : WaitsFor(r, s)
  BY DEF Stuck
<1>3. \A r \in S : req[r].pc \notin {"device", "insert"}
  BY <1>1, <1>2, HolderIsLater
<1>4. \A r \in S : req[r].pc = "checkout"
  BY <1>1, <1>2, <1>3, HolderIsLater
<1> QED BY <1>1, <1>2, <1>3, <1>4, HolderIsLater DEF Stuck

\* Every deadlock has a refresh in it: the other transactions take challenge,
\* Checkout Session, account and device in one order.
THEOREM DeadlockSafety == Spec => []DeadlockNeedsRefresh
BY LockOrder, Invariance, PTL

-----------------------------------------------------------------------------
(***************************************************************************)
(* What no step does                                                       *)
(***************************************************************************)

LEMMA RollbackKeepsRows ==
  ASSUME NEW r \in Requests, Rollback(r)
  PROVE  UNCHANGED <<status, home, licence>>
BY DEF Rollback, rowVars

LEMMA OnlyCommitsWrite ==
  ASSUME [Next]_vars
  PROVE  \/ UNCHANGED <<status, home, licence>>
         \/ \E r \in Requests : CommitLicence(r) \/ CommitRevoke(r)
<1>1. ASSUME NEW r \in Requests, Start(r)
      PROVE  UNCHANGED <<status, home, licence>>
  BY <1>1 DEF Start, CreateActivationChallenge, CreateRefreshChallenge,
              CreateEnrollmentChallenge, BeginCompletion, BeginRevoke, rowVars
<1>2. ASSUME NEW r \in Requests, Continue(r), ~CommitLicence(r), ~CommitRevoke(r)
      PROVE  UNCHANGED <<status, home, licence>>
  BY <1>2, RollbackKeepsRows
     DEF Continue, SyncBilling, PersistChallenge, Replay, UnusableContext, ReadContext,
         LockCheckout, LockAccount, NoDevice, LockDevice, InsertDevice, SubscriptionEnded, rowVars
<1>3. ASSUME NEW r \in Requests, DeadlockVictim(r) \/ ConnectionLost(r)
      PROVE  UNCHANGED <<status, home, licence>>
  BY <1>3, RollbackKeepsRows DEF DeadlockVictim, ConnectionLost
<1>4. ASSUME NEW a \in Accounts, WebhookSync(a)
      PROVE  UNCHANGED <<status, home, licence>>
  BY <1>4 DEF WebhookSync
<1>5. Tick \/ UNCHANGED vars => UNCHANGED <<status, home, licence>>
  BY DEF Tick, vars, rowVars
<1> QED BY <1>1, <1>2, <1>3, <1>4, <1>5 DEF Next

LEMMA RevokedRows ==
  ASSUME IInv, NEW r \in Requests, CommitRevoke(r)
  PROVE  /\ home' = home
         /\ \A d \in Devices :
              status'[d] = status[d] \/ (status[d] # "absent" /\ status'[d] = "revoked")
<1>1. req[r].device \in Devices /\ status[req[r].device] # "absent" /\ TypeOK
  BY DEF CommitRevoke, IInv, RequestInv, WellFormed, DecisionStands
<1>2. home' = home /\ status' = [status EXCEPT ![req[r].device] = "revoked"]
  BY DEF CommitRevoke
<1>3. status \in [Devices -> {"absent", "active", "revoked"}]
  BY <1>1 DEF TypeOK
<1> QED BY <1>1, <1>2, <1>3

\* A device keeps its account for good, and once revoked it stays revoked.
THEOREM FinalitySafety == Spec => RegistrationIsFinal
<1> DEFINE Final == \A d \in Devices :
              /\ status[d] # "absent" => status'[d] # "absent" /\ home'[d] = home[d]
              /\ status[d] = "revoked" => status'[d] = "revoked"
<1>1. ASSUME IInv, [Next]_vars
      PROVE  Final
  <2>1. CASE UNCHANGED <<status, home, licence>>
    BY <2>1
  <2>2. ASSUME NEW r \in Requests, CommitLicence(r)
        PROVE  Final
    BY <1>1, <2>2, CommitLicenceRows
  <2>3. ASSUME NEW r \in Requests, CommitRevoke(r)
        PROVE  Final
    BY <1>1, <2>3, RevokedRows
  <2> QED BY <1>1, <2>1, <2>2, <2>3, OnlyCommitsWrite
<1>2. IInv /\ [Next]_vars => [Final]_vars
  BY <1>1
<1> QED BY <1>2, Invariance, PTL DEF Spec, RegistrationIsFinal

\* A stored licence is never replaced; only its revocation mark changes.
THEOREM LicenceSafety == Spec => LicenceNeverReplaced
<1> DEFINE Kept == \A c \in Challenges : licence[c].state # "none" =>
              licence'[c] \in {licence[c], [licence[c] EXCEPT !.state = "revoked"]}
<1>1. ASSUME IInv, [Next]_vars
      PROVE  Kept
  <2>1. CASE UNCHANGED <<status, home, licence>>
    BY <2>1
  <2>2. ASSUME NEW r \in Requests, CommitLicence(r)
        PROVE  Kept
    BY <1>1, <2>2, CommitLicenceRows
  <2>3. ASSUME NEW r \in Requests, CommitRevoke(r)
        PROVE  Kept
    BY <2>3 DEF CommitRevoke
  <2> QED BY <1>1, <2>1, <2>2, <2>3, OnlyCommitsWrite
<1>2. IInv /\ [Next]_vars => [Kept]_vars
  BY <1>1
<1> QED BY <1>2, Invariance, PTL DEF Spec, LicenceNeverReplaced

\* An account gains an active device only up to the limit that the registering
\* transaction read.
THEOREM DeviceLimitSafety == Spec => DeviceLimitRespected
<1> DEFINE Limited == \A a \in Accounts :
       \/ ActiveDevices(a)' \subseteq ActiveDevices(a)
       \/ \E r \in Requests : /\ req[r].pc = "commit" /\ req'[r].pc = "idle"
                              /\ req[r].account = a
                              /\ Cardinality(ActiveDevices(a)') <= req[r].limit
<1>1. ASSUME IInv, [Next]_vars
      PROVE  Limited
  <2>1. CASE UNCHANGED <<status, home, licence>>
    BY <2>1 DEF ActiveDevices
  <2>2. ASSUME NEW r \in Requests, CommitLicence(r)
        PROVE  Limited
    <3> DEFINE d == req[r].device
               b == req[r].account
    <3>1. /\ d \in Devices /\ b \in Accounts
          /\ \/ status[d] = "active" /\ home[d] = b
             \/ status[d] = "absent" /\ UnderLimit(r)
          /\ status'[d] = "active" /\ home'[d] = b
          /\ \A e \in Devices : e # d => status'[e] = status[e] /\ home'[e] = home[e]
      BY <1>1, <2>2, CommitLicenceRows
    <3>2. req[r].pc = "commit" /\ req'[r].pc = "idle" /\ req[r].limit \in Nat
      BY <1>1, <2>2 DEF CommitLicence, Idle, Doing, IInv, TypeOK, Request
    <3>3. \A a \in Accounts : a # b => ActiveDevices(a)' \subseteq ActiveDevices(a)
      BY <3>1 DEF ActiveDevices
    <3>4. CASE status[d] = "active" /\ home[d] = b
      BY <3>1, <3>3, <3>4 DEF ActiveDevices
    <3>5. CASE status[d] = "absent" /\ UnderLimit(r)
      <4> SUFFICES ASSUME NEW a \in Accounts, a = b
                   PROVE  Cardinality(ActiveDevices(a)') <= req[r].limit
        BY <3>2, <3>3
      <4>1. ActiveDevices(a)' = ActiveDevices(a) \cup {d} /\ d \notin ActiveDevices(a)
        BY <3>1, <3>5 DEF ActiveDevices
      <4>2. IsFiniteSet(ActiveDevices(a))
        BY DevicesAssumption, FS_Subset DEF ActiveDevices
      <4>3. /\ Cardinality(ActiveDevices(a)') = Cardinality(ActiveDevices(a)) + 1
            /\ Cardinality(ActiveDevices(a)) \in Nat
        BY <4>1, <4>2, FS_AddElement, FS_CardinalityType
      <4> QED BY <3>2, <3>5, <4>3 DEF UnderLimit
    <3> QED BY <3>1, <3>4, <3>5
  <2>3. ASSUME NEW r \in Requests, CommitRevoke(r)
        PROVE  Limited
    BY <1>1, <2>3, RevokedRows DEF ActiveDevices
  <2> QED BY <1>1, <2>1, <2>2, <2>3, OnlyCommitsWrite
<1>2. IInv /\ [Next]_vars => [Limited]_vars
  BY <1>1
<1> QED BY <1>2, Invariance, PTL DEF Spec, DeviceLimitRespected

-----------------------------------------------------------------------------
(***************************************************************************)
(* What a completion carries is what its challenge or its reading granted  *)
(***************************************************************************)
LEMMA GrantInit == Init => GrantInv
BY DEF Init, GrantInv, Granted, NoChallenge, Idle, Doing

LEMMA GrantKept ==
  ASSUME GrantInv, UNCHANGED challenge, NEW r \in Requests, Others(r), Granted(req'[r])
  PROVE  GrantInv'
<1>1. \A s \in Requests : Granted(req'[s])
  BY DEF GrantInv, Others
<1> QED
  BY <1>1 DEF GrantInv, Granted

LEMMA GrantIdle == Granted(Idle)
BY DEF Granted, Idle, Doing

\* A rollback, like every end of a request that leaves the challenges alone.
LEMMA GrantRollback ==
  ASSUME TypeOK, GrantInv, NEW r \in Requests, Rollback(r)
  PROVE  GrantInv'
<1>1. Others(r) /\ req'[r] = Idle /\ UNCHANGED challenge
  BY DEF Rollback, TypeOK, Others, rowVars
<1> QED
  BY <1>1, GrantIdle, GrantKept

LEMMA GrantGoto ==
  ASSUME TypeOK, GrantInv, UNCHANGED challenge, NEW r \in Requests, req[r].pc # "context",
         Others(r), SameSubject(r), req'[r].limit = req[r].limit
  PROVE  GrantInv'
<1>1. Granted(req'[r])
  BY DEF GrantInv, Granted, SameSubject
<1> QED
  BY <1>1, GrantKept

LEMMA GrantStart ==
  ASSUME TypeOK, GrantInv, NEW r \in Requests, Start(r)
  PROVE  GrantInv'
<1>1. ASSUME NEW k \in Checkouts, NEW d \in Devices, CreateActivationChallenge(r, k, d)
      PROVE  GrantInv'
  BY <1>1, GrantKept DEF CreateActivationChallenge, Begin, Doing, TypeOK, Others, Granted
<1>2. ASSUME NEW d \in Devices, CreateRefreshChallenge(r, d)
      PROVE  GrantInv'
  BY <1>2, GrantKept DEF CreateRefreshChallenge, Begin, Doing, TypeOK, Others, Granted, rowVars
<1>3. ASSUME NEW a \in Accounts, NEW d \in Devices, CreateEnrollmentChallenge(r, a, d)
      PROVE  GrantInv'
  BY <1>3, GrantKept DEF CreateEnrollmentChallenge, Begin, Doing, TypeOK, Others, Granted, rowVars
<1>4. ASSUME NEW c \in Challenges, BeginCompletion(r, c)
      PROVE  GrantInv'
  <2>1. /\ req' = [req EXCEPT ![r] =
               Doing(IF challenge[c].purpose = "refresh" THEN "device" ELSE "context",
                     challenge[c].purpose, challenge[c].account, challenge[c].device,
                     c, challenge[c].checkout, 0)]
        /\ UNCHANGED challenge
    BY <1>4 DEF BeginCompletion, rowVars
  <2>2. Others(r) /\ Granted(req'[r])
    <3>1. challenge[c].purpose \in Purposes \cup {"none"} /\ req'[r].op = challenge[c].purpose
          /\ req'[r].account = challenge[c].account /\ req'[r].checkout = challenge[c].checkout
          /\ req'[r].pc = IF challenge[c].purpose = "refresh" THEN "device" ELSE "context"
      BY <2>1 DEF TypeOK, Challenge, Doing
    <3>2. Others(r)
      BY <2>1 DEF TypeOK, Others
    <3> QED
      BY <3>1, <3>2 DEF Granted, GrantInv, Purposes
  <2> QED
    BY <2>1, <2>2, GrantKept
<1>5. ASSUME NEW a \in Accounts, NEW d \in Devices, BeginRevoke(r, a, d)
      PROVE  GrantInv'
  BY <1>5, GrantKept DEF BeginRevoke, Doing, TypeOK, Others, Granted, rowVars
<1> QED
  BY <1>1, <1>2, <1>3, <1>4, <1>5 DEF Start

LEMMA GrantContinue ==
  ASSUME IInv, GrantInv, NEW r \in Requests, Continue(r)
  PROVE  GrantInv'
<1>0. TypeOK /\ req[r] \in Request /\ WellFormed(r)
  BY DEF IInv, TypeOK, RequestInv
<1>1. CASE Rollback(r)
  BY <1>0, <1>1, GrantRollback
<1>2. CASE SyncBilling(r)
  <2>1. PICK limit \in Limits \cup {0} :
          req' = [req EXCEPT ![r] = IF req[r].op = "createEnroll" /\ limit = 0
                                    THEN Idle ELSE [@ EXCEPT !.pc = "persist"]]
    BY <1>2 DEF SyncBilling
  <2>2. UNCHANGED challenge /\ Others(r) /\ req[r].pc = "sync"
    BY <1>0, <1>2, <2>1 DEF SyncBilling, TypeOK, Others
  <2>3. req'[r] = Idle \/ req'[r] = [req[r] EXCEPT !.pc = "persist"]
    BY <1>0, <2>1 DEF TypeOK
  <2>4. CASE req'[r] = [req[r] EXCEPT !.pc = "persist"]
    BY <1>0, <2>2, <2>4, GrantGoto DEF SameSubject, Request
  <2> QED
    BY <2>2, <2>3, <2>4, GrantIdle, GrantKept
<1>3. CASE PersistChallenge(r)
  <2>1. PICK c \in Challenges, t \in req[r].since .. now :
          challenge' = [challenge EXCEPT ![c] =
            [purpose |-> PurposeOf(req[r].op), account |-> req[r].account,
             device |-> req[r].device, checkout |-> req[r].checkout,
             expires |-> t + ChallengeTTL, used |-> FALSE]]
    BY <1>3 DEF PersistChallenge
  <2>2. req' = [req EXCEPT ![r] = Idle] /\ req[r].op \in Creations
    BY <1>0, <1>3 DEF PersistChallenge, WellFormed, Creations, Request, Purposes
  <2>3. \A s \in Requests : Granted(req'[s])
    BY <1>0, <2>2, GrantIdle DEF TypeOK, GrantInv
  <2>4. PurposeOf(req[r].op) = "activate" => req[r].account = Buyer[req[r].checkout]
    BY <2>2 DEF PurposeOf, GrantInv, Granted, Creations
  <2>5. \A e \in Challenges : challenge'[e].purpose = "activate" =>
          challenge'[e].account = Buyer[challenge'[e].checkout]
    <3> SUFFICES ASSUME NEW e \in Challenges, challenge'[e].purpose = "activate"
                 PROVE  challenge'[e].account = Buyer[challenge'[e].checkout]
      OBVIOUS
    <3>1. CASE e = c
      BY <1>0, <2>1, <2>4, <3>1 DEF TypeOK
    <3>2. CASE e # c
      BY <1>0, <2>1, <3>2 DEF TypeOK, GrantInv
    <3> QED
      BY <3>1, <3>2
  <2> QED
    BY <2>3, <2>5 DEF GrantInv, Granted
<1>4. CASE ReadContext(r)
  <2>1. UNCHANGED challenge /\ req[r].op \in Purposes
    BY <1>0, <1>4 DEF ReadContext, rowVars, WellFormed, Creations, Request
  <2>2. deviceLimit[req[r].account] \in Limits
    BY <1>0, <1>4, <2>1 DEF ReadContext, TypeOK, WellFormed, Purposes
  <2>3. CASE req[r].op = "refresh"
    <3>1. deviceLimit[req[r].account] \in Nat /\ Stamped(r, "commit", deviceLimit[req[r].account])
      BY <1>4, <2>2, <2>3, LimitsType DEF ReadContext
    <3>2. Others(r) /\ SameSubject(r)
      BY <1>0, <3>1, StampedFields
    <3>3. Granted(req'[r])
      BY <2>3, <3>2 DEF Granted, SameSubject
    <3> QED
      BY <2>1, <3>2, <3>3, GrantKept
  <2>4. CASE req[r].op # "refresh"
    <3>1. req' = [req EXCEPT ![r] =
            [@ EXCEPT !.limit = deviceLimit[req[r].account],
                      !.pc = IF req[r].op = "activate" THEN "checkout" ELSE "account"]]
      BY <1>4, <2>4 DEF ReadContext
    <3>2. /\ Others(r) /\ req'[r].limit = deviceLimit[req[r].account] /\ req'[r].op = req[r].op
          /\ req'[r].account = req[r].account /\ req'[r].checkout = req[r].checkout
      BY <1>0, <3>1 DEF TypeOK, Others, Request
    <3>3. Granted(req'[r])
      BY <2>2, <3>2 DEF Granted, GrantInv
    <3> QED
      BY <2>1, <3>2, <3>3, GrantKept
  <2> QED
    BY <2>3, <2>4
<1>5. CASE \E pc \in Counters : Goto(r, pc) /\ req[r].pc # "context" /\ UNCHANGED challenge
  BY <1>0, <1>5, GotoFields, GrantGoto
<1>6. CASE Stamped(r, "commit", req[r].limit) /\ req[r].pc # "context" /\ UNCHANGED challenge
  BY <1>0, <1>6, StampedFields, GrantGoto DEF Request
<1>7. CASE CommitLicence(r)
  <2>1. /\ challenge' = [challenge EXCEPT ![req[r].challenge].used = TRUE]
        /\ req' = [req EXCEPT ![r] = Idle]
    BY <1>7 DEF CommitLicence
  <2>2. \A s \in Requests : Granted(req'[s])
    BY <1>0, <2>1, GrantIdle DEF TypeOK, GrantInv
  <2>3. \A e \in Challenges : /\ challenge'[e].purpose = challenge[e].purpose
                              /\ challenge'[e].account = challenge[e].account
                              /\ challenge'[e].checkout = challenge[e].checkout
    BY <1>0, <2>1 DEF TypeOK, Challenge
  <2> QED
    BY <2>2, <2>3 DEF GrantInv, Granted
<1>8. CASE CommitRevoke(r)
  <2>1. UNCHANGED challenge /\ Others(r) /\ req'[r] = Idle
    BY <1>0, <1>8 DEF CommitRevoke, TypeOK, Others
  <2> QED
    BY <2>1, GrantIdle, GrantKept
<1>9. CASE LockCheckout(r) \/ LockAccount(r) \/ NoDevice(r)
  BY <1>1, <1>5, <1>9 DEF LockCheckout, LockAccount, NoDevice, Counters, rowVars
<1>10. CASE LockDevice(r) \/ InsertDevice(r)
  BY <1>1, <1>5, <1>6, <1>10 DEF LockDevice, InsertDevice, Counters, rowVars
<1>11. CASE Replay(r) \/ UnusableContext(r) \/ SubscriptionEnded(r)
  BY <1>1, <1>11 DEF Replay, UnusableContext, SubscriptionEnded
<1> QED
  BY <1>2, <1>3, <1>4, <1>7, <1>8, <1>9, <1>10, <1>11 DEF Continue

LEMMA GrantNext == IInv /\ GrantInv /\ [Next]_vars => GrantInv'
<1> SUFFICES ASSUME IInv, GrantInv, [Next]_vars PROVE GrantInv'
  OBVIOUS
<1>0. TypeOK
  BY DEF IInv
<1>1. ASSUME NEW r \in Requests, Start(r) \/ Continue(r) PROVE GrantInv'
  BY <1>0, <1>1, GrantStart, GrantContinue
<1>2. ASSUME NEW r \in Requests, DeadlockVictim(r) \/ ConnectionLost(r) PROVE GrantInv'
  BY <1>0, <1>2, GrantRollback DEF DeadlockVictim, ConnectionLost
<1>3. CASE UNCHANGED <<challenge, req>>
  BY <1>3 DEF GrantInv
<1>4. CASE Tick \/ UNCHANGED vars \/ \E a \in Accounts : WebhookSync(a)
  BY <1>3, <1>4 DEF Tick, vars, rowVars, WebhookSync
<1> QED
  BY <1>1, <1>2, <1>4 DEF Next

-----------------------------------------------------------------------------
(***************************************************************************)
(* Every step is one of the ledger, or changes nothing there               *)
(***************************************************************************)
LedgerRows == <<status, home, LedgerLicence, LedgerConsumer>>

LEMMA LedgerInit == Init => Ledger!Init
<1> SUFFICES ASSUME Init PROVE Ledger!Init
  OBVIOUS
<1>1. LedgerLicence = [c \in Challenges |-> Ledger!NoLicence]
  BY DEF Init, NoLicence, LedgerLicence, Ledger!NoLicence
<1>2. LedgerConsumer = [k \in Checkouts |-> None]
  BY DEF Init, LedgerConsumer
<1> QED
  BY <1>1, <1>2 DEF Init, Ledger!Init

\* Only a commit reaches the ledger: a session is opened before it is consumed.
LEMMA OnlyCommitsCount ==
  ASSUME TypeOK, [Next]_vars, \A r \in Requests : ~CommitLicence(r) /\ ~CommitRevoke(r)
  PROVE  UNCHANGED LedgerRows
<1>1. UNCHANGED <<status, home, licence>>
  BY OnlyCommitsWrite
<1>2. UNCHANGED LedgerLicence
  BY <1>1 DEF LedgerLicence
<1>3. UNCHANGED consumer /\ \A k \in Checkouts : checkout'[k] = "consumed" <=> checkout[k] = "consumed"
  <2>1. CASE UNCHANGED <<checkout, consumer>>
    BY <2>1
  <2>2. ASSUME NEW r \in Requests, NEW k \in Checkouts, NEW d \in Devices,
               CreateActivationChallenge(r, k, d)
        PROVE  UNCHANGED consumer /\ \A j \in Checkouts : checkout'[j] = "consumed" <=> checkout[j] = "consumed"
    BY <2>2 DEF CreateActivationChallenge, TypeOK
  <2>3. ASSUME NEW r \in Requests, Rollback(r) PROVE UNCHANGED <<checkout, consumer>>
    BY <2>3 DEF Rollback, rowVars
  <2>4. ASSUME NEW r \in Requests,
               \/ \E d \in Devices : CreateRefreshChallenge(r, d)
               \/ \E a \in Accounts, d \in Devices : CreateEnrollmentChallenge(r, a, d)
               \/ \E c \in Challenges : BeginCompletion(r, c)
               \/ \E a \in Accounts, d \in Devices : BeginRevoke(r, a, d)
        PROVE  UNCHANGED <<checkout, consumer>>
    BY <2>4 DEF CreateRefreshChallenge, CreateEnrollmentChallenge, BeginCompletion,
                BeginRevoke, rowVars
  <2>5. ASSUME NEW r \in Requests, Continue(r)
        PROVE  UNCHANGED <<checkout, consumer>>
    BY <2>3, <2>5
       DEF Continue, SyncBilling, PersistChallenge, Replay, UnusableContext, ReadContext,
           LockCheckout, LockAccount, NoDevice, LockDevice, InsertDevice, SubscriptionEnded, rowVars
  <2>6. Tick \/ UNCHANGED vars \/ (\E a \in Accounts : WebhookSync(a)) => UNCHANGED <<checkout, consumer>>
    BY DEF Tick, WebhookSync, vars, rowVars
  <2> QED
    BY <2>1, <2>2, <2>3, <2>4, <2>5, <2>6 DEF Next, Start, DeadlockVictim, ConnectionLost
<1>4. UNCHANGED LedgerConsumer
  BY <1>3 DEF LedgerConsumer
<1> QED
  BY <1>1, <1>2, <1>4 DEF LedgerRows

LEMMA SameCardinality == \A S : Ledger!Cardinality(S) = Cardinality(S)
BY DEF Cardinality, Ledger!Cardinality, IsFiniteSet, Ledger!IsFiniteSet

LEMMA CommitIssues ==
  ASSUME IInv, GrantInv, NEW r \in Requests, CommitLicence(r)
  PROVE  Ledger!Issue(req[r].challenge, req[r].account, req[r].device)
<1> DEFINE q == req[r]
           c == q.challenge
           d == q.device
           a == q.account
           k == q.checkout
<1>0. TypeOK /\ q \in Request /\ q.pc = "commit" /\ q.op \in Purposes
  BY DEF IInv, TypeOK, CommitLicence
<1>1. /\ c \in Challenges /\ d \in Devices /\ a \in Accounts
      /\ licence[c].state = "none"
      /\ \/ status[d] = "active" /\ home[d] = a
         \/ status[d] = "absent" /\ Registers(r) /\ UnderLimit(r)
  BY CommitLicenceRows
<1>2. LedgerLicence[c].state = "none"
  BY <1>1 DEF LedgerLicence
<1>3. LedgerLicence' = [LedgerLicence EXCEPT ![c] =
                          [state |-> "valid", account |-> a, device |-> d]]
  <2>1. licence' = [licence EXCEPT ![c] =
                      [state |-> "valid", account |-> a, device |-> d, until |-> q.until]]
    BY DEF CommitLicence
  <2>2. licence'[c] = [state |-> "valid", account |-> a, device |-> d, until |-> q.until]
        /\ \A e \in Challenges : e # c => licence'[e] = licence[e]
    BY <1>0, <1>1, <2>1 DEF TypeOK
  <2> DEFINE Entry(e) == [state |-> licence[e].state, account |-> licence[e].account,
                          device |-> licence[e].device]
             After(e) == [state |-> licence'[e].state, account |-> licence'[e].account,
                          device |-> licence'[e].device]
  <2>3. /\ LedgerLicence = [e \in Challenges |-> Entry(e)]
        /\ LedgerLicence' = [e \in Challenges |-> After(e)]
    BY DEF LedgerLicence
  <2>4. After(c) = [state |-> "valid", account |-> a, device |-> d]
    BY <2>2
  <2>5. \A e \in Challenges : e # c => After(e) = Entry(e)
    BY <2>2
  <2> HIDE DEF Entry, After
  <2> QED
    BY <1>1, <2>3, <2>4, <2>5
<1>4. Ledger!Known(a, d) \/ Ledger!Register(a, d)
  <2>1. CASE status[d] = "active" /\ home[d] = a
    <3>1. UNCHANGED <<status, home>>
      <4>1. CASE Registers(r)
        <5>1. status' = [status EXCEPT ![d] = "active"] /\ home' = [home EXCEPT ![d] = a]
          BY <4>1 DEF CommitLicence
        <5> QED
          BY <1>0, <2>1, <5>1 DEF TypeOK
      <4>2. CASE ~Registers(r)
        BY <4>2 DEF CommitLicence
      <4> QED
        BY <4>1, <4>2
    <3> QED
      BY <2>1, <3>1 DEF Ledger!Known
  <2>2. CASE status[d] = "absent" /\ Registers(r) /\ UnderLimit(r)
    <3>1. status' = [status EXCEPT ![d] = "active"] /\ home' = [home EXCEPT ![d] = a]
      BY <2>2 DEF CommitLicence
    <3>2. q.limit \in Limits
      BY <1>0, <2>2 DEF GrantInv, Granted, Registers
    <3>3. Ledger!Cardinality(Ledger!ActiveDevices(a)) < q.limit
      BY <2>2, SameCardinality DEF UnderLimit, ActiveDevices, Ledger!ActiveDevices
    <3> QED
      BY <2>2, <3>1, <3>2, <3>3 DEF Ledger!Register
  <2> QED
    BY <1>1, <2>1, <2>2
<1>5. (\E j \in Checkouts : Ledger!Consume(a, d, j)) \/ UNCHANGED LedgerConsumer
  <2>1. CASE q.op = "activate"
    <3>1. k \in Checkouts /\ checkout[k] = "open" /\ Buyer[k] = a
      BY <1>0, <2>1 DEF IInv, RequestInv, WellFormed, ChallengeStands, GrantInv, Granted
    <3>2. /\ checkout' = [checkout EXCEPT ![k] = "consumed"]
          /\ consumer' = [consumer EXCEPT ![k] = d]
      BY <2>1 DEF CommitLicence
    <3>3. LedgerConsumer[k] = None
      BY <3>1 DEF LedgerConsumer
    <3>4. LedgerConsumer' = [LedgerConsumer EXCEPT ![k] = d]
      BY <1>0, <3>1, <3>2 DEF LedgerConsumer, TypeOK
    <3> QED
      BY <3>1, <3>3, <3>4 DEF Ledger!Consume
  <2>2. CASE q.op # "activate"
    BY <2>2 DEF CommitLicence, LedgerConsumer
  <2> QED
    BY <2>1, <2>2
<1> QED
  BY <1>2, <1>3, <1>4, <1>5 DEF Ledger!Issue

LEMMA CommitRevokes ==
  ASSUME IInv, NEW r \in Requests, CommitRevoke(r)
  PROVE  Ledger!Revoke(req[r].device)
<1> DEFINE d == req[r].device
<1>1. d \in Devices /\ status[d] # "absent" /\ TypeOK
  BY DEF CommitRevoke, IInv, RequestInv, WellFormed, DecisionStands
<1>2. status' = [status EXCEPT ![d] = "revoked"] /\ UNCHANGED <<home, LedgerConsumer>>
  BY DEF CommitRevoke, LedgerConsumer
<1>3. licence' = [c \in Challenges |->
        IF licence[c].state # "none" /\ licence[c].device = d
        THEN [licence[c] EXCEPT !.state = "revoked"] ELSE licence[c]]
  BY DEF CommitRevoke, Licences
<1>4. LedgerLicence' = [c \in Challenges |->
        IF LedgerLicence[c].state # "none" /\ LedgerLicence[c].device = d
        THEN [LedgerLicence[c] EXCEPT !.state = "revoked"] ELSE LedgerLicence[c]]
  <2>1. \A c \in Challenges : licence[c] \in Licence
    BY <1>1 DEF TypeOK
  <2> QED
    BY <1>3, <2>1 DEF LedgerLicence, Licence
<1> QED
  BY <1>1, <1>2, <1>4 DEF Ledger!Revoke

LEMMA LedgerStep == IInv /\ GrantInv /\ [Next]_vars => [Ledger!Next]_LedgerRows
<1> SUFFICES ASSUME IInv, GrantInv, [Next]_vars PROVE [Ledger!Next]_LedgerRows
  OBVIOUS
<1>1. ASSUME NEW r \in Requests, CommitLicence(r) PROVE Ledger!Next
  <2>1. req[r].challenge \in Challenges /\ req[r].account \in Accounts /\ req[r].device \in Devices
    BY <1>1, CommitLicenceRows
  <2> QED
    BY <1>1, <2>1, CommitIssues DEF Ledger!Next
<1>2. ASSUME NEW r \in Requests, CommitRevoke(r) PROVE Ledger!Next
  <2>1. req[r].device \in Devices
    BY <1>2 DEF CommitRevoke, IInv, RequestInv, WellFormed
  <2> QED
    BY <1>2, <2>1, CommitRevokes DEF Ledger!Next
<1>3. TypeOK
  BY DEF IInv
<1> QED
  BY <1>1, <1>2, <1>3, OnlyCommitsCount

\* The transactions of the licence service implement the ledger
\* (license-service.ts:122-202, devices.ts:66-98).
THEOREM LedgerRefinement == Spec => LedgerImplemented
<1>1. [Ledger!Next]_LedgerRows => [Ledger!Next]_(Ledger!vars)
  BY DEF LedgerRows, Ledger!vars
<1>2. Spec => []GrantInv
  BY GrantInit, GrantNext, Invariance, PTL DEF Spec
<1> QED
  BY <1>1, <1>2, LedgerInit, LedgerStep, Invariance, PTL DEF Spec, LedgerImplemented, Ledger!Spec

-----------------------------------------------------------------------------
(***************************************************************************)
(* What makes the access answer older than the account lock                *)
(***************************************************************************)
ProjectionHeldNow ==
  \A a \in Accounts, r \in Requests :
    /\ deviceLimit'[a] # deviceLimit[a]
    /\ Registers(r) /\ req[r].account = a
    => req[r].pc \notin {"checkout", "account"}

LEMMA AccessKept ==
  ASSUME IInv, AccessStands, ProjectionHeldNow, NEW r \in Requests, Others(r),
         req'[r].pc \in {"checkout", "account"} =>
           req'[r].limit = IF Registers(r)' THEN deviceLimit'[req'[r].account] ELSE 0
  PROVE  AccessStands'
<1> SUFFICES ASSUME NEW s \in Requests, s # r, req'[s].pc \in {"checkout", "account"}
             PROVE  req'[s].limit = IF Registers(s)' THEN deviceLimit'[req'[s].account] ELSE 0
  BY DEF AccessStands
<1>1. req'[s] = req[s] /\ (Registers(s)' <=> Registers(s))
  BY DEF Others, Registers
<1>2. Registers(s) => req[s].account \in Accounts
  BY DEF IInv, RequestInv, WellFormed, Registers
<1> QED
  BY <1>1, <1>2 DEF AccessStands, ProjectionHeldNow

LEMMA AccessStep ==
  ASSUME IInv, AccessStands, ProjectionHeldNow, [Next]_vars
  PROVE  AccessStands'
<1>0. TypeOK /\ \A r \in Requests : WellFormed(r) /\ req[r] \in Request
  BY DEF IInv, RequestInv, TypeOK
<1>1. ASSUME NEW r \in Requests, Others(r), req'[r].pc \notin {"checkout", "account"}
      PROVE  AccessStands'
  BY <1>1, AccessKept
<1>2. ASSUME NEW r \in Requests, Rollback(r) PROVE AccessStands'
  <2>1. Others(r) /\ req'[r].pc = "idle"
    BY <1>0, <1>2 DEF Rollback, TypeOK, Others, Idle, Doing
  <2> QED
    BY <1>1, <2>1
<1>3. ASSUME NEW r \in Requests, Start(r) PROVE AccessStands'
  <2>1. CASE \E a \in Accounts, d \in Devices : BeginRevoke(r, a, d)
    <3>1. Others(r) /\ req'[r].op = "revoke" /\ req'[r].limit = 0
      BY <1>0, <2>1 DEF BeginRevoke, Doing, TypeOK, Others
    <3> QED
      BY <3>1, AccessKept DEF Registers
  <2>2. CASE ~\E a \in Accounts, d \in Devices : BeginRevoke(r, a, d)
    <3>1. PICK pc, op, a, d, c, k, t :
            /\ pc \in {"sync", "device", "context"}
            /\ req' = [req EXCEPT ![r] = Doing(pc, op, a, d, c, k, t)]
      BY <1>3, <2>2 DEF Start, CreateActivationChallenge, CreateRefreshChallenge,
                        CreateEnrollmentChallenge, BeginCompletion, Begin
    <3>2. Others(r) /\ req'[r].pc = pc
      BY <1>0, <3>1 DEF TypeOK, Others, Doing
    <3> QED
      BY <1>1, <3>1, <3>2
  <2> QED
    BY <2>1, <2>2
<1>4. ASSUME NEW r \in Requests, SyncBilling(r) \/ PersistChallenge(r) \/ CommitLicence(r) \/ CommitRevoke(r)
      PROVE  AccessStands'
  <2>1. \/ req' = [req EXCEPT ![r] = Idle]
        \/ req' = [req EXCEPT ![r] = [@ EXCEPT !.pc = "persist"]]
    BY <1>4 DEF SyncBilling, PersistChallenge, CommitLicence, CommitRevoke
  <2>2. Others(r) /\ req'[r].pc \in {"idle", "persist"}
    BY <1>0, <2>1 DEF TypeOK, Others, Idle, Doing, Request
  <2> QED
    BY <1>1, <2>2
<1>5. ASSUME NEW r \in Requests, ReadContext(r) PROVE AccessStands'
  <2>1. CASE req[r].op = "refresh"
    <3>1. req[r].op \in Purposes /\ req[r].account \in Accounts
      BY <1>0, <2>1 DEF WellFormed, Purposes
    <3>2. deviceLimit[req[r].account] \in Nat /\ Stamped(r, "commit", deviceLimit[req[r].account])
      BY <1>0, <1>5, <2>1, <3>1, LimitsType DEF ReadContext, TypeOK
    <3> QED
      BY <1>0, <1>1, <3>2, StampedFields
  <2>2. CASE req[r].op # "refresh"
    <3>1. /\ Others(r) /\ req'[r].limit = deviceLimit[req[r].account]
          /\ req'[r].op = req[r].op /\ req'[r].account = req[r].account
          /\ UNCHANGED deviceLimit /\ req[r].pc = "context"
      <4>1. req' = [req EXCEPT ![r] =
              [req[r] EXCEPT !.limit = deviceLimit[req[r].account],
                             !.pc = IF req[r].op = "activate" THEN "checkout" ELSE "account"]]
        BY <1>5, <2>2 DEF ReadContext
      <4>2. UNCHANGED deviceLimit /\ req[r].pc = "context"
        BY <1>5 DEF ReadContext, rowVars
      <4> QED
        BY <1>0, <4>1, <4>2 DEF TypeOK, Others, Request
    <3>2. Registers(r)'
      BY <1>0, <2>2, <3>1 DEF WellFormed, Registers, Creations, Request, Purposes
    <3> QED
      BY <3>1, <3>2, AccessKept
  <2> QED
    BY <2>1, <2>2
<1>6. ASSUME NEW r \in Requests, req[r].pc = "checkout", Goto(r, "account"), UNCHANGED deviceLimit
      PROVE  AccessStands'
  <2>1. Others(r) /\ SameSubject(r) /\ req'[r].limit = req[r].limit
    BY <1>0, <1>6, GotoFields DEF Counters
  <2> QED
    BY <1>6, <2>1, AccessKept DEF AccessStands, SameSubject, Registers
<1>7. ASSUME NEW r \in Requests, NEW pc \in {"device", "insert", "commit", "context"}, Goto(r, pc)
      PROVE  AccessStands'
  BY <1>0, <1>1, <1>7, GotoFields DEF Counters
<1>8. ASSUME NEW r \in Requests, Stamped(r, "commit", req[r].limit) PROVE AccessStands'
  BY <1>0, <1>1, <1>8, StampedFields DEF Request
<1>9. ASSUME NEW r \in Requests, LockCheckout(r) PROVE AccessStands'
  BY <1>2, <1>6, <1>9 DEF LockCheckout, rowVars
<1>10. ASSUME NEW r \in Requests,
              LockAccount(r) \/ NoDevice(r) \/ LockDevice(r) \/ InsertDevice(r)
       PROVE  AccessStands'
  BY <1>2, <1>7, <1>8, <1>10 DEF LockAccount, NoDevice, LockDevice, InsertDevice
<1>11. ASSUME NEW r \in Requests,
              \/ Replay(r) \/ UnusableContext(r) \/ SubscriptionEnded(r)
              \/ DeadlockVictim(r) \/ ConnectionLost(r)
       PROVE  AccessStands'
  BY <1>2, <1>11 DEF Replay, UnusableContext, SubscriptionEnded, DeadlockVictim, ConnectionLost
<1>12. ASSUME UNCHANGED req PROVE AccessStands'
  <2>1. \A s \in Requests : Registers(s) => req[s].account \in Accounts
    BY <1>0 DEF WellFormed, Registers
  <2> QED
    BY <1>12, <2>1 DEF AccessStands, ProjectionHeldNow, Registers
<1>13. CASE Tick \/ UNCHANGED vars \/ \E a \in Accounts : WebhookSync(a)
  BY <1>12, <1>13 DEF Tick, vars, WebhookSync
<1> QED
  BY <1>3, <1>4, <1>5, <1>9, <1>10, <1>11, <1>13 DEF Next, Continue

\* The documented order (access is rechecked under the account lock,
\* LICENSE_PROTOCOL_V1.md:142) is missed only when the projection of the account changes
\* between the reading of the context and that lock (license-service.ts:252-277,
\* 313-332): if it stands still there, nothing else makes the answer stale.
THEOREM StaleAccessHasOneCause == Spec /\ ProjectionHeld => AccessRecheckedUnderLock
<1>1. Init => AccessStands
  BY DEF Init, AccessStands, Idle, Doing
<1>2. IInv /\ AccessStands /\ [Next]_vars /\ [ProjectionHeldNow]_vars => AccessStands'
  <2>1. CASE UNCHANGED vars
    BY <2>1 DEF vars, AccessStands, Registers
  <2> QED
    BY <2>1, AccessStep
<1>3. AccessStands =>
        \A r \in Requests : req[r].pc = "account" /\ req'[r].pc = "device"
          => req[r].limit \in {0, deviceLimit[req[r].account]}
  BY DEF AccessStands
<1> QED
  BY <1>1, <1>2, <1>3, Invariance, PTL DEF Spec, ProjectionHeld, ProjectionHeldNow, AccessRecheckedUnderLock

=============================================================================
