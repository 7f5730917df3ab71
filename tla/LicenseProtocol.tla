-------------------------- MODULE LicenseProtocol --------------------------
(***************************************************************************)
(* The licence protocol from end to end: one installation of the client,   *)
(* whose commands (activate, enroll, refresh) talk to the licence service  *)
(* over a network that may lose, delay and repeat requests, and whose      *)
(* camera features ask the stored token for permission offline.            *)
(*                                                                         *)
(* A transaction of the service is one step here (LicenseService is the    *)
(* model of their interleavings).  What counts is what the two programs    *)
(* compute from the same licence with clocks that differ: the service from *)
(* clock, the client from clock + offset.                                  *)
(***************************************************************************)
EXTENDS Integers

CONSTANTS
  Commands,      \* client commands that may run at the same time
  Challenges,    \* slots for challenge rows
  Plans,         \* what the projection of Stripe may say, see Plan
  Offsets,       \* client clock minus service clock
  TTL,           \* LICENSE_TTL_DAYS
  RefreshAfter,  \* LICENSE_REFRESH_AFTER_DAYS
  GraceTTL,      \* OFFLINE_GRACE_DAYS
  ChallengeTTL,  \* CHALLENGE_TTL_SECONDS
  MaxLifetime,   \* _MAXIMUM_TOKEN_LIFETIME_SECONDS, the schema's 30 days
  MaxGrace,      \* _MAXIMUM_GRACE_SECONDS, the schema's 7 days
  MaxChallenge,  \* _MAXIMUM_CHALLENGE_LIFETIME_SECONDS
  Skew,          \* clock_skew_seconds
  MaxTime,       \* bound on the clock
  MaxFaults,     \* bound on lost messages and killed commands
  None

\* Lookup keys of Stripe features and what the default policy makes of them.
LookupKeys == {"camera_live", "adaptive_optics", "devices", "pro", "offline_grace"}
Features == {"camera.live", "optics.adaptive"}

\* subscription: which subscription of the account is eligible, the one the
\* Checkout Session bought or another one; end: its current_period_end.
Plan == [keys : SUBSET LookupKeys,
         subscription : {"none", "bought", "other"},
         end : Nat \cup {None}]

ASSUME PlansAssumption == Plans \subseteq Plan
ASSUME OffsetsAssumption == Offsets \subseteq Int
ASSUME SlotsAssumption == None \notin Challenges \cup Nat

\* env.ts:54-57 and the limits both programs enforce on a token.
ASSUME NumbersAssumption ==
  /\ TTL \in 1 .. MaxLifetime
  /\ RefreshAfter \in Nat \ {0}
  /\ GraceTTL \in 0 .. MaxGrace
  /\ ChallengeTTL \in 1 .. MaxChallenge
  /\ MaxLifetime \in Nat /\ MaxGrace \in Nat /\ MaxChallenge \in Nat
  /\ Skew \in Nat /\ MaxTime \in Nat /\ MaxFaults \in Nat

VARIABLES
  clock,      \* time at the service
  offset,     \* how far the client's clock is ahead
  plan,       \* the projection of Stripe for the account
  device,     \* the installation's row in devices: "absent", "active", "revoked"
  checkout,   \* the Checkout Session: "open" or "consumed"
  challenge,  \* license_challenges, each with its completion request (sent)
              \* and the licence it has bought
  command,    \* what each command of the client is doing
  store,      \* license.token
  faults,
  eligible    \* last time the device was entitled to a licence (history)

serviceVars == <<plan, device, checkout, challenge>>
vars == <<clock, offset, plan, device, checkout, challenge, command,
          store, faults, eligible>>

Ops == {"activate", "enroll", "refresh"}

Licence == [iat : Nat, exp : Nat, grace_until : Nat, features : SUBSET Features]
Challenge == [op : Ops, expires : Nat, sent : BOOLEAN, licence : Licence \cup {None}]
ASSUME NoRowAssumption == None \notin Challenge \cup Licence
Answer == [licence : Licence, status : {"active", "grace"}, refresh_after : Nat, at : Nat]

Idle == [pc |-> "idle", op |-> "refresh", challenge |-> None, answer |-> None]

TypeOK ==
  /\ clock \in Nat /\ offset \in Offsets /\ plan \in Plans
  /\ device \in {"absent", "active", "revoked"}
  /\ checkout \in {"open", "consumed"}
  /\ challenge \in [Challenges -> Challenge \cup {None}]
  /\ command \in [Commands ->
       [pc : {"idle", "ask", "sign", "complete", "verify", "save"},
        op : Ops, challenge : Challenges \cup {None}, answer : Answer \cup {None}]]
  /\ store \in Licence \cup {None}
  /\ faults \in 0 .. MaxFaults
  /\ eligible \in Nat \cup {-1}

Lesser(m, n) == IF m < n THEN m ELSE n
Greater(m, n) == IF m > n THEN m ELSE n

-----------------------------------------------------------------------------
(***************************************************************************)
(* What the service computes                                               *)
(***************************************************************************)
FeatureOf == [k \in {"camera_live", "adaptive_optics"} |->
  IF k = "camera_live" THEN "camera.live" ELSE "optics.adaptive"]

\* Mutant: lookup keys that the policy does not map are passed on.
ProjectEntitlementsRaw(keys) ==
  [entitlements |-> keys,
   deviceLimit |-> IF "devices" \in keys THEN 1 ELSE 0,
   tier |-> IF "pro" \in keys THEN "pro" ELSE "none",
   offlineGracePermitted |-> "offline_grace" \in keys]

\* projectEntitlements with the default policy.
ProjectEntitlements(keys) ==
  [entitlements |-> {FeatureOf[k] : k \in keys \cap DOMAIN FeatureOf},
   deviceLimit |-> IF "devices" \in keys THEN 1 ELSE 0,
   tier |-> IF "pro" \in keys THEN "pro" ELSE "none",
   offlineGracePermitted |-> "offline_grace" \in keys]

\* getLicenseContext finds an entitlement and a subscription.
HasContext(p) ==
  LET projected == ProjectEntitlements(p.keys) IN
  /\ projected.deviceLimit >= 1
  /\ projected.entitlements # {}
  /\ projected.tier # "none"
  /\ p.subscription # "none"

\* licenseTimes and claimsFor (nbf is always iat - 5, so that the checks on iat
\* subsume those on nbf).
Expiry(p, t) == IF p.end = None THEN t + TTL ELSE Lesser(t + TTL, p.end)
Claims(p, t) ==
  [iat |-> t,
   exp |-> Expiry(p, t),
   grace_until |-> Expiry(p, t)
     + (IF ProjectEntitlements(p.keys).offlineGracePermitted THEN GraceTTL ELSE 0),
   features |-> ProjectEntitlements(p.keys).entitlements]

\* A licence can be issued now: there is a context and its period has not ended.
Eligible(p, t) == HasContext(p) /\ Expiry(p, t) > t

Half(l) == Greater(1, Lesser(RefreshAfter, (l.exp - l.iat) \div 2))

FreshAnswer(l, t) ==
  [licence |-> l, status |-> "active", refresh_after |-> t + Half(l), at |-> t]

\* Mutant: a replayed licence is always called active.
ReplayedActive(l, t) ==
  [licence |-> l, status |-> "active",
   refresh_after |-> Lesser(l.grace_until, Greater(t, l.iat + Half(l))), at |-> t]

ReplayedAnswer(l, t) ==
  [licence |-> l,
   status |-> IF t <= l.exp THEN "active" ELSE "grace",
   refresh_after |-> Lesser(l.grace_until, Greater(t, l.iat + Half(l))),
   at |-> t]

-----------------------------------------------------------------------------
(***************************************************************************)
(* What the client checks                                                  *)
(***************************************************************************)
ClientClock == clock + offset

\* _validate_claims, and require; the bindings to issuer, audience and device
\* hold for every licence the service issues to this device.
Acceptable(l, now, required) ==
  /\ l.exp > l.iat
  /\ l.exp - l.iat <= MaxLifetime
  /\ l.grace_until \in l.exp .. l.exp + MaxGrace
  /\ l.iat <= now + Skew
  /\ now <= l.grace_until
  /\ required \subseteq l.features
  /\ l.features # {}

Status(l, now) == IF now <= l.exp THEN "active" ELSE "grace"

\* _exchange_token.
AnswerAccepted(a, now) ==
  /\ Acceptable(a.licence, now, {"camera.live"})
  /\ a.status = Status(a.licence, now)
  /\ a.refresh_after <= a.licence.grace_until

\* StoredEntitlementAuthorizer: the token is read and verified at every use.
Authorized(required) == store # None /\ Acceptable(store, ClientClock, required)

-----------------------------------------------------------------------------
(***************************************************************************)
(* Actions                                                                 *)
(***************************************************************************)
\* History: the last instant at which the service would have issued a licence.
Watch ==
  eligible' = IF device' = "active" /\ Eligible(plan', clock') THEN clock' ELSE eligible

Init ==
  /\ clock = 0
  /\ offset \in Offsets
  /\ plan \in Plans
  /\ device = "absent"
  /\ checkout = "open"
  /\ challenge = [c \in Challenges |-> None]
  /\ command = [p \in Commands |-> Idle]
  /\ store = None
  /\ faults = 0
  /\ eligible = -1

Goto(p, pc) == [command EXCEPT ![p].pc = pc]

\* Mutant: refresh wants a stored token to begin with.
AskWithToken(p, op) ==
  /\ command[p].pc = "idle"
  /\ op = "refresh" => store # None
  /\ command' = [command EXCEPT ![p] = [Idle EXCEPT !.pc = "ask", !.op = op]]
  /\ UNCHANGED <<clock, offset, serviceVars, store, faults, eligible>>

\* A user runs activate, enroll or refresh.
Ask(p, op) ==
  /\ command[p].pc = "idle"
  /\ command' = [command EXCEPT ![p] = [Idle EXCEPT !.pc = "ask", !.op = op]]
  /\ UNCHANGED <<clock, offset, serviceVars, store, faults, eligible>>

\* A command ends; a challenge it never answered is of no use to anyone.  Bound:
\* rows that can have no further effect are forgotten.
Ended(p) == [command EXCEPT ![p] = Idle]

Abandoned(p) ==
  [c \in Challenges |->
    IF c = command[p].challenge /\ (~challenge[c].sent \/ challenge[c].licence # None)
    THEN None ELSE challenge[c]]

\* Challenge creation.  The projection has just been refreshed from Stripe.
ChallengeGranted(op) ==
  CASE op = "activate" -> checkout = "open" /\ plan.subscription = "bought"
    [] op = "enroll"   -> HasContext(plan)
    [] op = "refresh"  -> device = "active"

\* Mutant: the end of the challenge is rounded up to the next second.
NewChallengeRoundedUp(op) ==
  [op |-> op, expires |-> clock + ChallengeTTL + 1, sent |-> FALSE, licence |-> None]

\* persistChallenge.
NewChallenge(op) ==
  [op |-> op, expires |-> clock + ChallengeTTL, sent |-> FALSE, licence |-> None]

CreateChallenge(p) ==
  /\ command[p].pc = "ask"
  /\ \/ /\ ChallengeGranted(command[p].op)
        /\ \E c \in Challenges :
             /\ challenge[c] = None
             /\ challenge' = [challenge EXCEPT ![c] = NewChallenge(command[p].op)]
             /\ command' = [command EXCEPT ![p].pc = "sign", ![p].challenge = c]
     \/ /\ ~ChallengeGranted(command[p].op)
        /\ command' = Ended(p)
        /\ UNCHANGED challenge
  /\ UNCHANGED <<clock, offset, plan, device, checkout, store, faults, eligible>>

\* _request_challenge checks the lifetime against the client's clock; the
\* command then signs the text and sends it back.
SignChallenge(p) ==
  LET c == command[p].challenge IN
  /\ command[p].pc = "sign"
  /\ IF challenge[c].expires \in ClientClock + 1 .. ClientClock + MaxChallenge
     THEN /\ command' = Goto(p, "complete")
          /\ challenge' = [challenge EXCEPT ![c].sent = TRUE]
     ELSE /\ command' = Ended(p)
          /\ challenge' = Abandoned(p)
  /\ UNCHANGED <<clock, offset, plan, device, checkout, store, faults, eligible>>

\* Mutant: refresh does not look at the device.
MayIssueRevoked(c) ==
  /\ challenge[c].licence = None
  /\ challenge[c].expires > clock
  /\ Eligible(plan, clock)
  /\ challenge[c].op = "activate" => checkout = "open" /\ plan.subscription = "bought"
  /\ challenge[c].op # "refresh" => device # "revoked"

\* The checks of activateDevice, enrollAdditionalDevice, refreshDeviceLicense.
MayIssue(c) ==
  /\ challenge[c].licence = None
  /\ challenge[c].expires > clock
  /\ Eligible(plan, clock)
  /\ challenge[c].op = "activate" => checkout = "open" /\ plan.subscription = "bought"
  /\ IF challenge[c].op = "refresh" THEN device = "active" ELSE device # "revoked"

MayReplay(c) ==
  /\ challenge[c].licence # None
  /\ clock <= challenge[c].licence.grace_until
  /\ challenge[c].op = "refresh" => device = "active"

Sent(c) == challenge[c] # None /\ challenge[c].sent
Waiting(c) == {p \in Commands : command[p].pc = "complete" /\ command[p].challenge = c}

Answered(c, a) ==
  [p \in Commands |-> IF p \in Waiting(c)
                      THEN [command[p] EXCEPT !.pc = "verify", !.challenge = None, !.answer = a]
                      ELSE command[p]]

\* The completion request for c reaches the service, perhaps long after its
\* command has given up.  Its answer may be lost on the way back, and the same
\* request arrives once more.
Issue(c) ==
  LET l == Claims(plan, clock) IN
  /\ Sent(c)
  /\ MayIssue(c)
  /\ device' = IF challenge[c].op = "refresh" THEN device ELSE "active"
  /\ checkout' = IF challenge[c].op = "activate" THEN "consumed" ELSE checkout
  /\ \/ /\ challenge' = [challenge EXCEPT ![c] = None]
        /\ command' = Answered(c, FreshAnswer(l, clock))
        /\ UNCHANGED faults
     \/ /\ Waiting(c) # {}
        /\ faults < MaxFaults
        /\ faults' = faults + 1
        /\ challenge' = [challenge EXCEPT ![c].licence = l]
        /\ UNCHANGED command
  /\ UNCHANGED <<clock, offset, plan, store>>
  /\ Watch

Replay(c) ==
  /\ Sent(c)
  /\ MayReplay(c)
  /\ challenge' = [challenge EXCEPT ![c] = None]
  /\ command' = Answered(c, ReplayedAnswer(challenge[c].licence, clock))
  /\ UNCHANGED <<clock, offset, plan, device, checkout, store, faults, eligible>>

\* Everything else is refused; a registration also when the account has no
\* room for another device.
Refuse(c) ==
  /\ Sent(c)
  /\ ~MayReplay(c)
  /\ \/ ~MayIssue(c)
     \/ challenge[c].op # "refresh" /\ device = "absent"
  /\ challenge' = [challenge EXCEPT ![c] = None]
  /\ command' = [p \in Commands |-> IF p \in Waiting(c) THEN Idle ELSE command[p]]
  /\ UNCHANGED <<clock, offset, plan, device, checkout, store, faults, eligible>>

\* Mutant: the token is stored before it is verified.
VerifyAnswerNever(p) ==
  /\ command[p].pc = "verify"
  /\ command' = Goto(p, "save")
  /\ UNCHANGED <<clock, offset, serviceVars, store, faults, eligible>>

VerifyAnswer(p) ==
  /\ command[p].pc = "verify"
  /\ command' = IF AnswerAccepted(command[p].answer, ClientClock)
                THEN Goto(p, "save") ELSE Ended(p)
  /\ UNCHANGED <<clock, offset, serviceVars, store, faults, eligible>>

\* LicenseStore.save: the token is written aside, synced and renamed.
Save(p) ==
  /\ command[p].pc = "save"
  /\ store' = command[p].answer.licence
  /\ command' = Ended(p)
  /\ UNCHANGED <<clock, offset, serviceVars, faults, eligible>>

\* A message is lost, a timeout expires or the command is killed, also in the
\* middle of a save, which leaves the old token in place.
Fail(p) ==
  /\ command[p].pc # "idle"
  /\ faults < MaxFaults
  /\ faults' = faults + 1
  /\ command' = Ended(p)
  /\ challenge' = Abandoned(p)
  /\ UNCHANGED <<clock, offset, plan, device, checkout, store, eligible>>

StripeChange ==
  /\ plan' \in Plans
  /\ UNCHANGED <<clock, offset, device, checkout, challenge, command, store, faults>>
  /\ Watch

Revoke ==
  /\ device = "active"
  /\ device' = "revoked"
  /\ UNCHANGED <<clock, offset, plan, checkout, challenge, command, store,
                 faults, eligible>>

Tick ==
  /\ clock < MaxTime
  /\ clock' = clock + 1
  /\ UNCHANGED <<offset, serviceVars, command, store, faults>>
  /\ Watch

Run(p) == CreateChallenge(p) \/ SignChallenge(p) \/ VerifyAnswer(p) \/ Save(p)
Serve(c) == Issue(c) \/ Replay(c) \/ Refuse(c)

Next ==
  \/ \E p \in Commands : Run(p) \/ Fail(p) \/ \E op \in Ops : Ask(p, op)
  \/ \E c \in Challenges : Serve(c)
  \/ StripeChange \/ Revoke \/ Tick

Spec == Init /\ [][Next]_vars

\* Commands that have begun go on and their requests are answered; the user
\* runs refresh again and again.
FairSpec ==
  /\ Spec
  /\ \A p \in Commands : WF_vars(Run(p)) /\ SF_vars(Ask(p, "refresh"))
  /\ \A c \in Challenges : WF_vars(Serve(c))

-----------------------------------------------------------------------------
\* The client's clock is within the licence, and on the same side of its exp as the
\* service's clock was when it answered.
SameSide(a) ==
  /\ ClientClock \in a.licence.iat - Skew .. a.licence.grace_until
  /\ a.at <= a.licence.exp <=> ClientClock <= a.licence.exp

\* The two programs agree on a licence, fresh or replayed, in the period or in grace.
\* An answer with camera.live is never thrown away when it is verified within the
\* second in which it was given and the clocks agree, or the answer is fresh and the
\* client's clock is up to clock_skew behind; nor, whatever the delay and the
\* difference of the clocks, as long as SameSide holds (license-service.ts:33-82
\* against activation.py:341-365 and entitlement.py:304-337).  The challenge is spent
\* by then, and a Checkout Session with it.  The reservation of SameSide is real: near
\* exp, activation.py:360 does refuse a valid licence of which the two clocks differ.
AnswersAgree ==
  \A p \in Commands :
    /\ command[p].pc = "verify"
    /\ \/ command[p].answer.at = clock /\ offset = 0
       \/ /\ command[p].answer.at = clock /\ command[p].answer.licence.iat = clock
          /\ offset \in -Skew .. 0
       \/ SameSide(command[p].answer)
    /\ "camera.live" \in command[p].answer.licence.features
    => AnswerAccepted(command[p].answer, ClientClock)

\* However late, lost or repeated the messages are, a client uses the camera no
\* longer, by its own clock, than one lifetime and one grace period after the device
\* was last active on an eligible account (billing/README.md:252).
ExposureBounded ==
  Authorized({"camera.live"}) => ClientClock <= eligible + TTL + GraceTTL

\* Only tokens that were verified to carry camera.live get into the store
\* (activation.py:351-365): a purchase without it never replaces a token with it.
StoreHoldsVerified ==
  store # None =>
    /\ "camera.live" \in store.features
    /\ store.iat <= clock
    /\ store.exp > store.iat

Served ==
  /\ device = "active" /\ Eligible(plan, clock)
  /\ "camera_live" \in plan.keys
  /\ offset \in -Skew .. 0

\* A device that is registered gets a licence in the end if its user keeps
\* running refresh: an activation whose answer was lost, or whose answer was not
\* stored, needs no second Checkout Session (cli.py:264-273, challenges.ts:132-161).
RefreshRecovers == <>[]Served => []<>Authorized({"camera.live"})

-----------------------------------------------------------------------------
(***************************************************************************)
(* The inductive invariant behind the theorems of LicenseProtocolProofs    *)
(***************************************************************************)
\* A licence the service has issued, no later than the device was last entitled.
Genuine(l) ==
  /\ l \in Licence
  /\ l.iat <= clock /\ l.iat <= eligible
  /\ l.exp > l.iat /\ l.exp <= l.iat + TTL
  /\ l.grace_until >= l.exp /\ l.grace_until <= l.exp + GraceTTL

\* An answer about it, true when it was given.
Truthful(a) ==
  /\ a \in Answer
  /\ Genuine(a.licence)
  /\ a.at <= clock /\ a.licence.iat <= a.at /\ a.at <= a.licence.grace_until
  /\ a.status = Status(a.licence, a.at)
  /\ a.refresh_after <= a.licence.grace_until

\* A command has a challenge of its own from its creation to its answer.
OwnChallenge ==
  \A p \in Commands :
    LET c == command[p].challenge IN
    /\ c # None <=> command[p].pc \in {"sign", "complete"}
    /\ c # None => challenge[c] # None
    /\ command[p].pc = "sign" => ~challenge[c].sent
    /\ \A q \in Commands : c # None /\ command[q].challenge = c => p = q

IssuedAreGenuine ==
  \A c \in Challenges : challenge[c] # None /\ challenge[c].licence # None =>
    Genuine(challenge[c].licence)

AnswersAreTruthful ==
  \A p \in Commands :
    /\ command[p].pc \in {"verify", "save"} => Truthful(command[p].answer)
    /\ command[p].pc = "save" => "camera.live" \in command[p].answer.licence.features

StoreIsGenuine == store # None => Genuine(store) /\ "camera.live" \in store.features

IInv ==
  /\ TypeOK
  /\ eligible <= clock
  /\ OwnChallenge
  /\ IssuedAreGenuine
  /\ AnswersAreTruthful
  /\ StoreIsGenuine

\* The stored licence is never replaced by an older one.
StoreGoesForward == [][store # None => store' # None /\ store'.iat >= store.iat]_vars

\* A command only begins when no other command of the installation is running:
\* nothing in the client makes two of them wait for one another.
OneCommandAtATime ==
  [][\A p \in Commands, op \in Ops :
       Ask(p, op) => \A q \in Commands : command[q].pc = "idle"]_vars

\* The inductive invariant under OneCommandAtATime: what a command may still store is
\* no older than what is stored.
Alone == \A p, q \in Commands : command[p].pc # "idle" /\ command[q].pc # "idle" => p = q

NewerThanStored ==
  store # None =>
    \A p \in Commands :
      /\ command[p].pc \in {"verify", "save"} => command[p].answer.licence.iat >= store.iat
      /\ command[p].pc \in {"sign", "complete"} =>
           LET bought == challenge[command[p].challenge].licence IN
           bought # None => bought.iat >= store.iat

\* A challenge is younger than its lifetime says.
ExpiryInv ==
  \A c \in Challenges : challenge[c] # None => challenge[c].expires <= clock + ChallengeTTL

\* A client whose clock is not too far behind never finds a challenge too long-lived,
\* however late it arrives.  With CHALLENGE_TTL_SECONDS at its maximum of 900, which
\* is also the client's limit, one second behind is too far (env.ts:57 against
\* activation.py:330).
NeverTooLong ==
  offset >= ChallengeTTL - MaxChallenge =>
    \A p \in Commands : command[p].pc = "sign" =>
      challenge[command[p].challenge].expires <= ClientClock + MaxChallenge

=============================================================================
