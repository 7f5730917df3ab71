------------------------ MODULE LicenseProtocolProofs ------------------------
(***************************************************************************)
(* Theorems about the licence protocol, for any number of commands and     *)
(* challenges, any plans, clock offsets, lifetimes, delays and faults.     *)
(***************************************************************************)
EXTENDS LicenseProtocol, TLAPS

(***************************************************************************)
(* What is computed                                                        *)
(***************************************************************************)
LEMMA Numbers ==
  /\ TTL \in Nat /\ TTL >= 1 /\ TTL <= MaxLifetime
  /\ GraceTTL \in Nat /\ GraceTTL <= MaxGrace
  /\ ChallengeTTL \in Nat /\ RefreshAfter \in Nat /\ RefreshAfter >= 1
  /\ MaxLifetime \in Nat /\ MaxGrace \in Nat /\ Skew \in Nat /\ MaxFaults \in Nat
BY NumbersAssumption

\* The licence of an eligible plan is genuine when it is issued.
LEMMA ClaimsAreGenuine ==
  ASSUME clock \in Nat, NEW p \in Plans, Eligible(p, clock)
  PROVE  LET l == Claims(p, clock) IN
         /\ l \in Licence /\ l.iat = clock
         /\ l.exp > l.iat /\ l.exp <= l.iat + TTL
         /\ l.grace_until >= l.exp /\ l.grace_until <= l.exp + GraceTTL
<1> DEFINE l == Claims(p, clock)
           projected == ProjectEntitlements(p.keys)
<1>1. p \in Plan /\ p.end \in Nat \cup {None} /\ p.keys \subseteq LookupKeys
  BY PlansAssumption DEF Plan
<1>2. Expiry(p, clock) \in Nat /\ Expiry(p, clock) > clock /\ Expiry(p, clock) <= clock + TTL
  BY <1>1, Numbers DEF Eligible, Expiry, Lesser
<1>3. projected.entitlements \subseteq Features
  <2>1. projected.entitlements = {FeatureOf[k] : k \in p.keys \cap DOMAIN FeatureOf}
    BY DEF ProjectEntitlements
  <2>2. \A k \in DOMAIN FeatureOf : FeatureOf[k] \in Features
    BY DEF FeatureOf, Features
  <2> QED
    BY <2>1, <2>2
<1>4. /\ l.iat = clock /\ l.exp = Expiry(p, clock)
      /\ l.grace_until = Expiry(p, clock)
           + (IF projected.offlineGracePermitted THEN GraceTTL ELSE 0)
      /\ l.features = projected.entitlements
      /\ l = [iat |-> l.iat, exp |-> l.exp, grace_until |-> l.grace_until, features |-> l.features]
  BY DEF Claims
<1>5. l.grace_until \in Nat /\ l.grace_until >= l.exp /\ l.grace_until <= l.exp + GraceTTL
  BY <1>2, <1>4, Numbers
<1> HIDE DEF l, projected
<1>6. l \in Licence
  BY <1>2, <1>3, <1>4, <1>5 DEF Licence
<1> QED
  BY <1>2, <1>4, <1>5, <1>6 DEF l

LEMMA HalfBounds ==
  ASSUME NEW l \in Licence, l.exp > l.iat
  PROVE  Half(l) \in Nat /\ Half(l) >= 1 /\ l.iat + Half(l) <= l.exp
<1>1. l.exp \in Nat /\ l.iat \in Nat
  BY DEF Licence
<1>2. /\ (l.exp - l.iat) \div 2 \in Int
      /\ (l.exp - l.iat) \div 2 <= l.exp - l.iat
  BY <1>1
<1> QED
  BY <1>1, <1>2, Numbers DEF Half, Greater, Lesser

LEMMA ReplayedIsTruthful ==
  ASSUME clock \in Nat, NEW l \in Licence, Genuine(l), clock <= l.grace_until
  PROVE  Truthful(ReplayedAnswer(l, clock))
<1>1. l.exp \in Nat /\ l.iat \in Nat /\ l.grace_until \in Nat
  BY DEF Licence
<1>2. Half(l) \in Nat
  BY HalfBounds DEF Genuine
<1> DEFINE a == ReplayedAnswer(l, clock)
<1>3. /\ a.licence = l /\ a.status = (IF clock <= l.exp THEN "active" ELSE "grace") /\ a.at = clock
      /\ a.refresh_after = Lesser(l.grace_until, Greater(clock, l.iat + Half(l)))
      /\ a = [licence |-> a.licence, status |-> a.status, refresh_after |-> a.refresh_after, at |-> a.at]
  BY DEF ReplayedAnswer
<1> HIDE DEF a
<1>4. a.refresh_after \in Nat /\ a.refresh_after <= l.grace_until
  BY <1>1, <1>2, <1>3 DEF Lesser, Greater
<1>5. a \in Answer
  BY <1>3, <1>4 DEF Answer
<1>6. a.status = Status(l, clock)
  BY <1>3 DEF Status
<1> QED
  BY <1>1, <1>3, <1>4, <1>5, <1>6 DEF Truthful, Genuine, a

LEMMA IInvInit == Init => IInv
<1> SUFFICES ASSUME Init PROVE IInv
  OBVIOUS
<1>1. TypeOK
  BY Numbers DEF Init, TypeOK, Idle, Ops
<1>2. \A p \in Commands : command[p].pc = "idle" /\ command[p].challenge = None
  BY DEF Init, Idle
<1>3. OwnChallenge /\ AnswersAreTruthful
  BY <1>2 DEF OwnChallenge, AnswersAreTruthful
<1> QED
  BY <1>1, <1>3 DEF IInv, Init, IssuedAreGenuine, StoreIsGenuine

(***************************************************************************)
(* The parts that time and Watch leave alone                               *)
(***************************************************************************)
\* Genuine and Truthful stay true when the clock and the history go on.
LEMMA StaysGenuine ==
  ASSUME clock \in Nat, eligible \in Int, clock' \in Nat, eligible' \in Int,
         clock' >= clock, eligible' >= eligible
  PROVE  /\ \A l : Genuine(l) => Genuine(l)'
         /\ \A a : Truthful(a) => Truthful(a)'
<1>1. ASSUME NEW l, Genuine(l)
      PROVE  Genuine(l)'
  BY <1>1 DEF Genuine, Licence
<1>2. ASSUME NEW a, Truthful(a)
      PROVE  Truthful(a)'
  <2>1. Genuine(a.licence)'
    BY <1>2, <1>1 DEF Truthful
  <2>2. a.at <= clock'
    BY <1>2 DEF Truthful, Answer
  <2> QED
    BY <1>2, <2>1, <2>2 DEF Truthful
<1> QED
  BY <1>1, <1>2

LEMMA WatchGoesOn ==
  ASSUME TypeOK, eligible <= clock, clock' \in Nat, clock' >= clock, Watch
  PROVE  /\ eligible' \in Nat \cup {-1} /\ eligible' >= eligible /\ eligible' <= clock'
         /\ device' = "active" /\ Eligible(plan', clock') => eligible' = clock'
BY DEF TypeOK, Watch

(***************************************************************************)
(* One lemma for each part of the invariant: what a step must keep.        *)
(***************************************************************************)
Pc == {"idle", "ask", "sign", "complete", "verify", "save"}
Command == [pc : Pc, op : Ops, challenge : Challenges \cup {None}, answer : Answer \cup {None}]

\* Time does not go back, nor does what Watch has seen.
Onward == /\ clock \in Nat /\ eligible \in Int /\ clock' \in Nat /\ eligible' \in Int
          /\ clock' >= clock /\ eligible' >= eligible /\ eligible' <= clock'

LEMMA StandsStill ==
  ASSUME IInv, clock' = clock, eligible' = eligible
  PROVE  Onward
BY DEF IInv, TypeOK, Onward

LEMMA CommandFields ==
  ASSUME TypeOK, NEW p \in Commands
  PROVE  /\ command[p] \in Command
         /\ command[p].pc \in Pc /\ command[p].op \in Ops
         /\ command[p].challenge \in Challenges \cup {None}
         /\ command[p].answer \in Answer \cup {None}
BY DEF TypeOK, Command, Pc

LEMMA AnswersKept ==
  ASSUME IInv, Onward,
         \A p \in Commands : command'[p].pc \in {"verify", "save"} =>
           \/ /\ command[p].pc \in {"verify", "save"}
              /\ command'[p].answer = command[p].answer
              /\ \/ command'[p].pc = "verify"
                 \/ command[p].pc = "save"
                 \/ "camera.live" \in command[p].answer.licence.features
           \/ command'[p].pc = "verify" /\ Truthful(command[p].answer)'
  PROVE  AnswersAreTruthful'
<1>1. \A a : Truthful(a) => Truthful(a)'
  BY StaysGenuine DEF Onward
<1>2. ASSUME NEW p \in Commands, command'[p].pc \in {"verify", "save"}
      PROVE  /\ Truthful(command[p].answer)'
             /\ command'[p].pc = "save" => "camera.live" \in command'[p].answer.licence.features
  <2>1. CASE command'[p].pc = "verify" /\ Truthful(command[p].answer)'
    BY <2>1
  <2>2. CASE /\ command[p].pc \in {"verify", "save"}
             /\ command'[p].answer = command[p].answer
             /\ \/ command'[p].pc = "verify"
                \/ command[p].pc = "save"
                \/ "camera.live" \in command[p].answer.licence.features
    <3>1. Truthful(command[p].answer)
      BY <2>2 DEF IInv, AnswersAreTruthful
    <3>2. command[p].pc = "save" => "camera.live" \in command[p].answer.licence.features
      BY DEF IInv, AnswersAreTruthful
    <3>3. Truthful(command[p].answer)'
      <4>1. \A a : a = command[p].answer => Truthful(a)'
        BY <3>1, <1>1
      <4> QED
        BY <4>1, <2>2
    <3> QED
      BY <2>2, <3>2, <3>3
  <2> QED
    BY <1>2, <2>1, <2>2
<1> QED
  BY <1>2 DEF AnswersAreTruthful

LEMMA IssuedKept ==
  ASSUME IInv, Onward,
         \A c \in Challenges : challenge'[c] # None /\ challenge'[c].licence # None =>
           challenge[c] # None /\ challenge'[c].licence = challenge[c].licence
  PROVE  IssuedAreGenuine'
<1>1. \A l : Genuine(l) => Genuine(l)'
  BY StaysGenuine DEF Onward
<1>2. ASSUME NEW c \in Challenges, challenge'[c] # None, challenge'[c].licence # None
      PROVE  Genuine(challenge[c].licence)'
  <2>1. challenge'[c].licence = challenge[c].licence /\ Genuine(challenge[c].licence)
    BY <1>2 DEF IInv, IssuedAreGenuine
  <2>2. \A l : l = challenge[c].licence => Genuine(l)'
    BY <2>1, <1>1
  <2> QED
    BY <2>1, <2>2
<1> QED
  BY <1>2 DEF IssuedAreGenuine

LEMMA StoreKept ==
  ASSUME IInv, Onward, store' = store
  PROVE  StoreIsGenuine'
<1>1. \A l : Genuine(l) => Genuine(l)'
  BY StaysGenuine DEF Onward
<1>2. ASSUME store' # None
      PROVE  Genuine(store)' /\ "camera.live" \in store'.features
  <2>1. Genuine(store) /\ "camera.live" \in store.features
    BY <1>2 DEF IInv, StoreIsGenuine
  <2>2. \A l : l = store => Genuine(l)'
    BY <2>1, <1>1
  <2> QED
    BY <2>1, <2>2
<1> QED
  BY <1>2 DEF StoreIsGenuine

\* Only command p moves, and it ends up with the challenge it had, with none, or
\* with one that nobody has; the other challenges in use stay.
LEMMA OwnKept ==
  ASSUME IInv, NEW p \in Commands,
         \A q \in Commands : q # p => command'[q] = command[q],
         command'[p].challenge # None <=> command'[p].pc \in {"sign", "complete"},
         \A q \in Commands : q # p /\ command[q].challenge # None =>
           challenge'[command[q].challenge] = challenge[command[q].challenge],
         command'[p].challenge # None =>
           /\ challenge'[command'[p].challenge] # None
           /\ command'[p].pc = "sign" => ~challenge'[command'[p].challenge].sent
           /\ \A q \in Commands : q # p => command[q].challenge # command'[p].challenge
  PROVE  OwnChallenge'
<1>1. OwnChallenge
  BY DEF IInv
<1>2. ASSUME NEW q \in Commands
      PROVE  LET c == command'[q].challenge IN
             /\ c # None <=> command'[q].pc \in {"sign", "complete"}
             /\ c # None => challenge'[c] # None
             /\ command'[q].pc = "sign" => ~challenge'[c].sent
             /\ \A r \in Commands : c # None /\ command'[r].challenge = c => q = r
  <2>1. CASE q = p
    BY <2>1
  <2>2. CASE q # p
    BY <2>2, <1>1 DEF OwnChallenge
  <2> QED
    BY <2>1, <2>2
<1> QED
  BY <1>2 DEF OwnChallenge

(***************************************************************************)
(* The steps of a command                                                  *)
(***************************************************************************)
\* Typing of a step that moves one command and leaves the rest of the client alone.
LEMMA TypeKept ==
  ASSUME TypeOK, NEW p \in Commands, NEW new \in Command,
         command' = [command EXCEPT ![p] = new],
         challenge' \in [Challenges -> Challenge \cup {None}],
         store' \in Licence \cup {None}, faults' \in 0 .. MaxFaults,
         UNCHANGED <<clock, offset, plan, device, checkout, eligible>>
  PROVE  TypeOK'
BY DEF TypeOK, Command, Pc

LEMMA Moves ==
  ASSUME TypeOK, NEW p \in Commands, NEW new, command' = [command EXCEPT ![p] = new]
  PROVE  command'[p] = new /\ \A q \in Commands : q # p => command'[q] = command[q]
BY DEF TypeOK

LEMMA IdleFields ==
  /\ Idle \in Command /\ Idle.pc = "idle" /\ Idle.challenge = None
  /\ \A op \in Ops : LET new == [Idle EXCEPT !.pc = "ask", !.op = op] IN
       new \in Command /\ new.pc = "ask" /\ new.challenge = None
BY DEF Idle, Command, Pc, Ops

LEMMA GotoFields ==
  ASSUME TypeOK, NEW p \in Commands, NEW pc \in Pc
  PROVE  LET new == [command[p] EXCEPT !.pc = pc] IN
         /\ Goto(p, pc) = [command EXCEPT ![p] = new]
         /\ new \in Command /\ new.pc = pc
         /\ new.challenge = command[p].challenge /\ new.answer = command[p].answer
<1>1. command[p] \in Command /\ command \in [Commands -> Command]
  BY CommandFields DEF TypeOK, Command, Pc
<1>2. Goto(p, pc) = [command EXCEPT ![p] = [command[p] EXCEPT !.pc = pc]]
  BY DEF Goto
<1> QED
  BY <1>1, <1>2 DEF Command

LEMMA FaultCounted ==
  ASSUME TypeOK, faults < MaxFaults, faults' = faults + 1
  PROVE  faults' \in 0 .. MaxFaults
BY Numbers DEF TypeOK

LEMMA AskStep ==
  ASSUME IInv, NEW p \in Commands, NEW op \in Ops, Ask(p, op)
  PROVE  IInv'
<1> DEFINE new == [Idle EXCEPT !.pc = "ask", !.op = op]
<1>1. /\ command' = [command EXCEPT ![p] = new]
      /\ UNCHANGED <<clock, offset, plan, device, checkout, challenge, store, faults, eligible>>
  BY DEF Ask, serviceVars
<1>2. new \in Command /\ new.pc = "ask" /\ new.challenge = None
  BY IdleFields
<1> HIDE DEF new
<1>3. TypeOK /\ Onward
  BY <1>1, StandsStill DEF IInv
<1>4. command'[p] = new /\ \A q \in Commands : q # p => command'[q] = command[q]
  BY <1>1, <1>3, Moves
<1>5. TypeOK'
  <2>1. /\ challenge' \in [Challenges -> Challenge \cup {None}]
        /\ store' \in Licence \cup {None} /\ faults' \in 0 .. MaxFaults
    BY <1>1, <1>3 DEF TypeOK
  <2> QED
    BY <1>1, <1>2, <1>3, <2>1, TypeKept
<1>6. OwnChallenge'
  BY <1>1, <1>2, <1>4, OwnKept
<1>7. AnswersAreTruthful'
  BY <1>2, <1>3, <1>4, AnswersKept
<1>8. IssuedAreGenuine' /\ StoreIsGenuine'
  BY <1>1, <1>3, IssuedKept, StoreKept
<1> QED
  BY <1>3, <1>5, <1>6, <1>7, <1>8 DEF IInv, Onward

\* A command ends: the rows that others have stay, and no row gains a licence.
LEMMA EndStep ==
  ASSUME IInv, NEW p \in Commands, command' = Ended(p),
         challenge' = challenge \/ challenge' = Abandoned(p),
         store' = store \/ (Genuine(store') /\ "camera.live" \in store'.features),
         faults' \in 0 .. MaxFaults,
         UNCHANGED <<clock, offset, plan, device, checkout, eligible>>
  PROVE  IInv'
<1>1. TypeOK /\ Onward /\ OwnChallenge
  BY StandsStill DEF IInv
<1>2. Idle \in Command /\ Idle.pc = "idle" /\ Idle.challenge = None
  BY IdleFields
<1>3. command' = [command EXCEPT ![p] = Idle]
  BY DEF Ended
<1>4. command'[p] = Idle /\ \A q \in Commands : q # p => command'[q] = command[q]
  BY <1>1, <1>3, Moves
<1>5. \A c \in Challenges : challenge'[c] = challenge[c] \/ (c = command[p].challenge /\ challenge'[c] = None)
  BY DEF Abandoned
<1>6. TypeOK'
  <2>1. challenge' \in [Challenges -> Challenge \cup {None}]
    BY <1>1 DEF TypeOK, Abandoned
  <2>2. store' \in Licence \cup {None}
    BY <1>1 DEF TypeOK, Genuine
  <2> QED
    BY <1>1, <1>2, <1>3, <2>1, <2>2, TypeKept
<1>7. OwnChallenge'
  <2>1. \A q \in Commands : q # p /\ command[q].challenge # None =>
          command[q].challenge \in Challenges /\ command[q].challenge # command[p].challenge
    BY <1>1, CommandFields DEF OwnChallenge
  <2>2. \A q \in Commands : q # p /\ command[q].challenge # None =>
          challenge'[command[q].challenge] = challenge[command[q].challenge]
    BY <1>5, <2>1
  <2> QED
    BY <1>2, <1>4, <2>2, OwnKept
<1>8. AnswersAreTruthful'
  BY <1>1, <1>2, <1>4, AnswersKept
<1>9. IssuedAreGenuine'
  BY <1>1, <1>5, IssuedKept
<1>10. StoreIsGenuine'
  <2>1. CASE store' = store
    BY <2>1, <1>1, StoreKept
  <2>2. CASE Genuine(store') /\ "camera.live" \in store'.features
    <3>1. Genuine(store)'
      BY <2>2, <1>1 DEF Genuine
    <3> QED
      BY <3>1, <2>2 DEF StoreIsGenuine
  <2> QED
    BY <2>1, <2>2
<1> QED
  BY <1>1, <1>6, <1>7, <1>8, <1>9, <1>10 DEF IInv, Onward

LEMMA FailStep ==
  ASSUME IInv, NEW p \in Commands, Fail(p)
  PROVE  IInv'
<1>1. TypeOK /\ faults < MaxFaults /\ faults' = faults + 1
  BY DEF Fail, IInv
<1>2. /\ command' = Ended(p) /\ challenge' = Abandoned(p)
      /\ UNCHANGED <<clock, offset, plan, device, checkout, store, eligible>>
  BY DEF Fail
<1> QED
  BY <1>1, <1>2, FaultCounted, EndStep

LEMMA SaveStep ==
  ASSUME IInv, NEW p \in Commands, Save(p)
  PROVE  IInv'
<1>1. /\ command[p].pc = "save" /\ store' = command[p].answer.licence /\ command' = Ended(p)
      /\ UNCHANGED <<clock, offset, plan, device, checkout, challenge, faults, eligible>>
  BY DEF Save, serviceVars
<1>2. TypeOK /\ Truthful(command[p].answer) /\ "camera.live" \in command[p].answer.licence.features
  BY <1>1 DEF IInv, AnswersAreTruthful
<1>3. Genuine(store') /\ "camera.live" \in store'.features
  BY <1>1, <1>2 DEF Truthful
<1>4. faults' \in 0 .. MaxFaults
  BY <1>1, <1>2 DEF TypeOK
<1> QED
  BY <1>1, <1>3, <1>4, EndStep

LEMMA VerifyAnswerStep ==
  ASSUME IInv, NEW p \in Commands, VerifyAnswer(p)
  PROVE  IInv'
<1>1. /\ command[p].pc = "verify"
      /\ UNCHANGED <<clock, offset, plan, device, checkout, challenge, store, faults, eligible>>
  BY DEF VerifyAnswer, serviceVars
<1>2. TypeOK /\ Onward /\ faults' \in 0 .. MaxFaults
  BY <1>1, StandsStill DEF IInv, TypeOK
<1>3. CASE command' = Ended(p)
  BY <1>1, <1>2, <1>3, EndStep
<1>4. CASE AnswerAccepted(command[p].answer, ClientClock) /\ command' = Goto(p, "save")
  <2> DEFINE new == [command[p] EXCEPT !.pc = "save"]
  <2>1. /\ command' = [command EXCEPT ![p] = new]
        /\ new \in Command /\ new.pc = "save"
        /\ new.challenge = command[p].challenge /\ new.answer = command[p].answer
    BY <1>2, <1>4, GotoFields DEF Pc
  <2> HIDE DEF new
  <2>2. command'[p] = new /\ \A q \in Commands : q # p => command'[q] = command[q]
    BY <1>2, <2>1, Moves
  <2>3. command[p].challenge = None
    BY <1>1 DEF IInv, OwnChallenge
  <2>4. "camera.live" \in command[p].answer.licence.features
    BY <1>4 DEF AnswerAccepted, Acceptable
  <2>5. TypeOK'
    <3>1. /\ challenge' \in [Challenges -> Challenge \cup {None}]
          /\ store' \in Licence \cup {None}
      BY <1>1, <1>2 DEF TypeOK
    <3> QED
      BY <1>1, <1>2, <2>1, <3>1, TypeKept
  <2>6. OwnChallenge'
    BY <1>1, <2>1, <2>2, <2>3, OwnKept
  <2>7. AnswersAreTruthful'
    BY <1>1, <1>2, <2>1, <2>2, <2>4, AnswersKept
  <2>8. IssuedAreGenuine' /\ StoreIsGenuine'
    BY <1>1, <1>2, IssuedKept, StoreKept
  <2> QED
    BY <1>2, <2>5, <2>6, <2>7, <2>8 DEF IInv, Onward
<1> QED
  BY <1>3, <1>4 DEF VerifyAnswer

LEMMA CreateChallengeStep ==
  ASSUME IInv, NEW p \in Commands, CreateChallenge(p)
  PROVE  IInv'
<1>1. /\ command[p].pc = "ask"
      /\ UNCHANGED <<clock, offset, plan, device, checkout, store, faults, eligible>>
  BY DEF CreateChallenge
<1>2. TypeOK /\ Onward /\ OwnChallenge /\ faults' \in 0 .. MaxFaults
  BY <1>1, StandsStill DEF IInv, TypeOK
<1>3. CASE command' = Ended(p) /\ UNCHANGED challenge
  BY <1>1, <1>2, <1>3, EndStep
<1>4. ASSUME NEW c \in Challenges, challenge[c] = None,
             challenge' = [challenge EXCEPT ![c] = NewChallenge(command[p].op)],
             command' = [command EXCEPT ![p].pc = "sign", ![p].challenge = c]
      PROVE  IInv'
  <2> DEFINE new == [command[p] EXCEPT !.pc = "sign", !.challenge = c]
             chal == NewChallenge(command[p].op)
  <2>1. command \in [Commands -> Command] /\ command[p] \in Command
    BY <1>2 DEF TypeOK, Command, Pc
  <2>2. new \in Command /\ new.pc = "sign" /\ new.challenge = c
    BY <2>1 DEF Command, Pc
  <2>3. command' = [command EXCEPT ![p] = new]
    BY <1>4, <2>1
  <2>4. /\ chal.sent = FALSE /\ chal.licence = None
        /\ chal = [op |-> chal.op, expires |-> chal.expires, sent |-> chal.sent, licence |-> chal.licence]
        /\ chal.op \in Ops /\ chal.expires \in Nat
    BY <1>2, CommandFields, Numbers DEF TypeOK, NewChallenge
  <2> HIDE DEF new, chal
  <2>5. chal \in Challenge
    BY <2>4 DEF Challenge
  <2>6. chal # None
    BY <2>5, NoRowAssumption
  <2>7. command'[p] = new /\ \A q \in Commands : q # p => command'[q] = command[q]
    BY <1>2, <2>3, Moves
  <2>8. challenge' = [challenge EXCEPT ![c] = chal] /\ challenge \in [Challenges -> Challenge \cup {None}]
    BY <1>2, <1>4 DEF chal, TypeOK
  <2>9. challenge'[c] = chal /\ \A d \in Challenges : d # c => challenge'[d] = challenge[d]
    BY <2>8
  <2>10. challenge' \in [Challenges -> Challenge \cup {None}]
    BY <2>5, <2>8
  <2>11. TypeOK'
    <3>1. store' \in Licence \cup {None}
      BY <1>1, <1>2 DEF TypeOK
    <3> QED
      BY <1>1, <1>2, <2>2, <2>3, <2>10, <3>1, TypeKept
  <2>12. \A q \in Commands : q # p /\ command[q].challenge # None =>
           /\ command[q].challenge \in Challenges /\ command[q].challenge # c
           /\ challenge'[command[q].challenge] = challenge[command[q].challenge]
    BY <1>2, <1>4, <2>9, CommandFields DEF OwnChallenge
  <2>13. \A q \in Commands : q # p => command[q].challenge # c
    BY <2>12, SlotsAssumption
  <2>14. OwnChallenge'
    BY <2>2, <2>4, <2>6, <2>7, <2>9, <2>12, <2>13, SlotsAssumption, OwnKept
  <2>15. AnswersAreTruthful'
    BY <1>2, <2>2, <2>7, AnswersKept
  <2>16. IssuedAreGenuine' /\ StoreIsGenuine'
    BY <1>1, <1>2, <2>4, <2>9, IssuedKept, StoreKept
  <2> QED
    BY <1>2, <2>11, <2>14, <2>15, <2>16 DEF IInv, Onward
<1> QED
  BY <1>3, <1>4 DEF CreateChallenge

LEMMA SignChallengeStep ==
  ASSUME IInv, NEW p \in Commands, SignChallenge(p)
  PROVE  IInv'
<1> DEFINE c == command[p].challenge
<1>1. /\ command[p].pc = "sign"
      /\ UNCHANGED <<clock, offset, plan, device, checkout, store, faults, eligible>>
  BY DEF SignChallenge
<1>2. TypeOK /\ Onward /\ OwnChallenge /\ faults' \in 0 .. MaxFaults
  BY <1>1, StandsStill DEF IInv, TypeOK
<1>3. CASE command' = Ended(p) /\ challenge' = Abandoned(p)
  BY <1>1, <1>2, <1>3, EndStep
<1>4. CASE command' = Goto(p, "complete") /\ challenge' = [challenge EXCEPT ![c].sent = TRUE]
  <2> DEFINE new == [command[p] EXCEPT !.pc = "complete"]
             chal == [challenge[c] EXCEPT !.sent = TRUE]
  <2>1. /\ command' = [command EXCEPT ![p] = new]
        /\ new \in Command /\ new.pc = "complete"
        /\ new.challenge = c /\ new.answer = command[p].answer
    BY <1>2, <1>4, GotoFields DEF Pc
  <2>2. c \in Challenges /\ c # None /\ challenge[c] \in Challenge /\ challenge[c] # None
    BY <1>1, <1>2, CommandFields DEF OwnChallenge, TypeOK
  <2>3. chal \in Challenge /\ chal.licence = challenge[c].licence
    BY <2>2 DEF Challenge
  <2>4. challenge' = [challenge EXCEPT ![c] = chal] /\ challenge \in [Challenges -> Challenge \cup {None}]
    BY <1>2, <1>4 DEF TypeOK
  <2> HIDE DEF new, chal, c
  <2>5. chal # None
    BY <2>3, NoRowAssumption
  <2>6. command'[p] = new /\ \A q \in Commands : q # p => command'[q] = command[q]
    BY <1>2, <2>1, Moves
  <2>7. challenge'[c] = chal /\ \A d \in Challenges : d # c => challenge'[d] = challenge[d]
    BY <2>2, <2>4
  <2>8. challenge' \in [Challenges -> Challenge \cup {None}]
    BY <2>3, <2>4
  <2>9. TypeOK'
    <3>1. store' \in Licence \cup {None}
      BY <1>1, <1>2 DEF TypeOK
    <3> QED
      BY <1>1, <1>2, <2>1, <2>8, <3>1, TypeKept
  <2>10. \A q \in Commands : q # p => command[q].challenge # c
    BY <2>2, <1>2 DEF OwnChallenge, c
  <2>11. \A q \in Commands : q # p /\ command[q].challenge # None =>
           challenge'[command[q].challenge] = challenge[command[q].challenge]
    BY <1>2, <2>7, <2>10, CommandFields
  <2>12. OwnChallenge'
    BY <2>1, <2>2, <2>5, <2>6, <2>7, <2>10, <2>11, OwnKept
  <2>13. AnswersAreTruthful'
    BY <1>2, <2>1, <2>6, AnswersKept
  <2>14. IssuedAreGenuine' /\ StoreIsGenuine'
    BY <1>1, <1>2, <2>2, <2>3, <2>7, IssuedKept, StoreKept
  <2> QED
    BY <1>2, <2>9, <2>12, <2>13, <2>14 DEF IInv, Onward
<1> QED
  BY <1>3, <1>4 DEF SignChallenge

(***************************************************************************)
(* The steps of the service                                                *)
(***************************************************************************)
\* The request for c is done with: whoever waits for it goes on with an answer, or
\* ends.
LEMMA DoneStep ==
  ASSUME IInv, Onward, NEW c \in Challenges, Sent(c),
         \A p \in Commands : p \in Waiting(c) =>
           \/ command'[p] = Idle
           \/ /\ command'[p].pc = "verify" /\ command'[p].challenge = None
              /\ Truthful(command[p].answer)',
         \A p \in Commands : p \notin Waiting(c) => command'[p] = command[p],
         challenge' = [challenge EXCEPT ![c] = None],
         store' = store, TypeOK'
  PROVE  IInv'
<1>1. TypeOK /\ OwnChallenge
  BY DEF IInv
<1>2. challenge'[c] = None /\ \A d \in Challenges : d # c => challenge'[d] = challenge[d]
  BY <1>1 DEF TypeOK
<1>3. \A p \in Commands : p \in Waiting(c) <=> command[p].challenge = c
  BY <1>1, SlotsAssumption DEF Waiting, OwnChallenge, Sent
<1>4. \A p \in Commands : p \in Waiting(c) =>
        command'[p].pc \in {"idle", "verify"} /\ command'[p].challenge = None
  BY IdleFields
<1>5. OwnChallenge'
  <2>1. ASSUME NEW p \in Commands
        PROVE  LET d == command'[p].challenge IN
               /\ d # None <=> command'[p].pc \in {"sign", "complete"}
               /\ d # None => challenge'[d] # None
               /\ command'[p].pc = "sign" => ~challenge'[d].sent
               /\ \A q \in Commands : d # None /\ command'[q].challenge = d => p = q
    <3>1. CASE p \in Waiting(c)
      BY <3>1, <1>4
    <3>2. CASE p \notin Waiting(c)
      <4>1. command'[p] = command[p] /\ command[p].challenge # c
        BY <3>2, <1>3
      <4>2. command[p].challenge # None =>
              challenge'[command[p].challenge] = challenge[command[p].challenge]
        BY <4>1, <1>1, <1>2, CommandFields
      <4>3. \A q \in Commands : command'[q].challenge # None => command'[q] = command[q]
        BY <1>4
      <4> QED
        BY <4>1, <4>2, <4>3, <1>1 DEF OwnChallenge
    <3> QED
      BY <3>1, <3>2
  <2> QED
    BY <2>1 DEF OwnChallenge
<1>6. AnswersAreTruthful'
  BY IdleFields, AnswersKept
<1>7. IssuedAreGenuine'
  BY <1>2, IssuedKept
<1>8. StoreIsGenuine'
  BY StoreKept
<1> QED
  BY <1>5, <1>6, <1>7, <1>8 DEF IInv, Onward

LEMMA AnsweredFields ==
  ASSUME TypeOK, NEW c \in Challenges, NEW a \in Answer
  PROVE  /\ Answered(c, a) \in [Commands -> Command]
         /\ \A p \in Commands : p \in Waiting(c) =>
              /\ Answered(c, a)[p].pc = "verify" /\ Answered(c, a)[p].challenge = None
              /\ Answered(c, a)[p].answer = a
         /\ \A p \in Commands : p \notin Waiting(c) => Answered(c, a)[p] = command[p]
<1> DEFINE new(p) == [command[p] EXCEPT !.pc = "verify", !.challenge = None, !.answer = a]
<1>1. \A p \in Commands : command[p] \in Command
  BY CommandFields
<1>2. ASSUME NEW p \in Commands
      PROVE  /\ new(p) \in Command /\ new(p).pc = "verify" /\ new(p).challenge = None
             /\ new(p).answer = a
  BY <1>1 DEF Command, Pc
<1>3. \A p \in Commands : Answered(c, a)[p] = IF p \in Waiting(c) THEN new(p) ELSE command[p]
  BY DEF Answered
<1>4. Answered(c, a) = [p \in Commands |-> IF p \in Waiting(c) THEN new(p) ELSE command[p]]
  BY DEF Answered
<1> HIDE DEF new
<1> QED
  BY <1>1, <1>2, <1>3, <1>4

LEMMA IssueStep ==
  ASSUME IInv, NEW c \in Challenges, Issue(c)
  PROVE  IInv'
<1> DEFINE l == Claims(plan, clock)
<1>0. TypeOK /\ OwnChallenge
  BY DEF IInv
<1>1. /\ Sent(c) /\ MayIssue(c)
      /\ device' = IF challenge[c].op = "refresh" THEN device ELSE "active"
      /\ checkout' = IF challenge[c].op = "activate" THEN "consumed" ELSE checkout
      /\ UNCHANGED <<clock, offset, plan, store>>
      /\ Watch
  BY DEF Issue
<1>2. plan \in Plans /\ clock \in Nat /\ Eligible(plan, clock) /\ device' = "active"
  BY <1>0, <1>1 DEF TypeOK, MayIssue
<1>3. Onward /\ eligible' = clock /\ eligible' \in Nat \cup {-1}
  BY <1>0, <1>1, <1>2 DEF Watch, Onward, IInv, TypeOK
<1>4. /\ l \in Licence /\ l.iat = clock
      /\ l.exp > l.iat /\ l.exp <= l.iat + TTL
      /\ l.grace_until >= l.exp /\ l.grace_until <= l.exp + GraceTTL
  BY <1>2, ClaimsAreGenuine
<1> HIDE DEF l
<1>5. Genuine(l)' /\ l' = l
  <2>1. l' = l
    BY <1>1 DEF l, Claims, Expiry, ProjectEntitlements, Lesser
  <2>2. \A k : k = l => Genuine(k)'
    BY <1>1, <1>2, <1>3, <1>4 DEF Genuine
  <2> QED
    BY <2>1, <2>2
<1>6. checkout' \in {"open", "consumed"} /\ store' \in Licence \cup {None}
  BY <1>0, <1>1 DEF TypeOK
<1>7. CASE /\ challenge' = [challenge EXCEPT ![c] = None]
           /\ command' = Answered(c, FreshAnswer(l, clock))
           /\ UNCHANGED faults
  <2> DEFINE a == FreshAnswer(l, clock)
  <2>1. a \in Answer /\ \A b : b = a => Truthful(b)'
    <3>1. ASSUME NEW b, b = a
          PROVE  Truthful(b)'
      <4>1. /\ b.licence = l /\ b.status = "active" /\ b.refresh_after = clock + Half(l)
            /\ b.at = clock
            /\ b = [licence |-> b.licence, status |-> b.status,
                    refresh_after |-> b.refresh_after, at |-> b.at]
        BY <3>1 DEF FreshAnswer
      <4>2. Half(l) \in Nat /\ l.iat + Half(l) <= l.exp
        BY <1>4, HalfBounds
      <4>3. l.exp \in Nat /\ l.iat \in Nat /\ l.grace_until \in Nat
        BY <1>4 DEF Licence
      <4>4. b.refresh_after \in Nat /\ b.refresh_after <= l.grace_until
        BY <4>1, <4>2, <4>3, <1>4
      <4>5. b \in Answer
        BY <4>1, <4>4, <1>2, <1>4 DEF Answer
      <4>6. b.status = Status(l, clock)
        BY <4>1, <4>3, <1>4 DEF Status
      <4>7. Genuine(b.licence)'
        <5>1. \A k : k = l => Genuine(k)'
          BY <1>5
        <5> QED
          BY <5>1, <4>1
      <4> HIDE DEF a
      <4> QED
        BY <4>1, <4>3, <4>4, <4>5, <4>6, <4>7, <1>1, <1>4 DEF Truthful
    <3> QED
      BY <3>1 DEF Truthful
  <2>2. /\ command' \in [Commands -> Command]
        /\ \A p \in Commands : p \in Waiting(c) =>
             command'[p].pc = "verify" /\ command'[p].challenge = None /\ command'[p].answer = a
        /\ \A p \in Commands : p \notin Waiting(c) => command'[p] = command[p]
    BY <1>0, <1>7, <2>1, AnsweredFields
  <2> HIDE DEF a
  <2>3. challenge' \in [Challenges -> Challenge \cup {None}]
    BY <1>0, <1>7 DEF TypeOK
  <2>4. TypeOK'
    BY <1>0, <1>1, <1>2, <1>3, <1>6, <1>7, <2>2, <2>3 DEF TypeOK, Command, Pc
  <2>5. \A p \in Commands : p \in Waiting(c) => Truthful(command[p].answer)'
    BY <2>1, <2>2
  <2> QED
    BY <1>1, <1>3, <1>7, <2>2, <2>4, <2>5, DoneStep
<1>8. CASE /\ Waiting(c) # {}
           /\ faults < MaxFaults
           /\ faults' = faults + 1
           /\ challenge' = [challenge EXCEPT ![c].licence = l]
           /\ UNCHANGED command
  <2> DEFINE chal == [challenge[c] EXCEPT !.licence = l]
  <2>1. challenge[c] \in Challenge /\ challenge[c].sent
    BY <1>0, <1>1 DEF Sent, TypeOK
  <2>2. chal \in Challenge /\ chal.licence = l /\ chal.sent
    BY <2>1, <1>4 DEF Challenge
  <2>3. challenge' = [challenge EXCEPT ![c] = chal] /\ challenge \in [Challenges -> Challenge \cup {None}]
    BY <1>0, <1>8 DEF TypeOK
  <2> HIDE DEF chal
  <2>4. challenge'[c] = chal /\ chal # None /\ \A d \in Challenges : d # c => challenge'[d] = challenge[d]
    BY <2>2, <2>3, NoRowAssumption
  <2>5. TypeOK'
    <3>1. challenge' \in [Challenges -> Challenge \cup {None}]
      BY <2>2, <2>3
    <3>2. faults' \in 0 .. MaxFaults
      BY <1>0, <1>8, FaultCounted
    <3> QED
      BY <1>0, <1>1, <1>2, <1>3, <1>6, <1>8, <3>1, <3>2 DEF TypeOK
  <2>6. OwnChallenge'
    <3>1. \A p \in Commands : command[p].challenge # None =>
            /\ challenge'[command[p].challenge] # None
            /\ command[p].pc = "sign" => ~challenge'[command[p].challenge].sent
      BY <1>0, <2>1, <2>4, CommandFields DEF OwnChallenge
    <3>2. \A p \in Commands : command[p].pc = "sign" => command[p].challenge # None
      BY <1>0 DEF OwnChallenge
    <3> QED
      BY <3>1, <3>2, <1>0, <1>8 DEF OwnChallenge
  <2>7. AnswersAreTruthful'
    BY <1>3, <1>8, AnswersKept
  <2>8. IssuedAreGenuine'
    <3>1. \A k : Genuine(k) => Genuine(k)'
      BY <1>3, StaysGenuine DEF Onward
    <3>2. ASSUME NEW d \in Challenges, challenge'[d] # None, challenge'[d].licence # None
          PROVE  \A k : k = challenge'[d].licence => Genuine(k)'
      <4>1. CASE d = c
        <5>1. challenge'[d].licence = l
          BY <4>1, <2>2, <2>4
        <5>2. \A k : k = l => Genuine(k)'
          BY <1>5
        <5> QED
          BY <5>1, <5>2
      <4>2. CASE d # c
        <5>1. challenge'[d] = challenge[d]
          BY <4>2, <2>4
        <5>2. Genuine(challenge[d].licence)
          BY <3>2, <5>1 DEF IInv, IssuedAreGenuine
        <5> QED
          BY <3>1, <5>1, <5>2
      <4> QED
        BY <4>1, <4>2
    <3>3. ASSUME NEW d \in Challenges, challenge'[d] # None, challenge'[d].licence # None
          PROVE  Genuine(challenge[d].licence)'
      BY <3>2, <3>3
    <3> QED
      BY <3>3 DEF IssuedAreGenuine
  <2>9. StoreIsGenuine'
    BY <1>1, <1>3, StoreKept
  <2> QED
    BY <1>3, <2>5, <2>6, <2>7, <2>8, <2>9 DEF IInv, Onward
<1> QED
  BY <1>7, <1>8 DEF Issue, l

LEMMA ReplayStep ==
  ASSUME IInv, NEW c \in Challenges, Replay(c)
  PROVE  IInv'
<1> DEFINE l == challenge[c].licence
           a == ReplayedAnswer(l, clock)
<1>1. /\ Sent(c) /\ MayReplay(c)
      /\ challenge' = [challenge EXCEPT ![c] = None]
      /\ command' = Answered(c, a)
      /\ UNCHANGED <<clock, offset, plan, device, checkout, store, faults, eligible>>
  BY DEF Replay
<1>2. TypeOK /\ Onward /\ clock \in Nat
  BY <1>1, StandsStill DEF IInv, TypeOK
<1>3. Genuine(l) /\ clock <= l.grace_until
  BY <1>1 DEF Sent, MayReplay, IInv, IssuedAreGenuine
<1>4. Truthful(a)
  BY <1>2, <1>3, ReplayedIsTruthful DEF Genuine
<1> HIDE DEF a, l
<1>5. a \in Answer /\ \A b : b = a => Truthful(b)'
  BY <1>2, <1>4, StaysGenuine DEF Truthful, Onward
<1>6. /\ command' \in [Commands -> Command]
      /\ \A p \in Commands : p \in Waiting(c) =>
           command'[p].pc = "verify" /\ command'[p].challenge = None /\ command'[p].answer = a
      /\ \A p \in Commands : p \notin Waiting(c) => command'[p] = command[p]
  BY <1>1, <1>2, <1>5, AnsweredFields
<1>7. TypeOK'
  <2>1. challenge' \in [Challenges -> Challenge \cup {None}]
    BY <1>1, <1>2 DEF TypeOK
  <2> QED
    BY <1>1, <1>2, <1>6, <2>1 DEF TypeOK, Command, Pc
<1>8. \A p \in Commands : p \in Waiting(c) => Truthful(command[p].answer)'
  BY <1>5, <1>6
<1> QED
  BY <1>1, <1>2, <1>6, <1>7, <1>8, DoneStep

LEMMA RefuseStep ==
  ASSUME IInv, NEW c \in Challenges, Refuse(c)
  PROVE  IInv'
<1>1. /\ Sent(c)
      /\ challenge' = [challenge EXCEPT ![c] = None]
      /\ command' = [p \in Commands |-> IF p \in Waiting(c) THEN Idle ELSE command[p]]
      /\ UNCHANGED <<clock, offset, plan, device, checkout, store, faults, eligible>>
  BY DEF Refuse
<1>2. TypeOK /\ Onward
  BY <1>1, StandsStill DEF IInv
<1>3. command' \in [Commands -> Command]
  BY <1>1, <1>2, IdleFields, CommandFields
<1>4. TypeOK'
  <2>1. challenge' \in [Challenges -> Challenge \cup {None}]
    BY <1>1, <1>2 DEF TypeOK
  <2> QED
    BY <1>1, <1>2, <1>3, <2>1 DEF TypeOK, Command, Pc
<1> QED
  BY <1>1, <1>2, <1>4, DoneStep

(***************************************************************************)
(* The steps of the world, and the theorems                                *)
(***************************************************************************)
\* Neither the client nor the rows of its challenges change.
LEMMA WorldStep ==
  ASSUME IInv, Onward, TypeOK', UNCHANGED <<challenge, command, store>>
  PROVE  IInv'
<1>1. OwnChallenge'
  BY DEF IInv, OwnChallenge
<1>2. AnswersAreTruthful'
  BY AnswersKept
<1>3. IssuedAreGenuine' /\ StoreIsGenuine'
  BY IssuedKept, StoreKept
<1> QED
  BY <1>1, <1>2, <1>3 DEF IInv, Onward

LEMMA WorldSteps ==
  ASSUME IInv, StripeChange \/ Revoke \/ Tick
  PROVE  IInv'
<1>1. TypeOK /\ eligible <= clock
  BY DEF IInv
<1>2. CASE StripeChange
  <2>1. Onward /\ eligible' \in Nat \cup {-1}
    BY <1>1, <1>2, WatchGoesOn DEF StripeChange, TypeOK, Onward
  <2>2. TypeOK'
    BY <1>1, <1>2, <2>1 DEF StripeChange, TypeOK
  <2> QED
    BY <1>2, <2>1, <2>2, WorldStep DEF StripeChange
<1>3. CASE Revoke
  <2>1. TypeOK' /\ Onward
    BY <1>1, <1>3, StandsStill DEF Revoke, TypeOK
  <2> QED
    BY <1>3, <2>1, WorldStep DEF Revoke
<1>4. CASE Tick
  <2>1. clock' \in Nat /\ clock' >= clock
    BY <1>1, <1>4 DEF Tick, TypeOK
  <2>2. Onward /\ eligible' \in Nat \cup {-1}
    BY <1>1, <1>4, <2>1, WatchGoesOn DEF Tick, TypeOK, Onward
  <2>3. TypeOK'
    BY <1>1, <1>4, <2>1, <2>2 DEF Tick, TypeOK, serviceVars
  <2> QED
    BY <1>4, <2>2, <2>3, WorldStep DEF Tick, serviceVars
<1> QED
  BY <1>2, <1>3, <1>4

LEMMA IInvStep == IInv /\ [Next]_vars => IInv'
<1> SUFFICES ASSUME IInv, [Next]_vars PROVE IInv'
  OBVIOUS
<1>1. CASE UNCHANGED vars
  <2>1. UNCHANGED <<clock, offset, plan, device, checkout, challenge, command, store, faults, eligible>>
    BY <1>1 DEF vars
  <2>2. Onward /\ TypeOK'
    BY <2>1, StandsStill DEF IInv, TypeOK
  <2> QED
    BY <2>1, <2>2, WorldStep
<1>2. ASSUME NEW p \in Commands, Run(p) \/ Fail(p) \/ \E op \in Ops : Ask(p, op)
      PROVE  IInv'
  <2>1. CASE Run(p)
    BY <2>1, CreateChallengeStep, SignChallengeStep, VerifyAnswerStep, SaveStep DEF Run
  <2> QED
    BY <2>1, <1>2, FailStep, AskStep
<1>3. ASSUME NEW c \in Challenges, Serve(c) PROVE IInv'
  BY <1>3, IssueStep, ReplayStep, RefuseStep DEF Serve
<1> QED
  BY <1>1, <1>2, <1>3, WorldSteps DEF Next

\* The strengthening of the invariants below holds throughout.
THEOREM ProtocolInvariant == Spec => []IInv
<1> QED
  BY IInvInit, IInvStep, PTL DEF Spec

\* Requests, answers and the stored token keep their types.
THEOREM ProtocolTypeCorrect == Spec => []TypeOK
<1>1. IInv => TypeOK
  BY DEF IInv
<1> QED
  BY <1>1, ProtocolInvariant, PTL

\* For all times, delays and clock differences: an answer with camera.live is accepted
\* unless the client's clock is outside the licence or the clocks are on different sides
\* of its exp (license-service.ts:33-82, activation.py:341-365).  In the second in which
\* the answer was given this cannot be when the clocks are equal, nor, for a fresh one,
\* when the client's is up to clock_skew behind.
THEOREM ProgramsAgree == Spec => []AnswersAgree
<1>1. IInv => AnswersAgree
  <2> SUFFICES ASSUME IInv, NEW p \in Commands,
                      command[p].pc = "verify",
                      \/ command[p].answer.at = clock /\ offset = 0
                      \/ /\ command[p].answer.at = clock /\ command[p].answer.licence.iat = clock
                         /\ offset \in -Skew .. 0
                      \/ SameSide(command[p].answer),
                      "camera.live" \in command[p].answer.licence.features
               PROVE  AnswerAccepted(command[p].answer, ClientClock)
    BY DEF AnswersAgree
  <2> DEFINE a == command[p].answer
             l == a.licence
  <2>1. Truthful(a) /\ clock \in Nat /\ offset \in Int
    BY OffsetsAssumption DEF IInv, AnswersAreTruthful, TypeOK
  <2> HIDE DEF a
  <2>2. /\ Genuine(l) /\ l \in Licence /\ l.iat \in Nat /\ l.exp \in Nat /\ l.grace_until \in Nat
        /\ a.at \in Nat /\ a.at <= clock /\ l.iat <= a.at /\ a.at <= l.grace_until
        /\ a.status = Status(l, a.at) /\ a.refresh_after <= l.grace_until
    BY <2>1 DEF Truthful, Genuine, Licence, Answer
  <2>3. ClientClock \in Int /\ ClientClock = clock + offset
    BY <2>1 DEF ClientClock
  <2>4. SameSide(a)
    <3>1. CASE a.at = clock /\ offset = 0
      BY <3>1, <2>1, <2>2, <2>3, Numbers DEF SameSide
    <3>2. CASE a.at = clock /\ l.iat = clock /\ offset \in -Skew .. 0
      BY <3>2, <2>1, <2>2, <2>3, Numbers DEF SameSide, Genuine
    <3> QED
      BY <3>1, <3>2 DEF a
  <2>5. /\ l.exp > l.iat /\ l.exp - l.iat <= MaxLifetime
        /\ l.grace_until \in l.exp .. l.exp + MaxGrace
    BY <2>2, Numbers DEF Genuine
  <2>6. /\ l.iat <= ClientClock + Skew /\ ClientClock <= l.grace_until
        /\ Status(l, ClientClock) = Status(l, a.at)
    BY <2>2, <2>3, <2>4, Numbers DEF SameSide, Status
  <2>7. "camera.live" \in l.features
    BY DEF a
  <2> HIDE DEF l
  <2>8. Acceptable(l, ClientClock, {"camera.live"})
    BY <2>5, <2>6, <2>7 DEF Acceptable
  <2>9. AnswerAccepted(a, ClientClock)
    BY <2>2, <2>6, <2>8 DEF AnswerAccepted, l
  <2> QED
    BY <2>9 DEF a
<1> QED
  BY <1>1, ProtocolInvariant, PTL

\* The camera outlives the account's entitlement by one lifetime and one grace period
\* at most, however often commands are lost, repeated or late.
THEOREM ExposureIsBounded == Spec => []ExposureBounded
<1>1. IInv => ExposureBounded
  <2> SUFFICES ASSUME IInv, Authorized({"camera.live"})
               PROVE  ClientClock <= eligible + TTL + GraceTTL
    BY DEF ExposureBounded
  <2>1. Genuine(store) /\ ClientClock <= store.grace_until /\ clock \in Nat /\ offset \in Int
    BY OffsetsAssumption DEF IInv, StoreIsGenuine, Authorized, Acceptable, TypeOK
  <2>2. /\ store.iat \in Nat /\ store.exp \in Nat /\ store.grace_until \in Nat
        /\ eligible \in Int /\ ClientClock \in Int
    BY <2>1 DEF Genuine, Licence, IInv, TypeOK, ClientClock
  <2> QED
    BY <2>1, <2>2, Numbers DEF Genuine
<1> QED
  BY <1>1, ProtocolInvariant, PTL

\* Only tokens that carry camera.live get into the store.
THEOREM StoreIsVerified == Spec => []StoreHoldsVerified
<1>1. IInv => StoreHoldsVerified
  BY DEF IInv, StoreIsGenuine, StoreHoldsVerified, Genuine
<1> QED
  BY <1>1, ProtocolInvariant, PTL

(***************************************************************************)
(* The stored licence, when commands run one after the other               *)
(***************************************************************************)
\* What the commands hold after a step that stores nothing.
LEMMA NewerKept ==
  ASSUME NewerThanStored, store' = store,
         store # None => \A p \in Commands :
           /\ command'[p].pc \in {"verify", "save"} =>
                \/ command[p].pc \in {"verify", "save"} /\ command'[p].answer = command[p].answer
                \/ command'[p].answer.licence.iat >= store.iat
           /\ command'[p].pc \in {"sign", "complete"} =>
                LET bought == challenge'[command'[p].challenge].licence IN
                \/ bought = None
                \/ bought.iat >= store.iat
                \/ /\ command[p].pc \in {"sign", "complete"}
                   /\ bought = challenge[command[p].challenge].licence
  PROVE  NewerThanStored'
BY DEF NewerThanStored

\* The only command that was running ends.
LEMMA LastEnds ==
  ASSUME TypeOK, Alone, NEW p \in Commands, command[p].pc # "idle", command' = Ended(p)
  PROVE  Alone' /\ NewerThanStored'
<1>1. command'[p] = Idle /\ \A q \in Commands : q # p => command'[q] = command[q]
  BY Moves DEF Ended
<1>2. \A q \in Commands : command'[q].pc = "idle"
  BY <1>1 DEF Alone, Idle
<1> QED
  BY <1>2 DEF Alone, NewerThanStored

\* The only command that was running goes on, and the others stay idle.
LEMMA LastGoesOn ==
  ASSUME Alone, NEW p \in Commands, command[p].pc # "idle",
         \A q \in Commands : q # p => command'[q] = command[q]
  PROVE  Alone' /\ \A q \in Commands : q # p => command'[q].pc = "idle"
BY DEF Alone

LEMMA RunNewer ==
  ASSUME IInv, Alone, NewerThanStored, NEW p \in Commands, Run(p) \/ Fail(p)
  PROVE  Alone' /\ NewerThanStored'
<1>0. TypeOK /\ OwnChallenge
  BY DEF IInv
<1>1. command[p].pc # "idle"
  BY DEF Run, Fail, CreateChallenge, SignChallenge, VerifyAnswer, Save
<1>2. CASE command' = Ended(p)
  BY <1>0, <1>1, <1>2, LastEnds
<1>3. CASE CreateChallenge(p) /\ command' # Ended(p)
  <2>1. PICK c \in Challenges :
          /\ challenge' = [challenge EXCEPT ![c] = NewChallenge(command[p].op)]
          /\ command' = [command EXCEPT ![p].pc = "sign", ![p].challenge = c]
    BY <1>3 DEF CreateChallenge
  <2>2. command[p] \in Command /\ command \in [Commands -> Command]
    BY <1>0, CommandFields DEF TypeOK, Command, Pc
  <2>3. /\ command'[p].pc = "sign" /\ command'[p].challenge = c
        /\ \A q \in Commands : q # p => command'[q] = command[q]
    BY <2>1, <2>2 DEF Command
  <2>4. challenge'[c].licence = None
    BY <1>0, <2>1 DEF TypeOK, NewChallenge
  <2>5. Alone' /\ \A q \in Commands : q # p => command'[q].pc = "idle"
    BY <1>1, <2>3, LastGoesOn
  <2>6. store' = store
    BY <1>3 DEF CreateChallenge
  <2> QED
    BY <2>3, <2>4, <2>5, <2>6, NewerKept
<1>4. CASE SignChallenge(p) /\ command' # Ended(p)
  <2> DEFINE c == command[p].challenge
  <2>1. /\ command[p].pc = "sign" /\ command' = Goto(p, "complete") /\ store' = store
        /\ challenge' = [challenge EXCEPT ![c].sent = TRUE]
    BY <1>4 DEF SignChallenge
  <2>2. c \in Challenges /\ challenge[c] \in Challenge
    BY <1>0, <2>1, CommandFields DEF OwnChallenge, TypeOK
  <2>3. challenge'[c].licence = challenge[c].licence
    BY <1>0, <2>1, <2>2 DEF TypeOK, Challenge
  <2> DEFINE new == [command[p] EXCEPT !.pc = "complete"]
  <2>4. command' = [command EXCEPT ![p] = new] /\ new.pc = "complete" /\ new.challenge = c
    BY <1>0, <2>1, GotoFields DEF Pc
  <2> HIDE DEF new, c
  <2>6. /\ command'[p].pc = "complete" /\ command'[p].challenge = c
        /\ \A q \in Commands : q # p => command'[q] = command[q]
    BY <1>0, <2>4, Moves
  <2>7. Alone' /\ \A q \in Commands : q # p => command'[q].pc = "idle"
    BY <1>1, <2>6, LastGoesOn
  <2> QED
    BY <2>1, <2>3, <2>6, <2>7, NewerKept DEF c
<1>5. CASE VerifyAnswer(p) /\ command' # Ended(p)
  <2>1. command[p].pc = "verify" /\ command' = Goto(p, "save") /\ store' = store
    BY <1>5 DEF VerifyAnswer
  <2> DEFINE new == [command[p] EXCEPT !.pc = "save"]
  <2>2. command' = [command EXCEPT ![p] = new] /\ new.pc = "save" /\ new.answer = command[p].answer
    BY <1>0, <2>1, GotoFields DEF Pc
  <2> HIDE DEF new
  <2>4. /\ command'[p].pc = "save" /\ command'[p].answer = command[p].answer
        /\ \A q \in Commands : q # p => command'[q] = command[q]
    BY <1>0, <2>2, Moves
  <2>5. Alone' /\ \A q \in Commands : q # p => command'[q].pc = "idle"
    BY <1>1, <2>4, LastGoesOn
  <2> QED
    BY <2>1, <2>4, <2>5, NewerKept
<1> QED
  BY <1>2, <1>3, <1>4, <1>5 DEF Run, Fail, Save

\* Only the command that sent a request waits for it.
LEMMA WaitingOwn ==
  ASSUME IInv, NEW c \in Challenges, Sent(c)
  PROVE  \A p \in Commands : p \in Waiting(c) <=> command[p].challenge = c
BY SlotsAssumption DEF IInv, Waiting, OwnChallenge, Sent

\* The request for c is done with, and its answer is no older than what is stored.
LEMMA DoneNewer ==
  ASSUME IInv, Alone, NewerThanStored, NEW c \in Challenges, Sent(c), store' = store,
         \A p \in Commands : p \in Waiting(c) =>
           \/ command'[p].pc = "idle"
           \/ /\ command'[p].pc = "verify"
              /\ store # None => command'[p].answer.licence.iat >= store.iat,
         \A p \in Commands : p \notin Waiting(c) => command'[p] = command[p],
         challenge' = [challenge EXCEPT ![c] = None]
  PROVE  Alone' /\ NewerThanStored'
<1>0. TypeOK /\ OwnChallenge
  BY DEF IInv
<1>1. \A p \in Commands : command'[p].pc # "idle" => command[p].pc # "idle"
  BY DEF Waiting
<1>2. Alone'
  BY <1>1 DEF Alone
<1>3. ASSUME NEW p \in Commands, p \notin Waiting(c), command'[p].pc \in {"sign", "complete"}
      PROVE  /\ command[p].pc \in {"sign", "complete"}
             /\ challenge'[command'[p].challenge] = challenge[command[p].challenge]
  <2>1. command'[p] = command[p] /\ command[p].challenge # c
    BY <1>3, WaitingOwn
  <2>2. command[p].challenge \in Challenges
    BY <1>0, <1>3, <2>1, CommandFields DEF OwnChallenge
  <2> QED
    BY <1>0, <1>3, <2>1, <2>2 DEF TypeOK
<1>4. NewerThanStored'
  BY <1>3, NewerKept
<1> QED
  BY <1>2, <1>4

LEMMA ServeNewer ==
  ASSUME IInv, Alone, NewerThanStored, NEW c \in Challenges, Serve(c)
  PROVE  Alone' /\ NewerThanStored'
<1>0. TypeOK /\ OwnChallenge /\ Sent(c) /\ store' = store /\ clock \in Nat
  BY DEF IInv, TypeOK, Serve, Issue, Replay, Refuse
<1>1. store # None => store.iat \in Nat /\ store.iat <= clock
  BY DEF IInv, StoreIsGenuine, Genuine, Licence
<1>2. CASE Issue(c)
  <2> DEFINE l == Claims(plan, clock)
  <2>1. l \in Licence /\ l.iat = clock
    BY <1>0, <1>2, ClaimsAreGenuine DEF Issue, MayIssue, TypeOK
  <2>2. CASE /\ challenge' = [challenge EXCEPT ![c] = None]
             /\ command' = Answered(c, FreshAnswer(l, clock))
    <3> DEFINE new(p) == [command[p] EXCEPT !.pc = "verify", !.challenge = None,
                                            !.answer = FreshAnswer(l, clock)]
    <3>1. \A p \in Commands : command'[p] = IF p \in Waiting(c) THEN new(p) ELSE command[p]
      BY <2>2 DEF Answered
    <3>2. FreshAnswer(l, clock).licence = l
      BY DEF FreshAnswer
    <3> HIDE DEF l
    <3>3. \A p \in Commands : new(p).pc = "verify" /\ new(p).answer = FreshAnswer(l, clock)
      BY <1>0, CommandFields DEF Command
    <3> HIDE DEF new
    <3>4. \A p \in Waiting(c) : command'[p].pc = "verify" /\ command'[p].answer.licence.iat = clock
      BY <2>1, <3>1, <3>2, <3>3 DEF Waiting
    <3>5. \A p \in Commands : p \notin Waiting(c) => command'[p] = command[p]
      BY <3>1
    <3> QED
      BY <1>0, <1>1, <2>2, <3>4, <3>5, DoneNewer
  <2>3. CASE challenge' = [challenge EXCEPT ![c].licence = l] /\ UNCHANGED command
    <3>1. challenge[c] \in Challenge
      BY <1>0 DEF TypeOK, Sent
    <3> HIDE DEF l
    <3>2. challenge'[c].licence = l /\ \A d \in Challenges : d # c => challenge'[d] = challenge[d]
      BY <1>0, <2>3, <3>1 DEF TypeOK, Challenge
    <3>3. \A p \in Commands : command[p].pc \in {"sign", "complete"} =>
            command[p].challenge \in Challenges
      BY <1>0, CommandFields DEF OwnChallenge
    <3>4. ASSUME NEW p \in Commands, command[p].pc \in {"sign", "complete"}, store # None
          PROVE  LET bought == challenge'[command'[p].challenge].licence IN
                 bought.iat >= store.iat \/ bought = challenge[command[p].challenge].licence
      BY <1>0, <1>1, <2>1, <2>3, <3>2, <3>3, <3>4
    <3>5. NewerThanStored'
      BY <1>0, <2>3, <3>4, NewerKept
    <3> QED
      BY <2>3, <3>5 DEF Alone
  <2> QED
    BY <1>2, <2>2, <2>3 DEF Issue
<1>3. CASE Replay(c)
  <2> DEFINE l == challenge[c].licence
             a == ReplayedAnswer(l, clock)
             new(p) == [command[p] EXCEPT !.pc = "verify", !.challenge = None, !.answer = a]
  <2>1. /\ challenge' = [challenge EXCEPT ![c] = None] /\ l # None
        /\ \A p \in Commands : command'[p] = IF p \in Waiting(c) THEN new(p) ELSE command[p]
    BY <1>3 DEF Replay, MayReplay, Answered
  <2>2. a.licence = l
    BY DEF ReplayedAnswer
  <2>3. \A p \in Commands : p \in Waiting(c) /\ store # None => l.iat >= store.iat
    BY <2>1 DEF NewerThanStored, Waiting
  <2> HIDE DEF l, a
  <2>4. \A p \in Commands : new(p).pc = "verify" /\ new(p).answer = a
    BY <1>0, CommandFields DEF Command
  <2> HIDE DEF new
  <2>5. \A p \in Commands : p \in Waiting(c) =>
          command'[p].pc = "verify" /\ command'[p].answer.licence = l
    BY <2>1, <2>2, <2>4
  <2>6. \A p \in Commands : p \notin Waiting(c) => command'[p] = command[p]
    BY <2>1
  <2> QED
    BY <1>0, <2>1, <2>3, <2>5, <2>6, DoneNewer
<1>4. CASE Refuse(c)
  <2>1. /\ challenge' = [challenge EXCEPT ![c] = None]
        /\ \A p \in Commands : command'[p] = IF p \in Waiting(c) THEN Idle ELSE command[p]
    BY <1>4 DEF Refuse
  <2> QED
    BY <1>0, <2>1, IdleFields, DoneNewer
<1> QED
  BY <1>2, <1>3, <1>4 DEF Serve

LEMMA NewerStep ==
  ASSUME IInv, Alone, NewerThanStored, [Next]_vars,
         [\A p \in Commands, op \in Ops :
            Ask(p, op) => \A q \in Commands : command[q].pc = "idle"]_vars
  PROVE  Alone' /\ NewerThanStored'
<1>1. CASE UNCHANGED vars
  BY <1>1 DEF vars, Alone, NewerThanStored
<1>2. CASE StripeChange \/ Revoke \/ Tick
  BY <1>2 DEF StripeChange, Revoke, Tick, serviceVars, Alone, NewerThanStored
<1>3. ASSUME NEW p \in Commands, Run(p) \/ Fail(p) PROVE Alone' /\ NewerThanStored'
  BY <1>3, RunNewer
<1>4. ASSUME NEW p \in Commands, NEW op \in Ops, Ask(p, op), ~UNCHANGED vars
      PROVE  Alone' /\ NewerThanStored'
  <2>1. \A q \in Commands : command[q].pc = "idle"
    BY <1>4
  <2>2. command'[p] = [Idle EXCEPT !.pc = "ask", !.op = op]
        /\ \A q \in Commands : q # p => command'[q] = command[q]
    BY <1>4, Moves DEF Ask, IInv
  <2>3. command'[p].pc = "ask"
    BY <2>2, IdleFields
  <2> QED
    BY <2>1, <2>2, <2>3 DEF Alone, NewerThanStored
<1>5. ASSUME NEW c \in Challenges, Serve(c) PROVE Alone' /\ NewerThanStored'
  BY <1>5, ServeNewer
<1> QED
  BY <1>1, <1>2, <1>3, <1>4, <1>5 DEF Next

LEMMA ForwardStep ==
  ASSUME IInv, NewerThanStored, [Next]_vars
  PROVE  store # None => store' # None /\ store'.iat >= store.iat
<1> SUFFICES ASSUME store # None PROVE store' # None /\ store'.iat >= store.iat
  OBVIOUS
<1>1. store.iat \in Nat
  BY DEF IInv, StoreIsGenuine, Genuine, Licence
<1>2. CASE store' = store
  BY <1>1, <1>2
<1>3. ASSUME NEW p \in Commands, Save(p) PROVE store' # None /\ store'.iat >= store.iat
  <2>1. command[p].pc = "save" /\ store' = command[p].answer.licence
    BY <1>3 DEF Save
  <2>2. store' \in Licence
    BY <2>1 DEF IInv, AnswersAreTruthful, Truthful, Genuine
  <2> QED
    BY <2>1, <2>2, NoRowAssumption DEF NewerThanStored
<1> QED
  BY <1>2, <1>3 DEF Next, vars, Run, Fail, Ask, CreateChallenge, SignChallenge, VerifyAnswer,
                    Serve, Issue, Replay, Refuse, StripeChange, Revoke, Tick

\* However late, lost, repeated or replayed its answers are, an installation whose
\* commands run one after the other never replaces its licence by an older one; two
\* overlapping commands, which nothing in the client keeps apart, are the only way
\* there (activation.py:317-366).
THEOREM OlderLicenceHasOneCause == Spec /\ OneCommandAtATime => StoreGoesForward
<1>1. Init => Alone /\ NewerThanStored
  BY DEF Init, Alone, NewerThanStored, Idle
<1>2. Spec /\ OneCommandAtATime => [](Alone /\ NewerThanStored)
  BY <1>1, ProtocolInvariant, NewerStep, PTL DEF Spec, OneCommandAtATime
<1> QED
  BY <1>2, ProtocolInvariant, ForwardStep, PTL DEF Spec, StoreGoesForward

(***************************************************************************)
(* The lifetime of a challenge                                             *)
(***************************************************************************)
LEMMA ExpiryStep ==
  ASSUME IInv, IInv', ExpiryInv, [Next]_vars
  PROVE  ExpiryInv'
<1>0. /\ challenge \in [Challenges -> Challenge \cup {None}] /\ clock \in Nat /\ ChallengeTTL \in Nat
      /\ challenge' \in [Challenges -> Challenge \cup {None}] /\ clock' \in Nat
  BY Numbers DEF IInv, TypeOK
<1>1. clock' >= clock
  <2>1. clock' = clock \/ Tick
    BY DEF Next, vars, Run, Fail, Ask, CreateChallenge, SignChallenge, VerifyAnswer, Save,
           Serve, Issue, Replay, Refuse, StripeChange, Revoke
  <2> QED
    BY <1>0, <2>1 DEF Tick
<1>2. SUFFICES \A c \in Challenges : challenge'[c] # None =>
        \/ challenge[c] # None /\ challenge'[c].expires = challenge[c].expires
        \/ challenge'[c].expires = clock + ChallengeTTL
  <2> SUFFICES ASSUME NEW c \in Challenges, challenge'[c] # None
               PROVE  challenge'[c].expires <= clock' + ChallengeTTL
    BY DEF ExpiryInv
  <2>1. challenge[c] # None => challenge[c].expires <= clock + ChallengeTTL
    BY DEF ExpiryInv
  <2>2. challenge'[c].expires \in Nat
    BY <1>0 DEF Challenge
  <2> QED
    BY <1>0, <1>1, <1>2, <2>1, <2>2
<1>3. CASE challenge' = challenge
  BY <1>3
<1>4. ASSUME NEW p \in Commands, challenge' = Abandoned(p)
      PROVE  \A c \in Challenges : challenge'[c] # None => challenge'[c] = challenge[c]
  BY <1>4 DEF Abandoned
<1>5. ASSUME NEW p \in Commands, CreateChallenge(p), challenge' # challenge
      PROVE  \A c \in Challenges :
               challenge'[c] = challenge[c] \/ challenge'[c].expires = clock + ChallengeTTL
  BY <1>0, <1>5 DEF CreateChallenge, NewChallenge
<1>6. ASSUME NEW d \in Challenges,
             \/ challenge[d] # None /\ challenge' = [challenge EXCEPT ![d].sent = TRUE]
             \/ challenge' = [challenge EXCEPT ![d] = None]
             \/ \E l \in Licence :
                  challenge[d] # None /\ challenge' = [challenge EXCEPT ![d].licence = l]
      PROVE  \A c \in Challenges : challenge'[c] # None =>
               challenge[c] # None /\ challenge'[c].expires = challenge[c].expires
  <2>1. challenge[d] # None => challenge[d] \in Challenge
    BY <1>0
  <2>2. \A c \in Challenges : c # d => challenge'[c] = challenge[c]
    BY <1>0, <1>6
  <2>3. challenge'[d] # None =>
          challenge[d] # None /\ challenge'[d].expires = challenge[d].expires
    BY <1>0, <1>6, <2>1 DEF Challenge
  <2> QED
    BY <2>2, <2>3
<1>7. ASSUME NEW p \in Commands, SignChallenge(p), challenge' # Abandoned(p)
      PROVE  \E d \in Challenges :
               challenge[d] # None /\ challenge' = [challenge EXCEPT ![d].sent = TRUE]
  BY <1>7, CommandFields DEF SignChallenge, IInv, OwnChallenge
<1>8. ASSUME NEW d \in Challenges, Serve(d)
      PROVE  \/ challenge' = [challenge EXCEPT ![d] = None]
             \/ \E l \in Licence :
                  challenge[d] # None /\ challenge' = [challenge EXCEPT ![d].licence = l]
  <2>1. Issue(d) => Claims(plan, clock) \in Licence
    BY <1>0, ClaimsAreGenuine DEF Issue, MayIssue, IInv, TypeOK
  <2> QED
    BY <1>8, <2>1 DEF Serve, Issue, Replay, Refuse, Sent
<1>9. CASE \E p \in Commands : Run(p) \/ Fail(p)
  BY <1>3, <1>4, <1>5, <1>6, <1>7, <1>9 DEF Run, Fail, VerifyAnswer, Save, serviceVars
<1>10. CASE \E c \in Challenges : Serve(c)
  BY <1>6, <1>8, <1>10
<1>11. CASE \/ UNCHANGED vars \/ StripeChange \/ Revoke \/ Tick
            \/ \E p \in Commands, op \in Ops : Ask(p, op)
  BY <1>3, <1>11 DEF vars, StripeChange, Revoke, Tick, Ask, serviceVars
<1> QED
  BY <1>9, <1>10, <1>11 DEF Next

\* For every lifetime of a challenge and every delay: a client whose clock is at most
\* MaxChallenge - ChallengeTTL behind never takes a challenge for too long-lived; at
\* the largest CHALLENGE_TTL_SECONDS it must not be behind at all (env.ts:57,
\* activation.py:330).
THEOREM ChallengeFits == Spec => []NeverTooLong
<1>1. Init => ExpiryInv
  BY DEF Init, ExpiryInv
<1>2. IInv /\ ExpiryInv => NeverTooLong
  <2> SUFFICES ASSUME IInv, ExpiryInv, offset >= ChallengeTTL - MaxChallenge,
                      NEW p \in Commands, command[p].pc = "sign"
               PROVE  challenge[command[p].challenge].expires <= ClientClock + MaxChallenge
    BY DEF NeverTooLong
  <2> DEFINE c == command[p].challenge
  <2>1. c \in Challenges /\ challenge[c] # None
    BY CommandFields DEF IInv, OwnChallenge
  <2>2. challenge[c].expires \in Nat /\ clock \in Nat /\ offset \in Int
    BY <2>1, OffsetsAssumption DEF IInv, TypeOK, Challenge
  <2>3. challenge[c].expires <= clock + ChallengeTTL
    BY <2>1 DEF ExpiryInv
  <2> HIDE DEF c
  <2>4. challenge[c].expires <= ClientClock + MaxChallenge
    BY <2>2, <2>3, NumbersAssumption DEF ClientClock
  <2> QED
    BY <2>4 DEF c
<1> QED
  BY <1>1, <1>2, ProtocolInvariant, ExpiryStep, PTL DEF Spec

=============================================================================
