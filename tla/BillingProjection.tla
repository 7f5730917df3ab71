-------------------------- MODULE BillingProjection --------------------------
(***************************************************************************)
(* The local projection of Stripe's billing state, for one Customer.       *)
(*                                                                         *)
(* Stripe owns the subscription and the entitlements.  Every change there  *)
(* sends an event, which may be delivered again, late or out of order.  A  *)
(* worker is one request of the service: a webhook delivery, or a          *)
(* challenge creation that refreshes the projection before it answers.     *)
(* Nothing keeps two of them from running at once.  A worker never uses    *)
(* what the event says; it fetches the current state from Stripe and then, *)
(* in a later transaction, stores what it fetched.                         *)
(*                                                                         *)
(* A state of the subscription or of the entitlements is represented by    *)
(* its version, the number of changes that led to it.                      *)
(***************************************************************************)
EXTENDS Naturals

CONSTANTS
  Workers,    \* requests in flight
  Events,     \* events that Stripe may send: a bound on the changes
  MaxFaults,  \* bound on failed calls, crashes and lost responses
  None

ASSUME WorkersAssumption == None \notin Events
ASSUME FaultsAssumption == MaxFaults \in Nat

VARIABLES
  stripe,      \* stripe[p]: current version of part p at Stripe
  projection,  \* projection[p]: version in subscriptions, stripe_entitlements
  newest,      \* newest[p]: highest version that was ever projected (history)
  alone,       \* workers whose copy of a part no other fetch of it has met (history)
  shared,      \* shared[p]: the copy that was stored last was not alone (history)
  outlived,    \* events claimed while an earlier worker was busy with them (history)
  event,       \* event[e]: the change it reports; version 0: not sent yet
  row,         \* row[e]: stripe_events.status
  leased,      \* leased[e]: processing, for less than five minutes
  acked,       \* acked[e]: Stripe has received a 2xx answer for e
  worker,      \* what each request is doing
  faults

vars == <<stripe, projection, newest, alone, shared, outlived, event, row, leased, acked,
          worker, faults>>
stripeVars == <<stripe, event>>
rowVars == <<row, leased>>
storeVars == <<projection, newest, shared>>
history == <<newest, alone, shared, outlived>>

Parts == {"subscription", "entitlements"}

Event == [part : Parts, version : Nat]

\* job is the event a webhook request handles, None for a challenge creation.
Worker == [pc : {"idle", "claim", "fetch", "write", "mark"},
           job : Events \cup {None},
           part : Parts,
           copy : Nat]

Doing(pc, job, part, copy) == [pc |-> pc, job |-> job, part |-> part, copy |-> copy]
Idle == Doing("idle", None, "subscription", 0)

TypeOK ==
  /\ stripe \in [Parts -> Nat]
  /\ projection \in [Parts -> Nat]
  /\ newest \in [Parts -> Nat]
  /\ alone \subseteq Workers
  /\ shared \in [Parts -> BOOLEAN]
  /\ outlived \subseteq Events
  /\ event \in [Events -> Event]
  /\ row \in [Events -> {"absent", "received", "processing", "processed", "failed"}]
  /\ leased \in [Events -> BOOLEAN]
  /\ acked \in [Events -> BOOLEAN]
  /\ worker \in [Workers -> Worker]
  /\ faults \in 0 .. MaxFaults

Init ==
  /\ stripe = [p \in Parts |-> 0]
  /\ projection = [p \in Parts |-> 0]
  /\ newest = [p \in Parts |-> 0]
  /\ alone = {} /\ shared = [p \in Parts |-> FALSE] /\ outlived = {}
  /\ event = [e \in Events |-> [part |-> "subscription", version |-> 0]]
  /\ row = [e \in Events |-> "absent"]
  /\ leased = [e \in Events |-> FALSE]
  /\ acked = [e \in Events |-> FALSE]
  /\ worker = [w \in Workers |-> Idle]
  /\ faults = 0

Sent(e) == event[e].version > 0

-----------------------------------------------------------------------------
\* The subscription or the set of active entitlements changes at Stripe.
Change(p) ==
  /\ \E e \in Events :
       /\ ~Sent(e)
       /\ event' = [event EXCEPT ![e] = [part |-> p, version |-> stripe[p] + 1]]
  /\ stripe' = [stripe EXCEPT ![p] = @ + 1]
  /\ UNCHANGED <<projection, history, rowVars, acked, worker, faults>>

\* The first statement of claimStripeEvent: INSERT ... ON CONFLICT DO NOTHING.
\* Stripe may deliver an event that it already has an answer for.
Deliver(w, e) ==
  /\ worker[w].pc = "idle"
  /\ Sent(e)
  /\ row' = [row EXCEPT ![e] = IF @ = "absent" THEN "received" ELSE @]
  /\ worker' = [worker EXCEPT ![w] = Doing("claim", e, "subscription", 0)]
  /\ UNCHANGED <<stripeVars, projection, history, leased, acked, faults>>

\* refreshCustomerBillingProjection on behalf of a challenge.
StartRefresh(w) ==
  /\ worker[w].pc = "idle"
  /\ worker' = [worker EXCEPT ![w] = Doing("fetch", None, "subscription", 0)]
  /\ UNCHANGED <<stripeVars, projection, history, rowVars, acked, faults>>

\* The request has answered: with 2xx, or so that Stripe will send e again.
Answer(w, e, ok) ==
  /\ worker' = [worker EXCEPT ![w] = Idle]
  /\ acked' = [acked EXCEPT ![e] = @ \/ ok]

\* The event is claimed, possibly from a worker whose lease has expired.
BusyWith(w, e) == worker[w].pc \in {"fetch", "write", "mark"} /\ worker[w].job = e
Busy(e) == \E w \in Workers : BusyWith(w, e)

Take(w, e) ==
  /\ row' = [row EXCEPT ![e] = "processing"]
  /\ leased' = [leased EXCEPT ![e] = TRUE]
  /\ worker' = [worker EXCEPT ![w] = Doing("fetch", e, event[e].part, 0)]
  /\ outlived' = IF Busy(e) THEN outlived \cup {e} ELSE outlived
  /\ UNCHANGED acked

\* Mutants: a delivery is accepted while another one is in flight; the lease
\* does not run out.
ClaimTrustsProcessing(w) ==
  LET e == worker[w].job IN
  /\ worker[w].pc = "claim"
  /\ UNCHANGED <<stripeVars, storeVars, alone, faults>>
  /\ \/ row[e] = "processed" /\ Answer(w, e, TRUE) /\ UNCHANGED <<rowVars, outlived>>
     \/ row[e] = "processing" /\ leased[e] /\ Answer(w, e, TRUE) /\ UNCHANGED <<rowVars, outlived>>
     \/ /\ row[e] # "processed" /\ ~(row[e] = "processing" /\ leased[e])
        /\ Take(w, e)
ClaimWithoutLease(w) ==
  LET e == worker[w].job IN
  /\ worker[w].pc = "claim"
  /\ UNCHANGED <<stripeVars, storeVars, alone, faults>>
  /\ \/ row[e] = "processed" /\ Answer(w, e, TRUE) /\ UNCHANGED <<rowVars, outlived>>
     \/ row[e] = "processing" /\ Answer(w, e, FALSE) /\ UNCHANGED <<rowVars, outlived>>
     \/ /\ row[e] \notin {"processed", "processing"}
        /\ Take(w, e)

\* The transaction of claimStripeEvent; its row lock makes it atomic.  A
\* subscription event goes on with the subscription, every other one with the
\* entitlements.
Claim(w) ==
  LET e == worker[w].job IN
  /\ worker[w].pc = "claim"
  /\ UNCHANGED <<stripeVars, storeVars, alone, faults>>
  /\ \/ row[e] = "processed" /\ Answer(w, e, TRUE) /\ UNCHANGED <<rowVars, outlived>>
     \/ row[e] = "processing" /\ leased[e] /\ Answer(w, e, FALSE) /\ UNCHANGED <<rowVars, outlived>>
     \/ /\ row[e] # "processed" /\ ~(row[e] = "processing" /\ leased[e])
        /\ Take(w, e)

\* The workers with a copy of part p that is not stored yet.
Holding(p) == {w \in Workers : worker[w].pc = "write" /\ worker[w].part = p}

Meet(w) ==
  LET others == Holding(worker[w].part)
  IN  alone' = (alone \ others) \cup (IF others = {} THEN {w} ELSE {})

\* Mutant: the object inside the event is stored instead of the current one.
FetchDelivered(w) ==
  /\ worker[w].pc = "fetch"
  /\ worker' = [worker EXCEPT ![w] =
       Doing("write", @.job, @.part,
             IF @.job # None /\ event[@.job].part = @.part
             THEN event[@.job].version ELSE stripe[@.part])]
  /\ Meet(w)
  /\ UNCHANGED <<stripeVars, storeVars, outlived, rowVars, acked, faults>>

\* subscriptions.retrieve, subscriptions.list, activeEntitlements.list: the
\* state at Stripe now.
Fetch(w) ==
  /\ worker[w].pc = "fetch"
  /\ worker' = [worker EXCEPT ![w] = Doing("write", @.job, @.part, stripe[@.part])]
  /\ Meet(w)
  /\ UNCHANGED <<stripeVars, storeVars, outlived, rowVars, acked, faults>>

\* What follows a write: the entitlements after the subscription, then the
\* event is marked, or the challenge creation goes on elsewhere.
AfterWrite(w) ==
  IF worker[w].part = "subscription" THEN Doing("fetch", worker[w].job, "entitlements", 0)
  ELSE IF worker[w].job = None THEN Idle
  ELSE Doing("mark", worker[w].job, "entitlements", 0)

\* The upsert of syncSubscription, or the transaction of
\* syncEntitlementsForCustomer that replaces every entitlement of the Customer
\* under an advisory lock.  Neither compares versions.
Write(w) ==
  LET p == worker[w].part
      v == worker[w].copy
  IN
  /\ worker[w].pc = "write"
  /\ projection' = [projection EXCEPT ![p] = v]
  /\ newest' = [newest EXCEPT ![p] = IF v > @ THEN v ELSE @]
  /\ shared' = [shared EXCEPT ![p] = w \notin alone]
  /\ alone' = alone \ {w}
  /\ worker' = [worker EXCEPT ![w] = AfterWrite(w)]
  /\ UNCHANGED <<stripeVars, outlived, rowVars, acked, faults>>

\* UPDATE ... SET status = 'processed', whatever the status is by now.  The
\* answer may be lost on its way to Stripe.
MarkProcessed(w) ==
  LET e == worker[w].job IN
  /\ worker[w].pc = "mark"
  /\ row' = [row EXCEPT ![e] = "processed"]
  /\ leased' = [leased EXCEPT ![e] = FALSE]
  /\ \/ Answer(w, e, TRUE) /\ UNCHANGED faults
     \/ Answer(w, e, FALSE) /\ faults < MaxFaults /\ faults' = faults + 1
  /\ UNCHANGED <<stripeVars, projection, history>>

\* Mutant: a failure is recorded with a status that the table does not know.
FailUnknown(w) ==
  /\ worker[w].pc \in {"fetch", "write", "mark"}
  /\ faults < MaxFaults
  /\ faults' = faults + 1
  /\ worker' = [worker EXCEPT ![w] = Idle]
  /\ row' = [e \in Events |-> IF e = worker[w].job THEN "error" ELSE row[e]]
  /\ leased' = [e \in Events |-> e # worker[w].job /\ leased[e]]
  /\ alone' = alone \ {w}
  /\ UNCHANGED <<stripeVars, storeVars, outlived, acked>>

\* A call to Stripe or to the database throws: the catch clause of
\* processStripeEvent sets 'failed', whatever the status is by now.
Fail(w) ==
  /\ worker[w].pc \in {"fetch", "write", "mark"}
  /\ faults < MaxFaults
  /\ faults' = faults + 1
  /\ worker' = [worker EXCEPT ![w] = Idle]
  /\ row' = [e \in Events |-> IF e = worker[w].job THEN "failed" ELSE row[e]]
  /\ leased' = [e \in Events |-> e # worker[w].job /\ leased[e]]
  /\ alone' = alone \ {w}
  /\ UNCHANGED <<stripeVars, storeVars, outlived, acked>>

\* The process dies, or the database cannot even record the failure.
Crash(w) ==
  /\ worker[w].pc # "idle"
  /\ faults < MaxFaults
  /\ faults' = faults + 1
  /\ worker' = [worker EXCEPT ![w] = Idle]
  /\ alone' = alone \ {w}
  /\ UNCHANGED <<stripeVars, storeVars, outlived, rowVars, acked>>

\* Five minutes have passed since the event was claimed, whether its worker is
\* dead or slow.
LeaseExpires(e) ==
  /\ leased[e]
  /\ leased' = [leased EXCEPT ![e] = FALSE]
  /\ UNCHANGED <<stripeVars, projection, history, row, acked, worker, faults>>

Work(w) == Claim(w) \/ Fetch(w) \/ Write(w) \/ MarkProcessed(w)

Next ==
  \/ \E p \in Parts : Change(p)
  \/ \E w \in Workers, e \in Events : Deliver(w, e)
  \/ \E w \in Workers : StartRefresh(w) \/ Work(w) \/ Fail(w) \/ Crash(w)
  \/ \E e \in Events : LeaseExpires(e)

Spec == Init /\ [][Next]_vars

\* Requests go on, five minutes pass, and Stripe sends an event again until it
\* gets a 2xx.  A retry finds a free worker only now and then: SF.
FairSpec ==
  /\ Spec
  /\ \A w \in Workers : WF_vars(Work(w))
  /\ \A e \in Events :
       /\ WF_vars(LeaseExpires(e))
       /\ SF_vars(~acked[e] /\ \E w \in Workers : Deliver(w, e))

-----------------------------------------------------------------------------
\* Stripe stops sending an event, and the table calls it processed, only after
\* a state at least as new as the one it reports has been projected: no answer
\* to a duplicate or late delivery drops a change (webhook.ts:8-36, 49-92).
AckedEventsWereApplied ==
  \A e \in Events : acked[e] \/ row[e] = "processed" =>
    newest[event[e].part] >= event[e].version

\* Every change reaches the projection in the end, although the worker that
\* claimed its event may die: the lease and Stripe's retries see to it
\* (webhook.ts:24-27 and 52-55).
EventsAcknowledged == \A e \in Events : Sent(e) ~> acked[e]

Quiet ==
  /\ \A w \in Workers : worker[w].pc = "idle"
  /\ \A e \in Events : Sent(e) => acked[e]

\* When every event is answered and nobody is working the projection is what
\* Stripe has: arrival order is harmless (billing/README.md:123).
QuietProjectionIsCurrent == Quiet => projection = stripe

\* It is when the synchronization that stored a part last did not overlap another
\* one of that part, whatever overlapped, failed or died before: a lone
\* synchronization repairs what two overlapping ones have left (stripe-sync.ts:18-60).
LoneStoreIsCurrent ==
  Quiet => \A p \in Parts : shared[p] \/ projection[p] = stripe[p]

\* An older state overwrites a newer one only when two synchronizations overlap
\* (webhook.ts:61-63).
OnlyOverlapGoesBack ==
  [][\A p \in Parts : projection'[p] >= projection[p] \/ shared'[p]]_vars

\* Successfully handled events end in 'processed' (billing/README.md:143), unless a
\* worker was still busy with the event when its lease ran out and another one
\* claimed it: the one that is late then fails and overwrites the status
\* (webhook.ts:24-27, 84-91).
HandledUnlessOutlived ==
  \A e \in Events : acked[e] => row[e] = "processed" \/ e \in outlived

-----------------------------------------------------------------------------
(***************************************************************************)
(* The inductive invariant behind the theorems of BillingProjectionProofs  *)
(***************************************************************************)
\* Every change at Stripe has its event, and only events that were sent are handled.
EventsOfChanges ==
  /\ \A e \in Events : event[e].version <= stripe[event[e].part]
  /\ \A p \in Parts : stripe[p] > 0 =>
       \E e \in Events : event[e].part = p /\ event[e].version = stripe[p]
  /\ \A e \in Events : ~Sent(e) => row[e] = "absent" /\ ~acked[e]
  /\ \A w \in Workers : worker[w].job # None => Sent(worker[w].job)

\* Nothing is newer than Stripe.
CopiesAreOld ==
  /\ \A p \in Parts : projection[p] <= newest[p] /\ newest[p] <= stripe[p]
  /\ \A w \in Workers : worker[w].pc = "write" => worker[w].copy <= stripe[worker[w].part]

\* How far a worker is with the change its event reports.
Progress(w) ==
  LET e == worker[w].job IN
  e # None =>
    /\ worker[w].pc \in {"fetch", "write"} /\ worker[w].part = "subscription" =>
         event[e].part = "subscription"
    /\ worker[w].pc = "write" /\ worker[w].part = event[e].part =>
         worker[w].copy >= event[e].version
    /\ \/ worker[w].pc = "mark"
       \/ worker[w].pc \in {"fetch", "write"} /\ worker[w].part # event[e].part
       => newest[event[e].part] >= event[e].version

\* A copy that is alone is newer than anything stored, and nobody else has one.
Lone ==
  /\ \A w \in alone :
       /\ worker[w].pc = "write" /\ worker[w].copy >= newest[worker[w].part]
       /\ \A x \in Workers : worker[x].pc = "write" /\ worker[x].part = worker[w].part => x = w
  /\ \A p \in Parts : ~shared[p] => projection[p] = newest[p]

\* A request that claims or marks an event has one.
ClaimsHaveJobs ==
  \A w \in Workers : worker[w].pc \in {"claim", "mark"} => worker[w].job # None

\* Without an expired lease an event has one handler, and its row says so.
OneHandler ==
  \A e \in Events \ outlived, w, x \in Workers :
    BusyWith(w, e) /\ BusyWith(x, e) => w = x /\ row[e] = "processing"

IInv ==
  /\ TypeOK
  /\ EventsOfChanges
  /\ CopiesAreOld
  /\ \A w \in Workers : Progress(w)
  /\ AckedEventsWereApplied
  /\ Lone
  /\ ClaimsHaveJobs
  /\ OneHandler
  /\ HandledUnlessOutlived

\* What an overlap takes: a worker fetches a part while another one has a copy of it
\* that is not stored yet. Without one, every copy stays alone until it is stored.
NoOverlap == [][\A w \in Workers : Fetch(w) => Holding(worker[w].part) = {}]_vars

AllAlone ==
  /\ \A w \in Workers : worker[w].pc = "write" => w \in alone
  /\ \A p \in Parts : ~shared[p]

=============================================================================
