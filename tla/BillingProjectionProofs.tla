----------------------- MODULE BillingProjectionProofs -----------------------
(***************************************************************************)
(* Theorems about the local projection of Stripe's billing state, for any  *)
(* number of requests, events and faults.                                  *)
(***************************************************************************)
EXTENDS BillingProjection, TLAPS

LEMMA IInvInit == Init => IInv
<1> SUFFICES ASSUME Init PROVE IInv
  OBVIOUS
<1>1. TypeOK
  BY WorkersAssumption, FaultsAssumption DEF Init, TypeOK, Worker, Event, Doing, Idle, Parts
<1>2. \A w \in Workers : worker[w] = Idle /\ Idle.pc = "idle" /\ Idle.job = None
  BY DEF Init, Idle, Doing
<1>3. EventsOfChanges /\ CopiesAreOld
  BY <1>2 DEF Init, EventsOfChanges, CopiesAreOld, Parts, Sent
<1>4. (\A w \in Workers : Progress(w)) /\ OneHandler
  BY <1>2 DEF Progress, OneHandler, BusyWith
<1>5. AckedEventsWereApplied /\ Lone /\ HandledUnlessOutlived
  BY DEF Init, AckedEventsWereApplied, Lone, HandledUnlessOutlived, Parts
<1>6. ClaimsHaveJobs
  BY <1>2 DEF ClaimsHaveJobs
<1> QED
  BY <1>1, <1>3, <1>4, <1>5, <1>6 DEF IInv

(***************************************************************************)
(* What the invariant says of one request                                  *)
(***************************************************************************)
LEMMA WorkerFields ==
  ASSUME TypeOK, NEW w \in Workers
  PROVE  /\ worker[w].pc \in {"idle", "claim", "fetch", "write", "mark"}
         /\ worker[w].job \in Events \cup {None}
         /\ worker[w].part \in Parts
         /\ worker[w].copy \in Nat
BY DEF TypeOK, Worker

LEMMA DoingFields ==
  ASSUME NEW pc, NEW job, NEW part, NEW copy
  PROVE  /\ Doing(pc, job, part, copy).pc = pc
         /\ Doing(pc, job, part, copy).job = job
         /\ Doing(pc, job, part, copy).part = part
         /\ Doing(pc, job, part, copy).copy = copy
BY DEF Doing

LEMMA DoingType ==
  ASSUME NEW pc \in {"idle", "claim", "fetch", "write", "mark"}, NEW job \in Events \cup {None},
         NEW part \in Parts, NEW copy \in Nat
  PROVE  Doing(pc, job, part, copy) \in Worker
BY DEF Doing, Worker

\* Only the record of worker w changes.
LEMMA Moves ==
  ASSUME TypeOK, NEW w \in Workers, NEW new,
         worker' = [worker EXCEPT ![w] = new]
  PROVE  worker'[w] = new /\ \A x \in Workers : x # w => worker'[x] = worker[x]
BY DEF TypeOK

LEMMA ChangeStep ==
  ASSUME IInv, NEW p \in Parts, Change(p)
  PROVE  IInv'
<1>1. PICK e \in Events :
        ~Sent(e) /\ event' = [event EXCEPT ![e] = [part |-> p, version |-> stripe[p] + 1]]
  BY DEF Change
<1>2. /\ stripe' = [stripe EXCEPT ![p] = @ + 1]
      /\ UNCHANGED <<projection, history, rowVars, acked, worker, faults>>
  BY DEF Change
<1>3. stripe \in [Parts -> Nat] /\ event \in [Events -> Event] /\ TypeOK
  BY DEF IInv, TypeOK
<1>4. /\ event'[e].part = p /\ event'[e].version = stripe[p] + 1
      /\ \A d \in Events : d # e => event'[d] = event[d]
  BY <1>1, <1>3
<1>5. /\ stripe'[p] = stripe[p] + 1
      /\ \A q \in Parts : q # p => stripe'[q] = stripe[q]
      /\ \A q \in Parts : stripe[q] \in Nat /\ stripe[q] <= stripe'[q]
  BY <1>2, <1>3
<1>6. event[e].version = 0 /\ \A d \in Events : event[d].version \in Nat /\ event[d].part \in Parts
  BY <1>1, <1>3 DEF Sent, Event
<1>7. row[e] = "absent" /\ ~acked[e] /\ \A w \in Workers : worker[w].job # e
  BY <1>1, WorkersAssumption DEF IInv, EventsOfChanges
<1>8. TypeOK'
  BY <1>1, <1>2, <1>3 DEF TypeOK, Event, history, rowVars
<1>9. EventsOfChanges'
  <2>1. \A d \in Events : event'[d].version <= stripe'[event'[d].part]
    BY <1>4, <1>5, <1>6 DEF IInv, EventsOfChanges
  <2>2. ASSUME NEW q \in Parts, stripe'[q] > 0
        PROVE  \E d \in Events : event'[d].part = q /\ event'[d].version = stripe'[q]
    <3>1. CASE q = p
      BY <3>1, <1>4, <1>5
    <3>2. CASE q # p
      <4>1. PICK d \in Events : event[d].part = q /\ event[d].version = stripe[q]
        BY <2>2, <3>2, <1>5 DEF IInv, EventsOfChanges
      <4>2. d # e
        BY <4>1, <2>2, <3>2, <1>5, <1>6
      <4> QED
        BY <4>1, <4>2, <3>2, <1>4, <1>5
    <3> QED
      BY <3>1, <3>2
  <2>3. \A d \in Events : Sent(d) => Sent(d)'
    BY <1>4, <1>5 DEF Sent
  <2>4. \A d \in Events : ~Sent(d)' => row'[d] = "absent" /\ ~acked'[d]
    BY <2>3, <1>2 DEF IInv, EventsOfChanges, rowVars
  <2>5. ASSUME NEW w \in Workers, worker'[w].job # None
        PROVE  Sent(worker[w].job)'
    <3>1. worker'[w].job \in Events /\ worker'[w].job = worker[w].job
      BY <2>5, <1>2, <1>3, WorkerFields
    <3>2. event[worker[w].job].version > 0
      BY <2>5, <3>1 DEF IInv, EventsOfChanges, Sent
    <3>3. worker[w].job # e
      BY <1>7
    <3> QED
      BY <3>1, <3>2, <3>3, <1>4 DEF Sent
  <2> QED
    BY <2>1, <2>2, <2>4, <2>5 DEF EventsOfChanges
<1>10. CopiesAreOld'
  <2>1. \A q \in Parts : newest[q] \in Nat
    BY <1>3 DEF TypeOK
  <2>2. \A q \in Parts : projection'[q] <= newest'[q] /\ newest'[q] <= stripe'[q]
    BY <2>1, <1>2, <1>5 DEF IInv, CopiesAreOld, history
  <2>3. \A w \in Workers : worker'[w].pc = "write" => worker'[w].copy <= stripe'[worker'[w].part]
    BY <1>2, <1>3, <1>5, WorkerFields DEF IInv, CopiesAreOld
  <2> QED
    BY <2>2, <2>3 DEF CopiesAreOld
<1>11. \A w \in Workers : Progress(w)'
  BY <1>2, <1>3, <1>4, <1>7, WorkerFields DEF IInv, Progress, history
<1>12. AckedEventsWereApplied' /\ HandledUnlessOutlived'
  BY <1>2, <1>4, <1>7 DEF IInv, AckedEventsWereApplied, HandledUnlessOutlived, history, rowVars
<1>13. Lone' /\ OneHandler' /\ ClaimsHaveJobs'
  BY <1>2 DEF IInv, Lone, OneHandler, BusyWith, ClaimsHaveJobs, history, rowVars
<1> QED
  BY <1>8, <1>9, <1>10, <1>11, <1>12, <1>13 DEF IInv

(***************************************************************************)
(* Steps that touch neither Stripe nor the stored copies.  The step moves  *)
(* one request to new and the row of no other event than its own.          *)
(***************************************************************************)
LEMMA SameStore ==
  ASSUME IInv, NEW w \in Workers, NEW new \in Worker,
         worker' = [worker EXCEPT ![w] = new],
         new.job # None => Sent(new.job),
         new.pc = "write" => new = worker[w],
         UNCHANGED <<stripeVars, storeVars>>,
         alone' = IF new.pc = "write" THEN alone ELSE alone \ {w}
  PROVE  /\ CopiesAreOld' /\ Lone'
         /\ \A p \in Parts : stripe'[p] > 0 =>
              \E e \in Events : event'[e].part = p /\ event'[e].version = stripe'[p]
         /\ \A e \in Events : event'[e].version <= stripe'[event'[e].part]
         /\ \A x \in Workers : worker'[x].job # None => Sent(worker[x].job)'
         /\ \A x \in Workers : x # w => Progress(x)'
<1>1. TypeOK /\ EventsOfChanges /\ CopiesAreOld /\ Lone
  BY DEF IInv
<1>2. worker'[w] = new /\ \A x \in Workers : x # w => worker'[x] = worker[x]
  BY <1>1, Moves
<1>3. \A x \in Workers : worker'[x].pc = "write" => worker'[x] = worker[x]
  BY <1>2
<1>4. UNCHANGED <<stripe, event, projection, newest, shared>>
  BY DEF stripeVars, storeVars
<1>5. CopiesAreOld'
  BY <1>1, <1>3, <1>4 DEF CopiesAreOld
<1>6. \A x \in alone' : x \in alone /\ x \in Workers /\ worker'[x] = worker[x]
  BY <1>1, <1>2 DEF TypeOK
<1>7. Lone'
  BY <1>1, <1>3, <1>4, <1>6 DEF Lone
<1>8. \A x \in Workers : worker'[x].job # None => Sent(worker[x].job)'
  BY <1>1, <1>2, <1>4 DEF EventsOfChanges, Sent
<1>9. \A x \in Workers : x # w => Progress(x)'
  BY <1>2, <1>4 DEF IInv, Progress
<1> QED
  BY <1>1, <1>4, <1>5, <1>7, <1>8, <1>9 DEF EventsOfChanges

LEMMA DeliverStep ==
  ASSUME IInv, NEW w \in Workers, NEW e \in Events, Deliver(w, e)
  PROVE  IInv'
<1> DEFINE new == Doing("claim", e, "subscription", 0)
<1>1. /\ worker[w].pc = "idle" /\ Sent(e)
      /\ row' = [row EXCEPT ![e] = IF @ = "absent" THEN "received" ELSE @]
      /\ worker' = [worker EXCEPT ![w] = new]
      /\ UNCHANGED <<stripe, event, projection, newest, alone, shared, outlived, leased, acked,
                     faults>>
  BY DEF Deliver, stripeVars, history
<1>2. new \in Worker /\ new.pc = "claim" /\ new.job = e
  BY DoingType, DoingFields DEF Parts
<1> HIDE DEF new
<1>3. TypeOK /\ Lone /\ EventsOfChanges /\ AckedEventsWereApplied /\ OneHandler /\ HandledUnlessOutlived
  BY DEF IInv
<1>4. w \notin alone
  BY <1>1, <1>3 DEF Lone
<1>5. TypeOK'
  BY <1>1, <1>2, <1>3 DEF TypeOK
<1>6. worker'[w] = new /\ \A x \in Workers : x # w => worker'[x] = worker[x]
  BY <1>1, <1>3, Moves
<1>7. /\ CopiesAreOld' /\ Lone'
      /\ \A p \in Parts : stripe'[p] > 0 =>
           \E d \in Events : event'[d].part = p /\ event'[d].version = stripe'[p]
      /\ \A d \in Events : event'[d].version <= stripe'[event'[d].part]
      /\ \A x \in Workers : worker'[x].job # None => Sent(worker[x].job)'
      /\ \A x \in Workers : x # w => Progress(x)'
  <2>1. alone' = IF new.pc = "write" THEN alone ELSE alone \ {w}
    BY <1>1, <1>2, <1>4
  <2>2. UNCHANGED <<stripeVars, storeVars>>
    BY <1>1 DEF stripeVars, storeVars
  <2> QED
    BY <1>1, <1>2, <2>1, <2>2, SameStore
<1>8. Progress(w)'
  BY <1>2, <1>6 DEF Progress
<1>9. \A d \in Events : row'[d] \in {row[d], "received"} /\ (row[d] # "absent" => row'[d] = row[d])
  BY <1>1, <1>3 DEF TypeOK
<1>10. EventsOfChanges'
  <2>1. \A d \in Events : d # e => row'[d] = row[d]
    BY <1>1, <1>3 DEF TypeOK
  <2>2. \A d \in Events : ~Sent(d)' => row'[d] = "absent" /\ ~acked'[d]
    BY <2>1, <1>1, <1>3 DEF EventsOfChanges, Sent
  <2> QED
    BY <2>2, <1>7 DEF EventsOfChanges
<1>11. AckedEventsWereApplied' /\ HandledUnlessOutlived'
  BY <1>1, <1>3, <1>9 DEF AckedEventsWereApplied, HandledUnlessOutlived
<1>12. OneHandler'
  BY <1>1, <1>2, <1>3, <1>6, <1>9 DEF OneHandler, BusyWith
<1>13. ClaimsHaveJobs'
  BY <1>2, <1>6, WorkersAssumption DEF IInv, ClaimsHaveJobs
<1> QED
  BY <1>5, <1>7, <1>8, <1>10, <1>11, <1>12, <1>13 DEF IInv

LEMMA StartRefreshStep ==
  ASSUME IInv, NEW w \in Workers, StartRefresh(w)
  PROVE  IInv'
<1> DEFINE new == Doing("fetch", None, "subscription", 0)
<1>1. /\ worker[w].pc = "idle"
      /\ worker' = [worker EXCEPT ![w] = new]
      /\ UNCHANGED <<stripe, event, projection, newest, alone, shared, outlived, row, leased,
                     acked, faults>>
  BY DEF StartRefresh, stripeVars, history, rowVars
<1>2. new \in Worker /\ new.pc = "fetch" /\ new.job = None
  BY DoingType, DoingFields DEF Parts
<1> HIDE DEF new
<1>3. TypeOK /\ Lone /\ EventsOfChanges /\ AckedEventsWereApplied /\ OneHandler /\ HandledUnlessOutlived
  BY DEF IInv
<1>4. w \notin alone
  BY <1>1, <1>3 DEF Lone
<1>5. TypeOK'
  BY <1>1, <1>2, <1>3 DEF TypeOK
<1>6. worker'[w] = new /\ \A x \in Workers : x # w => worker'[x] = worker[x]
  BY <1>1, <1>3, Moves
<1>7. /\ CopiesAreOld' /\ Lone'
      /\ \A p \in Parts : stripe'[p] > 0 =>
           \E d \in Events : event'[d].part = p /\ event'[d].version = stripe'[p]
      /\ \A d \in Events : event'[d].version <= stripe'[event'[d].part]
      /\ \A x \in Workers : worker'[x].job # None => Sent(worker[x].job)'
      /\ \A x \in Workers : x # w => Progress(x)'
  <2>1. alone' = IF new.pc = "write" THEN alone ELSE alone \ {w}
    BY <1>1, <1>2, <1>4
  <2>2. UNCHANGED <<stripeVars, storeVars>>
    BY <1>1 DEF stripeVars, storeVars
  <2> QED
    BY <1>1, <1>2, <2>1, <2>2, SameStore
<1>8. Progress(w)'
  BY <1>2, <1>6 DEF Progress
<1>9. EventsOfChanges'
  BY <1>1, <1>3, <1>7 DEF EventsOfChanges, Sent
<1>10. AckedEventsWereApplied' /\ HandledUnlessOutlived'
  BY <1>1, <1>3 DEF AckedEventsWereApplied, HandledUnlessOutlived
<1>11. OneHandler'
  BY <1>1, <1>2, <1>3, <1>6, WorkersAssumption DEF OneHandler, BusyWith
<1>12. ClaimsHaveJobs'
  BY <1>2, <1>6 DEF IInv, ClaimsHaveJobs
<1> QED
  BY <1>5, <1>7, <1>8, <1>9, <1>10, <1>11, <1>12 DEF IInv

LEMMA TakeStep ==
  ASSUME IInv, NEW w \in Workers, worker[w].pc = "claim", row[worker[w].job] # "processed",
         Take(w, worker[w].job),
         UNCHANGED <<stripeVars, storeVars, alone, faults>>
  PROVE  IInv'
<1> DEFINE e == worker[w].job
           new == Doing("fetch", e, event[e].part, 0)
<1>0. TypeOK /\ Lone /\ EventsOfChanges /\ AckedEventsWereApplied /\ OneHandler /\ HandledUnlessOutlived
  BY DEF IInv
<1>1. /\ row' = [row EXCEPT ![e] = "processing"]
      /\ leased' = [leased EXCEPT ![e] = TRUE]
      /\ worker' = [worker EXCEPT ![w] = new]
      /\ outlived' = IF Busy(e) THEN outlived \cup {e} ELSE outlived
      /\ UNCHANGED <<stripe, event, projection, newest, alone, shared, acked, faults>>
  BY DEF Take, stripeVars, storeVars
<1>2. /\ new \in Worker /\ new.pc = "fetch" /\ new.job = e /\ new.part = event[e].part
      /\ e \in Events /\ e # None /\ Sent(e)
  <2>1. \A x \in Workers : worker[x].pc = "claim" => worker[x].job # None
    BY DEF IInv, ClaimsHaveJobs
  <2>2. e \in Events /\ e # None
    BY <2>1, <1>0, WorkerFields
  <2>3. event[e].part \in Parts
    BY <2>2, <1>0 DEF TypeOK, Event
  <2> QED
    BY <2>2, <2>3, <1>0, DoingType, DoingFields DEF EventsOfChanges
<1> HIDE DEF new, e
<1>4. w \notin alone /\ worker[w].pc = "claim" /\ row[e] # "processed"
  BY <1>0 DEF Lone, e
<1>5. TypeOK'
  BY <1>0, <1>1, <1>2 DEF TypeOK
<1>6. worker'[w] = new /\ \A x \in Workers : x # w => worker'[x] = worker[x]
  BY <1>0, <1>1, Moves
<1>7. /\ CopiesAreOld' /\ Lone'
      /\ \A p \in Parts : stripe'[p] > 0 =>
           \E d \in Events : event'[d].part = p /\ event'[d].version = stripe'[p]
      /\ \A d \in Events : event'[d].version <= stripe'[event'[d].part]
      /\ \A x \in Workers : worker'[x].job # None => Sent(worker[x].job)'
      /\ \A x \in Workers : x # w => Progress(x)'
  <2>1. alone' = IF new.pc = "write" THEN alone ELSE alone \ {w}
    BY <1>1, <1>2, <1>4
  <2>2. UNCHANGED <<stripeVars, storeVars>>
    BY <1>1 DEF stripeVars, storeVars
  <2> QED
    BY <1>1, <1>2, <2>1, <2>2, SameStore
<1>8. Progress(w)'
  BY <1>1, <1>2, <1>6 DEF Progress
<1>9. row'[e] = "processing" /\ \A d \in Events : d # e => row'[d] = row[d]
  BY <1>0, <1>1, <1>2 DEF TypeOK
<1>10. EventsOfChanges'
  <2>1. \A d \in Events : ~Sent(d)' => row'[d] = "absent" /\ ~acked'[d]
    BY <1>0, <1>1, <1>2, <1>9 DEF EventsOfChanges, Sent
  <2> QED
    BY <2>1, <1>7 DEF EventsOfChanges
<1>11. AckedEventsWereApplied'
  BY <1>0, <1>1, <1>9 DEF AckedEventsWereApplied
<1>12. HandledUnlessOutlived'
  BY <1>0, <1>1, <1>4, <1>9 DEF HandledUnlessOutlived
<1>13. OneHandler'
  <2>1. ASSUME NEW d \in Events \ outlived', NEW x \in Workers, NEW y \in Workers,
               BusyWith(x, d)', BusyWith(y, d)'
        PROVE  x = y /\ row'[d] = "processing"
    <3>1. d \notin outlived
      BY <1>1
    <3>2. CASE d = e
      <4>1. \A z \in Workers : ~BusyWith(z, e)
        BY <3>1, <3>2, <2>1, <1>1, <1>2 DEF Busy
      <4> QED
        BY <4>1, <3>2, <2>1, <1>6, <1>9 DEF BusyWith
    <3>3. CASE d # e
      BY <3>1, <3>3, <2>1, <1>0, <1>2, <1>6, <1>9 DEF OneHandler, BusyWith
    <3> QED
      BY <3>2, <3>3
  <2> QED
    BY <2>1 DEF OneHandler
<1>14. ClaimsHaveJobs'
  BY <1>2, <1>6 DEF IInv, ClaimsHaveJobs
<1> QED
  BY <1>5, <1>7, <1>8, <1>10, <1>11, <1>12, <1>13, <1>14 DEF IInv

\* A request ends: the row of its event may change if it was busy with it, to
\* processed when Stripe gets a 2xx.
LEMMA EndStep ==
  ASSUME IInv, NEW w \in Workers, worker' = [worker EXCEPT ![w] = Idle],
         UNCHANGED <<stripeVars, storeVars, outlived>>, TypeOK',
         alone' = alone \ {w},
         \A e \in Events : e # worker[w].job => row'[e] = row[e] /\ acked'[e] = acked[e],
         \A e \in Events : e = worker[w].job =>
           /\ row'[e] # row[e] => BusyWith(w, e) /\ row'[e] # "absent"
           /\ acked'[e] => acked[e] \/ row'[e] = "processed"
           /\ row'[e] = "processed" => row[e] = "processed" \/ worker[w].pc = "mark"
  PROVE  IInv'
<1> DEFINE new == Idle
<1>0. TypeOK /\ Lone /\ EventsOfChanges /\ AckedEventsWereApplied /\ OneHandler /\ HandledUnlessOutlived
  BY DEF IInv
<1>1. /\ worker' = [worker EXCEPT ![w] = new]
      /\ UNCHANGED <<stripe, event, projection, newest, shared, outlived>>
  BY DEF stripeVars, storeVars
<1>2. new \in Worker /\ new.pc = "idle" /\ new.job = None
  BY DoingType, DoingFields DEF Idle, Parts
<1> HIDE DEF new
<1>6. worker'[w] = new /\ \A x \in Workers : x # w => worker'[x] = worker[x]
  BY <1>0, <1>1 DEF TypeOK
<1>7. /\ CopiesAreOld' /\ Lone'
      /\ \A p \in Parts : stripe'[p] > 0 =>
           \E d \in Events : event'[d].part = p /\ event'[d].version = stripe'[p]
      /\ \A d \in Events : event'[d].version <= stripe'[event'[d].part]
      /\ \A x \in Workers : worker'[x].job # None => Sent(worker[x].job)'
      /\ \A x \in Workers : x # w => Progress(x)'
  <2>1. alone' = IF new.pc = "write" THEN alone ELSE alone \ {w}
    BY <1>1, <1>2
  <2>2. UNCHANGED <<stripeVars, storeVars>>
    BY <1>1 DEF stripeVars, storeVars
  <2> QED
    BY <1>1, <1>2, <2>1, <2>2, SameStore
<1>8. Progress(w)'
  BY <1>2, <1>6 DEF Progress
<1>9. \A e \in Events : row'[e] # row[e] \/ acked'[e] # acked[e] => e = worker[w].job /\ Sent(e)
  BY <1>0, WorkersAssumption DEF EventsOfChanges
<1>10. EventsOfChanges'
  <2>1. \A d \in Events : ~Sent(d)' => row'[d] = "absent" /\ ~acked'[d]
    BY <1>0, <1>1, <1>9 DEF EventsOfChanges, Sent, TypeOK
  <2> QED
    BY <2>1, <1>7 DEF EventsOfChanges
<1>11. AckedEventsWereApplied'
  <2>1. \A e \in Events : worker[w].pc = "mark" /\ e = worker[w].job =>
          newest[event[e].part] >= event[e].version
    BY WorkersAssumption DEF IInv, Progress
  <2>2. \A e \in Events : acked'[e] \/ row'[e] = "processed" =>
          newest[event[e].part] >= event[e].version
    BY <1>0, <2>1 DEF AckedEventsWereApplied
  <2> QED
    BY <2>2, <1>1 DEF AckedEventsWereApplied
<1>12. HandledUnlessOutlived'
  <2>1. \A e \in Events : BusyWith(w, e) /\ row[e] = "processed" => e \in outlived
    BY <1>0 DEF OneHandler
  <2> QED
    BY <1>0, <1>1, <2>1 DEF HandledUnlessOutlived
<1>13. OneHandler'
  <2>1. ASSUME NEW d \in Events \ outlived, NEW x \in Workers, NEW y \in Workers,
               BusyWith(x, d)', BusyWith(y, d)'
        PROVE  x = y /\ row'[d] = "processing"
    <3>1. x # w /\ y # w
      BY <2>1, <1>2, <1>6 DEF BusyWith
    <3>2. BusyWith(x, d) /\ BusyWith(y, d)
      BY <2>1, <3>1, <1>6 DEF BusyWith
    <3>3. ~BusyWith(w, d) /\ x = y /\ row[d] = "processing"
      BY <3>1, <3>2, <1>0 DEF OneHandler
    <3> QED
      BY <3>3
  <2> QED
    BY <2>1, <1>1 DEF OneHandler
<1>14. ClaimsHaveJobs'
  BY <1>2, <1>6 DEF IInv, ClaimsHaveJobs
<1> QED
  BY <1>7, <1>8, <1>10, <1>11, <1>12, <1>13, <1>14 DEF IInv

LEMMA ClaimStep ==
  ASSUME IInv, NEW w \in Workers, Claim(w)
  PROVE  IInv'
<1> DEFINE e == worker[w].job
<1>1. worker[w].pc = "claim" /\ UNCHANGED <<stripeVars, storeVars, alone, faults>>
  BY DEF Claim
<1>2. TypeOK /\ Lone
  BY DEF IInv
<1>3. e \in Events
  BY <1>1, <1>2, WorkerFields DEF IInv, ClaimsHaveJobs
<1>4. ASSUME NEW ok \in BOOLEAN, ok => row[e] = "processed",
             Answer(w, e, ok), UNCHANGED <<rowVars, outlived>>
      PROVE  IInv'
  <2>1. /\ worker' = [worker EXCEPT ![w] = Idle]
        /\ acked' = [acked EXCEPT ![e] = @ \/ ok]
        /\ UNCHANGED <<row, leased, outlived>>
    BY <1>4 DEF Answer, rowVars
  <2>2. acked \in [Events -> BOOLEAN]
    BY <1>2 DEF TypeOK
  <2>3. /\ acked' \in [Events -> BOOLEAN] /\ acked'[e] = (acked[e] \/ ok)
        /\ \A d \in Events : d # e => acked'[d] = acked[d]
    BY <2>1, <2>2, <1>3
  <2>4. Idle \in Worker
    BY DoingType DEF Idle, Parts
  <2>5. TypeOK'
    BY <2>1, <2>3, <2>4, <1>1, <1>2 DEF TypeOK, stripeVars, storeVars
  <2>6. alone' = alone \ {w}
    BY <1>1, <1>2 DEF Lone
  <2>7. \A d \in Events : d # worker[w].job => row'[d] = row[d] /\ acked'[d] = acked[d]
    BY <2>1, <2>3
  <2>8. \A d \in Events : d = worker[w].job =>
           /\ row'[d] # row[d] => BusyWith(w, d) /\ row'[d] # "absent"
           /\ acked'[d] => acked[d] \/ row'[d] = "processed"
           /\ row'[d] = "processed" => row[d] = "processed" \/ worker[w].pc = "mark"
    BY <2>1, <2>3, <1>4
  <2> HIDE DEF e
  <2> QED
    BY <1>1, <2>1, <2>5, <2>6, <2>7, <2>8, EndStep
<1>5. CASE row[e] = "processed" /\ Answer(w, e, TRUE) /\ UNCHANGED <<rowVars, outlived>>
  BY <1>4, <1>5
<1>6. CASE row[e] = "processing" /\ leased[e] /\ Answer(w, e, FALSE) /\ UNCHANGED <<rowVars, outlived>>
  BY <1>4, <1>6
<1>7. CASE row[e] # "processed" /\ Take(w, e)
  BY <1>1, <1>7, TakeStep
<1> QED
  BY <1>5, <1>6, <1>7 DEF Claim

LEMMA MarkProcessedStep ==
  ASSUME IInv, NEW w \in Workers, MarkProcessed(w)
  PROVE  IInv'
<1> DEFINE e == worker[w].job
<1>1. TypeOK /\ Lone
  BY DEF IInv
<1>2. worker[w].pc = "mark" /\ e \in Events
  BY <1>1, WorkerFields DEF MarkProcessed, IInv, ClaimsHaveJobs
<1>3. PICK ok \in BOOLEAN : Answer(w, e, ok)
  BY DEF MarkProcessed
<1>4. /\ row' = [row EXCEPT ![e] = "processed"]
      /\ leased' = [leased EXCEPT ![e] = FALSE]
      /\ worker' = [worker EXCEPT ![w] = Idle]
      /\ acked' = [acked EXCEPT ![e] = @ \/ ok]
      /\ UNCHANGED <<stripe, event, projection, newest, alone, shared, outlived>>
  BY <1>3 DEF MarkProcessed, Answer, stripeVars, history
<1>5. faults' \in 0 .. MaxFaults
  <2>1. faults' = faults \/ (faults < MaxFaults /\ faults' = faults + 1)
    BY DEF MarkProcessed
  <2> QED
    BY <2>1, <1>1, FaultsAssumption DEF TypeOK
<1>6. acked \in [Events -> BOOLEAN] /\ leased \in [Events -> BOOLEAN]
  BY <1>1 DEF TypeOK
<1>7. /\ acked' \in [Events -> BOOLEAN] /\ leased' \in [Events -> BOOLEAN]
      /\ \A d \in Events : d # e => acked'[d] = acked[d]
  BY <1>2, <1>4, <1>6
<1>8. Idle \in Worker
  BY DoingType DEF Idle, Parts
<1>9. TypeOK'
  BY <1>1, <1>4, <1>5, <1>7, <1>8 DEF TypeOK
<1>10. /\ row'[e] = "processed"
       /\ \A d \in Events : d # e => row'[d] = row[d]
  BY <1>1, <1>2, <1>4 DEF TypeOK
<1>11. alone' = alone \ {w}
  BY <1>1, <1>2, <1>4 DEF Lone
<1>12. UNCHANGED <<stripeVars, storeVars, outlived>>
  BY <1>4 DEF stripeVars, storeVars
<1>13. \A d \in Events : d # worker[w].job => row'[d] = row[d] /\ acked'[d] = acked[d]
  BY <1>7, <1>10
<1>14. \A d \in Events : d = worker[w].job =>
         /\ row'[d] # row[d] => BusyWith(w, d) /\ row'[d] # "absent"
         /\ acked'[d] => acked[d] \/ row'[d] = "processed"
         /\ row'[d] = "processed" => row[d] = "processed" \/ worker[w].pc = "mark"
  BY <1>2, <1>10 DEF BusyWith
<1> HIDE DEF e
<1> QED
  BY <1>4, <1>9, <1>11, <1>12, <1>13, <1>14, EndStep

LEMMA FailStep ==
  ASSUME IInv, NEW w \in Workers, Fail(w)
  PROVE  IInv'
<1>1. TypeOK
  BY DEF IInv
<1>2. /\ worker[w].pc \in {"fetch", "write", "mark"}
      /\ row' = [e \in Events |-> IF e = worker[w].job THEN "failed" ELSE row[e]]
      /\ worker' = [worker EXCEPT ![w] = Idle]
      /\ alone' = alone \ {w}
      /\ UNCHANGED <<stripeVars, storeVars, outlived, acked>>
  BY DEF Fail
<1>3. faults' \in 0 .. MaxFaults
  BY <1>1, FaultsAssumption DEF Fail, TypeOK
<1>4. leased' \in [Events -> BOOLEAN]
  BY DEF Fail
<1>5. Idle \in Worker
  BY DoingType DEF Idle, Parts
<1>6. TypeOK'
  BY <1>1, <1>2, <1>3, <1>4, <1>5 DEF TypeOK, stripeVars, storeVars
<1>7. \A d \in Events : d # worker[w].job => row'[d] = row[d] /\ acked'[d] = acked[d]
  BY <1>2
<1>8. \A d \in Events : d = worker[w].job =>
         /\ row'[d] # row[d] => BusyWith(w, d) /\ row'[d] # "absent"
         /\ acked'[d] => acked[d] \/ row'[d] = "processed"
         /\ row'[d] = "processed" => row[d] = "processed" \/ worker[w].pc = "mark"
  BY <1>2 DEF BusyWith
<1> QED
  BY <1>2, <1>6, <1>7, <1>8, EndStep

LEMMA CrashStep ==
  ASSUME IInv, NEW w \in Workers, Crash(w)
  PROVE  IInv'
<1>1. TypeOK
  BY DEF IInv
<1>2. /\ worker' = [worker EXCEPT ![w] = Idle]
      /\ alone' = alone \ {w}
      /\ UNCHANGED <<stripeVars, storeVars, outlived, row, leased, acked>>
  BY DEF Crash, rowVars
<1>3. faults' \in 0 .. MaxFaults
  BY <1>1, FaultsAssumption DEF Crash, TypeOK
<1>4. Idle \in Worker
  BY DoingType DEF Idle, Parts
<1>5. TypeOK'
  BY <1>1, <1>2, <1>3, <1>4 DEF TypeOK, stripeVars, storeVars
<1>6. \A d \in Events : row'[d] = row[d] /\ acked'[d] = acked[d]
  BY <1>2
<1> QED
  BY <1>2, <1>5, <1>6, EndStep

LEMMA LeaseExpiresStep ==
  ASSUME IInv, NEW e \in Events, LeaseExpires(e)
  PROVE  IInv'
<1>1. UNCHANGED <<stripe, event, projection, newest, alone, shared, outlived, row, acked, worker,
                  faults>>
  BY DEF LeaseExpires, stripeVars, history
<1>2. leased' \in [Events -> BOOLEAN]
  BY DEF LeaseExpires, IInv, TypeOK
<1>3. TypeOK'
  BY <1>1, <1>2 DEF IInv, TypeOK
<1>4. EventsOfChanges' /\ CopiesAreOld' /\ \A w \in Workers : Progress(w)'
  BY <1>1 DEF IInv, EventsOfChanges, CopiesAreOld, Progress, Sent
<1>5. AckedEventsWereApplied' /\ Lone' /\ HandledUnlessOutlived'
  BY <1>1 DEF IInv, AckedEventsWereApplied, Lone, HandledUnlessOutlived
<1>6. ClaimsHaveJobs' /\ OneHandler'
  BY <1>1 DEF IInv, ClaimsHaveJobs, OneHandler, BusyWith
<1> QED
  BY <1>3, <1>4, <1>5, <1>6 DEF IInv

\* A fetched copy is as new as Stripe, so newer than anything stored.
LEMMA FetchStep ==
  ASSUME IInv, NEW w \in Workers, Fetch(w)
  PROVE  IInv'
<1> DEFINE p == worker[w].part
           j == worker[w].job
           new == Doing("write", j, p, stripe[p])
<1>0. TypeOK /\ Lone /\ EventsOfChanges /\ CopiesAreOld /\ OneHandler
  BY DEF IInv
<1>1. /\ worker[w].pc = "fetch"
      /\ worker' = [worker EXCEPT ![w] = new]
      /\ alone' = (alone \ Holding(p)) \cup (IF Holding(p) = {} THEN {w} ELSE {})
      /\ UNCHANGED <<stripe, event, projection, newest, shared, outlived, row, leased, acked,
                     faults>>
  BY DEF Fetch, Meet, stripeVars, storeVars, rowVars
<1>2. p \in Parts /\ j \in Events \cup {None} /\ stripe[p] \in Nat
  BY <1>0, WorkerFields DEF TypeOK
<1>3. /\ new \in Worker /\ new.pc = "write" /\ new.job = j /\ new.part = p /\ new.copy = stripe[p]
  BY <1>2, DoingType, DoingFields
<1>4. worker[w].pc = "fetch" /\ worker[w].job = j /\ worker[w].part = p
  BY <1>1
<1> HIDE DEF new, p, j
<1>5. worker'[w] = new /\ \A x \in Workers : x # w => worker'[x] = worker[x]
  BY <1>0, <1>1 DEF TypeOK
<1>6. TypeOK'
  BY <1>0, <1>1, <1>3 DEF TypeOK
<1>7. EventsOfChanges'
  <2>1. \A x \in Workers : worker'[x].job = worker[x].job
    BY <1>3, <1>4, <1>5
  <2> QED
    BY <2>1, <1>0, <1>1 DEF EventsOfChanges, Sent
<1>8. CopiesAreOld'
  BY <1>0, <1>1, <1>2, <1>3, <1>5 DEF CopiesAreOld
<1>9. ASSUME NEW x \in Workers
      PROVE  Progress(x)'
  <2>1. CASE x # w
    BY <2>1, <1>1, <1>5 DEF IInv, Progress
  <2>2. CASE x = w
    <3>1. Progress(w)
      BY DEF IInv
    <3>2. j # None => event[j].version <= stripe[event[j].part]
      BY <1>0, <1>2 DEF EventsOfChanges
    <3>3. j # None /\ p = "subscription" => event[j].part = "subscription"
      BY <3>1, <1>4 DEF Progress
    <3>4. j # None /\ p = event[j].part => stripe[p] >= event[j].version
      BY <3>2, <1>0, <1>2 DEF TypeOK, Event
    <3>5. j # None /\ p # event[j].part => newest[event[j].part] >= event[j].version
      BY <3>1, <1>4 DEF Progress
    <3>6. Progress(w)'
      BY <3>3, <3>4, <3>5, <1>1, <1>3, <1>5 DEF Progress
    <3> QED
      BY <2>2, <3>6
  <2> QED
    BY <2>1, <2>2
<1>10. AckedEventsWereApplied' /\ HandledUnlessOutlived'
  BY <1>1 DEF IInv, AckedEventsWereApplied, HandledUnlessOutlived
<1>11. Lone'
  <2>1. ASSUME NEW y \in alone', y # w
        PROVE  /\ y \in Workers /\ worker'[y] = worker[y] /\ worker[y].pc = "write"
               /\ worker[y].part # p /\ worker[y].copy >= newest[worker[y].part]
               /\ \A x \in Workers :
                    worker[x].pc = "write" /\ worker[x].part = worker[y].part => x = y
    <3>1. y \in alone /\ y \notin Holding(p) /\ y \in Workers
      BY <2>1, <1>0, <1>1 DEF TypeOK
    <3> QED
      BY <3>1, <2>1, <1>0, <1>5 DEF Lone, Holding
  <2>2. ASSUME NEW y \in alone', y = w
        PROVE  \A x \in Workers : x # w => ~(worker[x].pc = "write" /\ worker[x].part = p)
    <3>1. w \notin alone
      BY <1>0, <1>4 DEF Lone
    <3>2. Holding(p) = {}
      BY <2>2, <3>1, <1>1
    <3> QED
      BY <3>2 DEF Holding
  <2>3. newest[p] \in Nat /\ stripe[p] >= newest[p]
    BY <1>0, <1>2 DEF CopiesAreOld, TypeOK
  <2>4. ASSUME NEW y \in alone'
        PROVE  /\ worker'[y].pc = "write" /\ worker'[y].copy >= newest[worker'[y].part]
               /\ \A x \in Workers :
                    worker'[x].pc = "write" /\ worker'[x].part = worker'[y].part => x = y
    <3>1. CASE y = w
      BY <3>1, <2>2, <2>3, <1>3, <1>5
    <3>2. CASE y # w
      BY <3>2, <2>1, <1>3, <1>5
    <3> QED
      BY <3>1, <3>2
  <2>5. \A q \in Parts : ~shared'[q] => projection'[q] = newest'[q]
    BY <1>0, <1>1 DEF Lone
  <2> QED
    BY <2>4, <2>5, <1>1 DEF Lone
<1>12. ClaimsHaveJobs'
  BY <1>3, <1>5 DEF IInv, ClaimsHaveJobs
<1>13. OneHandler'
  <2>1. \A x \in Workers, d \in Events : BusyWith(x, d)' = BusyWith(x, d)
    BY <1>3, <1>4, <1>5 DEF BusyWith
  <2> QED
    BY <2>1, <1>0, <1>1 DEF OneHandler
<1> QED
  BY <1>6, <1>7, <1>8, <1>9, <1>10, <1>11, <1>12, <1>13 DEF IInv

\* What a request stores: its event's change has been projected once it goes on.
LEMMA WriteStep ==
  ASSUME IInv, NEW w \in Workers, Write(w)
  PROVE  IInv'
<1> DEFINE p == worker[w].part
           j == worker[w].job
           v == worker[w].copy
           new == AfterWrite(w)
<1>0. TypeOK /\ Lone /\ EventsOfChanges /\ CopiesAreOld /\ OneHandler
  BY DEF IInv
<1>1. /\ worker[w].pc = "write"
      /\ projection' = [projection EXCEPT ![p] = v]
      /\ newest' = [newest EXCEPT ![p] = IF v > @ THEN v ELSE @]
      /\ shared' = [shared EXCEPT ![p] = w \notin alone]
      /\ alone' = alone \ {w}
      /\ worker' = [worker EXCEPT ![w] = new]
      /\ UNCHANGED <<stripe, event, outlived, row, leased, acked, faults>>
  BY DEF Write, stripeVars, rowVars
<1>2. p \in Parts /\ j \in Events \cup {None} /\ v \in Nat
  BY <1>0, WorkerFields
<1>3. /\ new \in Worker
      /\ new.pc # "write"
      /\ \/ new.job = j /\ new.pc = "fetch" /\ new.part = "entitlements" /\ p = "subscription"
         \/ new.job = j /\ j # None /\ new.pc = "mark" /\ p # "subscription"
         \/ new.job = None /\ new.pc = "idle"
  <2>1. CASE p = "subscription"
    <3>1. new = Doing("fetch", j, "entitlements", 0)
      BY <2>1 DEF AfterWrite
    <3> HIDE DEF new, p, j, v
    <3>2. new \in Worker
      BY <3>1, <1>2, DoingType DEF Parts
    <3>3. new.pc = "fetch" /\ new.job = j /\ new.part = "entitlements"
      BY <3>1, DoingFields
    <3> QED
      BY <3>2, <3>3, <2>1
  <2>2. CASE p # "subscription" /\ j = None
    <3>1. new = Doing("idle", None, "subscription", 0)
      BY <2>2 DEF AfterWrite, Idle
    <3> HIDE DEF new, p, j, v
    <3>2. new \in Worker
      BY <3>1, DoingType DEF Parts
    <3>3. new.pc = "idle" /\ new.job = None /\ new.part = "subscription"
      BY <3>1, DoingFields
    <3> QED
      BY <3>2, <3>3, <2>2
  <2>3. CASE p # "subscription" /\ j # None
    <3>1. new = Doing("mark", j, "entitlements", 0)
      BY <2>3 DEF AfterWrite
    <3> HIDE DEF new, p, j, v
    <3>2. new \in Worker
      BY <3>1, <1>2, DoingType DEF Parts
    <3>3. new.pc = "mark" /\ new.job = j /\ new.part = "entitlements"
      BY <3>1, DoingFields
    <3> QED
      BY <3>2, <3>3, <2>3
  <2> QED
    BY <2>1, <2>2, <2>3
<1>4. /\ worker[w].pc = "write" /\ worker[w].job = j /\ worker[w].part = p /\ worker[w].copy = v
      /\ v <= stripe[p]
  BY <1>0, <1>1 DEF CopiesAreOld
<1> HIDE DEF new, p, j, v
<1>5. worker'[w] = new /\ \A x \in Workers : x # w => worker'[x] = worker[x]
  BY <1>0, <1>1 DEF TypeOK
<1>6. /\ newest[p] \in Nat /\ projection[p] \in Nat /\ stripe[p] \in Nat
      /\ projection'[p] = v /\ shared'[p] = (w \notin alone)
      /\ newest'[p] = IF v > newest[p] THEN v ELSE newest[p]
      /\ \A q \in Parts : q # p =>
           projection'[q] = projection[q] /\ newest'[q] = newest[q] /\ shared'[q] = shared[q]
  BY <1>0, <1>1, <1>2 DEF TypeOK
<1>7. newest'[p] >= newest[p] /\ newest'[p] >= v /\ newest'[p] <= stripe[p]
  BY <1>0, <1>2, <1>4, <1>6 DEF CopiesAreOld
<1>8. \A q \in Parts : newest[q] \in Nat /\ newest'[q] \in Nat /\ newest'[q] >= newest[q]
  BY <1>0, <1>2, <1>6, <1>7 DEF TypeOK
<1>9. TypeOK'
  <2>1. projection' \in [Parts -> Nat]
    BY <1>0, <1>1, <1>2 DEF TypeOK
  <2>2. newest' \in [Parts -> Nat]
    BY <1>0, <1>1, <1>2 DEF TypeOK
  <2>3. shared' \in [Parts -> BOOLEAN]
    <3>1. shared \in [Parts -> BOOLEAN] /\ (w \notin alone) \in BOOLEAN
      BY <1>0 DEF TypeOK
    <3> QED
      BY <3>1, <1>1, <1>2
  <2> QED
    BY <2>1, <2>2, <2>3, <1>0, <1>1, <1>3 DEF TypeOK
<1>10. EventsOfChanges'
  <2>1. \A x \in Workers : worker'[x].job # None => worker'[x].job = worker[x].job
    BY <1>3, <1>4, <1>5
  <2> QED
    BY <2>1, <1>0, <1>1 DEF EventsOfChanges, Sent
<1>11. CopiesAreOld'
  <2>1. \A q \in Parts : projection'[q] <= newest'[q] /\ newest'[q] <= stripe[q]
    BY <1>0, <1>2, <1>6, <1>7 DEF CopiesAreOld
  <2>2. \A x \in Workers : worker'[x].pc = "write" =>
          worker'[x] = worker[x] /\ worker[x].copy <= stripe[worker[x].part]
    BY <1>0, <1>3, <1>5 DEF CopiesAreOld
  <2> QED
    BY <2>1, <2>2, <1>1 DEF CopiesAreOld
<1>12. ASSUME NEW x \in Workers
       PROVE  Progress(x)'
  <2>1. \A e \in Events : event[e].part \in Parts /\ event[e].version \in Nat
    BY <1>0 DEF TypeOK, Event
  <2>2. \A e \in Events : newest[event[e].part] >= event[e].version =>
          newest'[event[e].part] >= event[e].version
    BY <2>1, <1>8
  <2>3. CASE x # w
    <3>1. Progress(x) /\ worker'[x] = worker[x] /\ worker[x].job \in Events \cup {None}
      BY <2>3, <1>0, <1>5, WorkerFields DEF IInv
    <3> QED
      BY <3>1, <2>2, <1>1 DEF Progress
  <2>4. CASE x = w
    <3>1. Progress(w)
      BY DEF IInv
    <3>2. j # None /\ p = event[j].part => newest'[event[j].part] >= event[j].version
      BY <3>1, <2>1, <1>2, <1>4, <1>7, <1>8 DEF Progress
    <3>3. j # None /\ p # event[j].part => newest'[event[j].part] >= event[j].version
      BY <3>1, <2>2, <1>2, <1>4 DEF Progress
    <3>4. Progress(w)'
      BY <3>2, <3>3, <1>1, <1>3, <1>5 DEF Progress
    <3> QED
      BY <2>4, <3>4
  <2> QED
    BY <2>3, <2>4
<1>13. AckedEventsWereApplied'
  <2>1. \A e \in Events : event[e].part \in Parts /\ event[e].version \in Nat
    BY <1>0 DEF TypeOK, Event
  <2> QED
    BY <2>1, <1>1, <1>8 DEF IInv, AckedEventsWereApplied
<1>14. Lone'
  <2>1. ASSUME NEW y \in alone'
        PROVE  /\ worker'[y].pc = "write" /\ worker'[y].copy >= newest'[worker'[y].part]
               /\ \A x \in Workers :
                    worker'[x].pc = "write" /\ worker'[x].part = worker'[y].part => x = y
    <3>1. y \in alone /\ y # w /\ y \in Workers /\ worker'[y] = worker[y] /\ worker[y].part \in Parts
      BY <1>0, <1>1, <1>5, WorkerFields DEF TypeOK
    <3>2. worker[y].part # p
      BY <3>1, <1>0, <1>4 DEF Lone
    <3> QED
      BY <3>1, <3>2, <1>0, <1>3, <1>5, <1>6 DEF Lone
  <2>2. ASSUME NEW q \in Parts, ~shared'[q]
        PROVE  projection'[q] = newest'[q]
    <3>1. CASE q = p
      <4>1. w \in alone
        BY <2>2, <3>1, <1>6
      <4>2. v >= newest[p]
        BY <4>1, <1>0, <1>4 DEF Lone
      <4> QED
        BY <4>2, <3>1, <1>2, <1>6
    <3>2. CASE q # p
      BY <2>2, <3>2, <1>0, <1>6 DEF Lone
    <3> QED
      BY <3>1, <3>2
  <2> QED
    BY <2>1, <2>2 DEF Lone
<1>15. ClaimsHaveJobs'
  BY <1>3, <1>5 DEF IInv, ClaimsHaveJobs
<1>16. OneHandler'
  <2>1. \A x \in Workers, d \in Events : BusyWith(x, d)' => BusyWith(x, d)
    BY <1>3, <1>4, <1>5, WorkersAssumption DEF BusyWith
  <2> QED
    BY <2>1, <1>0, <1>1 DEF OneHandler
<1>17. HandledUnlessOutlived'
  BY <1>1 DEF IInv, HandledUnlessOutlived
<1> QED
  BY <1>9, <1>10, <1>11, <1>12, <1>13, <1>14, <1>15, <1>16, <1>17 DEF IInv

(***************************************************************************)
(* The theorems                                                            *)
(***************************************************************************)
LEMMA IInvStutter ==
  ASSUME IInv, UNCHANGED vars
  PROVE  IInv'
<1>1. UNCHANGED <<stripe, projection, newest, alone, shared, outlived, event, row, leased, acked,
                  worker, faults>>
  BY DEF vars
<1>2. TypeOK' /\ EventsOfChanges' /\ CopiesAreOld' /\ \A w \in Workers : Progress(w)'
  BY <1>1 DEF IInv, TypeOK, EventsOfChanges, CopiesAreOld, Progress, Sent
<1>3. AckedEventsWereApplied' /\ Lone' /\ HandledUnlessOutlived'
  BY <1>1 DEF IInv, AckedEventsWereApplied, Lone, HandledUnlessOutlived
<1>4. ClaimsHaveJobs' /\ OneHandler'
  BY <1>1 DEF IInv, ClaimsHaveJobs, OneHandler, BusyWith
<1> QED
  BY <1>2, <1>3, <1>4 DEF IInv

LEMMA IInvStep == IInv /\ [Next]_vars => IInv'
<1> SUFFICES ASSUME IInv, [Next]_vars PROVE IInv'
  OBVIOUS
<1>1. CASE UNCHANGED vars
  BY <1>1, IInvStutter
<1>2. ASSUME NEW p \in Parts, Change(p) PROVE IInv'
  BY <1>2, ChangeStep
<1>3. ASSUME NEW w \in Workers, NEW e \in Events, Deliver(w, e) PROVE IInv'
  BY <1>3, DeliverStep
<1>4. ASSUME NEW w \in Workers, StartRefresh(w) \/ Work(w) \/ Fail(w) \/ Crash(w) PROVE IInv'
  <2>1. CASE Work(w)
    BY <2>1, ClaimStep, FetchStep, WriteStep, MarkProcessedStep DEF Work
  <2> QED
    BY <2>1, <1>4, StartRefreshStep, FailStep, CrashStep
<1>5. ASSUME NEW e \in Events, LeaseExpires(e) PROVE IInv'
  BY <1>5, LeaseExpiresStep
<1> QED
  BY <1>1, <1>2, <1>3, <1>4, <1>5 DEF Next

\* The strengthening of the invariants below holds throughout.
THEOREM ProjectionInvariant == Spec => []IInv
<1> QED
  BY IInvInit, IInvStep, PTL DEF Spec

\* Rows, copies and history variables keep their types (webhook.ts:8-36).
THEOREM ProjectionTypeCorrect == Spec => []TypeOK
<1>1. IInv => TypeOK
  BY DEF IInv
<1> QED
  BY <1>1, ProjectionInvariant, PTL

\* However many deliveries overlap, repeat, fail or die, an event that Stripe stops
\* sending, or that the table calls processed, has had its change projected.
THEOREM NoChangeIsDropped == Spec => []AckedEventsWereApplied
<1>1. IInv => AckedEventsWereApplied
  BY DEF IInv
<1> QED
  BY <1>1, ProjectionInvariant, PTL

\* An answered event is processed unless its lease ran out under a busy worker.
THEOREM AnsweredIsProcessed == Spec => []HandledUnlessOutlived
<1>1. IInv => HandledUnlessOutlived
  BY DEF IInv
<1> QED
  BY <1>1, ProjectionInvariant, PTL

\* A synchronization that met no other one leaves the projection current once every
\* event is answered (stripe-sync.ts:18-60).
THEOREM LoneStoreRepairs == Spec => []LoneStoreIsCurrent
<1>1. IInv => LoneStoreIsCurrent
  <2> SUFFICES ASSUME IInv, Quiet, NEW p \in Parts, ~shared[p]
               PROVE  projection[p] = stripe[p]
    BY DEF LoneStoreIsCurrent
  <2>1. /\ projection[p] = newest[p] /\ newest[p] <= stripe[p]
        /\ newest[p] \in Nat /\ stripe[p] \in Nat
    BY DEF IInv, Lone, CopiesAreOld, TypeOK
  <2>2. CASE stripe[p] = 0
    BY <2>1, <2>2
  <2>3. CASE stripe[p] > 0
    <3>1. PICK e \in Events : event[e].part = p /\ event[e].version = stripe[p]
      BY <2>3 DEF IInv, EventsOfChanges
    <3>2. acked[e]
      BY <3>1, <2>3 DEF Quiet, Sent
    <3>3. newest[p] >= stripe[p]
      BY <3>1, <3>2 DEF IInv, AckedEventsWereApplied
    <3> QED
      BY <3>3, <2>1
  <2> QED
    BY <2>1, <2>2, <2>3
<1> QED
  BY <1>1, ProjectionInvariant, PTL

\* The projection goes back to an older state only through a copy that met another one.
THEOREM OlderOnlyByOverlap == Spec => OnlyOverlapGoesBack
<1> DEFINE Forward == \A p \in Parts : projection'[p] >= projection[p] \/ shared'[p]
<1>1. IInv /\ Next => Forward
  <2> SUFFICES ASSUME IInv, Next, NEW p \in Parts
               PROVE  projection'[p] >= projection[p] \/ shared'[p]
    OBVIOUS
  <2>1. projection[p] \in Nat /\ projection[p] <= newest[p] /\ newest[p] \in Nat
    BY DEF IInv, TypeOK, CopiesAreOld
  <2>2. CASE projection' = projection
    BY <2>1, <2>2
  <2>3. ASSUME NEW w \in Workers, Write(w)
        PROVE  projection'[p] >= projection[p] \/ shared'[p]
    <3>1. /\ worker[w].pc = "write" /\ worker[w].part \in Parts /\ worker[w].copy \in Nat
          /\ projection' = [projection EXCEPT ![worker[w].part] = worker[w].copy]
          /\ shared' = [shared EXCEPT ![worker[w].part] = w \notin alone]
      BY <2>3, WorkerFields DEF Write, IInv
    <3>2. w \in alone => worker[w].copy >= newest[worker[w].part]
      BY DEF IInv, Lone
    <3>3. projection \in [Parts -> Nat] /\ shared \in [Parts -> BOOLEAN]
      BY DEF IInv, TypeOK
    <3>4. p # worker[w].part => projection'[p] = projection[p]
      BY <3>1, <3>3
    <3>5. p = worker[w].part => projection'[p] = worker[w].copy /\ shared'[p] = (w \notin alone)
      BY <3>1, <3>3
    <3>6. CASE p # worker[w].part
      BY <3>4, <3>6, <2>1
    <3>7. CASE p = worker[w].part /\ w \in alone
      BY <3>1, <3>2, <3>5, <3>7, <2>1
    <3>8. CASE p = worker[w].part /\ w \notin alone
      BY <3>5, <3>8
    <3> QED
      BY <3>6, <3>7, <3>8
  <2>4. projection' = projection \/ \E w \in Workers : Write(w)
    BY DEF Next, Work, Change, Deliver, StartRefresh, Claim, Fetch, MarkProcessed, Fail, Crash,
           LeaseExpires, storeVars
  <2> QED
    BY <2>2, <2>3, <2>4
<1>2. IInv /\ [Next]_vars => [Forward]_vars
  BY <1>1
<1> QED
  BY <1>2, ProjectionInvariant, PTL DEF Spec, OnlyOverlapGoesBack

-----------------------------------------------------------------------------
(***************************************************************************)
(* Overlap is the only cause of an old projection                          *)
(***************************************************************************)
LEMMA AllAloneStep ==
  ASSUME TypeOK, AllAlone, [Next]_vars,
         \A w \in Workers : Fetch(w) => Holding(worker[w].part) = {}
  PROVE  AllAlone'
<1>1. ASSUME NEW w \in Workers, Fetch(w) PROVE AllAlone'
  <2>1. /\ worker' = [worker EXCEPT ![w] = Doing("write", @.job, @.part, stripe[@.part])]
        /\ alone' = alone \cup {w} /\ UNCHANGED shared
    BY <1>1 DEF Fetch, Meet, storeVars
  <2> QED
    BY <2>1 DEF TypeOK, AllAlone
<1>2. ASSUME NEW w \in Workers, Write(w) PROVE AllAlone'
  <2>1. w \in alone
    BY <1>2 DEF AllAlone, Write
  <2>2. worker' = [worker EXCEPT ![w] = AfterWrite(w)] /\ AfterWrite(w).pc # "write"
    BY <1>2 DEF Write, AfterWrite, Doing, Idle
  <2>3. alone' = alone \ {w} /\ \A p \in Parts : ~shared'[p]
    BY <1>2, <2>1 DEF Write, AllAlone, TypeOK
  <2> QED
    BY <2>2, <2>3 DEF TypeOK, AllAlone
<1>3. ASSUME NEW w \in Workers, NEW new, new.pc # "write",
             worker' = [worker EXCEPT ![w] = new],
             alone' = alone \/ alone' = alone \ {w}, UNCHANGED shared
      PROVE  AllAlone'
  BY <1>3 DEF TypeOK, AllAlone
<1>4. ASSUME NEW w \in Workers, Claim(w) \/ MarkProcessed(w) PROVE AllAlone'
  <2>1. UNCHANGED <<alone, shared>>
    BY <1>4 DEF Claim, MarkProcessed, storeVars, history
  <2>2. PICK e \in {worker[w].job} :
          worker' = [worker EXCEPT ![w] = Idle]
          \/ worker' = [worker EXCEPT ![w] = Doing("fetch", e, event[e].part, 0)]
    BY <1>4 DEF Claim, MarkProcessed, Answer, Take
  <2> QED
    BY <1>3, <2>1, <2>2 DEF Idle, Doing
<1>5. ASSUME NEW w \in Workers, StartRefresh(w) \/ Fail(w) \/ Crash(w) PROVE AllAlone'
  BY <1>3, <1>5 DEF StartRefresh, Fail, Crash, Idle, Doing, history, storeVars
<1>6. ASSUME NEW w \in Workers, NEW e \in Events, Deliver(w, e) PROVE AllAlone'
  BY <1>3, <1>6 DEF Deliver, Doing, history
<1>7. CASE UNCHANGED <<worker, alone, shared>>
  BY <1>7 DEF AllAlone
<1>8. CASE \/ UNCHANGED vars
           \/ \E p \in Parts : Change(p)
           \/ \E e \in Events : LeaseExpires(e)
  BY <1>7, <1>8 DEF vars, Change, LeaseExpires, history
<1> QED
  BY <1>1, <1>2, <1>4, <1>5, <1>6, <1>8 DEF Next, Work

\* If no synchronization of a part began while another one had fetched and not yet
\* stored it, the claim of billing/README.md:123 would hold, whatever failed, died or
\* was delivered late or twice: the overlap that the code allows (stripe-sync.ts:18-60)
\* is the only way to an old projection.
THEOREM OverlapIsTheCause == Spec /\ NoOverlap => []QuietProjectionIsCurrent
<1>1. Init => AllAlone
  BY DEF Init, AllAlone, Idle, Doing
<1>2. /\ TypeOK /\ AllAlone /\ [Next]_vars
      /\ [\A w \in Workers : Fetch(w) => Holding(worker[w].part) = {}]_vars
      => AllAlone'
  <2>1. CASE UNCHANGED vars
    BY <2>1 DEF vars, AllAlone
  <2> QED
    BY <2>1, AllAloneStep
<1>3. TypeOK /\ AllAlone /\ LoneStoreIsCurrent => QuietProjectionIsCurrent
  BY DEF TypeOK, AllAlone, LoneStoreIsCurrent, QuietProjectionIsCurrent
<1> QED
  BY <1>1, <1>2, <1>3, ProjectionTypeCorrect, LoneStoreRepairs, PTL DEF Spec, NoOverlap

\* One request at a time is one way to have no overlap (webhook.ts:38-47).
THEOREM OneAtATimeIsCurrent ==
  ASSUME \A w, x \in Workers : w = x
  PROVE  Spec => []QuietProjectionIsCurrent
<1>1. [Next]_vars => [\A w \in Workers : Fetch(w) => Holding(worker[w].part) = {}]_vars
  BY DEF Fetch, Holding
<1> QED
  BY <1>1, OverlapIsTheCause, PTL DEF Spec, NoOverlap

=============================================================================
