---------------------------- MODULE LicenseLedger ----------------------------
(***************************************************************************)
(* What the licence service promises, without requests, locks, challenges  *)
(* or clocks: a ledger of devices, licences and consumed Checkout Sessions *)
(* that changes in two ways only.  A licence is issued, which registers    *)
(* its device if need be, all in one step; a device is revoked together    *)
(* with every licence it has.                                              *)
(*                                                                         *)
(* LicenseService instantiates this module; its transactions, which        *)
(* overlap, wait, deadlock and fail, implement these two steps.            *)
(***************************************************************************)
EXTENDS Naturals, FiniteSets

CONSTANTS
  Accounts, Devices, Checkouts,
  Challenges,   \* the slots of licences: one for each challenge
  Buyer,        \* the account each Checkout Session was opened for
  Limits,       \* device limits that may be granted
  None

VARIABLES
  status,       \* status[d]: "absent", "active" or "revoked"
  home,         \* home[d]: the account of a registered device
  licence,      \* licence[c]: its state, account and device
  consumer      \* consumer[k]: the device Checkout Session k has activated

vars == <<status, home, licence, consumer>>

NoLicence == [state |-> "none", account |-> None, device |-> None]

Init ==
  /\ status = [d \in Devices |-> "absent"]
  /\ home = [d \in Devices |-> None]
  /\ licence = [c \in Challenges |-> NoLicence]
  /\ consumer = [k \in Checkouts |-> None]

ActiveDevices(a) == {d \in Devices : status[d] = "active" /\ home[d] = a}

\* An active device of the account, which it stays.
Known(a, d) ==
  /\ status[d] = "active" /\ home[d] = a
  /\ UNCHANGED <<status, home>>

\* A device nobody has registered: it becomes an active one of the account, whose
\* number of active devices some limit allows.
Register(a, d) ==
  /\ status[d] = "absent"
  /\ \E limit \in Limits : Cardinality(ActiveDevices(a)) < limit
  /\ status' = [status EXCEPT ![d] = "active"]
  /\ home' = [home EXCEPT ![d] = a]

\* A Checkout Session of the account is consumed, once.
Consume(a, d, k) ==
  /\ consumer[k] = None /\ Buyer[k] = a
  /\ consumer' = [consumer EXCEPT ![k] = d]

Issue(c, a, d) ==
  /\ licence[c].state = "none"
  /\ licence' = [licence EXCEPT ![c] = [state |-> "valid", account |-> a, device |-> d]]
  /\ Known(a, d) \/ Register(a, d)
  /\ (\E k \in Checkouts : Consume(a, d, k)) \/ UNCHANGED consumer

Revoke(d) ==
  /\ status[d] # "absent"
  /\ status' = [status EXCEPT ![d] = "revoked"]
  /\ licence' = [c \in Challenges |->
       IF licence[c].state # "none" /\ licence[c].device = d
       THEN [licence[c] EXCEPT !.state = "revoked"] ELSE licence[c]]
  /\ UNCHANGED <<home, consumer>>

Next ==
  \/ \E c \in Challenges, a \in Accounts, d \in Devices : Issue(c, a, d)
  \/ \E d \in Devices : Revoke(d)

Spec == Init /\ [][Next]_vars

=============================================================================
