-------------------------- MODULE MCLicenseService --------------------------
(***************************************************************************)
(* Small instances of LicenseService for TLC.                              *)
(***************************************************************************)
EXTENDS LicenseService, TLC

\* Every Checkout Session was opened for one and the same account.
OneBuyer == [k \in Checkouts |-> CHOOSE a \in Accounts : TRUE]

\* Challenges, devices and requests are interchangeable: no action or property
\* names one of them.
Symmetry == Permutations(Challenges) \cup Permutations(Devices) \cup Permutations(Requests)

=============================================================================
