------------------------- MODULE MCLicenseProtocol -------------------------
(***************************************************************************)
(* A small instance of LicenseProtocol for TLC.                            *)
(***************************************************************************)
EXTENDS LicenseProtocol, TLC

\* With grace, with a period that ends, without camera.live, cancelled.
SomePlans ==
  LET base == {"devices", "pro"} IN
  {[keys |-> base \cup {"camera_live", "offline_grace"}, subscription |-> "bought", end |-> None],
   [keys |-> base \cup {"camera_live", "adaptive_optics"}, subscription |-> "bought", end |-> 2],
   [keys |-> base \cup {"adaptive_optics"}, subscription |-> "other", end |-> None],
   [keys |-> {}, subscription |-> "none", end |-> None]}

BehindToAhead == -1 .. 1

=============================================================================
