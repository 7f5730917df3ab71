-------------------------- MODULE IssuerKeysProofs --------------------------
(***************************************************************************)
(* For any number of processes, keys and rotations: what ClientFilesProofs *)
(* says of the device key and the licence file carries over, and a saved   *)
(* licence stays verifiable with the keyset file as long as it lives.      *)
(***************************************************************************)
EXTENDS IssuerKeys, ClientFilesProofs

\* A step of a command here is one of ClientFiles, or changes nothing there.
LEMMA FilesStep == [KeysNext]_allVars => [Next]_vars
<1> SUFFICES ASSUME [KeysNext]_allVars PROVE [Next]_vars
  OBVIOUS
<1>1. CASE UNCHANGED allVars
  BY <1>1 DEF allVars
<1>2. CASE FetchStep \/ Publish \/ Activate \/ Retire \/ LicenceDies
  BY <1>2 DEF FetchStep, FetchKeyset, CreateKeyset, WriteKeyset, RenameKeyset, FetchKilled,
              Publish, Activate, Retire, LicenceDies
<1>3. ASSUME NEW p \in Processes,
             \/ \E command \in {"activate", "refresh", "scan"} : BeginCommand(p, command)
             \/ CommandFails(p) \/ KeyStep(p)
      PROVE  Next
  BY <1>3 DEF BeginCommand, CommandFails, KeyStep, Next, Step
<1>4. ASSUME NEW p \in Processes, IssueLicence(p) \/ VerifyAndSave(p) \/ Authorize(p)
      PROVE  Next
  BY <1>4 DEF IssueLicence, VerifyAndSave, Authorize, Next, Step
<1>5. ASSUME NEW p \in Processes, ReadKeyset(p)
      PROVE  [Next]_vars
  <2>1. CASE UNCHANGED process
    BY <1>5, <2>1 DEF ReadKeyset, vars, fileVars, serviceVars
  <2>2. CASE End(p)
    <3>1. CASE process[p].pc = "exchange"
      <4>1. Exchange(p)
        BY <1>5, <2>2, <3>1 DEF ReadKeyset, Exchange
      <4> QED
        BY <4>1 DEF Next, Step
    <3>2. CASE process[p].pc = "stat"
      <4>1. StatToken(p)
        BY <1>5, <2>2, <3>2 DEF ReadKeyset, StatToken
      <4> QED
        BY <4>1 DEF Next, Step
    <3> QED
      BY <1>5, <3>1, <3>2 DEF ReadKeyset
  <2> QED
    BY <1>5, <2>1, <2>2 DEF ReadKeyset
<1> QED
  BY <1>1, <1>2, <1>3, <1>4, <1>5 DEF KeysNext, CommandStep

\* IssuerKeys is ClientFiles with more guards and more variables.
LEMMA KeysAreFiles == KeysSpec => Spec
<1>1. KeysInit => Init
  BY DEF KeysInit
<1> QED
  BY <1>1, FilesStep, PTL DEF KeysSpec, Spec

\* What ClientFilesProofs says of the key of a registered device and of the licence
\* file holds for the commands with their keysets (device.py:96-114,
\* activation.py:365).
THEOREM FilesSafety == KeysSpec => []RegisteredKeyIsKept /\ []TokenFitsDevice
BY KeysAreFiles, KeySafety, TokenSafety, PTL

-----------------------------------------------------------------------------
\* The types of this module's variables.
KeysOK ==
  /\ active \in Kids /\ published \in Keyset /\ retired \subseteq Kids
  /\ signedBy \in [1 .. MaxIssued -> Kids]
  /\ dead \subseteq 1 .. issued
  /\ keysetThere \in BOOLEAN /\ keysetFile \in SUBSET Kids
  /\ trust \in [Processes -> SUBSET Kids]
  /\ fetch \in Fetch

LEMMA KeysParts ==
  KeysInv <=> TypeOK /\ KeysOK /\ KeysetsGrow /\ SignersLive /\ SerialsIssued /\ SavedLicenceVerifies
BY DEF KeysInv, KeysTypeOK, KeysOK

LEMMA KeysInitInv == KeysInit => KeysInv
<1> SUFFICES ASSUME KeysInit PROVE KeysInv
  OBVIOUS
<1>1. 1 \in Kids
  BY KidsAssumption DEF Kids
<1>2. TypeOK
  BY InitInv DEF KeysInit, IInv
<1>3. KeysOK
  BY <1>1 DEF KeysInit, KeysOK, Keyset, Fetch, NoFetch
<1>4. KeysetsGrow /\ SignersLive
  <2>1. fetch.pc = "idle" /\ fetch.body = {} /\ keysetFile = {} /\ retired = {}
    BY DEF KeysInit, NoFetch
  <2>2. \A p \in Processes : trust[p] = {}
    BY DEF KeysInit
  <2> QED
    BY <2>1, <2>2 DEF KeysetsGrow, SignersLive
<1>5. SerialsIssued /\ SavedLicenceVerifies
  BY DEF KeysInit, Init, Idle, SerialsIssued, SavedLicenceVerifies
<1> QED
  BY <1>2, <1>3, <1>4, <1>5, KeysParts

\* The operator and keyset-fetch.
LEMMA OperatorStep ==
  ASSUME IInv', KeysInv, Publish \/ Activate \/ Retire \/ LicenceDies
  PROVE  KeysInv'
<1>0. KeysOK /\ KeysetsGrow /\ SignersLive /\ SerialsIssued /\ SavedLicenceVerifies
  BY KeysParts
<1>1. TypeOK' /\ UNCHANGED vars
  BY DEF IInv, Publish, Activate, Retire, LicenceDies
<1>2. SerialsIssued'
  BY <1>0, <1>1 DEF SerialsIssued, vars
<1>3. CASE Publish
  <2>1. published' \in Keyset /\ published \subseteq published'
    BY <1>0, <1>3 DEF Publish, KeysOK, Keyset
  <2>2. UNCHANGED <<active, retired, licenceVars, clientVars>>
    BY <1>3 DEF Publish
  <2>3. KeysetsGrow'
    BY <1>0, <2>1, <2>2 DEF KeysetsGrow, clientVars, fileOfKeys
  <2>4. SignersLive'
    BY <1>0, <1>1, <2>2 DEF SignersLive, licenceVars, vars
  <2> QED
    BY <1>0, <1>1, <1>2, <2>1, <2>2, <2>3, <2>4 DEF KeysInv, KeysTypeOK, KeysOK,
       SavedLicenceVerifies, licenceVars, clientVars, fileOfKeys, vars
<1>4. CASE Activate
  <2>1. active' \in Kids /\ active' = active + 1 /\ active \in Nat
    BY <1>0, <1>4, KidsAssumption DEF Activate, KeysOK, Kids
  <2>2. published' \in Keyset /\ published \subseteq published'
    <3>1. published' = published \/ published' = published \cup {active'}
      BY <1>4 DEF Activate
    <3> QED
      BY <1>0, <2>1, <3>1 DEF KeysOK, Keyset
  <2>3. UNCHANGED <<retired, licenceVars, clientVars>>
    BY <1>4 DEF Activate
  <2>4. SignersLive'
    <3>1. \A k \in retired : k \in Nat
      BY <1>0 DEF KeysOK, Kids
    <3> QED
      BY <1>0, <1>1, <2>1, <2>3, <3>1 DEF SignersLive, licenceVars, vars
  <2> QED
    BY <1>0, <1>1, <1>2, <2>1, <2>2, <2>3, <2>4 DEF KeysInv, KeysTypeOK, KeysOK, KeysetsGrow,
       SavedLicenceVerifies, licenceVars, clientVars, fileOfKeys, vars
<1>5. CASE Retire
  <2>1. PICK k \in published :
          /\ k < active /\ published # {k}
          /\ \A s \in 1 .. issued : signedBy[s] = k => s \in dead
          /\ published' = published \ {k}
          /\ retired' = retired \cup {k}
    BY <1>5 DEF Retire
  <2>2. UNCHANGED <<active, licenceVars, clientVars>>
    BY <1>5 DEF Retire
  <2>3. published' \in Keyset /\ retired' \subseteq Kids
    BY <1>0, <2>1 DEF KeysOK, Keyset
  <2>4. KeysetsGrow'
    BY <1>0, <2>1, <2>2 DEF KeysetsGrow, clientVars, fileOfKeys
  <2>5. SignersLive'
    BY <1>0, <1>1, <2>1, <2>2 DEF SignersLive, licenceVars, vars
  <2> QED
    BY <1>0, <1>1, <1>2, <2>2, <2>3, <2>4, <2>5 DEF KeysInv, KeysTypeOK, KeysOK,
       SavedLicenceVerifies, licenceVars, clientVars, fileOfKeys, vars
<1>6. CASE LicenceDies
  <2>1. dead \subseteq dead' /\ dead' \subseteq 1 .. issued
    BY <1>0, <1>6 DEF LicenceDies, KeysOK
  <2> QED
    BY <1>0, <1>1, <1>2, <1>6, <2>1 DEF LicenceDies, KeysInv, KeysTypeOK, KeysOK, KeysetsGrow,
       SignersLive, SavedLicenceVerifies, signerVars, clientVars, fileOfKeys, vars
<1> QED
  BY <1>3, <1>4, <1>5, <1>6

LEMMA FetchInv ==
  ASSUME IInv', KeysInv, FetchStep
  PROVE  KeysInv'
<1>0. KeysOK /\ KeysetsGrow /\ SignersLive /\ SerialsIssued /\ SavedLicenceVerifies
  BY KeysParts
<1>1. TypeOK' /\ UNCHANGED <<vars, signerVars, licenceVars, trust>>
  BY DEF IInv, FetchStep, FetchKeyset, CreateKeyset, WriteKeyset, RenameKeyset, FetchKilled
<1>2. SerialsIssued' /\ SignersLive'
  BY <1>0, <1>1 DEF SerialsIssued, SignersLive, vars, signerVars, licenceVars
<1>3. CASE \E overwrite \in BOOLEAN : FetchKeyset(overwrite)
  <2>1. /\ fetch' \in Fetch /\ fetch'.body = published /\ fetch'.pc \in {"create", "rename"}
        /\ UNCHANGED fileOfKeys
    BY <1>0, <1>3 DEF FetchKeyset, Fetch, KeysOK, Keyset
  <2> QED
    BY <1>0, <1>1, <1>2, <2>1 DEF KeysInv, KeysTypeOK, KeysOK, KeysetsGrow,
       SavedLicenceVerifies, signerVars, licenceVars, fileOfKeys, vars
<1>4. CASE FetchKilled
  <2>1. fetch' \in Fetch /\ fetch'.pc = "idle" /\ fetch'.body = {} /\ UNCHANGED fileOfKeys
    BY <1>4 DEF FetchKilled, NoFetch, Fetch
  <2> QED
    BY <1>0, <1>1, <1>2, <2>1 DEF KeysInv, KeysTypeOK, KeysOK, KeysetsGrow,
       SavedLicenceVerifies, signerVars, licenceVars, fileOfKeys, vars
<1>5. CASE CreateKeyset
  <2>1. /\ fetch' \in Fetch /\ keysetThere' = TRUE /\ keysetFile' = keysetFile
        /\ \/ fetch'.pc = "idle" /\ fetch'.body = {}
           \/ fetch'.pc = "write" /\ fetch'.body = fetch.body /\ ~keysetThere
    BY <1>0, <1>5 DEF CreateKeyset, NoFetch, Fetch, KeysOK
  <2>2. fetch.pc # "idle"
    BY <1>5 DEF CreateKeyset
  <2> QED
    BY <1>0, <1>1, <1>2, <2>1, <2>2 DEF KeysInv, KeysTypeOK, KeysOK, KeysetsGrow,
       SavedLicenceVerifies, signerVars, licenceVars, vars
<1>6. CASE WriteKeyset \/ RenameKeyset
  <2>0. fetch' = NoFetch /\ keysetFile' = fetch.body /\ fetch.pc # "idle"
    BY <1>6 DEF WriteKeyset, RenameKeyset
  <2>1. /\ fetch' \in Fetch /\ fetch'.pc = "idle" /\ fetch'.body = {}
        /\ keysetFile' = fetch.body /\ fetch.pc # "idle"
    BY <2>0 DEF NoFetch, Fetch
  <2>2. keysetFile \subseteq keysetFile' \cup retired
    BY <1>0, <2>1 DEF KeysetsGrow
  <2>3. fetch.body \in SUBSET Kids
    BY <1>0 DEF KeysOK, Fetch
  <2>4. keysetThere' = TRUE
    <3>1. CASE WriteKeyset
      BY <1>0, <3>1 DEF WriteKeyset, KeysetsGrow, KeysOK
    <3>2. CASE RenameKeyset
      BY <3>2 DEF RenameKeyset
    <3> QED
      BY <1>6, <3>1, <3>2
  <2>5. KeysetsGrow'
    BY <1>0, <1>1, <2>1, <2>2, <2>4 DEF KeysetsGrow, signerVars
  <2>6. SavedLicenceVerifies'
    <3> SUFFICES ASSUME tokenFile # Absent, tokenFile.serial \notin dead
                 PROVE  signedBy[tokenFile.serial] \in keysetFile'
      BY <1>1 DEF SavedLicenceVerifies, vars, licenceVars
    <3>1. signedBy[tokenFile.serial] \in keysetFile /\ signedBy[tokenFile.serial] \notin retired
      BY <1>0 DEF SavedLicenceVerifies, SignersLive, SerialsIssued
    <3> QED
      BY <2>2, <3>1
  <2>7. KeysOK'
    BY <1>0, <1>1, <2>1, <2>3, <2>4 DEF KeysOK, signerVars, licenceVars, vars
  <2> QED
    BY <1>1, <1>2, <2>5, <2>6, <2>7 DEF KeysInv, KeysTypeOK, KeysOK
<1> QED
  BY <1>3, <1>4, <1>5, <1>6 DEF FetchStep

-----------------------------------------------------------------------------
\* A command that ends forgets its keyset: no keyset in memory grows.
LEMMA ForgetInv ==
  ASSUME NEW p \in Processes, KeysOK, Forget(p)
  PROVE  /\ trust' \in [Processes -> SUBSET Kids]
         /\ \A q \in Processes : trust'[q] \subseteq trust[q]
BY DEF Forget, KeysOK

\* A step that issues and stores no licence, and a step after which no process has
\* a keyset that the file or the rotation does not account for.
Quiet ==
  /\ UNCHANGED <<signedBy, tokenFile, issued>> /\ KeepKeys
  /\ \A q \in Processes : process'[q].pc = "save" => process'[q] = process[q]

TrustKept ==
  /\ trust' \in [Processes -> SUBSET Kids]
  /\ \A q \in Processes : trust'[q] \subseteq keysetFile \cup retired

LEMMA QuietKeeps ==
  IInv' /\ KeysInv /\ Quiet /\ TrustKept => KeysInv'
<1> SUFFICES ASSUME IInv', KeysInv, Quiet, TrustKept PROVE KeysInv'
  OBVIOUS
<1>0. KeysOK /\ KeysetsGrow /\ SignersLive /\ SerialsIssued /\ SavedLicenceVerifies
  BY KeysParts
<1>1. TypeOK'
  BY DEF IInv
<1>2. UNCHANGED <<active, published, retired, dead, keysetThere, keysetFile, fetch>>
  BY DEF Quiet, KeepKeys, signerVars, fileOfKeys
<1>3. KeysOK'
  BY <1>0, <1>2 DEF KeysOK, Quiet, TrustKept
<1>4. KeysetsGrow'
  BY <1>0, <1>2 DEF KeysetsGrow, TrustKept
<1>5. SignersLive' /\ SavedLicenceVerifies'
  BY <1>0, <1>2 DEF SignersLive, SavedLicenceVerifies, Quiet
<1>6. SerialsIssued'
  BY <1>0 DEF SerialsIssued, Quiet
<1> QED
  BY <1>1, <1>3, <1>4, <1>5, <1>6 DEF KeysInv, KeysTypeOK, KeysOK

\* What the steps of a command that issue and store no licence leave alone.
LEMMA QuietFacts ==
  ASSUME NEW p \in Processes, IInv,
         \/ \E command \in {"activate", "refresh", "scan"} : BeginCommand(p, command)
         \/ CommandFails(p) \/ KeyStep(p) \/ Authorize(p) \/ ReadKeyset(p)
  PROVE  Quiet
<1>0. process \in [Processes -> Process]
  BY DEF IInv, TypeOK
<1>1. CASE \E command \in {"activate", "refresh", "scan"} : BeginCommand(p, command)
  BY <1>0, <1>1 DEF Quiet, BeginCommand, Begin, Idle, Process, fileVars, serviceVars
<1>2. CASE CommandFails(p)
  BY <1>0, <1>2 DEF Quiet, CommandFails, Fault, End, Idle, Process, fileVars, serviceVars
<1>3. CASE KeyStep(p)
  <2>1. UNCHANGED <<signedBy, tokenFile, issued>> /\ KeepKeys
    BY <1>3 DEF KeyStep, LoadKey, KeyExists, CreateKey, WriteKey, ReloadKey, Scan, fileVars, serviceVars
  <2>2. CASE LoadKey(p) \/ ReloadKey(p) \/ Scan(p)
    BY <1>0, <2>1, <2>2 DEF Quiet, LoadKey, ReloadKey, Scan, HaveKey, Goto, End, Idle, Process
  <2>3. CASE KeyExists(p) \/ CreateKey(p) \/ WriteKey(p)
    <3>1. CASE KeyExists(p)
      <4>1. \/ process' = [process EXCEPT ![p] = Idle]
            \/ \E k \in Keys : process' = [process EXCEPT ![p].key = k, ![p].pc = "create"]
        BY <3>1 DEF KeyExists, End
      <4> QED
        <5>1. ASSUME NEW k \in Keys,
                     process' = [process EXCEPT ![p].key = k, ![p].pc = "create"]
              PROVE  Quiet
          BY <1>0, <2>1, <5>1 DEF Quiet
        <5>2. CASE process' = [process EXCEPT ![p] = Idle]
          BY <1>0, <2>1, <5>2 DEF Quiet, Idle
        <5> QED
          BY <4>1, <5>1, <5>2
    <3>2. CASE CreateKey(p)
      <4>1. \E pc \in {"write", "reload"} : process' = [process EXCEPT ![p].pc = pc]
        BY <3>2 DEF CreateKey, Goto
      <4> QED
        BY <1>0, <2>1, <4>1 DEF Quiet
    <3>3. CASE WriteKey(p)
      BY <1>0, <2>1, <3>3 DEF Quiet, WriteKey, Goto
    <3> QED
      BY <2>3, <3>1, <3>2, <3>3
  <2> QED
    BY <1>3, <2>2, <2>3, <2>1 DEF KeyStep
<1>4. CASE Authorize(p)
  BY <1>0, <1>4 DEF Quiet, Authorize, StatToken, ReadToken, Goto, End, Idle, Process, fileVars, serviceVars
<1>5. CASE ReadKeyset(p)
  BY <1>0, <1>5 DEF Quiet, ReadKeyset, End, Idle, Process, fileVars, serviceVars
<1> QED
  BY <1>1, <1>2, <1>3, <1>4, <1>5

LEMMA QuietCommand ==
  ASSUME NEW p \in Processes, IInv, IInv', KeysInv,
         \/ \E command \in {"activate", "refresh", "scan"} : BeginCommand(p, command)
         \/ CommandFails(p) \/ KeyStep(p) \/ Authorize(p) \/ ReadKeyset(p)
  PROVE  KeysInv'
<1>0. KeysOK /\ \A q \in Processes : trust[q] \subseteq keysetFile \cup retired
  BY KeysParts DEF KeysetsGrow
<1>1. TrustKept
  <2>1. CASE UNCHANGED trust
    BY <1>0, <2>1 DEF TrustKept, KeysOK
  <2>2. CASE Forget(p)
    BY <1>0, <2>2, ForgetInv DEF TrustKept
  <2>3. CASE trust' = [trust EXCEPT ![p] = keysetFile]
    BY <1>0, <2>3 DEF TrustKept, KeysOK
  <2> QED
    BY <2>1, <2>2, <2>3 DEF BeginCommand, CommandFails, KeyStep, Authorize, ReadKeyset
<1> QED
  BY <1>1, QuietFacts, QuietKeeps

\* A new licence has the next serial number, and is signed with a key that has not
\* been retired.
LEMMA IssueInv ==
  ASSUME NEW p \in Processes, IInv, IInv', KeysInv, IssueLicence(p)
  PROVE  KeysInv'
<1>0. KeysOK /\ KeysetsGrow /\ SignersLive /\ SerialsIssued /\ SavedLicenceVerifies
  BY KeysParts
<1>1. TypeOK' /\ issued \in Nat /\ process \in [Processes -> Process]
  BY DEF IInv, TypeOK
<1>2. UNCHANGED <<active, published, retired, dead, keysetThere, keysetFile, fetch, tokenFile>>
  BY DEF IssueLicence, KeepKeys, Exchange, signerVars, fileOfKeys, fileVars
<1>3. /\ trust' \in [Processes -> SUBSET Kids]
      /\ \A q \in Processes : trust'[q] \subseteq trust[q]
  BY <1>0, ForgetInv DEF IssueLicence
<1>4. issued' = issued \/ issued' = issued + 1
  BY DEF IssueLicence, Exchange, serviceVars
<1>5. signedBy' = [s \in 1 .. MaxIssued |-> IF s \in issued + 1 .. issued' THEN active
                                            ELSE signedBy[s]]
  BY DEF IssueLicence
<1>6. KeysOK'
  BY <1>0, <1>1, <1>2, <1>3, <1>4, <1>5 DEF KeysOK
<1>7. KeysetsGrow'
  BY <1>0, <1>2, <1>3 DEF KeysetsGrow
<1>8. issued' \in 0 .. MaxIssued /\ MaxIssued \in Nat
  BY <1>1, BoundsAssumption DEF TypeOK
<1>9. \A s \in 1 .. issued : signedBy'[s] = signedBy[s] /\ s \in 1 .. issued'
  BY <1>1, <1>4, <1>5, <1>8
<1>10. SignersLive'
  <2>1. \A k \in retired : k < active
    BY <1>0 DEF SignersLive
  <2>2. ASSUME NEW s \in 1 .. issued', signedBy'[s] \in retired PROVE s \in dead
    <3>1. CASE s \in 1 .. issued
      BY <1>0, <1>9, <2>2, <3>1 DEF SignersLive
    <3>2. CASE s \notin 1 .. issued
      <4>1. signedBy'[s] = active
        BY <1>1, <1>4, <1>5, <1>8, <3>2
      <4>2. active \in Nat
        BY <1>0 DEF KeysOK, Kids
      <4> QED
        BY <2>1, <2>2, <4>1, <4>2
    <3> QED
      BY <3>1, <3>2
  <2> QED
    BY <1>2, <2>1, <2>2 DEF SignersLive
<1>11. SerialsIssued'
  <2>1. \A q \in Processes : process'[q].pc = "save" =>
          \/ process'[q] = process[q]
          \/ process'[q].serial = issued' /\ issued' = issued + 1
    <3>1. CASE End(p)
      <4>1. process' = [process EXCEPT ![p] = Idle] /\ Idle.pc # "save"
        BY <3>1 DEF End, Idle
      <4> QED
        BY <1>1, <4>1
    <3>2. CASE /\ issued' = issued + 1
               /\ process' = [process EXCEPT ![p].serial = issued', ![p].pc = "save"]
      BY <1>1, <3>2 DEF Process
    <3> QED
      BY <3>1, <3>2 DEF IssueLicence, Exchange
  <2>2. \A q \in Processes : process'[q].pc = "save" => process'[q].serial \in 1 .. issued'
    BY <1>0, <1>1, <1>9, <2>1 DEF SerialsIssued
  <2> QED
    BY <1>0, <1>2, <1>9, <2>2 DEF SerialsIssued
<1>12. SavedLicenceVerifies'
  <2>1. tokenFile # Absent => signedBy'[tokenFile.serial] = signedBy[tokenFile.serial]
    BY <1>0, <1>9 DEF SerialsIssued
  <2> QED
    BY <1>0, <1>2, <2>1 DEF SavedLicenceVerifies
<1> QED
  BY <1>1, <1>6, <1>7, <1>10, <1>11, <1>12 DEF KeysInv, KeysTypeOK, KeysOK

\* A licence is saved when a key in memory has verified it: that key is in the
\* file, or was retired after the licence had died.
LEMMA SaveInv ==
  ASSUME NEW p \in Processes, IInv, IInv', KeysInv, VerifyAndSave(p)
  PROVE  KeysInv'
<1>0. KeysOK /\ KeysetsGrow /\ SignersLive /\ SerialsIssued /\ SavedLicenceVerifies
  BY KeysParts
<1>1. TypeOK' /\ process \in [Processes -> Process]
  BY DEF IInv, TypeOK
<1>2. UNCHANGED <<active, published, retired, dead, keysetThere, keysetFile, fetch, signedBy, issued>>
  BY DEF VerifyAndSave, KeepKeys, SaveToken, signerVars, fileOfKeys, serviceVars
<1>3. /\ trust' \in [Processes -> SUBSET Kids]
      /\ \A q \in Processes : trust'[q] \subseteq trust[q]
  BY <1>0, ForgetInv DEF VerifyAndSave
<1>4. KeysOK'
  BY <1>0, <1>2, <1>3 DEF KeysOK
<1>5. KeysetsGrow'
  BY <1>0, <1>2, <1>3 DEF KeysetsGrow
<1>6. SignersLive'
  BY <1>0, <1>2 DEF SignersLive
<1>7. process[p].pc = "save" /\ process[p].serial \in 1 .. issued
  BY <1>0 DEF VerifyAndSave, SaveToken, SerialsIssued
<1>8. CASE UNCHANGED tokenFile
  <2>1. SerialsIssued'
    BY <1>0, <1>1, <1>2, <1>8 DEF SerialsIssued, VerifyAndSave, SaveToken, End, Idle
  <2> QED
    BY <1>0, <1>1, <1>2, <1>4, <1>5, <1>6, <1>8, <2>1
       DEF KeysInv, KeysTypeOK, KeysOK, SavedLicenceVerifies
<1>9. CASE tokenFile' # tokenFile
  <2>1. tokenFile' = [device |-> process[p].key, serial |-> process[p].serial]
    BY <1>9 DEF VerifyAndSave, SaveToken
  <2>2. signedBy[process[p].serial] \in trust[p] /\ process[p].serial \notin dead
    BY <1>9 DEF VerifyAndSave, Verifies
  <2>3. signedBy[process[p].serial] \in keysetFile
    BY <1>0, <1>7, <2>2 DEF KeysetsGrow, SignersLive
  <2>4. tokenFile'.serial = process[p].serial
    BY <2>1
  <2>5. SavedLicenceVerifies'
    BY <1>2, <2>3, <2>4 DEF SavedLicenceVerifies
  <2>6. SerialsIssued'
    BY <1>0, <1>1, <1>2, <1>7, <2>4 DEF SerialsIssued, VerifyAndSave, SaveToken, End, Idle
  <2> QED
    BY <1>1, <1>4, <1>5, <1>6, <2>5, <2>6 DEF KeysInv, KeysTypeOK, KeysOK
<1> QED
  BY <1>8, <1>9

LEMMA KeysStepInv == IInv /\ IInv' /\ KeysInv /\ [KeysNext]_allVars => KeysInv'
<1> SUFFICES ASSUME IInv, IInv', KeysInv, [KeysNext]_allVars PROVE KeysInv'
  OBVIOUS
<1>1. CASE UNCHANGED allVars
  BY <1>1 DEF KeysInv, KeysTypeOK, KeysetsGrow, SignersLive, SerialsIssued, SavedLicenceVerifies,
              TypeOK, allVars, vars, keyVars, signerVars, licenceVars, clientVars, fileOfKeys
<1>2. CASE Publish \/ Activate \/ Retire \/ LicenceDies
  BY <1>2, OperatorStep
<1>3. CASE FetchStep
  BY <1>3, FetchInv
<1>4. ASSUME NEW p \in Processes,
             \/ \E command \in {"activate", "refresh", "scan"} : BeginCommand(p, command)
             \/ CommandStep(p)
             \/ CommandFails(p)
      PROVE  KeysInv'
  BY <1>4, QuietCommand, IssueInv, SaveInv DEF CommandStep
<1> QED
  BY <1>1, <1>2, <1>3, <1>4 DEF KeysNext

LEMMA KeysInvariant == KeysSpec => []KeysInv
<1>1. KeysSpec => []IInv
  BY KeysAreFiles, Invariance, PTL
<1> QED
  BY <1>1, KeysInitInv, KeysStepInv, PTL DEF KeysSpec

\* The types of IssuerKeys (issuer keys, published keyset, keyset file, memories).
THEOREM KeysTypeCorrect == KeysSpec => []KeysTypeOK
<1>1. KeysInv => KeysTypeOK
  BY DEF KeysInv
<1> QED
  BY <1>1, KeysInvariant, PTL

\* A saved licence can be verified with the keyset file while it lives, whatever
\* rotations, fetches and commands overlap (entitlement.py:104-107,
\* activation.py:334-366, billing/README.md:224-230).
THEOREM SavedVerifies == KeysSpec => []SavedLicenceVerifies
<1>1. KeysInv => SavedLicenceVerifies
  BY DEF KeysInv
<1> QED
  BY <1>1, KeysInvariant, PTL

-----------------------------------------------------------------------------
\* A keyset that is being fetched has keys: the published one always has.
BodyFull == fetch.pc # "idle" => fetch.body # {}

LEMMA BodyFullStep == KeysInv /\ BodyFull /\ [KeysNext]_allVars => BodyFull'
<1> SUFFICES ASSUME KeysInv, BodyFull, [KeysNext]_allVars PROVE BodyFull'
  OBVIOUS
<1>1. CASE UNCHANGED fetch
  BY <1>1 DEF BodyFull
<1>2. CASE \E overwrite \in BOOLEAN : FetchKeyset(overwrite)
  <2>1. published # {}
    BY KeysParts DEF KeysOK, Keyset
  <2> QED
    BY <1>2, <2>1 DEF FetchKeyset, BodyFull
<1>3. CASE fetch' = NoFetch
  BY <1>3 DEF BodyFull, NoFetch
<1>4. CASE CreateKeyset
  BY <1>4, KeysParts DEF CreateKeyset, BodyFull, NoFetch, KeysOK, Fetch
<1> QED
  BY <1>1, <1>2, <1>3, <1>4
     DEF KeysNext, allVars, keyVars, clientVars, FetchStep, WriteKeyset, RenameKeyset, FetchKilled,
         Publish, Activate, Retire, LicenceDies, BeginCommand, CommandFails, CommandStep,
         KeyStep, ReadKeyset, IssueLicence, VerifyAndSave, Authorize, KeepKeys

\* Who changes the keyset file, and to what.
LEMMA KeysetFileStep ==
  ASSUME [KeysNext]_allVars
  PROVE  \/ UNCHANGED fileOfKeys /\ (fetch' = fetch \/ fetch.pc = "idle" \/ FetchKilled)
         \/ CreateKeyset
         \/ fetch.pc # "idle" /\ keysetThere' \in {TRUE, keysetThere} /\ keysetFile' = fetch.body
BY DEF KeysNext, allVars, keyVars, clientVars, FetchStep, FetchKeyset, WriteKeyset, RenameKeyset,
       FetchKilled, Publish, Activate, Retire, LicenceDies, BeginCommand, CommandFails,
       CommandStep, KeyStep, ReadKeyset, IssueLicence, VerifyAndSave, Authorize, KeepKeys

LEMMA BodyFullNow == KeysSpec => [](KeysInv /\ BodyFull)
<1>1. KeysInit => BodyFull
  BY DEF KeysInit, BodyFull, NoFetch
<1> QED
  BY <1>1, KeysInvariant, BodyFullStep, PTL DEF KeysSpec

\* keyset-fetch replaces a stored keyset by a whole one, never by an absent or an
\* incomplete file, whatever kills it (storage.py:110-135).
THEOREM KeysetIsReplacedWhole == KeysSpec => KeysetStays
<1>1. ASSUME BodyFull, [KeysNext]_allVars
      PROVE  keysetFile # {} => keysetFile' # {}
  BY <1>1, KeysetFileStep DEF CreateKeyset, BodyFull, fileOfKeys
<1> QED
  BY <1>1, BodyFullNow, PTL DEF KeysSpec, KeysetStays

LEMMA WholeStep ==
  ASSUME KeysInv, BodyFull, KeysetIsWhole, [KeysNext]_allVars,
         [fetch.pc = "write" => ~FetchKilled]_allVars
  PROVE  KeysetIsWhole'
<1>1. KeysOK /\ KeysetsGrow
  BY KeysParts
<1>2. CASE UNCHANGED fileOfKeys /\ fetch' = fetch
  BY <1>2 DEF KeysetIsWhole, fileOfKeys
<1>3. CASE UNCHANGED fileOfKeys /\ (fetch.pc = "idle" \/ FetchKilled)
  <2>1. fetch.pc # "write" \/ fetch' = fetch
    BY <1>3 DEF FetchKilled, allVars, keyVars, clientVars
  <2> QED
    BY <1>3, <2>1 DEF KeysetIsWhole, fileOfKeys
<1>4. CASE CreateKeyset
  <2>1. CASE keysetThere
    BY <1>1, <1>4, <2>1 DEF CreateKeyset, KeysetIsWhole
  <2>2. CASE ~keysetThere
    BY <1>1, <1>4, <2>2 DEF CreateKeyset, KeysetIsWhole, KeysOK, Fetch
  <2> QED
    BY <2>1, <2>2
<1>5. CASE fetch.pc # "idle" /\ keysetFile' = fetch.body
  BY <1>5 DEF BodyFull, KeysetIsWhole
<1> QED
  BY <1>2, <1>3, <1>4, <1>5, KeysetFileStep

\* The atomic store that keyset.py:42 promises fails in one way only: a kill
\* between the creation of a new keyset file and its content
\* (storage.py:91-108).  Without it no keyset file is ever incomplete.
THEOREM IncompleteHasOneCause == KeysSpec /\ NotKilledWriting => []KeysetIsWhole
<1>1. KeysInit => KeysetIsWhole
  BY DEF KeysInit, KeysetIsWhole
<1> QED
  BY <1>1, BodyFullNow, WholeStep, PTL DEF KeysSpec, NotKilledWriting

=============================================================================
