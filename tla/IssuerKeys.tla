----------------------------- MODULE IssuerKeys -----------------------------
(***************************************************************************)
(* The issuer keys under the commands of ClientFiles: the service signs a  *)
(* licence with its active key, publishes a keyset and is taken to the     *)
(* next key by its operator; keyset-fetch stores a published keyset, and   *)
(* every other command reads that file once, before the licence service or *)
(* the licence file, and trusts the keys in it until it ends.              *)
(*                                                                         *)
(* The actions of ClientFiles are taken as they are; this module adds when *)
(* they are possible and what becomes of the keys.  One keyset-fetch runs  *)
(* at a time: of two, the older download may be stored last.               *)
(***************************************************************************)
EXTENDS ClientFiles

CONSTANT
  LastKid    \* number of issuer keys, 1 .. LastKid: a bound on the rotations

ASSUME KidsAssumption == LastKid \in Nat \ {0}

VARIABLES
  active,      \* LICENSE_KEY_ID of the service
  published,   \* the keys of LICENSE_PUBLIC_KEYSET_JSON
  retired,     \* keys that were published and removed (history)
  signedBy,    \* signedBy[s]: kid in the header of licence s
  dead,        \* licences past their grace period
  keysetThere, \* the file that --issuer-keys names exists
  keysetFile,  \* the keys in it, {} while it is absent or incomplete
  trust,       \* trust[p]: the keyset in memory, {} before it is read
  fetch        \* what keyset-fetch is doing

signerVars == <<active, published, retired>>
licenceVars == <<signedBy, dead>>
fileOfKeys == <<keysetThere, keysetFile>>
clientVars == <<fileOfKeys, trust, fetch>>
keyVars == <<signerVars, licenceVars, clientVars>>
allVars == <<vars, keyVars>>

Kids == 1 .. LastKid
Keyset == (SUBSET Kids) \ {{}}

Fetch == [pc : {"idle", "create", "write", "rename"}, body : SUBSET Kids]

NoFetch == [pc |-> "idle", body |-> {}]

KeysTypeOK ==
  /\ TypeOK
  /\ active \in Kids /\ published \in Keyset /\ retired \subseteq Kids
  /\ signedBy \in [1 .. MaxIssued -> Kids]
  /\ dead \subseteq 1 .. issued
  /\ keysetThere \in BOOLEAN /\ keysetFile \in SUBSET Kids
  /\ trust \in [Processes -> SUBSET Kids]
  /\ fetch \in Fetch

KeysInit ==
  /\ Init
  /\ active = 1 /\ published = {1} /\ retired = {}
  /\ signedBy = [s \in 1 .. MaxIssued |-> 1] /\ dead = {}
  /\ keysetThere = FALSE /\ keysetFile = {}
  /\ trust = [p \in Processes |-> {}]
  /\ fetch = NoFetch

-----------------------------------------------------------------------------
(***************************************************************************)
(* The service and its operator, who follows "License key rotation" of     *)
(* billing/README.md, save that nothing makes the operator publish a key   *)
(* before it signs: only the keyset route would notice.                    *)
(***************************************************************************)
Publish ==
  /\ \E k \in {active, active + 1} \cap Kids : published' = published \cup {k}
  /\ UNCHANGED <<vars, active, retired, licenceVars, clientVars>>

Activate ==
  /\ active < LastKid
  /\ active' = active + 1
  /\ published' \in {published, published \cup {active'}}
  /\ UNCHANGED <<vars, retired, licenceVars, clientVars>>

\* A key is removed when every licence it has signed is unusable, and some key
\* remains.
Retire ==
  /\ \E k \in published :
       /\ k < active /\ published # {k}
       /\ \A s \in 1 .. issued : signedBy[s] = k => s \in dead
       /\ published' = published \ {k}
       /\ retired' = retired \cup {k}
  /\ UNCHANGED <<vars, active, licenceVars, clientVars>>

LicenceDies ==
  /\ \E s \in (1 .. issued) \ dead : dead' = dead \cup {s}
  /\ UNCHANGED <<vars, signerVars, signedBy, clientVars>>

\* buildPublicKeyset throws for a keyset without the active key.
BuildPublicKeyset == active \in published

-----------------------------------------------------------------------------
(***************************************************************************)
(* keyset-fetch                                                            *)
(***************************************************************************)
\* fetch_pinned_keyset up to from_bytes.  The user has the fingerprint of some
\* keyset; an answer with another fingerprint, or none, changes nothing.
FetchKeyset(overwrite) ==
  /\ fetch.pc = "idle"
  /\ BuildPublicKeyset
  /\ fetch' = [pc |-> IF overwrite THEN "rename" ELSE "create", body |-> published]
  /\ UNCHANGED <<vars, signerVars, licenceVars, fileOfKeys, trust>>

\* write_private_file without replace: O_EXCL ...
CreateKeyset ==
  /\ fetch.pc = "create"
  /\ fetch' = IF keysetThere THEN NoFetch ELSE [fetch EXCEPT !.pc = "write"]
  /\ keysetThere' = TRUE
  /\ UNCHANGED <<vars, signerVars, licenceVars, keysetFile, trust>>

\* ... then the content.
WriteKeyset ==
  /\ fetch.pc = "write"
  /\ keysetFile' = fetch.body
  /\ fetch' = NoFetch
  /\ UNCHANGED <<vars, signerVars, licenceVars, keysetThere, trust>>

\* write_private_file with replace.
RenameKeyset ==
  /\ fetch.pc = "rename"
  /\ keysetThere' = TRUE /\ keysetFile' = fetch.body
  /\ fetch' = NoFetch
  /\ UNCHANGED <<vars, signerVars, licenceVars, trust>>

FetchKilled ==
  /\ fetch.pc # "idle"
  /\ fetch' = NoFetch
  /\ UNCHANGED <<vars, signerVars, licenceVars, fileOfKeys, trust>>

-----------------------------------------------------------------------------
(***************************************************************************)
(* The commands                                                            *)
(***************************************************************************)
\* A command that has ended has no keyset in memory.
Forget(p) == trust' = [trust EXCEPT ![p] = IF process'[p].pc = "idle" THEN {} ELSE @]

KeepKeys == UNCHANGED <<signerVars, dead, fileOfKeys, fetch>>

\* A command begins, is killed, or does what ClientFiles says of the device key
\* and of the time between two authorizations.
BeginCommand(p, command) ==
  /\ Begin(p, command)
  /\ KeepKeys /\ UNCHANGED <<signedBy, trust>>

CommandFails(p) ==
  /\ Fault(p)
  /\ Forget(p)
  /\ KeepKeys /\ UNCHANGED signedBy

KeyStep(p) ==
  /\ \/ LoadKey(p) \/ KeyExists(p) \/ CreateKey(p) \/ WriteKey(p) \/ ReloadKey(p)
     \/ Scan(p)
  /\ Forget(p)
  /\ KeepKeys /\ UNCHANGED signedBy

\* _verifier: IssuerKeySet.from_file, once for the command.
ReadKeyset(p) ==
  /\ process[p].pc \in {"exchange", "stat"} /\ trust[p] = {}
  /\ \/ /\ keysetFile # {}
        /\ trust' = [trust EXCEPT ![p] = keysetFile]
        /\ UNCHANGED process
     \/ End(p) /\ UNCHANGED trust
  /\ UNCHANGED <<fileVars, serviceVars, faults>>
  /\ KeepKeys /\ UNCHANGED signedBy

\* issueLicenseToken signs with the active key.
IssueLicence(p) ==
  /\ trust[p] # {}
  /\ Exchange(p)
  /\ signedBy' = [s \in 1 .. MaxIssued |-> IF s \in issued + 1 .. issued' THEN active
                                           ELSE signedBy[s]]
  /\ Forget(p)
  /\ KeepKeys

\* EntitlementVerifier.verify, for a licence of this device.
Verifies(p, s) == signedBy[s] \in trust[p] /\ s \notin dead

\* Mutant: the licence is saved and verified after that.
SaveUnverified(p) ==
  /\ SaveToken(p)
  /\ Forget(p)
  /\ KeepKeys /\ UNCHANGED signedBy

\* _exchange_token: a licence is verified before it is saved.
VerifyAndSave(p) ==
  /\ SaveToken(p)
  /\ tokenFile' # tokenFile => Verifies(p, process[p].serial)
  /\ Forget(p)
  /\ KeepKeys /\ UNCHANGED signedBy

\* StoredEntitlementAuthorizer.authorize.
Authorize(p) ==
  /\ trust[p] # {}
  /\ StatToken(p) \/ ReadToken(p)
  /\ process'[p].pc = "scan" => Verifies(p, tokenFile.serial)
  /\ Forget(p)
  /\ KeepKeys /\ UNCHANGED signedBy

CommandStep(p) ==
  KeyStep(p) \/ ReadKeyset(p) \/ IssueLicence(p) \/ VerifyAndSave(p) \/ Authorize(p)

FetchStep ==
  \/ \E overwrite \in BOOLEAN : FetchKeyset(overwrite)
  \/ CreateKeyset \/ WriteKeyset \/ RenameKeyset \/ FetchKilled

KeysNext ==
  \/ \E p \in Processes :
       \/ \E command \in {"activate", "refresh", "scan"} : BeginCommand(p, command)
       \/ CommandStep(p)
       \/ CommandFails(p)
  \/ FetchStep
  \/ Publish \/ Activate \/ Retire \/ LicenceDies

KeysSpec == KeysInit /\ [][KeysNext]_allVars

\* Commands go on, and the user tries activate again and again.
KeysFairSpec ==
  /\ KeysSpec
  /\ \A p \in Processes :
       WF_allVars(CommandStep(p)) /\ SF_allVars(BeginCommand(p, "activate"))

-----------------------------------------------------------------------------
\* A licence that has been saved can be verified with the keyset file that is
\* there, through rotations and new keysets, as long as it is not past its grace
\* period (entitlement.py:104-107, activation.py:334-366, billing/README.md:224-230).
SavedLicenceVerifies ==
  tokenFile # Absent /\ tokenFile.serial \notin dead =>
    signedBy[tokenFile.serial] \in keysetFile

\* keyset.py:42: "Download, fingerprint, strictly parse, then atomically store a
\* keyset".  A keyset file that no fetch is writing is a whole one.
KeysetIsWhole == keysetThere /\ keysetFile = {} => fetch.pc = "write"

\* The inductive invariant behind the theorems of IssuerKeysProofs: from memory to
\* the file, to the keyset being fetched and to the published one a keyset loses
\* only retired keys, and no live licence is signed by one of those.
KeysetsGrow ==
  /\ \A p \in Processes : trust[p] \subseteq keysetFile \cup retired
  /\ fetch.pc # "idle" => keysetFile \subseteq fetch.body \cup retired
  /\ fetch.pc = "write" \/ ~keysetThere => keysetFile = {}
  /\ fetch.pc = "write" => keysetThere
  /\ keysetFile \cup fetch.body \subseteq published \cup retired

SignersLive ==
  /\ \A k \in retired : k < active
  /\ \A s \in 1 .. issued : signedBy[s] \in retired => s \in dead

SerialsIssued ==
  /\ tokenFile # Absent => tokenFile.serial \in 1 .. issued
  /\ \A p \in Processes : process[p].pc = "save" => process[p].serial \in 1 .. issued

KeysInv ==
  KeysTypeOK /\ KeysetsGrow /\ SignersLive /\ SerialsIssued /\ SavedLicenceVerifies

\* Once a keyset has been stored there is always one to read: a replaced keyset
\* file is never absent or incomplete (storage.py:110-135).
KeysetStays == [][keysetFile # {} => keysetFile' # {}]_allVars

\* No keyset-fetch ends between the O_EXCL of write_private_file and its content,
\* the only way to an incomplete keyset file.
NotKilledWriting == [][fetch.pc = "write" => ~FetchKilled]_allVars

=============================================================================
