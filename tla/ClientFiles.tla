----------------------------- MODULE ClientFiles -----------------------------
(***************************************************************************)
(* The state directory of the client, which the processes of several       *)
(* commands share without a lock: the device key, created once with O_EXCL *)
(* and written afterwards, and the licence token, replaced by a rename.    *)
(*                                                                         *)
(* A process runs one command: "activate" (enroll is the same here) loads  *)
(* or creates the key, "refresh" and "scan" insist on an existing one.     *)
(* One action is one access to a shared file, or the exchange with the     *)
(* licence service, with the code up to the next one.                      *)
(***************************************************************************)
EXTENDS Naturals

CONSTANTS
  Processes,  \* processes of the client that may run at the same time
  Keys,       \* private keys that may be generated
  Absent,     \* there is no such file
  Empty,      \* the file is there, its content is not (or not all of it)
  MaxIssued,  \* bound on the licences that are issued
  MaxFaults   \* bound on killed processes and failing file operations

ASSUME FilesAssumption == Absent \notin Keys /\ Empty \notin Keys /\ Absent # Empty
ASSUME BoundsAssumption == MaxIssued \in Nat /\ MaxFaults \in Nat

VARIABLES
  keyFile,     \* content of the device key file
  tokenFile,   \* content of license.token
  registered,  \* keys the service has registered as devices
  issued,      \* number of licences issued, the serial number of the last one
  process,     \* what each process is doing
  faults

fileVars == <<keyFile, tokenFile>>
serviceVars == <<registered, issued>>
vars == <<keyFile, tokenFile, registered, issued, process, faults>>

\* A serial number stands for the claims of a token, and for the inode it is
\* stored in: every save makes a new file.
Token == [device : Keys, serial : Nat]

Process == [pc : {"idle", "load", "exists", "create", "write", "reload",
                  "exchange", "save", "stat", "read", "scan"},
            command : {"activate", "refresh", "scan"},
            key : Keys \cup {Absent},     \* the identity in memory
            serial : Nat]                 \* the token in memory, or the inode seen

Idle == [pc |-> "idle", command |-> "refresh", key |-> Absent, serial |-> 0]

TypeOK ==
  /\ keyFile \in Keys \cup {Absent, Empty}
  /\ tokenFile \in Token \cup {Absent}
  /\ registered \subseteq Keys
  /\ issued \in 0 .. MaxIssued
  /\ process \in [Processes -> Process]
  /\ faults \in 0 .. MaxFaults

Init ==
  /\ keyFile = Absent /\ tokenFile = Absent
  /\ registered = {} /\ issued = 0
  /\ process = [p \in Processes |-> Idle]
  /\ faults = 0

Goto(p, pc) == process' = [process EXCEPT ![p].pc = pc]
End(p) == process' = [process EXCEPT ![p] = Idle]

Begin(p, command) ==
  /\ process[p].pc = "idle"
  /\ process' = [process EXCEPT ![p] = [Idle EXCEPT !.pc = "load", !.command = command]]
  /\ UNCHANGED <<fileVars, serviceVars, faults>>

-----------------------------------------------------------------------------
(***************************************************************************)
(* The device key                                                          *)
(***************************************************************************)
\* The key is whole: the process has its identity.
HaveKey(p, pc) ==
  /\ keyFile \in Keys
  /\ process' = [process EXCEPT ![p].key = keyFile, ![p].pc = pc]

\* Mutant: activation, too, insists on an existing key.
LoadOnly(p) ==
  /\ process[p].pc = "load"
  /\ IF keyFile \in Keys
     THEN HaveKey(p, IF process[p].command = "scan" THEN "stat" ELSE "exchange")
     ELSE End(p)
  /\ UNCHANGED <<fileVars, serviceVars, faults>>

\* DeviceIdentityStore.load: an absent and an incomplete file are both errors.
LoadKey(p) ==
  /\ process[p].pc = "load"
  /\ IF keyFile \in Keys
     THEN HaveKey(p, IF process[p].command = "scan" THEN "stat" ELSE "exchange")
     ELSE IF process[p].command = "activate" THEN Goto(p, "exists") ELSE End(p)
  /\ UNCHANGED <<fileVars, serviceVars, faults>>

\* The handler in load_or_create asks whether the file exists: somebody may have
\* created it since.  A new key is one that nobody has.
KeyExists(p) ==
  /\ process[p].pc = "exists"
  /\ IF keyFile # Absent
     THEN End(p)
     ELSE \E k \in Keys \ {process[q].key : q \in Processes} :
            process' = [process EXCEPT ![p].key = k, ![p].pc = "create"]
  /\ UNCHANGED <<fileVars, serviceVars, faults>>

\* Mutant: the file is opened without O_EXCL.
CreateKeyShared(p) ==
  /\ process[p].pc = "create"
  /\ keyFile' = Empty
  /\ Goto(p, "write")
  /\ UNCHANGED <<tokenFile, serviceVars, faults>>

\* os.open with O_CREAT | O_EXCL.
CreateKey(p) ==
  /\ process[p].pc = "create"
  /\ IF keyFile = Absent
     THEN keyFile' = Empty /\ Goto(p, "write")
     ELSE UNCHANGED keyFile /\ Goto(p, "reload")
  /\ UNCHANGED <<tokenFile, serviceVars, faults>>

\* write, flush, fsync, chmod.
WriteKey(p) ==
  /\ process[p].pc = "write"
  /\ keyFile' = process[p].key
  /\ Goto(p, "exchange")
  /\ UNCHANGED <<tokenFile, serviceVars, faults>>

\* The winner's key is loaded, if it is there already.
ReloadKey(p) ==
  /\ process[p].pc = "reload"
  /\ IF keyFile \in Keys THEN HaveKey(p, "exchange") ELSE End(p)
  /\ UNCHANGED <<fileVars, serviceVars, faults>>

-----------------------------------------------------------------------------
(***************************************************************************)
(* The licence token                                                       *)
(***************************************************************************)
\* The service answers with a licence for the device that signed, registering it
\* on activation, or refuses.
Exchange(p) ==
  /\ process[p].pc = "exchange"
  /\ \/ /\ issued < MaxIssued
        /\ process[p].command = "activate" \/ process[p].key \in registered
        /\ issued' = issued + 1
        /\ registered' = registered \cup {process[p].key}
        /\ process' = [process EXCEPT ![p].serial = issued', ![p].pc = "save"]
     \/ End(p) /\ UNCHANGED serviceVars
  /\ UNCHANGED <<fileVars, faults>>

\* Mutant: the file is truncated, then written.
SaveTokenInPlace(p) ==
  /\ process[p].pc = "save"
  /\ IF tokenFile = Empty
     THEN /\ tokenFile' = [device |-> process[p].key, serial |-> process[p].serial]
          /\ End(p)
     ELSE tokenFile' = Empty /\ UNCHANGED process
  /\ UNCHANGED <<keyFile, serviceVars, faults>>

\* write_private_file with replace: the temporary file is private, the rename is
\* what the others see.  A licence that is not verified is not saved.
SaveToken(p) ==
  /\ process[p].pc = "save"
  /\ \/ tokenFile' = [device |-> process[p].key, serial |-> process[p].serial]
     \/ UNCHANGED tokenFile
  /\ End(p)
  /\ UNCHANGED <<keyFile, serviceVars, faults>>

\* The authorizer, at the beginning of a scan and every 30 seconds: lstat ...
StatToken(p) ==
  /\ process[p].pc = "stat"
  /\ \/ /\ tokenFile # Absent
        /\ process' = [process EXCEPT ![p].serial = tokenFile.serial, ![p].pc = "read"]
     \/ End(p)
  /\ UNCHANGED <<fileVars, serviceVars, faults>>

\* ... then open, and an error when the file is another one by now, or the
\* licence in it is not verified.
ReadToken(p) ==
  /\ process[p].pc = "read"
  /\ \/ /\ tokenFile.serial = process[p].serial /\ tokenFile.device = process[p].key
        /\ Goto(p, "scan")
     \/ End(p)
  /\ UNCHANGED <<fileVars, serviceVars, faults>>

Scan(p) ==
  /\ process[p].pc = "scan"
  /\ Goto(p, "stat") \/ End(p)
  /\ UNCHANGED <<fileVars, serviceVars, faults>>

-----------------------------------------------------------------------------
\* The process is killed, or an operation on a file fails and the error ends the
\* command: nothing removes a key file that has been created and not written.
Fault(p) ==
  /\ process[p].pc # "idle"
  /\ faults < MaxFaults
  /\ faults' = faults + 1
  /\ End(p)
  /\ UNCHANGED <<fileVars, serviceVars>>

Step(p) ==
  \/ LoadKey(p) \/ KeyExists(p) \/ CreateKey(p) \/ WriteKey(p) \/ ReloadKey(p)
  \/ Exchange(p) \/ SaveToken(p) \/ StatToken(p) \/ ReadToken(p) \/ Scan(p)

Next ==
  \E p \in Processes :
    \/ \E command \in {"activate", "refresh", "scan"} : Begin(p, command)
    \/ Step(p)
    \/ Fault(p)

Spec == Init /\ [][Next]_vars

\* Commands go on, and the user tries activate again and again.
FairSpec ==
  Spec /\ \A p \in Processes : WF_vars(Step(p)) /\ SF_vars(Begin(p, "activate"))

-----------------------------------------------------------------------------
\* A device that the service has registered can always be loaded again, although
\* several first activations overlap and some are killed: no device slot is
\* spent on a key that is lost (device.py:96-114, storage.py:91-108).
RegisteredKeyIsKept == \A k \in registered : keyFile = k

\* license.token, once there, is at any time a whole licence of this very device,
\* whoever saves, reads or dies (storage.py:110-135, activation.py:365).
TokenFitsDevice ==
  tokenFile # Absent => tokenFile \in Token /\ tokenFile.device = keyFile

\* Unless something fails, the user who repeats activate gets a device key,
\* although load_or_create may lose its race in two places (device.py:96-113).
KeyIsCreated == [](faults = 0) => <>(keyFile \in Keys)

\* The inductive invariant behind the theorems of ClientFilesProofs: who has an
\* identity has the one in the file, and one process at most is writing it.
Loaded == {"exchange", "save", "stat", "read", "scan"}

ProcessInv(p) ==
  /\ process[p].pc \in Loaded => process[p].key = keyFile /\ keyFile \in Keys
  /\ process[p].pc \in {"create", "write"} => process[p].key \in Keys
  /\ process[p].pc = "write" => keyFile = Empty
  /\ process[p].pc = "save" => process[p].key \in registered

OneWriter ==
  \A p, q \in Processes : process[p].pc = "write" /\ process[q].pc = "write" => p = q

IInv ==
  /\ TypeOK
  /\ \A p \in Processes : ProcessInv(p)
  /\ OneWriter
  /\ RegisteredKeyIsKept
  /\ TokenFitsDevice

=============================================================================
