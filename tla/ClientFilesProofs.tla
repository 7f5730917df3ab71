-------------------------- MODULE ClientFilesProofs --------------------------
(***************************************************************************)
(* For any number of processes: the key of a registered device is never    *)
(* lost, and the stored token fits the device.                             *)
(***************************************************************************)
EXTENDS ClientFiles, TLAPS

ProcessesOK == process \in [Processes -> Process]

\* The variables that a step of a process seldom changes.
RestOK ==
  /\ keyFile \in Keys \cup {Absent, Empty}
  /\ tokenFile \in Token \cup {Absent}
  /\ registered \subseteq Keys
  /\ issued \in 0 .. MaxIssued
  /\ faults \in 0 .. MaxFaults

LEMMA TypeParts == TypeOK <=> ProcessesOK /\ RestOK
BY DEF TypeOK, ProcessesOK, RestOK

LEMMA InvBuild ==
  ASSUME ProcessesOK', RestOK', \A q \in Processes : ProcessInv(q)', OneWriter',
         RegisteredKeyIsKept', TokenFitsDevice'
  PROVE  IInv'
BY DEF IInv, TypeOK, ProcessesOK, RestOK

\* What a step of p does to the processes.
LEMMA NewProcess ==
  ASSUME ProcessesOK, NEW p \in Processes, NEW new \in Process,
         process' = [process EXCEPT ![p] = new]
  PROVE  /\ ProcessesOK' /\ process'[p] = new
         /\ \A q \in Processes \ {p} : process'[q] = process[q]
BY DEF ProcessesOK

PCs == {"idle", "load", "exists", "create", "write", "reload",
        "exchange", "save", "stat", "read", "scan"}

LEMMA EndMoves ==
  ASSUME ProcessesOK, NEW p \in Processes, End(p)
  PROVE  /\ ProcessesOK' /\ process'[p].pc = "idle"
         /\ \A q \in Processes \ {p} : process'[q] = process[q]
<1>1. Idle \in Process /\ Idle.pc = "idle"
  BY DEF Idle, Process
<1> QED
  BY <1>1, NewProcess DEF End

LEMMA GotoMoves ==
  ASSUME ProcessesOK, NEW p \in Processes, NEW pc \in PCs, Goto(p, pc)
  PROVE  /\ ProcessesOK' /\ process'[p].pc = pc /\ process'[p].key = process[p].key
         /\ \A q \in Processes \ {p} : process'[q] = process[q]
<1> DEFINE new == [process[p] EXCEPT !.pc = pc]
<1>1. process[p] \in Process
  BY DEF ProcessesOK
<1>2. new \in Process /\ new.pc = pc /\ new.key = process[p].key
  BY <1>1 DEF Process, PCs
<1>3. process' = [process EXCEPT ![p] = new]
  BY <1>1 DEF ProcessesOK, Goto
<1>4. ProcessesOK' /\ process'[p] = new /\ \A q \in Processes \ {p} : process'[q] = process[q]
  BY <1>2, <1>3, NewProcess
<1> HIDE DEF new
<1> QED
  BY <1>2, <1>4

LEMMA KeyMoves ==
  ASSUME ProcessesOK, NEW p \in Processes, NEW pc \in PCs, NEW k \in Keys,
         process' = [process EXCEPT ![p].key = k, ![p].pc = pc]
  PROVE  /\ ProcessesOK' /\ process'[p].pc = pc /\ process'[p].key = k
         /\ \A q \in Processes \ {p} : process'[q] = process[q]
<1> DEFINE new == [process[p] EXCEPT !.key = k, !.pc = pc]
<1>1. process[p] \in Process
  BY DEF ProcessesOK
<1>2. new \in Process /\ new.pc = pc /\ new.key = k
  BY <1>1 DEF Process, PCs
<1>3. process' = [process EXCEPT ![p] = new]
  BY <1>1 DEF ProcessesOK
<1>4. ProcessesOK' /\ process'[p] = new /\ \A q \in Processes \ {p} : process'[q] = process[q]
  BY <1>2, <1>3, NewProcess
<1> HIDE DEF new
<1> QED
  BY <1>2, <1>4

LEMMA SerialMoves ==
  ASSUME ProcessesOK, NEW p \in Processes, NEW pc \in PCs, NEW n \in Nat,
         process' = [process EXCEPT ![p].serial = n, ![p].pc = pc]
  PROVE  /\ ProcessesOK' /\ process'[p].pc = pc /\ process'[p].key = process[p].key
         /\ \A q \in Processes \ {p} : process'[q] = process[q]
<1> DEFINE new == [process[p] EXCEPT !.serial = n, !.pc = pc]
<1>1. process[p] \in Process
  BY DEF ProcessesOK
<1>2. new \in Process /\ new.pc = pc /\ new.key = process[p].key
  BY <1>1 DEF Process, PCs
<1>3. process' = [process EXCEPT ![p] = new]
  BY <1>1 DEF ProcessesOK
<1>4. ProcessesOK' /\ process'[p] = new /\ \A q \in Processes \ {p} : process'[q] = process[q]
  BY <1>2, <1>3, NewProcess
<1> HIDE DEF new
<1> QED
  BY <1>2, <1>4

-----------------------------------------------------------------------------
\* Only the place of p changes, and p knows no more than it did.
LEMMA QuietStep ==
  ASSUME IInv, NEW p \in Processes, ProcessesOK',
         \A q \in Processes \ {p} : process'[q] = process[q],
         UNCHANGED <<fileVars, serviceVars>>, faults' \in 0 .. MaxFaults,
         process'[p].pc # "write", ProcessInv(p)'
  PROVE  IInv'
<1>1. RestOK' /\ RegisteredKeyIsKept' /\ TokenFitsDevice'
  BY DEF IInv, TypeOK, RestOK, RegisteredKeyIsKept, TokenFitsDevice, fileVars, serviceVars
<1>2. ASSUME NEW q \in Processes \ {p}
      PROVE  ProcessInv(q)'
  BY <1>2 DEF IInv, ProcessInv, fileVars, serviceVars
<1>3. OneWriter'
  BY DEF IInv, OneWriter
<1> QED
  BY <1>1, <1>2, <1>3, InvBuild

LEMMA InvParts ==
  IInv => ProcessesOK /\ RestOK /\ (\A q \in Processes : ProcessInv(q)) /\ OneWriter
BY TypeParts DEF IInv

\* The end of a command, for whatever reason.
LEMMA EndStep ==
  ASSUME IInv, NEW p \in Processes, End(p),
         UNCHANGED <<fileVars, serviceVars>>, faults' \in 0 .. MaxFaults
  PROVE  IInv'
<1>1. /\ ProcessesOK' /\ process'[p].pc = "idle"
      /\ \A q \in Processes \ {p} : process'[q] = process[q]
  BY InvParts, EndMoves
<1>2. ProcessInv(p)'
  BY <1>1 DEF ProcessInv, Loaded
<1> QED
  BY <1>1, <1>2, QuietStep

\* A process that moves without a key, or with the one that is in the file.
LEMMA GotoStep ==
  ASSUME IInv, NEW p \in Processes, NEW pc \in PCs, Goto(p, pc),
         UNCHANGED <<fileVars, serviceVars, faults>>,
         pc \in {"exists", "reload"} \/ (pc \in {"stat", "scan"} /\ process[p].pc \in Loaded)
  PROVE  IInv'
<1>1. /\ ProcessesOK' /\ process'[p].pc = pc /\ process'[p].key = process[p].key
      /\ \A q \in Processes \ {p} : process'[q] = process[q]
  BY InvParts, GotoMoves
<1>2. ProcessInv(p)'
  BY <1>1, InvParts DEF ProcessInv, Loaded, fileVars, serviceVars
<1>3. faults' \in 0 .. MaxFaults
  BY InvParts DEF RestOK
<1> QED
  BY <1>1, <1>2, <1>3, QuietStep

LEMMA HaveKeyStep ==
  ASSUME IInv, NEW p \in Processes, NEW pc \in {"stat", "exchange"}, HaveKey(p, pc),
         UNCHANGED <<fileVars, serviceVars, faults>>
  PROVE  IInv'
<1>1. /\ ProcessesOK' /\ process'[p].pc = pc /\ process'[p].key = keyFile
      /\ \A q \in Processes \ {p} : process'[q] = process[q]
  BY InvParts, KeyMoves DEF HaveKey, PCs
<1>2. ProcessInv(p)'
  BY <1>1 DEF ProcessInv, Loaded, HaveKey, fileVars, serviceVars
<1>3. faults' \in 0 .. MaxFaults
  BY InvParts DEF RestOK
<1> QED
  BY <1>1, <1>2, <1>3, QuietStep

-----------------------------------------------------------------------------
LEMMA BeginStep ==
  ASSUME IInv, NEW p \in Processes, NEW command \in {"activate", "refresh", "scan"},
         Begin(p, command)
  PROVE  IInv'
<1> DEFINE new == [Idle EXCEPT !.pc = "load", !.command = command]
<1>1. new \in Process /\ new.pc = "load"
  BY DEF Idle, Process
<1>2. /\ ProcessesOK' /\ process'[p] = new
      /\ \A q \in Processes \ {p} : process'[q] = process[q]
  BY <1>1, InvParts, NewProcess DEF Begin
<1>3. ProcessInv(p)'
  BY <1>1, <1>2 DEF ProcessInv, Loaded
<1>4. process'[p].pc # "write" /\ faults' \in 0 .. MaxFaults
  BY <1>1, <1>2, InvParts DEF Begin, RestOK
<1> QED
  BY <1>2, <1>3, <1>4, QuietStep DEF Begin

LEMMA LoadKeyStep ==
  ASSUME IInv, NEW p \in Processes, LoadKey(p)
  PROVE  IInv'
<1>1. faults' \in 0 .. MaxFaults /\ UNCHANGED <<fileVars, serviceVars, faults>>
  BY InvParts DEF LoadKey, RestOK
<1>2. \/ HaveKey(p, "stat") \/ HaveKey(p, "exchange") \/ Goto(p, "exists") \/ End(p)
  BY DEF LoadKey
<1> QED
  BY <1>1, <1>2, HaveKeyStep, GotoStep, EndStep DEF PCs

LEMMA KeyExistsStep ==
  ASSUME IInv, NEW p \in Processes, KeyExists(p)
  PROVE  IInv'
<1>1. faults' \in 0 .. MaxFaults /\ UNCHANGED <<fileVars, serviceVars, faults>>
  BY InvParts DEF KeyExists, RestOK
<1>2. CASE End(p)
  BY <1>1, <1>2, EndStep
<1>3. ASSUME NEW k \in Keys, process' = [process EXCEPT ![p].key = k, ![p].pc = "create"]
      PROVE  IInv'
  <2>1. /\ ProcessesOK' /\ process'[p].pc = "create" /\ process'[p].key = k
        /\ \A q \in Processes \ {p} : process'[q] = process[q]
    BY <1>3, InvParts, KeyMoves DEF PCs
  <2>2. ProcessInv(p)'
    BY <2>1 DEF ProcessInv, Loaded
  <2> QED
    BY <1>1, <2>1, <2>2, QuietStep
<1> QED
  BY <1>2, <1>3 DEF KeyExists

\* With the file created, nobody has an identity yet.
LEMMA CreateKeyStep ==
  ASSUME IInv, NEW p \in Processes, CreateKey(p)
  PROVE  IInv'
<1>1. CASE keyFile = Absent
  <2>1. Goto(p, "write") /\ keyFile' = Empty
        /\ UNCHANGED <<tokenFile, registered, issued, faults>>
    BY <1>1 DEF CreateKey, serviceVars
  <2>2. /\ ProcessesOK' /\ process'[p].pc = "write" /\ process'[p].key = process[p].key
        /\ \A q \in Processes \ {p} : process'[q] = process[q]
    BY <2>1, InvParts, GotoMoves DEF PCs
  <2>3. registered = {} /\ tokenFile = Absent
    BY <1>1, FilesAssumption DEF IInv, TypeOK, RegisteredKeyIsKept, TokenFitsDevice, Token
  <2>4. RestOK' /\ RegisteredKeyIsKept' /\ TokenFitsDevice'
    BY <2>1, <2>3, InvParts DEF RestOK, RegisteredKeyIsKept, TokenFitsDevice
  <2>5. \A q \in Processes : process[q].pc \notin Loaded \cup {"write"}
    BY <1>1, InvParts, FilesAssumption DEF ProcessInv
  <2>6. ProcessInv(p)'
    BY <2>1, <2>2, InvParts DEF ProcessInv, Loaded, CreateKey
  <2>7. ASSUME NEW q \in Processes \ {p}
        PROVE  ProcessInv(q)'
    BY <2>1, <2>2, <2>5, <2>7, InvParts DEF ProcessInv, Loaded
  <2>8. OneWriter'
    BY <2>2, <2>5 DEF OneWriter
  <2> QED
    BY <2>2, <2>4, <2>6, <2>7, <2>8, InvBuild
<1>2. CASE keyFile # Absent
  BY <1>2, GotoStep DEF CreateKey, PCs, fileVars
<1> QED
  BY <1>1, <1>2

\* The one writer completes the file, and is the first to have an identity.
LEMMA WriteKeyStep ==
  ASSUME IInv, NEW p \in Processes, WriteKey(p)
  PROVE  IInv'
<1>1. /\ Goto(p, "exchange") /\ keyFile' = process[p].key /\ process[p].pc = "write"
      /\ UNCHANGED <<tokenFile, registered, issued, faults>>
  BY DEF WriteKey, serviceVars
<1>2. /\ ProcessesOK' /\ process'[p].pc = "exchange" /\ process'[p].key = process[p].key
      /\ \A q \in Processes \ {p} : process'[q] = process[q]
  BY <1>1, InvParts, GotoMoves DEF PCs
<1>3. keyFile = Empty /\ process[p].key \in Keys
  BY <1>1, InvParts DEF ProcessInv
<1>4. registered = {} /\ tokenFile = Absent
  BY <1>3, FilesAssumption DEF IInv, TypeOK, RegisteredKeyIsKept, TokenFitsDevice, Token
<1>5. RestOK' /\ RegisteredKeyIsKept' /\ TokenFitsDevice'
  BY <1>1, <1>3, <1>4, InvParts DEF RestOK, RegisteredKeyIsKept, TokenFitsDevice
<1>6. \A q \in Processes \ {p} : process[q].pc \notin Loaded \cup {"write"}
  BY <1>1, <1>3, InvParts, FilesAssumption DEF ProcessInv, OneWriter
<1>7. ProcessInv(p)'
  BY <1>1, <1>2, <1>3 DEF ProcessInv, Loaded
<1>8. ASSUME NEW q \in Processes \ {p}
      PROVE  ProcessInv(q)'
  BY <1>1, <1>2, <1>6, <1>8, InvParts DEF ProcessInv, Loaded
<1>9. OneWriter'
  BY <1>2, <1>6 DEF OneWriter
<1> QED
  BY <1>2, <1>5, <1>7, <1>8, <1>9, InvBuild

LEMMA ReloadKeyStep ==
  ASSUME IInv, NEW p \in Processes, ReloadKey(p)
  PROVE  IInv'
<1>1. faults' \in 0 .. MaxFaults /\ UNCHANGED <<fileVars, serviceVars, faults>>
  BY InvParts DEF ReloadKey, RestOK
<1> QED
  BY <1>1, HaveKeyStep, EndStep DEF ReloadKey

\* The key that is registered is the one in the file.
LEMMA ExchangeStep ==
  ASSUME IInv, NEW p \in Processes, Exchange(p)
  PROVE  IInv'
<1>1. UNCHANGED <<keyFile, tokenFile, faults>> /\ process[p].pc = "exchange"
  BY DEF Exchange, fileVars
<1>2. CASE End(p) /\ UNCHANGED serviceVars
  <2>1. faults' \in 0 .. MaxFaults
    BY <1>1, InvParts DEF RestOK
  <2> QED
    BY <1>1, <1>2, <2>1, EndStep DEF fileVars
<1>3. CASE /\ issued < MaxIssued /\ issued' = issued + 1
           /\ registered' = registered \cup {process[p].key}
           /\ process' = [process EXCEPT ![p].serial = issued', ![p].pc = "save"]
  <2>1. issued' \in 0 .. MaxIssued /\ issued' \in Nat /\ registered \subseteq registered'
    BY <1>3, InvParts, BoundsAssumption DEF RestOK
  <2>2. process[p].key = keyFile /\ keyFile \in Keys
    BY <1>1, InvParts DEF ProcessInv, Loaded
  <2>3. /\ ProcessesOK' /\ process'[p].pc = "save" /\ process'[p].key = process[p].key
        /\ \A q \in Processes \ {p} : process'[q] = process[q]
    BY <1>3, <2>1, InvParts, SerialMoves DEF PCs
  <2>4. RestOK' /\ RegisteredKeyIsKept' /\ TokenFitsDevice'
    BY <1>1, <1>3, <2>1, <2>2, InvParts DEF IInv, RestOK, RegisteredKeyIsKept, TokenFitsDevice
  <2>5. ProcessInv(p)'
    BY <1>1, <1>3, <2>2, <2>3 DEF ProcessInv, Loaded
  <2>6. ASSUME NEW q \in Processes \ {p}
        PROVE  ProcessInv(q)'
    BY <1>1, <2>1, <2>3, <2>6, InvParts DEF ProcessInv
  <2>7. OneWriter'
    BY <2>3, InvParts DEF OneWriter
  <2> QED
    BY <2>3, <2>4, <2>5, <2>6, <2>7, InvBuild
<1> QED
  BY <1>2, <1>3 DEF Exchange

LEMMA SaveTokenStep ==
  ASSUME IInv, NEW p \in Processes, SaveToken(p)
  PROVE  IInv'
<1>1. /\ End(p) /\ UNCHANGED <<keyFile, registered, issued, faults>>
      /\ \/ tokenFile' = [device |-> process[p].key, serial |-> process[p].serial]
         \/ tokenFile' = tokenFile
      /\ process[p].pc = "save"
  BY DEF SaveToken, serviceVars
<1>2. process[p].key = keyFile /\ keyFile \in Keys /\ process[p].serial \in Nat
  BY <1>1, InvParts DEF ProcessInv, Loaded, ProcessesOK, Process
<1>3. /\ ProcessesOK' /\ process'[p].pc = "idle"
      /\ \A q \in Processes \ {p} : process'[q] = process[q]
  BY <1>1, InvParts, EndMoves
<1>4. RestOK' /\ RegisteredKeyIsKept' /\ TokenFitsDevice'
  <2>1. CASE tokenFile' = tokenFile
    BY <1>1, <2>1, InvParts DEF IInv, RestOK, RegisteredKeyIsKept, TokenFitsDevice
  <2>2. CASE tokenFile' = [device |-> process[p].key, serial |-> process[p].serial]
    BY <1>1, <1>2, <2>2, InvParts DEF IInv, RestOK, RegisteredKeyIsKept, TokenFitsDevice, Token
  <2> QED
    BY <1>1, <2>1, <2>2
<1>5. ProcessInv(p)'
  BY <1>3 DEF ProcessInv, Loaded
<1>6. ASSUME NEW q \in Processes \ {p}
      PROVE  ProcessInv(q)'
  BY <1>1, <1>3, <1>6, InvParts DEF ProcessInv
<1>7. OneWriter'
  BY <1>3, InvParts DEF OneWriter
<1> QED
  BY <1>3, <1>4, <1>5, <1>6, <1>7, InvBuild

LEMMA StatTokenStep ==
  ASSUME IInv, NEW p \in Processes, StatToken(p)
  PROVE  IInv'
<1>1. /\ faults' \in 0 .. MaxFaults /\ UNCHANGED <<fileVars, serviceVars>>
      /\ process[p].pc = "stat"
  BY InvParts DEF StatToken, RestOK
<1>2. CASE End(p)
  BY <1>1, <1>2, EndStep
<1>3. CASE /\ tokenFile # Absent
           /\ process' = [process EXCEPT ![p].serial = tokenFile.serial, ![p].pc = "read"]
  <2>1. tokenFile.serial \in Nat
    BY <1>3, InvParts DEF RestOK, Token
  <2>2. /\ ProcessesOK' /\ process'[p].pc = "read" /\ process'[p].key = process[p].key
        /\ \A q \in Processes \ {p} : process'[q] = process[q]
    BY <1>3, <2>1, InvParts, SerialMoves DEF PCs
  <2>3. ProcessInv(p)'
    BY <1>1, <2>2, InvParts DEF ProcessInv, Loaded, fileVars
  <2> QED
    BY <1>1, <2>2, <2>3, QuietStep
<1> QED
  BY <1>2, <1>3 DEF StatToken

LEMMA ScanStep ==
  ASSUME IInv, NEW p \in Processes, ReadToken(p) \/ Scan(p)
  PROVE  IInv'
<1>1. /\ faults' \in 0 .. MaxFaults /\ UNCHANGED <<fileVars, serviceVars, faults>>
      /\ process[p].pc \in Loaded
  BY InvParts DEF ReadToken, Scan, RestOK, Loaded
<1>2. Goto(p, "scan") \/ Goto(p, "stat") \/ End(p)
  BY DEF ReadToken, Scan
<1> QED
  BY <1>1, <1>2, GotoStep, EndStep DEF PCs

LEMMA FaultStep ==
  ASSUME IInv, NEW p \in Processes, Fault(p)
  PROVE  IInv'
<1>1. faults' \in 0 .. MaxFaults
  BY InvParts, BoundsAssumption DEF Fault, RestOK
<1> QED
  BY <1>1, EndStep DEF Fault

-----------------------------------------------------------------------------
\* IInv is an inductive invariant.
LEMMA InitInv == Init => IInv
<1> SUFFICES ASSUME Init
             PROVE  IInv
  OBVIOUS
<1>1. Idle \in Process /\ Idle.pc = "idle"
  BY DEF Idle, Process
<1>2. ProcessesOK /\ \A p \in Processes : process[p].pc = "idle"
  BY <1>1 DEF Init, ProcessesOK
<1>3. RestOK
  BY BoundsAssumption DEF Init, RestOK
<1>4. (\A p \in Processes : ProcessInv(p)) /\ OneWriter
  BY <1>2 DEF ProcessInv, OneWriter, Loaded
<1>5. RegisteredKeyIsKept /\ TokenFitsDevice
  BY DEF Init, RegisteredKeyIsKept, TokenFitsDevice
<1> QED
  BY <1>2, <1>3, <1>4, <1>5, TypeParts DEF IInv

LEMMA NextInv == IInv /\ [Next]_vars => IInv'
<1> SUFFICES ASSUME IInv, [Next]_vars
             PROVE  IInv'
  OBVIOUS
<1>1. CASE UNCHANGED vars
  BY <1>1 DEF vars, IInv, TypeOK, ProcessInv, OneWriter, RegisteredKeyIsKept, TokenFitsDevice
<1>2. ASSUME NEW p \in Processes, Step(p)
      PROVE  IInv'
  BY <1>2, LoadKeyStep, KeyExistsStep, CreateKeyStep, WriteKeyStep, ReloadKeyStep,
     ExchangeStep, SaveTokenStep, StatTokenStep, ScanStep DEF Step
<1> QED
  BY <1>1, <1>2, BeginStep, FaultStep DEF Next

\* Every reachable state of the files and processes satisfies the invariant.
THEOREM Invariance == Spec => []IInv
BY InitInv, NextInv, PTL DEF Spec

\* The variables keep their types: the token file, in particular, is never seen
\* incomplete (storage.py:110-135).
THEOREM TypeCorrect == Spec => []TypeOK
<1>1. IInv => TypeOK
  BY DEF IInv
<1> QED
  BY <1>1, Invariance, PTL

\* However many first activations overlap or die, the key that the service has
\* registered is the one in the file (device.py:96-114).
THEOREM KeySafety == Spec => []RegisteredKeyIsKept
<1>1. IInv => RegisteredKeyIsKept
  BY DEF IInv
<1> QED
  BY <1>1, Invariance, PTL

\* The stored token belongs to the stored key (entitlement.py:340-370).
THEOREM TokenSafety == Spec => []TokenFitsDevice
<1>1. IInv => TokenFitsDevice
  BY DEF IInv
<1> QED
  BY <1>1, Invariance, PTL

=============================================================================
