------------------------ MODULE CameraScannerProofs ------------------------
(***************************************************************************)
(* For every rate, limit and window: a camera that is open stays within    *)
(* reach of stop and a stopped scanner holds none, but for what a refused  *)
(* adaptive start has left behind; a scan without its licence is found out *)
(* at the next authorization; and it ends by its counts alone.             *)
(***************************************************************************)
EXTENDS CameraScanner, TLAPS

\* The type of the variables of the calls and the camera, of the controller and
\* of the loop.
CallOK ==
  /\ target \in CameraLimits
  /\ open \subseteq Captures /\ leftBehind \subseteq Captures
  /\ capture \in Captures \cup {None} /\ opened \in Captures \cup {None}
  /\ state \in {"stopped", "running"}
  /\ asked \in BOOLEAN /\ rights \in Rights
  /\ pc \in {"rest", "opening", "configuring"} \cup Scanning

ControlOK ==
  /\ adaptive \in BOOLEAN
  /\ fps \in 1 .. MaximumFps
  /\ adaptive => fps >= MinimumFps
  /\ seen \in 0 .. Window - 1 /\ good \in 0 .. seen /\ streak \in 0 .. Window
  /\ good = seen => streak >= seen
  /\ ~adaptive => seen = 0

LoopOK ==
  /\ captured \in 0 .. FrameLimit /\ failures \in 0 .. ReadFailures - 1
  /\ age \in 0 .. MaxTime /\ authAge \in Nat /\ gap \in 0 .. MaxGap
  /\ waited \in Nat /\ lapsed \in Nat

Parts == CallOK /\ ControlOK /\ LoopOK /\ CameraInv /\ LoopInv

LEMMA TypeParts ==
  /\ IInv <=> Parts
  /\ IInv' <=> Parts'
BY DEF IInv, Parts, TypeOK, StreakInv, CallOK, ControlOK, LoopOK

LEMMA RateOK ==
  ASSUME target \in CameraLimits PROVE target \in 1 .. MaximumFps
BY LimitsAssumption DEF CameraLimits

LEMMA InitInv == Init => IInv
<1> SUFFICES ASSUME Init PROVE Parts
  BY TypeParts
<1>1. CallOK
  BY DEF Init, CallOK, Rights
<1>2. ControlOK
  <2>1. fps \in 1 .. MaximumFps /\ seen = 0 /\ good = 0 /\ streak = 0
    BY RateOK DEF Init
  <2>2. ~adaptive /\ adaptive \in BOOLEAN
    BY DEF Init
  <2> QED
    BY <2>1, <2>2, LimitsAssumption DEF ControlOK
<1>3. LoopOK
  BY LimitsAssumption DEF Init, LoopOK
<1>4. CameraInv
  BY DEF Init, CameraInv, CameraIsReachable, Scanning
<1>5. LoopInv
  BY DEF Init, LoopInv, Scanning
<1> QED
  BY <1>1, <1>2, <1>3, <1>4, <1>5 DEF Parts

-----------------------------------------------------------------------------
\* What is over has no counts and no times.
LEMMA ForgottenInv ==
  ASSUME Forgotten, pc' = "rest"
  PROVE  LoopOK' /\ LoopInv'
BY LimitsAssumption DEF Forgotten, LoopOK, LoopInv, Scanning

\* stop, from whatever place that is not in start.
LEMMA ReleasedInv ==
  ASSUME CallOK, CameraInv, Released, UNCHANGED <<target, asked, rights>>,
         pc \in {"rest"} \cup Scanning, pc' \in {"rest"} \cup Scanning,
         pc' \in Scanning => adaptive' = asked'
  PROVE  CallOK' /\ CameraInv'
<1>1. opened = None /\ opened' = None
  BY DEF CameraInv, Released, Scanning
<1>2. open' = open \ {capture} /\ leftBehind' = leftBehind \ {capture} /\ capture' = None
      /\ state' = "stopped"
  BY DEF Released
<1>3. open' \subseteq leftBehind' /\ leftBehind' \subseteq open'
  BY <1>1, <1>2, NoneAssumption DEF CallOK, CameraInv, CameraIsReachable
<1>4. CallOK'
  BY <1>1, <1>2 DEF CallOK
<1>5. CameraInv'
  BY <1>1, <1>2, <1>3 DEF CameraInv, CameraIsReachable, Scanning
<1> QED
  BY <1>4, <1>5

-----------------------------------------------------------------------------
\* start and stop.
LEMMA StartInv ==
  ASSUME IInv, NEW a \in BOOLEAN, Start(a)
  PROVE  IInv'
<1>0. CallOK /\ ControlOK /\ LoopOK /\ CameraInv /\ LoopInv
  BY TypeParts DEF Parts
<1>1. CallOK' /\ ControlOK' /\ LoopOK'
  BY <1>0 DEF CallOK, ControlOK, LoopOK, Start, cameraVars, controlVars, loopVars, countVars,
              timeVars
<1>2. CameraInv'
  BY <1>0 DEF CallOK, CameraInv, CameraIsReachable, Scanning, Start, cameraVars
<1>3. gap = 0 /\ lapsed = 0 /\ authAge = 0
  BY <1>0 DEF LoopInv, LoopOK, Relying, Start, Scanning, CallOK
<1>4. LoopInv'
  BY <1>0, <1>3 DEF LoopInv, LoopOK, Relying, Start, Scanning, loopVars, countVars, timeVars
<1> QED
  BY <1>1, <1>2, <1>4, TypeParts DEF Parts

LEMMA OpenCaptureInv ==
  ASSUME IInv, OpenCapture
  PROVE  IInv'
<1>0. CallOK /\ ControlOK /\ LoopOK /\ CameraInv /\ LoopInv
  BY TypeParts DEF Parts
<1>1. ControlOK' /\ pc = "opening" /\ opened = None /\ state = "stopped"
      /\ UNCHANGED <<target, capture, state, leftBehind, asked, adaptive, rights>>
  BY <1>0 DEF ControlOK, CameraInv, OpenCapture, controlVars
<1>2. CASE pc' = "rest" /\ Forgotten /\ UNCHANGED <<open, opened>>
  <2>1. LoopOK' /\ LoopInv'
    BY <1>2, ForgottenInv
  <2>2. CallOK' /\ CameraInv'
    BY <1>0, <1>1, <1>2 DEF CallOK, CameraInv, CameraIsReachable, Scanning
  <2> QED
    BY <1>1, <2>1, <2>2, TypeParts DEF Parts
<1>3. CASE /\ \E c \in Captures \ open : open' = open \cup {c} /\ opened' = c
           /\ pc' = "configuring" /\ UNCHANGED loopVars
  <2>1. PICK c \in Captures \ open : open' = open \cup {c} /\ opened' = c
    BY <1>3
  <2>2. CallOK' /\ CameraInv'
    BY <1>0, <1>1, <1>3, <2>1, NoneAssumption DEF CallOK, CameraInv, CameraIsReachable, Scanning
  <2>3. LoopOK'
    BY <1>0, <1>3 DEF LoopOK, loopVars, countVars, timeVars
  <2>4. LoopInv'
    BY <1>0, <1>1, <1>3 DEF LoopInv, Relying, Scanning, loopVars, countVars, timeVars
  <2> QED
    BY <1>1, <2>2, <2>3, <2>4, TypeParts DEF Parts
<1> QED
  BY <1>2, <1>3 DEF OpenCapture

\* A new controller has the rate of the limits, at least the minimum if there is one.
LEMMA NewControllerOK ==
  ASSUME CallOK, NewController, ~(asked /\ ~ControllerFits)
  PROVE  ControlOK'
<1>1. target \in 1 .. MaximumFps /\ MinimumFps \in Nat /\ Window \in Nat \ {0}
  BY RateOK, LimitsAssumption DEF CallOK
<1>2. adaptive' \in BOOLEAN /\ (adaptive' => MinimumFps <= target)
  BY DEF CallOK, NewController, ControllerFits
<1>3. fps' = target /\ seen' = 0 /\ good' = 0 /\ streak' = 0
  BY DEF NewController
<1>4. adaptive' => fps' >= MinimumFps
  BY <1>1, <1>2, <1>3
<1> QED
  BY <1>1, <1>2, <1>3, <1>4 DEF ControlOK

LEMMA ConfigureCaptureInv ==
  ASSUME IInv, ConfigureCapture
  PROVE  IInv'
<1>0. CallOK /\ ControlOK /\ LoopOK /\ CameraInv /\ LoopInv
  BY TypeParts DEF Parts
<1>1. /\ pc = "configuring" /\ pc' = "rest" /\ opened' = None
      /\ UNCHANGED <<target, asked, rights>>
      /\ opened \in open /\ opened \in Captures /\ opened # None /\ state = "stopped"
  BY <1>0 DEF CallOK, CameraInv, ConfigureCapture
<1>2. CASE open' = open \ {opened} /\ Forgotten
           /\ UNCHANGED <<capture, state, leftBehind, controlVars>>
  <2>1. LoopOK' /\ LoopInv'
    BY <1>1, <1>2, ForgottenInv
  <2>2. ControlOK'
    BY <1>0, <1>2 DEF ControlOK, controlVars
  <2>3. capture # opened /\ opened \notin leftBehind
    BY <1>0, <1>1 DEF CameraInv
  <2>4. CallOK' /\ CameraInv'
    BY <1>0, <1>1, <1>2, <2>3 DEF CallOK, CameraInv, CameraIsReachable, Scanning
  <2> QED
    BY <2>1, <2>2, <2>4, TypeParts DEF Parts
<1>3. CASE StartFails
  <2>1. LoopOK' /\ LoopInv'
    BY <1>1, <1>3, ForgottenInv DEF StartFails
  <2>2. ControlOK'
    BY <1>0, <1>3 DEF ControlOK, StartFails, controlVars
  <2>3. CallOK' /\ CameraInv'
    BY <1>0, <1>1, <1>3 DEF CallOK, CameraInv, CameraIsReachable, Scanning, StartFails
  <2> QED
    BY <2>1, <2>2, <2>3, TypeParts DEF Parts
<1>4. CASE StartSucceeds
  <2>1. ControlOK'
    BY <1>0, <1>4, NewControllerOK DEF StartSucceeds
  <2>2. CallOK'
    BY <1>0, <1>1, <1>4 DEF CallOK, StartSucceeds
  <2>3. capture = None \/ capture \in leftBehind
    BY <1>0, <1>1 DEF CameraInv
  <2>4. CameraInv'
    BY <1>0, <1>1, <1>4, <2>3, NoneAssumption
    DEF CallOK, CameraInv, CameraIsReachable, Scanning, StartSucceeds, NewController
  <2>5. LoopOK' /\ LoopInv'
    BY <1>0, <1>1, <1>4
    DEF LoopOK, LoopInv, Relying, Scanning, StartSucceeds, loopVars, countVars, timeVars
  <2> QED
    BY <2>1, <2>2, <2>4, <2>5, TypeParts DEF Parts
<1> QED
  BY <1>2, <1>3, <1>4 DEF ConfigureCapture

LEMMA StopInv ==
  ASSUME IInv, Stop
  PROVE  IInv'
<1>0. CallOK /\ ControlOK /\ LoopOK /\ CameraInv /\ LoopInv
  BY TypeParts DEF Parts
<1>1. CallOK' /\ CameraInv'
  BY <1>0, ReleasedInv DEF Stop, Scanning
<1>2. LoopOK' /\ LoopInv'
  BY ForgottenInv DEF Stop
<1>3. ControlOK'
  BY <1>0 DEF ControlOK, Stop, controlVars
<1> QED
  BY <1>1, <1>2, <1>3, TypeParts DEF Parts

LEMMA CollectedInv ==
  ASSUME IInv, NEW c \in Captures, Collected(c)
  PROVE  IInv'
<1>0. CallOK /\ ControlOK /\ LoopOK /\ CameraInv /\ LoopInv
  BY TypeParts DEF Parts
<1>1. CallOK' /\ CameraInv'
  BY <1>0 DEF CallOK, CameraInv, CameraIsReachable, Collected, controlVars
<1>2. ControlOK' /\ LoopOK' /\ LoopInv'
  BY <1>0 DEF ControlOK, LoopOK, LoopInv, Relying, Collected, controlVars, loopVars, countVars,
              timeVars
<1> QED
  BY <1>1, <1>2, TypeParts DEF Parts

LEMMA BeginScanInv ==
  ASSUME IInv, BeginScan
  PROVE  IInv'
<1>0. CallOK /\ ControlOK /\ LoopOK /\ CameraInv /\ LoopInv
  BY TypeParts DEF Parts
<1>1. CallOK' /\ CameraInv'
  BY <1>0 DEF CallOK, CameraInv, CameraIsReachable, BeginScan, Scanning, cameraVars, controlVars
<1>2. ControlOK' /\ LoopOK'
  BY <1>0 DEF ControlOK, LoopOK, BeginScan, controlVars, loopVars, countVars, timeVars
<1>3. LoopInv'
  BY <1>0 DEF LoopInv, Relying, BeginScan, Scanning, cameraVars, loopVars, countVars, timeVars
<1> QED
  BY <1>1, <1>2, <1>3, TypeParts DEF Parts

-----------------------------------------------------------------------------
\* The end of a scan, however it comes.
LEMMA EndScanInv ==
  ASSUME IInv, EndScan, ControlOK', UNCHANGED <<target, asked, rights>>, pc \in Scanning
  PROVE  IInv'
<1>1. CallOK' /\ CameraInv'
  BY TypeParts, ReleasedInv DEF Parts, EndScan, Scanning
<1>2. LoopOK' /\ LoopInv'
  BY ForgottenInv DEF EndScan
<1> QED
  BY <1>1, <1>2, TypeParts DEF Parts

\* A step of the loop that leaves camera, controller and licence alone.
LEMMA LoopStepInv ==
  ASSUME CallOK, ControlOK, CameraInv, UNCHANGED <<target, asked, rights, controlVars, cameraVars>>,
         pc \in Scanning, pc' \in Scanning
  PROVE  CallOK' /\ ControlOK' /\ CameraInv'
<1>1. CallOK' /\ ControlOK'
  BY DEF CallOK, ControlOK, cameraVars, controlVars
<1>2. CameraInv'
  BY DEF CameraInv, CameraIsReachable, Scanning, cameraVars, controlVars
<1> QED
  BY <1>1, <1>2

LEMMA LesserGreater ==
  ASSUME NEW m \in Int, NEW n \in Int
  PROVE  /\ Lesser(m, n) \in {m, n} /\ Lesser(m, n) <= m /\ Lesser(m, n) <= n
         /\ Greater(m, n) \in {m, n} /\ Greater(m, n) >= m /\ Greater(m, n) >= n
BY DEF Lesser, Greater

\* A full window leaves the rate of the controller within its bounds.
LEMMA AdaptedOK ==
  ASSUME ControlOK, adaptive, NEW n \in Nat
  PROVE  Adapted(n) \in MinimumFps .. MaximumFps
<1>1. fps \in MinimumFps .. MaximumFps /\ MinimumFps \in Nat /\ MaximumFps \in Nat
  BY LimitsAssumption DEF ControlOK
<1>2. Greater(MinimumFps, fps - 2) \in MinimumFps .. MaximumFps
  BY <1>1 DEF Greater
<1>3. Lesser(MaximumFps, fps + 1) \in MinimumFps .. MaximumFps
  BY <1>1 DEF Lesser
<1> QED
  BY <1>1, <1>2, <1>3 DEF Adapted

LEMMA ObserveOK ==
  ASSUME ControlOK, NEW ok \in BOOLEAN, Observe(ok)
  PROVE  ControlOK' /\ (fps' > fps => streak' = Window)
<1> DEFINE n == good + (IF ok THEN 1 ELSE 0)
<1>0. Window \in 1 .. 20
  BY LimitsAssumption
<1>1. n \in 0 .. seen + 1 /\ seen \in 0 .. Window - 1
  BY <1>0 DEF ControlOK
<1>2. streak' \in 0 .. Window
  BY <1>0 DEF ControlOK, Observe, Lesser
<1>3. adaptive' = adaptive
  BY DEF Observe
<1>a. n = seen + 1 => streak' >= seen + 1
  BY <1>0, <1>1 DEF ControlOK, Observe, Lesser
<1>4. CASE ~adaptive
  <2>1. seen' = seen /\ good' = good /\ fps' = fps
    BY <1>4 DEF Observe
  <2>2. CASE ok
    <3>1. streak' >= streak \/ streak' = Window
      BY <1>0, <2>2 DEF ControlOK, Observe, Lesser
    <3> QED
      BY <1>0, <1>2, <1>3, <1>4, <2>1, <3>1 DEF ControlOK
  <2>3. CASE ~ok /\ seen = 0
    BY <1>0, <1>2, <1>3, <1>4, <2>1, <2>3 DEF ControlOK
  <2> QED
    BY <1>4, <2>2, <2>3 DEF ControlOK
<1>5. CASE adaptive /\ seen + 1 < Window
  <2>1. seen' = seen + 1 /\ good' = n /\ fps' = fps
    BY <1>5 DEF Observe
  <2> HIDE DEF n
  <2> QED
    BY <1>0, <1>1, <1>2, <1>3, <1>5, <1>a, <2>1 DEF ControlOK
<1>6. CASE adaptive /\ ~(seen + 1 < Window)
  <2>1. seen' = 0 /\ good' = 0 /\ fps' = Adapted(n)
    BY <1>6 DEF Observe
  <2>2. fps' \in MinimumFps .. MaximumFps
    BY <1>1, <1>6, <2>1, AdaptedOK
  <2> HIDE DEF n
  <2>3. fps' > fps => n = Window
    <3>1. fps \in MinimumFps .. MaximumFps /\ MinimumFps \in Nat /\ MaximumFps \in Nat
      BY <1>6, LimitsAssumption DEF ControlOK
    <3>2. SUFFICES ASSUME fps' > fps PROVE 100 * n > 95 * Window
      BY <1>0, <1>1
    <3>3. Greater(MinimumFps, fps - 2) <= fps
      BY <3>1 DEF Greater
    <3>4. ~(100 * n > 95 * Window) => fps' \in {Greater(MinimumFps, fps - 2), fps}
      BY <2>1 DEF Adapted
    <3>5. Greater(MinimumFps, fps - 2) \in Int
      BY <3>1 DEF Greater
    <3> QED
      BY <3>1, <3>2, <3>3, <3>4, <3>5
  <2>4. fps' > fps => streak' = Window
    BY <1>0, <1>1, <1>2, <1>6, <1>a, <2>3
  <2> QED
    BY <1>0, <1>2, <1>3, <2>1, <2>2, <2>4, LimitsAssumption DEF ControlOK
<1> QED
  BY <1>4, <1>5, <1>6 DEF ControlOK

\* A reread licence, or less than Recheck since the last one: LoopInv at "read".
LEMMA LoopTopInv ==
  ASSUME IInv, LoopTop
  PROVE  IInv'
<1>0. CallOK /\ ControlOK /\ LoopOK /\ CameraInv /\ LoopInv
  BY TypeParts DEF Parts
<1>1. pc \in Scanning /\ UNCHANGED <<target, asked, rights, controlVars>>
  BY DEF LoopTop, Scanning
<1>2. CASE LimitReached \/ (authAge >= Recheck /\ ~Authorized)
  <2>1. EndScan
    BY <1>2 DEF LoopTop
  <2>2. ControlOK'
    BY <1>0, <1>1 DEF ControlOK, controlVars
  <2> QED
    BY <1>1, <2>1, <2>2, EndScanInv
<1>3. CASE ~(LimitReached \/ (authAge >= Recheck /\ ~Authorized))
  <2>1. /\ pc' = "read" /\ waited' = 0
        /\ authAge' = IF authAge >= Recheck THEN 0 ELSE authAge
        /\ gap' = IF authAge >= Recheck THEN 0 ELSE gap
        /\ UNCHANGED <<cameraVars, captured, failures, age, lapsed>>
    BY <1>3 DEF LoopTop, countVars
  <2>2. CallOK' /\ ControlOK' /\ CameraInv'
    BY <1>0, <1>1, <2>1, LoopStepInv DEF Scanning
  <2>3. LoopOK'
    BY <1>0, <2>1, LimitsAssumption DEF LoopOK
  <2>4. captured' < FrameLimit
    BY <1>0, <1>3, <2>1, LimitsAssumption DEF LoopOK, LimitReached
  <2>5. authAge >= Recheck => lapsed = 0
    BY <1>0, <1>1, <1>3 DEF Authorized, CameraInv, LoopInv
  <2>6. lapsed' <= authAge' + gap' /\ lapsed' < Recheck + gap' + waited'
    BY <1>0, <2>1, <2>5, LimitsAssumption DEF LoopOK, LoopInv
  <2>7. LoopInv'
    BY <1>0, <1>1, <2>1, <2>4, <2>6 DEF LoopInv, Relying, Scanning
  <2> QED
    BY <2>2, <2>3, <2>7, TypeParts DEF Parts
<1> QED
  BY <1>2, <1>3

LEMMA ReadFrameInv ==
  ASSUME IInv, ReadFrame
  PROVE  IInv'
<1>0. CallOK /\ ControlOK /\ LoopOK /\ CameraInv /\ LoopInv
  BY TypeParts DEF Parts
<1>1. pc = "read" /\ pc \in Scanning /\ UNCHANGED <<target, asked, rights, controlVars>>
  BY DEF ReadFrame, Scanning
<1>2. CASE EndScan
  <2>1. ControlOK'
    BY <1>0, <1>1 DEF ControlOK, controlVars
  <2> QED
    BY <1>1, <1>2, <2>1, EndScanInv
<1>3. CASE ~EndScan
  <2>1. /\ pc' \in {"frame", "top"} /\ UNCHANGED <<cameraVars, timeVars>>
        /\ \/ captured' = captured + 1 /\ failures' = 0
           \/ captured' = captured /\ failures + 1 < ReadFailures /\ failures' = failures + 1
    BY <1>3 DEF ReadFrame
  <2>2. CallOK' /\ ControlOK' /\ CameraInv'
    BY <1>0, <1>1, <2>1, LoopStepInv DEF Scanning
  <2>3. LoopOK'
    BY <1>0, <1>1, <2>1, LimitsAssumption DEF LoopOK, LoopInv, timeVars
  <2>4. LoopInv'
    BY <1>0, <1>1, <2>1 DEF LoopInv, Relying, Scanning, timeVars
  <2> QED
    BY <2>2, <2>3, <2>4, TypeParts DEF Parts
<1> QED
  BY <1>2, <1>3

LEMMA ProcessFrameInv ==
  ASSUME IInv, ProcessFrame
  PROVE  IInv'
<1>0. CallOK /\ ControlOK /\ LoopOK /\ CameraInv /\ LoopInv
  BY TypeParts DEF Parts
<1>1. pc = "frame" /\ pc \in Scanning /\ UNCHANGED <<target, asked, rights>>
  BY DEF ProcessFrame, Scanning
<1>2. CASE EndScan /\ UNCHANGED controlVars
  <2>1. ControlOK'
    BY <1>0, <1>2 DEF ControlOK, controlVars
  <2> QED
    BY <1>1, <1>2, <2>1, EndScanInv
<1>3. CASE \E ok \in BOOLEAN : /\ pc' \in IF ok THEN {"top", "rebuild"} ELSE {"top"}
                               /\ Released \/ UNCHANGED cameraVars
                               /\ Observe(ok)
                               /\ UNCHANGED loopVars
  <2>1. PICK ok \in BOOLEAN : /\ pc' \in IF ok THEN {"top", "rebuild"} ELSE {"top"}
                              /\ Released \/ UNCHANGED cameraVars
                              /\ Observe(ok)
                              /\ UNCHANGED loopVars
    BY <1>3
  <2>2. ControlOK' /\ adaptive' = adaptive
    BY <1>0, <2>1, ObserveOK DEF Observe
  <2>3. pc' \in {"top", "rebuild"} /\ pc' \in Scanning
    BY <2>1 DEF Scanning
  <2>4. adaptive' = asked'
    BY <1>0, <1>1, <2>2 DEF CameraInv
  <2>5. Released => CallOK' /\ CameraInv'
    BY <1>0, <1>1, <2>3, <2>4, ReleasedInv, Zenon
  <2>6. UNCHANGED cameraVars => CallOK' /\ CameraInv'
    <3>1. UNCHANGED cameraVars => CallOK'
      BY <1>0, <1>1, <2>3 DEF CallOK, cameraVars
    <3>2. UNCHANGED cameraVars => CameraInv'
      BY <1>0, <2>3, <2>4, <1>1 DEF CameraInv, CameraIsReachable, Scanning, cameraVars
    <3> QED
      BY <3>1, <3>2
  <2>7. CallOK' /\ CameraInv'
    BY <2>1, <2>5, <2>6
  <2>8. LoopOK'
    BY <1>0, <2>1 DEF LoopOK, loopVars, countVars, timeVars
  <2>9. LoopInv'
    BY <1>0, <1>1, <2>1, <2>3 DEF LoopInv, Relying, Scanning, loopVars, countVars, timeVars
  <2> QED
    BY <2>2, <2>7, <2>8, <2>9, TypeParts DEF Parts
<1> QED
  BY <1>2, <1>3 DEF ProcessFrame

LEMMA ScanStepInv ==
  ASSUME IInv, ScanStep \/ Interrupt
  PROVE  IInv'
<1>1. CASE Reconstruct \/ Interrupt
  <2>1. /\ pc \in Scanning /\ EndScan /\ UNCHANGED <<target, asked, rights, controlVars>>
    BY <1>1 DEF Reconstruct, Interrupt, Scanning
  <2>2. ControlOK'
    BY <2>1, TypeParts DEF Parts, ControlOK, controlVars
  <2> QED
    BY <2>1, <2>2, EndScanInv
<1> QED
  BY <1>1, LoopTopInv, ReadFrameInv, ProcessFrameInv DEF ScanStep

-----------------------------------------------------------------------------
\* The world around the scanner.
LEMMA LicenceChangeInv ==
  ASSUME IInv, LicenceChange
  PROVE  IInv'
<1>0. CallOK /\ ControlOK /\ LoopOK /\ CameraInv /\ LoopInv
  BY TypeParts DEF Parts
<1>1. CallOK' /\ ControlOK'
  BY <1>0 DEF CallOK, ControlOK, LicenceChange, cameraVars, controlVars
<1>2. CameraInv'
  BY <1>0 DEF CameraInv, CameraIsReachable, LicenceChange, cameraVars, controlVars
<1>3. /\ UNCHANGED <<pc, state, asked, captured, failures, age, authAge, gap, waited>>
      /\ lapsed' = IF Required(asked') \subseteq rights' THEN 0 ELSE lapsed
  BY DEF LicenceChange, cameraVars, countVars
<1>4. LoopOK'
  BY <1>0, <1>3 DEF LoopOK
<1>5. lapsed' <= authAge' + gap' /\ (pc = "read" => lapsed' < Recheck + gap' + waited')
  BY <1>0, <1>3, LimitsAssumption DEF LoopOK, LoopInv
<1>6. LoopInv'
  BY <1>0, <1>3, <1>5 DEF LoopInv, Relying
<1> QED
  BY <1>1, <1>2, <1>4, <1>6, TypeParts DEF Parts

LEMMA TickInv ==
  ASSUME IInv, Tick
  PROVE  IInv'
<1>0. CallOK /\ ControlOK /\ LoopOK /\ CameraInv /\ LoopInv
  BY TypeParts DEF Parts
<1>1. CallOK' /\ ControlOK'
  BY <1>0 DEF CallOK, ControlOK, Tick, cameraVars, controlVars
<1>2. CameraInv'
  BY <1>0 DEF CameraInv, CameraIsReachable, Tick, cameraVars, controlVars
<1>3. /\ UNCHANGED <<pc, state, asked, captured, failures, rights>>
      /\ lapsed' = IF Required(asked') \subseteq rights' THEN 0 ELSE lapsed + 1
  BY DEF Tick, cameraVars, countVars
<1>4. \/ /\ pc \in Scanning /\ age < MaxTime /\ age' = age + 1 /\ authAge' = authAge + 1
         /\ waited' = IF pc = "read" THEN waited + 1 ELSE waited
         /\ gap' = gap
      \/ /\ pc \notin Scanning /\ Relying /\ gap < MaxGap /\ gap' = gap + 1
         /\ UNCHANGED <<age, authAge, waited>>
  BY DEF Tick
<1>5. LoopOK'
  BY <1>0, <1>3, <1>4, LimitsAssumption DEF LoopOK
<1>6. lapsed' <= authAge' + gap'
  BY <1>0, <1>3, <1>4 DEF LoopOK, LoopInv
<1>7. pc = "read" => lapsed' < Recheck + gap' + waited'
  BY <1>0, <1>3, <1>4, LimitsAssumption DEF LoopOK, LoopInv, Scanning
<1>8. LoopInv'
  BY <1>0, <1>3, <1>4, <1>6, <1>7 DEF LoopInv, Relying
<1> QED
  BY <1>1, <1>2, <1>5, <1>8, TypeParts DEF Parts

LEMMA StutterStep == IInv /\ UNCHANGED vars => IInv'
<1> SUFFICES ASSUME Parts, UNCHANGED vars PROVE Parts'
  BY TypeParts
<1>1. CallOK' /\ ControlOK' /\ LoopOK'
  BY DEF Parts, CallOK, ControlOK, LoopOK, vars, cameraVars, controlVars, loopVars, countVars,
         timeVars
<1>2. CameraInv'
  BY DEF Parts, CameraInv, CameraIsReachable, vars, cameraVars, controlVars
<1>3. LoopInv'
  BY DEF Parts, LoopInv, Relying, vars, cameraVars, loopVars, countVars, timeVars
<1> QED
  BY <1>1, <1>2, <1>3 DEF Parts

LEMMA StepInv == IInv /\ [Next]_vars => IInv'
BY StartInv, OpenCaptureInv, ConfigureCaptureInv, StopInv, CollectedInv, BeginScanInv,
   ScanStepInv, LicenceChangeInv, TickInv, StutterStep DEF Next

\* IInv holds in every state of the scanner.
THEOREM IndInv == Spec => []IInv
BY InitInv, StepInv, PTL DEF Spec

\* Every variable keeps its type; the rate of the controller its bounds.
THEOREM TypeCorrect == Spec => []TypeOK
<1>1. IInv => TypeOK
  BY DEF IInv
<1> QED
  BY <1>1, IndInv, PTL

\* An open camera is one that stop will release, or the start under way, whatever
\* failed before; but for those that a refused adaptive start has left behind
\* (camera.py:168-210).
THEOREM CameraReachable == Spec => []CameraIsReachable
<1>1. IInv => CameraIsReachable
  BY DEF IInv, CameraInv
<1> QED
  BY <1>1, IndInv, PTL

\* A stopped scanner holds no camera but those that a refused adaptive start has
\* left behind (camera.py:189-200, 292-293).
THEOREM StoppedReleased == Spec => []StoppedHoldsNothing
<1>1. IInv => StoppedHoldsNothing
  BY NoneAssumption DEF IInv, TypeOK, CameraInv, CameraIsReachable, StoppedHoldsNothing
<1> QED
  BY <1>1, IndInv, PTL

\* When a frame is read the features that were asked for have been missing for less
\* than Recheck, plus the time since the loop decided to read it, plus the time from
\* start to the scan as long as its first periodic check is not due
\* (camera.py:166, 236-259).
THEOREM ExposureBounded == Spec => RecheckBoundsExposure
<1>1. IInv => (pc = "read" => lapsed < Recheck + gap + waited)
  BY DEF IInv, LoopInv
<1> QED
  BY <1>1, IndInv, PTL DEF RecheckBoundsExposure

\* The rate rises only after a whole window of accepted frames, for every window
\* up to the twenty frames of the code (camera.py:114-124).
THEOREM ConservativeRate == Spec => RateRisesAfterStreak
<1>1. IInv /\ [Next]_vars => [pc = "frame" /\ fps' > fps => streak' = Window]_vars
  <2> SUFFICES ASSUME IInv, Next, pc = "frame", fps' > fps PROVE streak' = Window
    OBVIOUS
  <2>0. fps \in Nat /\ ControlOK
    BY TypeParts, LimitsAssumption DEF Parts, IInv, TypeOK
  <2>1. fps' # fps
    BY <2>0
  <2>2. ProcessFrame
    BY <2>1 DEF Next, Start, OpenCapture, ConfigureCapture, Stop, BeginScan, ScanStep, LoopTop,
           ReadFrame, Reconstruct, Interrupt, LicenceChange, Tick, Collected, controlVars
  <2>3. \E ok \in BOOLEAN : Observe(ok)
    BY <2>1, <2>2 DEF ProcessFrame, controlVars
  <2> QED
    BY <2>0, <2>3, ObserveOK
<1> QED
  BY <1>1, IndInv, PTL DEF Spec, RateRisesAfterStreak

-----------------------------------------------------------------------------
\* Each failed read takes a round away, and each frame at least one.
LEMMA Rounds ==
  ASSUME NEW c \in 0 .. FrameLimit, NEW f \in 0 .. ReadFailures - 1
  PROVE  /\ RoundsLeft(c, f) \in Nat
         /\ RoundsLeft(c + 1, 0) < RoundsLeft(c, f)
         /\ RoundsLeft(c, f + 1) < RoundsLeft(c, f)
<1> DEFINE frames == (FrameLimit - c) * ReadFailures
<1>1. /\ FrameLimit - c \in Nat /\ ReadFailures \in Nat \ {0} /\ c \in Nat /\ FrameLimit \in Nat
      /\ f \in Nat /\ f <= ReadFailures - 1
  BY LimitsAssumption
<1>2. \A m, n \in Nat : m * n \in Nat /\ (m - 1) * n = m * n - n
  OBVIOUS
<1>3. FrameLimit - (c + 1) = (FrameLimit - c) - 1
  BY <1>1
<1>4. frames \in Nat /\ (FrameLimit - (c + 1)) * ReadFailures = frames - ReadFailures
  BY <1>1, <1>2, <1>3
<1>5. /\ RoundsLeft(c, f) = frames + ReadFailures - 1 - f
      /\ RoundsLeft(c, f + 1) = frames + ReadFailures - 1 - (f + 1)
      /\ RoundsLeft(c + 1, 0) = frames - ReadFailures + ReadFailures - 1 - 0
  BY <1>4 DEF RoundsLeft
<1> HIDE DEF frames
<1> QED
  BY <1>1, <1>4, <1>5

LEMMA Places == \A at : Place(at) \in 1 .. 4
BY DEF Place

LEMMA StepsNatural ==
  /\ IInv => StepsLeft \in Nat
  /\ IInv' => StepsLeft' \in Nat
BY Rounds, Places DEF IInv, TypeOK, StepsLeft

LEMMA ScanStepShrinks ==
  ASSUME IInv, IInv', ScanStep
  PROVE  StepsLeft' < StepsLeft
<1> DEFINE left == RoundsLeft(captured, failures)
           left2 == RoundsLeft(captured', failures')
<1>0. /\ captured \in 0 .. FrameLimit /\ failures \in 0 .. ReadFailures - 1
      /\ captured' \in 0 .. FrameLimit /\ failures' \in 0 .. ReadFailures - 1
      /\ pc \in Scanning
  BY DEF IInv, TypeOK, ScanStep, LoopTop, ReadFrame, ProcessFrame, Reconstruct, Scanning
<1>1. left \in Nat /\ left2 \in Nat
  BY <1>0, Rounds
<1>2. Place(pc) \in 1 .. 4 /\ Place(pc') \in 1 .. 4
  BY Places
<1>3. StepsLeft = 4 * left + Place(pc)
  BY <1>0 DEF StepsLeft
<1>4. CASE pc' \notin Scanning
  <2>1. StepsLeft' = 0
    BY <1>4 DEF StepsLeft
  <2> HIDE DEF left
  <2> QED
    BY <1>1, <1>2, <1>3, <2>1
<1>5. CASE pc' \in Scanning
  <2>0. StepsLeft' = 4 * left2 + Place(pc')
    BY <1>5 DEF StepsLeft
  <2>1. LoopTop => left2 = left /\ Place(pc') < Place(pc)
    BY <1>5 DEF LoopTop, EndScan, Scanning, Place, countVars
  <2>2. ReadFrame => left2 < left
    <3>1. ReadFrame => \/ captured' = captured + 1 /\ failures' = 0
                       \/ captured' = captured /\ failures' = failures + 1
      BY <1>5 DEF ReadFrame, EndScan, Scanning
    <3> QED
      BY <1>0, <3>1, Rounds
  <2>3. ProcessFrame => left2 = left /\ Place(pc') < Place(pc)
    BY <1>5 DEF ProcessFrame, EndScan, Scanning, loopVars, countVars, Place
  <2>4. ~Reconstruct
    BY <1>5 DEF Reconstruct, EndScan, Scanning
  <2> HIDE DEF left, left2
  <2> QED
    BY <1>1, <1>2, <1>3, <2>0, <2>1, <2>2, <2>3, <2>4 DEF ScanStep
<1> QED
  BY <1>4, <1>5

\* A scan is finite even if the clock stands still: its loop has at most
\* 4 * (FrameLimit + 1) * ReadFailures steps, because each round takes a frame or
\* counts a failure and the failures only start again after a frame
\* (camera.py:241-293).  Fairness of the calls of camera and receiver is all that is
\* left for ScanEnds.
THEOREM ScanIsFinite == Spec => [](StepsLeft \in Nat) /\ ScanRunsOut
<1>1. IInv /\ IInv' /\ [Next]_vars =>
        [/\ ScanStep => StepsLeft' < StepsLeft
         /\ pc \in Scanning => StepsLeft' <= StepsLeft]_vars
  <2> SUFFICES ASSUME IInv, IInv', Next
               PROVE  /\ ScanStep => StepsLeft' < StepsLeft
                      /\ pc \in Scanning => StepsLeft' <= StepsLeft
    OBVIOUS
  <2>0. StepsLeft \in Nat /\ StepsLeft' \in Nat
    BY StepsNatural
  <2>1. CASE ScanStep
    BY <2>0, <2>1, ScanStepShrinks
  <2>2. CASE ~ScanStep /\ pc \in Scanning
    <3>1. Interrupt \/ LicenceChange \/ Tick \/ \E c \in Captures : Collected(c)
      BY <2>2 DEF Next, Start, OpenCapture, ConfigureCapture, Stop, BeginScan, Scanning, Collected
    <3>2. Interrupt => StepsLeft' = 0
      BY DEF Interrupt, EndScan, Scanning, StepsLeft
    <3>3. LicenceChange \/ Tick => StepsLeft' = StepsLeft
      BY DEF LicenceChange, Tick, StepsLeft, countVars
    <3>4. \A c : Collected(c) => StepsLeft' = StepsLeft
      BY DEF Collected, StepsLeft, loopVars, countVars
    <3> QED
      BY <2>0, <2>2, <3>1, <3>2, <3>3, <3>4
  <2> QED
    BY <2>1, <2>2
<1> QED
  BY <1>1, StepsNatural, IndInv, PTL DEF Spec, ScanRunsOut

=============================================================================
