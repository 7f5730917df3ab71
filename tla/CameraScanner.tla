---------------------------- MODULE CameraScanner ----------------------------
(***************************************************************************)
(* The OpenCV scanner of camera.py: start acquires the camera, scan feeds  *)
(* its frames to the Community receiver until an object can be rebuilt, a  *)
(* limit is reached or something fails, stop releases the camera.          *)
(*                                                                         *)
(* One program owns the scanner and calls it in any order; while a scan    *)
(* runs, its on_event callback may raise or call stop.  The cameras, the   *)
(* receiver and the stored licence do what they like.  Time passes, in     *)
(* ticks, while a start, a started scanner or a scan depends on the        *)
(* licence; nothing else compares times.                                   *)
(***************************************************************************)
EXTENDS Integers

CONSTANTS
  Captures,         \* handles of cameras (cv2.VideoCapture objects)
  None,             \* no handle
  Requested,        \* values of target_fps (--fps) that are asked for
  MaximumFps,       \* limits.maximum_fps
  MinimumFps,       \* minimum_fps of the adaptive controller, 4 in the code
  Window,           \* frames in the controller's window, 20 in the code
  FrameLimit,       \* frame_limit
  DurationLimit,    \* duration_limit
  ReadFailures,     \* limits.consecutive_read_failures
  Recheck,          \* ticks between two authorizations, 30 s in the code
  MaxTime,          \* bound on the duration of a scan
  MaxGap            \* bound on the time from the authorization of start to the scan

ASSUME LimitsAssumption ==
  /\ Requested \subseteq Nat
  /\ MinimumFps \in 1 .. MaximumFps /\ MaximumFps \in Nat
  /\ Window \in 1 .. 20 /\ FrameLimit \in Nat \ {0} /\ ReadFailures \in Nat \ {0}
  /\ DurationLimit \in Nat /\ Recheck \in Nat \ {0} /\ MaxTime \in Nat /\ MaxGap \in Nat

ASSUME NoneAssumption == None \notin Captures

VARIABLES
  target,     \* limits.target_fps of this scanner
  open,       \* handles whose camera is open
  capture,    \* _capture
  opened,     \* the local capture of the start under way
  state,      \* _state
  leftBehind, \* open handles that a refused adaptive start left in _capture (history)
  asked,      \* the adaptive argument of the last start
  adaptive,   \* _adaptive is not None
  fps,        \* current_fps of the controller
  seen,       \* frames in the controller's window ...
  good,       \* ... and how many of them were accepted
  pc,         \* where the call under way is, "rest" when there is none
  captured,   \* frames of this scan
  failures,   \* consecutive_failures
  age,        \* time since started_at
  authAge,    \* time since next_authorization_at was set
  rights,     \* what the stored licence authorizes now
  gap,        \* time from the authorization of start to the scan that relies on it (history)
  waited,     \* time since the scan decided to read another frame (history)
  lapsed,     \* how long what was asked for has been without its rights (history)
  streak      \* frames accepted in a row (history), up to Window

cameraVars == <<open, capture, opened, state, leftBehind>>
controlVars == <<adaptive, fps, seen, good, streak>>
countVars == <<captured, failures>>
timeVars == <<age, authAge, gap, waited, lapsed>>
loopVars == <<countVars, timeVars>>
vars == <<target, cameraVars, asked, controlVars, pc, loopVars, rights>>

Live == "camera.live"
Adaptive == "optics.adaptive"
Rights == {{}, {Live}, {Live, Adaptive}}

Scanning == {"top", "read", "frame", "rebuild"}

\* CameraLimits.__post_init__ for the rates; the other limits are constants.
CameraLimits == {t \in Requested : 1 <= t /\ t <= MaximumFps /\ MaximumFps <= 15}

TypeOK ==
  /\ target \in CameraLimits
  /\ open \subseteq Captures /\ leftBehind \subseteq Captures
  /\ capture \in Captures \cup {None} /\ opened \in Captures \cup {None}
  /\ state \in {"stopped", "running"}
  /\ asked \in BOOLEAN /\ rights \in Rights
  /\ adaptive \in BOOLEAN
  /\ fps \in 1 .. MaximumFps
  /\ adaptive => fps >= MinimumFps
  /\ seen \in 0 .. Window - 1 /\ good \in 0 .. seen /\ streak \in 0 .. Window
  /\ pc \in {"rest", "opening", "configuring"} \cup Scanning
  /\ captured \in 0 .. FrameLimit /\ failures \in 0 .. ReadFailures - 1
  /\ age \in 0 .. MaxTime /\ authAge \in Nat /\ gap \in 0 .. MaxGap
  /\ waited \in Nat /\ lapsed \in Nat

Init ==
  /\ target \in CameraLimits
  /\ open = {} /\ capture = None /\ opened = None /\ state = "stopped"
  /\ leftBehind = {}
  /\ asked = FALSE
  /\ adaptive = FALSE /\ fps = target /\ seen = 0 /\ good = 0 /\ streak = 0
  /\ pc = "rest"
  /\ captured = 0 /\ failures = 0
  /\ age = 0 /\ authAge = 0 /\ gap = 0 /\ waited = 0 /\ lapsed = 0
  /\ rights \in Rights

-----------------------------------------------------------------------------
(***************************************************************************)
(* start and stop                                                          *)
(***************************************************************************)
Required(a) == IF a THEN {Live, Adaptive} ELSE {Live}

\* The counts and times of a start or a scan that is over.
Forgotten ==
  /\ captured' = 0 /\ failures' = 0
  /\ age' = 0 /\ authAge' = 0 /\ gap' = 0 /\ waited' = 0 /\ lapsed' = 0

\* start up to capture_factory: a running scanner and a licence without the
\* features are refused and nothing changes.
Start(a) ==
  /\ pc = "rest"
  /\ state # "running"
  /\ Required(a) \subseteq rights
  /\ asked' = a
  /\ pc' = "opening"
  /\ UNCHANGED <<target, cameraVars, controlVars, loopVars, rights>>

\* capture_factory and isOpened for some camera index, whatever _capture names;
\* either may fail, what was opened is then released.
OpenCapture ==
  /\ pc = "opening"
  /\ \/ /\ \E c \in Captures \ open : open' = open \cup {c} /\ opened' = c
        /\ pc' = "configuring"
        /\ UNCHANGED loopVars
     \/ /\ pc' = "rest"
        /\ Forgotten
        /\ UNCHANGED <<open, opened>>
  /\ UNCHANGED <<target, capture, state, leftBehind, asked, controlVars, rights>>

\* AdaptiveCaptureController.__init__.
ControllerFits == MinimumFps <= target

NewController ==
  /\ adaptive' = asked
  /\ fps' = target /\ seen' = 0 /\ good' = 0 /\ streak' = 0

\* The assignments at the end of start.  The controller refuses a low target after
\* _capture has been assigned; what _capture named before is not released.
StartFails ==
  /\ asked /\ ~ControllerFits
  /\ capture' = opened
  /\ leftBehind' = leftBehind \cup {opened}
  /\ Forgotten
  /\ UNCHANGED <<open, state, controlVars>>

StartSucceeds ==
  /\ ~(asked /\ ~ControllerFits)
  /\ capture' = opened
  /\ state' = "running"
  /\ NewController
  /\ UNCHANGED <<open, leftBehind, loopVars>>

\* Mutant: the error path forgets the release.
ConfigureCaptureLeaks ==
  /\ pc = "configuring"
  /\ pc' = "rest" /\ opened' = None
  /\ \/ Forgotten /\ UNCHANGED <<open, capture, state, leftBehind, controlVars>>
     \/ StartFails \/ StartSucceeds
  /\ UNCHANGED <<target, asked, rights>>

\* capture.set, with a release when it fails; then the assignments.
ConfigureCapture ==
  /\ pc = "configuring"
  /\ pc' = "rest" /\ opened' = None
  /\ \/ open' = open \ {opened} /\ Forgotten
        /\ UNCHANGED <<capture, state, leftBehind, controlVars>>
     \/ StartFails \/ StartSucceeds
  /\ UNCHANGED <<target, asked, rights>>

\* stop: releases what _capture names, if anything.
Released ==
  /\ open' = open \ {capture}
  /\ leftBehind' = leftBehind \ {capture}
  /\ capture' = None
  /\ state' = "stopped"
  /\ UNCHANGED opened

Stop ==
  /\ pc = "rest"
  /\ Released
  /\ Forgotten
  /\ UNCHANGED <<target, asked, controlVars, pc, rights>>

\* The destructor of a cv2.VideoCapture that nothing names any more.
Collected(c) ==
  /\ c \in open \ {capture, opened}
  /\ open' = open \ {c}
  /\ leftBehind' = leftBehind \ {c}
  /\ UNCHANGED <<target, capture, opened, state, asked, controlVars, pc, loopVars, rights>>

-----------------------------------------------------------------------------
(***************************************************************************)
(* scan                                                                    *)
(***************************************************************************)
BeginScan ==
  /\ pc = "rest"
  /\ state = "running" /\ capture # None
  /\ pc' = "top"
  /\ UNCHANGED <<target, cameraVars, asked, controlVars, loopVars, rights>>

\* Mutant: the scan ends without stop.
EndScanKeeps ==
  /\ pc' = "rest" /\ state' = "stopped" /\ Forgotten
  /\ UNCHANGED <<open, capture, opened, leftBehind>>

\* The finally clause, for a result and for any exception.
EndScan == pc' = "rest" /\ Released /\ Forgotten

LimitReached == captured >= FrameLimit \/ age >= DurationLimit
Authorized == Required(adaptive) \subseteq rights

\* Mutant: the periodic check asks for camera.live only.
LoopTopLive ==
  /\ pc = "top"
  /\ IF LimitReached \/ (authAge >= Recheck /\ ~({Live} \subseteq rights))
     THEN EndScan
     ELSE /\ pc' = "read" /\ waited' = 0
          /\ authAge' = IF authAge >= Recheck THEN 0 ELSE authAge
          /\ gap' = IF authAge >= Recheck THEN 0 ELSE gap
          /\ UNCHANGED <<cameraVars, countVars, age, lapsed>>
  /\ UNCHANGED <<target, asked, controlVars, rights>>

\* The loop condition and the periodic authorization.  The wait for the next
\* frame is time that passes at "read".
LoopTop ==
  /\ pc = "top"
  /\ IF LimitReached \/ (authAge >= Recheck /\ ~Authorized)
     THEN EndScan
     ELSE /\ pc' = "read" /\ waited' = 0
          /\ authAge' = IF authAge >= Recheck THEN 0 ELSE authAge
          /\ gap' = IF authAge >= Recheck THEN 0 ELSE gap
          /\ UNCHANGED <<cameraVars, countVars, age, lapsed>>
  /\ UNCHANGED <<target, asked, controlVars, rights>>

\* Mutant: every failed read begins a new count.
ReadFrameForgiving ==
  /\ pc = "read"
  /\ \/ /\ capture # None
        /\ \/ captured' = captured + 1 /\ failures' = 0 /\ pc' = "frame"
           \/ pc' = "top" /\ UNCHANGED countVars
        /\ UNCHANGED <<cameraVars, timeVars>>
     \/ EndScan
  /\ UNCHANGED <<target, asked, controlVars, rights>>

\* _capture.read: a frame, none (too often in a row: an error), or an exception,
\* as when the callback has stopped the scanner and _capture is None.
ReadFrame ==
  /\ pc = "read"
  /\ \/ /\ capture # None
        /\ \/ captured' = captured + 1 /\ failures' = 0 /\ pc' = "frame"
           \/ failures + 1 < ReadFailures /\ failures' = failures + 1 /\ pc' = "top"
              /\ UNCHANGED captured
        /\ UNCHANGED <<cameraVars, timeVars>>
     \/ EndScan
  /\ UNCHANGED <<target, asked, controlVars, rights>>

Lesser(m, n) == IF m < n THEN m ELSE n
Greater(m, n) == IF m > n THEN m ELSE n

\* The rate after a window with n accepted frames: below 70 per cent two less,
\* above 95 per cent one more.
Adapted(n) ==
  IF 100 * n < 70 * Window THEN Greater(MinimumFps, fps - 2)
  ELSE IF 100 * n > 95 * Window THEN Lesser(MaximumFps, fps + 1)
  ELSE fps

\* Mutants: the window is not cleared; the lower bound is forgotten.
ObserveHalf(ok) ==
  /\ streak' = IF ok THEN Lesser(Window, streak + 1) ELSE 0
  /\ UNCHANGED adaptive
  /\ LET n == good + (IF ok THEN 1 ELSE 0) IN
     IF ~adaptive THEN UNCHANGED <<fps, seen, good>>
     ELSE IF seen + 1 < Window THEN seen' = seen + 1 /\ good' = n /\ UNCHANGED fps
     ELSE seen' = 0 /\ good' = 0
          /\ fps' = IF 2 * n >= Window THEN Lesser(MaximumFps, fps + 1) ELSE fps
ObserveUnbounded(ok) ==
  /\ streak' = IF ok THEN Lesser(Window, streak + 1) ELSE 0
  /\ UNCHANGED adaptive
  /\ LET n == good + (IF ok THEN 1 ELSE 0) IN
     IF ~adaptive THEN UNCHANGED <<fps, seen, good>>
     ELSE IF seen + 1 < Window THEN seen' = seen + 1 /\ good' = n /\ UNCHANGED fps
     ELSE /\ seen' = 0 /\ good' = 0
          /\ fps' = IF 100 * n < 70 * Window THEN fps - 2 ELSE fps

\* observe: the window is cleared when it is full.
Observe(ok) ==
  /\ streak' = IF ok THEN Lesser(Window, streak + 1) ELSE 0
  /\ UNCHANGED adaptive
  /\ LET n == good + (IF ok THEN 1 ELSE 0) IN
     IF ~adaptive THEN UNCHANGED <<fps, seen, good>>
     ELSE IF seen + 1 < Window THEN seen' = seen + 1 /\ good' = n /\ UNCHANGED fps
     ELSE seen' = 0 /\ good' = 0 /\ fps' = Adapted(n)

\* _validate_camera_frame and process_image accept or reject the frame; then the
\* callback returns, stops the scanner or raises.  An accepted frame may
\* complete the object.
ProcessFrame ==
  /\ pc = "frame"
  /\ \/ \E ok \in BOOLEAN :
          /\ pc' \in IF ok THEN {"top", "rebuild"} ELSE {"top"}
          /\ Released \/ UNCHANGED cameraVars
          /\ Observe(ok)
          /\ UNCHANGED loopVars
     \/ EndScan /\ UNCHANGED controlVars
  /\ UNCHANGED <<target, asked, rights>>

\* receiver.reconstruct returns the container or raises.
Reconstruct ==
  /\ pc = "rebuild"
  /\ EndScan
  /\ UNCHANGED <<target, asked, controlVars, rights>>

\* Ctrl+C while scan runs: the finally clause, and scanner.stop once more.
Interrupt ==
  /\ pc \in Scanning
  /\ EndScan
  /\ UNCHANGED <<target, asked, controlVars, rights>>

-----------------------------------------------------------------------------
\* A start, a started scanner or a scan relies on an authorization.
Relying == pc # "rest" \/ state = "running"

\* The stored licence ends, is refreshed or loses a feature.
LicenceChange ==
  /\ rights' \in Rights
  /\ lapsed' = IF Required(asked) \subseteq rights' THEN 0 ELSE lapsed
  /\ UNCHANGED <<target, cameraVars, asked, controlVars, pc, countVars, age, authAge, gap, waited>>

Tick ==
  /\ \/ /\ pc \in Scanning
        /\ age < MaxTime
        /\ age' = age + 1 /\ authAge' = authAge + 1
        /\ waited' = IF pc = "read" THEN waited + 1 ELSE waited
        /\ UNCHANGED gap
     \/ /\ pc \notin Scanning /\ Relying
        /\ gap < MaxGap
        /\ gap' = gap + 1
        /\ UNCHANGED <<age, authAge, waited>>
  /\ lapsed' = IF Required(asked) \subseteq rights THEN 0 ELSE lapsed + 1
  /\ UNCHANGED <<target, cameraVars, asked, controlVars, pc, countVars, rights>>

ScanStep == LoopTop \/ ReadFrame \/ ProcessFrame \/ Reconstruct

Next ==
  \/ \E a \in BOOLEAN : Start(a)
  \/ OpenCapture \/ ConfigureCapture \/ Stop \/ BeginScan
  \/ \E c \in Captures : Collected(c)
  \/ ScanStep \/ Interrupt
  \/ LicenceChange \/ Tick

Spec == Init /\ [][Next]_vars

\* The calls of the camera and of the receiver return.
FairSpec == Spec /\ WF_vars(ScanStep)

-----------------------------------------------------------------------------
\* Whatever fails, a camera that is open can still be closed: stop finds it in
\* _capture, or the start that opened it is not over (camera.py:168-200, 203-210).
\* The one exception is a camera that an adaptive start below the controller's
\* minimum has left in _capture (camera.py:193), once a later start has overwritten
\* it there (camera.py:189).
CameraIsReachable == open \ {capture, opened} \subseteq leftBehind

\* client/README.md:62: released on stop, completion, error or Ctrl+C.  Between
\* two calls a stopped scanner holds no camera but those that a refused adaptive
\* start has left behind (camera.py:193).
StoppedHoldsNothing == pc = "rest" /\ state = "stopped" => open \subseteq leftBehind

\* When a frame is read, the licence had every feature the scanner was started for
\* less than 30 seconds ago, the time that the read itself has taken since the loop
\* decided upon it and, until the first periodic check, the time between the
\* authorization of start and the scan not counted (camera.py:166, 236-259).
RecheckBoundsExposure ==
  [][pc = "read" /\ pc' = "frame" => lapsed < Recheck + gap + waited]_vars

\* The controller is conservative: the rate rises only after a whole window of
\* frames that were all accepted (camera.py:114-124).
RateRisesAfterStreak ==
  [][pc = "frame" /\ fps' > fps => streak' = Window]_vars

\* A scan ends with the camera released even if the clock does not move: by the
\* count of its frames or of its failures (camera.py:242, 263-265, 292-293).
ScanEnds == pc \in Scanning ~> pc = "rest" /\ capture = None /\ open \subseteq leftBehind

\* The inductive invariant behind the theorems of CameraScannerProofs.
CameraInv ==
  /\ CameraIsReachable
  /\ leftBehind \subseteq open
  /\ capture \in open \cup {None}
  /\ opened # None <=> pc = "configuring"
  /\ opened \in (open \ leftBehind) \cup {None}
  /\ state = "running" => capture # None /\ adaptive = asked
  /\ state = "stopped" /\ capture # None => capture \in leftBehind
  /\ pc \in {"opening", "configuring"} => state = "stopped"
  /\ pc \in Scanning => adaptive = asked

LoopInv ==
  /\ pc = "read" => captured < FrameLimit /\ lapsed < Recheck + gap + waited
  /\ lapsed <= authAge + gap
  /\ Required(asked) \subseteq rights => lapsed = 0
  /\ pc \notin Scanning => captured = 0 /\ failures = 0 /\ age = 0 /\ authAge = 0 /\ waited = 0
  /\ ~Relying => gap = 0

\* A window without a rejected frame is part of the streak.
StreakInv ==
  /\ good = seen => streak >= seen
  /\ ~adaptive => seen = 0

IInv == TypeOK /\ CameraInv /\ LoopInv /\ StreakInv

\* How many rounds of its loop a scan has left at most after c frames and f failures
\* in a row, and how many steps at its place in the round.
RoundsLeft(c, f) == (FrameLimit - c) * ReadFailures + ReadFailures - 1 - f
Place(at) == CASE at = "read" -> 1 [] at = "top" -> 2 [] at = "rebuild" -> 3 [] OTHER -> 4

StepsLeft == IF pc \in Scanning THEN 4 * RoundsLeft(captured, failures) + Place(pc) ELSE 0

\* Every step of the loop leaves fewer of them, and nothing gives a scan more.
ScanRunsOut ==
  [][/\ ScanStep => StepsLeft' < StepsLeft
     /\ pc \in Scanning => StepsLeft' <= StepsLeft]_vars

=============================================================================
