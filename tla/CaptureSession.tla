--------------------------- MODULE CaptureSession ---------------------------
(***************************************************************************)
(* The browser capture path: the page (static/app.js), which owns the      *)
(* camera streams, and the loopback server (web.py), which owns the        *)
(* capture session and guards it with one asyncio lock.                    *)
(*                                                                         *)
(* A task is one activation of an asynchronous function of the page:       *)
(* bootstrap, startCamera, stopCamera or captureLoop.  It is suspended at  *)
(* an await or a timer, at most one request of it is under way, and the    *)
(* requests of different tasks travel on connections of their own and      *)
(* overtake one another.  When the page is loaded again its tasks are      *)
(* gone, but what they have sent may still be served.                      *)
(***************************************************************************)
EXTENDS Integers, FiniteSets

CONSTANTS
  Tasks,         \* slots for the page's tasks
  Cameras,       \* identities of the streams getUserMedia may return
  MaxFrames,     \* limits.maximum_frames
  MaxSessions,   \* bound on the sessions that are started
  None

ASSUME NumbersAssumption == MaxFrames \in Nat /\ MaxSessions \in Nat
ASSUME NoneAssumption == None \notin Tasks

VARIABLES
  licensed,   \* the stored token authorizes camera.live
  receiver,   \* which session the server's receiver belongs to
  scanning,   \* session.scanning
  recovered,  \* session.recovered: None or the session it was rebuilt from
  captured,   \* session.captured_frames
  lock,       \* the task whose request holds the asyncio lock
  running,    \* the page's flag
  stream,     \* the page's handle on a camera stream
  cameras,    \* streams whose tracks have not been stopped
  startOn,    \* the Start button is enabled
  stopOn,     \* the Stop button is enabled
  task        \* what each task is doing

server == <<receiver, scanning, recovered, captured, lock>>
page == <<running, stream, cameras, startOn, stopOn>>
vars == <<licensed, receiver, scanning, recovered, captured, lock,
          running, stream, cameras, startOn, stopOn, task>>

\* gone: the page that sent the task's request is not there any more.
Idle == [kind |-> "none", pc |-> "idle", session |-> 0, answer |-> "none", gone |-> FALSE]
Doing(kind, pc) == [Idle EXCEPT !.kind = kind, !.pc = pc]

\* Answers by what the page does with them: "session" is an error whose text
\* holds "capture session", "other" any other error.
Answers == {"none", "ok", "completed", "session", "other"}

TypeOK ==
  /\ licensed \in BOOLEAN
  /\ receiver \in Nat
  /\ scanning \in BOOLEAN
  /\ recovered \in Nat \cup {None}
  /\ captured \in 0 .. MaxFrames
  /\ lock \in Tasks \cup {None}
  /\ running \in BOOLEAN /\ startOn \in BOOLEAN /\ stopOn \in BOOLEAN
  /\ stream \in Cameras \cup {None}
  /\ cameras \subseteq Cameras
  /\ task \in [Tasks ->
       [kind : {"none", "bootstrap", "start", "stop", "loop"},
        pc : {"idle", "permission", "playing", "blob", "sent", "queued", "reading",
              "processing", "reconstructing", "answered", "timer"},
        session : Nat,
        answer : Answers,
        gone : BOOLEAN]]

Init ==
  /\ licensed = TRUE
  /\ receiver = 0 /\ scanning = FALSE /\ recovered = None /\ captured = 0
  /\ lock = None
  /\ running = FALSE /\ stream = None /\ cameras = {}
  /\ startOn = FALSE /\ stopOn = FALSE
  /\ task = [t \in Tasks |-> Idle]

At(t, kind, pc) == task[t].kind = kind /\ task[t].pc = pc
Answered(t, kind) == At(t, kind, "answered") /\ ~task[t].gone
Goto(t, pc) == task' = [task EXCEPT ![t].pc = pc]
Answer(t, a) ==
  task' = [task EXCEPT ![t].pc = "answered", ![t].answer = a, ![t].session = 0]
End(t) == task' = [task EXCEPT ![t] = Idle]

-----------------------------------------------------------------------------
(***************************************************************************)
(* The page                                                                *)
(***************************************************************************)
Working == {"reading", "processing", "reconstructing"}
UnderWay == {"sent", "queued"} \cup Working

\* The page is opened, or opened again: the browser ends the tasks and the streams
\* of the one before, and bootstrap begins.
LoadPage(t) ==
  /\ task[t].pc \notin UnderWay
  /\ running' = FALSE /\ stream' = None /\ cameras' = {}
  /\ startOn' = FALSE /\ stopOn' = FALSE
  /\ task' = [u \in Tasks |->
       IF u = t THEN Doing("bootstrap", "sent")
       ELSE IF task[u].pc \in UnderWay THEN [task[u] EXCEPT !.gone = TRUE]
       ELSE Idle]
  /\ UNCHANGED <<licensed, server>>

\* A request of the page before: it does not arrive, or nobody reads the answer.
Lost(t) ==
  /\ task[t].gone
  /\ task[t].pc \in {"sent", "answered"}
  /\ End(t)
  /\ UNCHANGED <<licensed, server, page>>

\* Without a licence the page is blocked until it is loaded again.
BootstrapAnswered(t) ==
  /\ Answered(t, "bootstrap")
  /\ startOn' = (task[t].answer = "ok")
  /\ End(t)
  /\ UNCHANGED <<licensed, server, running, stream, cameras, stopOn>>

\* releaseCamera.
ReleaseCamera ==
  /\ cameras' = cameras \ {stream}
  /\ stream' = None
  /\ startOn' = TRUE
  /\ stopOn' = FALSE

\* Bound: the sessions, with those that are being started.
ClickStart(t) ==
  /\ startOn
  /\ task[t].pc = "idle"
  /\ receiver + Cardinality({u \in Tasks : task[u].kind = "start"}) < MaxSessions
  /\ startOn' = FALSE
  /\ task' = [task EXCEPT ![t] = Doing("start", "permission")]
  /\ UNCHANGED <<licensed, server, running, stream, cameras, stopOn>>

\* getUserMedia is granted or rejected.
GetUserMedia(t) ==
  /\ At(t, "start", "permission")
  /\ \/ \E c \in Cameras \ cameras :
          /\ stream' = c
          /\ cameras' = cameras \cup {c}
          /\ Goto(t, "playing")
          /\ UNCHANGED <<startOn, stopOn>>
     \/ ReleaseCamera /\ End(t)
  /\ UNCHANGED <<licensed, server, running>>

\* video.play; when it is rejected, whatever stream the page has then is released.
Play(t) ==
  /\ At(t, "start", "playing")
  /\ \/ Goto(t, "sent") /\ UNCHANGED page
     \/ ReleaseCamera /\ End(t) /\ UNCHANGED running
  /\ UNCHANGED <<licensed, server>>

\* The rest of startCamera; captureLoop runs up to its first await.
StartAnswered(t) ==
  /\ Answered(t, "start")
  /\ \/ /\ task[t].answer = "ok"
        /\ running' = TRUE
        /\ stopOn' = TRUE
        /\ task' = [task EXCEPT ![t] = Doing("loop", "blob")]
        /\ UNCHANGED <<stream, cameras, startOn>>
     \/ /\ task[t].answer # "ok"
        /\ ReleaseCamera
        /\ End(t)
        /\ UNCHANGED running
  /\ UNCHANGED <<licensed, server>>

ClickStop(t) ==
  /\ stopOn
  /\ task[t].pc = "idle"
  /\ running' = FALSE
  /\ ReleaseCamera
  /\ task' = [task EXCEPT ![t] = Doing("stop", "sent")]
  /\ UNCHANGED <<licensed, server>>

\* renderStatus.
RenderStatus(t) ==
  IF task[t].answer = "completed"
  THEN running' = FALSE /\ ReleaseCamera
  ELSE UNCHANGED page

StopAnswered(t) ==
  /\ Answered(t, "stop")
  /\ RenderStatus(t)
  /\ End(t)
  /\ UNCHANGED <<licensed, server>>

\* jpegBlob: between the test of running and the request there is an await.
JpegBlob(t) ==
  /\ At(t, "loop", "blob")
  /\ Goto(t, "sent")
  /\ UNCHANGED <<licensed, server, page>>

\* The end of captureLoop: the next frame is due after a timer, unless the page has
\* been stopped.
LoopAgain(t) == task' = [task EXCEPT ![t] = IF running' THEN Doing("loop", "timer") ELSE Idle]

\* toBlob gives no blob: no request is sent and the loop goes on.
JpegFails(t) ==
  /\ At(t, "loop", "blob")
  /\ UNCHANGED <<licensed, server, page>>
  /\ LoopAgain(t)

FrameAnswered(t) ==
  /\ Answered(t, "loop")
  /\ IF task[t].answer = "session"
     THEN running' = FALSE /\ ReleaseCamera
     ELSE RenderStatus(t)
  /\ LoopAgain(t)
  /\ UNCHANGED <<licensed, server>>

Timer(t) ==
  /\ At(t, "loop", "timer")
  /\ IF running THEN Goto(t, "blob") ELSE End(t)
  /\ UNCHANGED <<licensed, server, page>>

-----------------------------------------------------------------------------
(***************************************************************************)
(* The server                                                              *)
(***************************************************************************)
\* bootstrap authorizes and does not wait for the lock.
ServeBootstrap(t) ==
  /\ At(t, "bootstrap", "sent")
  /\ Answer(t, IF licensed THEN "ok" ELSE "other")
  /\ UNCHANGED <<licensed, server, page>>

\* Any other request arrives and is authorized, before it waits for the lock.
Authorize(t) ==
  /\ task[t].pc = "sent" /\ task[t].kind # "bootstrap"
  /\ IF licensed THEN Goto(t, "queued") ELSE Answer(t, "other")
  /\ UNCHANGED <<licensed, server, page>>

\* Mutant: start does not take the lock.
ServeStartUnlocked(t) ==
  /\ At(t, "start", "queued")
  /\ receiver' = receiver + 1
  /\ scanning' = TRUE
  /\ recovered' = None
  /\ captured' = 0
  /\ Answer(t, "ok")
  /\ UNCHANGED <<licensed, lock, page>>

ServeStart(t) ==
  /\ At(t, "start", "queued")
  /\ lock = None
  /\ receiver' = receiver + 1
  /\ scanning' = TRUE
  /\ recovered' = None
  /\ captured' = 0
  /\ Answer(t, "ok")
  /\ UNCHANGED <<licensed, lock, page>>

ServeStop(t) ==
  /\ At(t, "stop", "queued")
  /\ lock = None
  /\ scanning' = FALSE
  /\ Answer(t, IF recovered # None THEN "completed" ELSE "ok")
  /\ UNCHANGED <<licensed, receiver, recovered, captured, lock, page>>

\* A frame is worked on, for the session that is current at that moment.
Work(t, pc) == task' = [task EXCEPT ![t].pc = pc, ![t].session = receiver]

\* Mutants: a limit is answered in words the page does not know; the frame
\* counter is compared too late.
RefuseFrameQuietly(t) ==
  /\ At(t, "loop", "queued")
  /\ lock = None
  /\ scanning' = FALSE
  /\ Answer(t, IF scanning THEN "session" ELSE "other")
  /\ UNCHANGED <<licensed, receiver, recovered, captured, lock, page>>
TakeFrameUncounted(t) ==
  /\ At(t, "loop", "queued")
  /\ lock = None
  /\ scanning
  /\ lock' = t
  /\ captured' = captured + 1
  /\ Work(t, "reading")
  /\ UNCHANGED <<licensed, receiver, scanning, recovered, page>>

\* No session, or its duration or frame limit is reached: the session is over.
RefuseFrame(t) ==
  /\ At(t, "loop", "queued")
  /\ lock = None
  /\ scanning' = FALSE
  /\ Answer(t, "session")
  /\ UNCHANGED <<licensed, receiver, recovered, captured, lock, page>>

\* 429: the frame came too soon after the one before.
DelayFrame(t) ==
  /\ At(t, "loop", "queued")
  /\ lock = None
  /\ scanning
  /\ captured \in 1 .. MaxFrames - 1
  /\ Answer(t, "other")
  /\ UNCHANGED <<licensed, server, page>>

\* The frame is counted and the body is awaited, under the lock.
TakeFrame(t) ==
  /\ At(t, "loop", "queued")
  /\ lock = None
  /\ scanning
  /\ captured < MaxFrames
  /\ lock' = t
  /\ captured' = captured + 1
  /\ Work(t, "reading")
  /\ UNCHANGED <<licensed, receiver, scanning, recovered, page>>

\* The body is read and decoded, in a thread, or rejected with 413 or 422; then
\* session.receiver gets the image.
ReadFrame(t) ==
  /\ At(t, "loop", "reading")
  /\ \/ Work(t, "processing") /\ UNCHANGED lock
     \/ Answer(t, "other") /\ lock' = None
  /\ UNCHANGED <<licensed, receiver, scanning, recovered, captured, page>>

\* receiver.process_image, in a thread: the frame is useless, helps, or completes
\* the object, which session.receiver, read again, is to rebuild.
ProcessFrame(t) ==
  /\ At(t, "loop", "processing")
  /\ \/ Work(t, "reconstructing") /\ UNCHANGED lock
     \/ Answer(t, "ok") /\ lock' = None
  /\ UNCHANGED <<licensed, receiver, scanning, recovered, captured, page>>

\* receiver.reconstruct, in a thread, of the receiver that was read before the await.
\* An exception is answered with 500; the session goes on.
Reconstruct(t) ==
  /\ At(t, "loop", "reconstructing")
  /\ lock' = None
  /\ \/ /\ recovered' = task[t].session
        /\ scanning' = FALSE
        /\ Answer(t, "completed")
     \/ Answer(t, "other") /\ UNCHANGED <<recovered, scanning>>
  /\ UNCHANGED <<licensed, receiver, captured, page>>

\* The stored token ends, or refresh replaces it.
LicenceChange ==
  /\ licensed' = ~licensed
  /\ UNCHANGED <<server, page, task>>

Acquire(t) == ServeStart(t) \/ ServeStop(t) \/ RefuseFrame(t) \/ DelayFrame(t) \/ TakeFrame(t)

\* Everything but the answer of the user to the permission prompt goes on.
Proceed(t) ==
  \/ BootstrapAnswered(t) \/ Play(t) \/ StartAnswered(t) \/ StopAnswered(t)
  \/ JpegBlob(t) \/ JpegFails(t) \/ FrameAnswered(t) \/ Timer(t) \/ Lost(t)
  \/ ServeBootstrap(t) \/ Authorize(t) \/ ReadFrame(t) \/ ProcessFrame(t) \/ Reconstruct(t)

Next ==
  \/ \E t \in Tasks : \/ LoadPage(t) \/ ClickStart(t) \/ ClickStop(t) \/ GetUserMedia(t)
                      \/ Acquire(t) \/ Proceed(t)
  \/ LicenceChange

Spec == Init /\ [][Next]_vars

\* The event loops of page and server run what is ready.  Who waits for the lock gets
\* it (asyncio.Lock serves its waiters in turn) and a page that goes on asking for a
\* JPEG gets one: both only now and then possible, hence SF.
FairSpec ==
  Spec /\ \A t \in Tasks : WF_vars(Proceed(t)) /\ SF_vars(Acquire(t) \/ JpegBlob(t))

-----------------------------------------------------------------------------
\* A frame that has taken the lock is counted, processed and rebuilt in one session,
\* the one that is shown, and that session is not over before the frame is, although
\* start and stop arrive while its body is read; so what was rebuilt belongs to the
\* session that is shown, which is over (web.py:165-189, 217-253).  That session is
\* the current one when the frame takes the lock: a frame that was sent earlier, and
\* is overtaken by a new start, counts for the new session.
ResultIsOfItsSession ==
  /\ recovered # None => recovered = receiver /\ ~scanning
  /\ lock # None => task[lock].session = receiver /\ scanning

\* The inductive invariant behind the theorems of CaptureSessionProofs: a task
\* works on a frame exactly while it holds the lock.
IInv ==
  /\ TypeOK
  /\ \A t \in Tasks : task[t].pc \in Working =>
       /\ task[t].kind = "loop"
       /\ lock = t
       /\ task[t].session = receiver
       /\ scanning
  /\ lock # None => task[lock].pc \in Working
  /\ recovered # None => recovered = receiver /\ ~scanning

\* When the server has ended a session (limits, another answer, completion), the
\* page stops too: it finds out by the words of an error (web.py:198-209 against
\* app.js:141-144).  An ended licence is not such an error.
PageFollowsSession ==
  running /\ ~scanning ~> ~running \/ scanning \/ ~licensed

\* docs/ARCHITECTURE.md:74: stopping capture releases every media track and
\* camera handle.  Nothing runs and nothing is being started: no stream is live.
StoppedReleasesAll ==
  ~running /\ (\A t \in Tasks : task[t].kind # "start") => cameras = {}

\* Start is only clicked when the frames and the stop of the run before have been
\* answered, or belong to a page that is not there any more.
NoLateAnswer ==
  [][\A t \in Tasks : ClickStart(t) =>
       \A u \in Tasks : task[u].kind \in {"loop", "stop"} =>
         task[u].gone \/ task[u].pc = "timer"]_vars

\* The inductive invariant under NoLateAnswer: the page holds at most the stream it
\* has a handle on, and while it starts, nothing but its start is under way.
Live(t, kind) == task[t].kind = kind /\ ~task[t].gone

HandleInv ==
  /\ cameras \subseteq {stream}
  /\ ~running /\ (\A t \in Tasks : ~Live(t, "start")) => cameras = {}
  /\ \A t \in Tasks : task[t].pc = "permission" => cameras = {}

ButtonsInv ==
  /\ stopOn <=> running
  /\ startOn => ~running /\ \A t \in Tasks : ~Live(t, "start") /\ ~Live(t, "bootstrap")

AloneInv ==
  \A t \in Tasks :
    /\ task[t].pc = "idle" <=> task[t].kind = "none"
    /\ task[t].pc \in {"permission", "playing", "blob", "timer"} => ~task[t].gone
    /\ Live(t, "start") =>
         /\ ~running /\ ~startOn
         /\ \A u \in Tasks \ {t} : task[u].gone \/ task[u].pc \in {"idle", "timer"}
    /\ Live(t, "bootstrap") =>
         /\ ~running /\ ~startOn
         /\ \A u \in Tasks \ {t} : task[u].gone \/ task[u].pc = "idle"

PageInv == HandleInv /\ ButtonsInv /\ AloneInv

=============================================================================
