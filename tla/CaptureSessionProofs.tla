------------------------ MODULE CaptureSessionProofs ------------------------
(***************************************************************************)
(* For any number of tasks, streams and frames: what the server has        *)
(* rebuilt belongs to the session it shows.                                *)
(***************************************************************************)
EXTENDS CaptureSession, TLAPS

Task == [kind : {"none", "bootstrap", "start", "stop", "loop"},
         pc : {"idle", "permission", "playing", "blob", "sent", "queued", "reading",
               "processing", "reconstructing", "answered", "timer"},
         session : Nat,
         answer : Answers,
         gone : BOOLEAN]

\* The type of the page's variables, and of the rest of the state.
PageOK ==
  /\ running \in BOOLEAN /\ startOn \in BOOLEAN /\ stopOn \in BOOLEAN
  /\ stream \in Cameras \cup {None}
  /\ cameras \subseteq Cameras

ServerOK ==
  /\ licensed \in BOOLEAN
  /\ receiver \in Nat
  /\ scanning \in BOOLEAN
  /\ recovered \in Nat \cup {None}
  /\ captured \in 0 .. MaxFrames
  /\ lock \in Tasks \cup {None}

TaskOK == task \in [Tasks -> Task]

LEMMA TypeParts == TypeOK <=> PageOK /\ ServerOK /\ TaskOK
BY DEF TypeOK, PageOK, ServerOK, TaskOK, Task

\* A step of one task, seen from the tasks: only t moves.
LEMMA GotoTask ==
  ASSUME TaskOK, NEW t \in Tasks, NEW pc,
         pc \in {"playing", "sent", "queued", "blob"}, Goto(t, pc)
  PROVE  /\ TaskOK'
         /\ task'[t].pc = pc /\ task'[t].kind = task[t].kind
         /\ \A u \in Tasks \ {t} : task'[u] = task[u]
BY DEF TaskOK, Task, Goto

LEMMA WorkTask ==
  ASSUME TaskOK, receiver \in Nat, NEW t \in Tasks, NEW pc \in Working, Work(t, pc)
  PROVE  /\ TaskOK'
         /\ task'[t].pc = pc /\ task'[t].kind = task[t].kind /\ task'[t].gone = task[t].gone
         /\ task'[t].session = receiver
         /\ \A u \in Tasks \ {t} : task'[u] = task[u]
<1>1. task' = [u \in Tasks |-> IF u = t THEN [task[t] EXCEPT !.pc = pc, !.session = receiver]
                               ELSE task[u]]
  BY DEF TaskOK, Work
<1>2. [task[t] EXCEPT !.pc = pc, !.session = receiver] \in Task
  BY DEF TaskOK, Task, Working
<1> QED
  BY <1>1, <1>2 DEF TaskOK, Task

LEMMA AnswerTask ==
  ASSUME TaskOK, NEW t \in Tasks, NEW a \in Answers, Answer(t, a)
  PROVE  /\ TaskOK'
         /\ task'[t].pc = "answered"
         /\ \A u \in Tasks \ {t} : task'[u] = task[u]
<1>1. task' = [u \in Tasks |->
                 IF u = t THEN [task[t] EXCEPT !.pc = "answered", !.answer = a, !.session = 0]
                 ELSE task[u]]
  BY DEF TaskOK, Answer
<1>2. [task[t] EXCEPT !.pc = "answered", !.answer = a, !.session = 0] \in Task
  BY DEF TaskOK, Task
<1> QED
  BY <1>1, <1>2 DEF TaskOK, Task

LEMMA NewTask ==
  ASSUME TaskOK, NEW t \in Tasks, NEW new \in Task, task' = [task EXCEPT ![t] = new]
  PROVE  /\ TaskOK'
         /\ task'[t] = new
         /\ \A u \in Tasks \ {t} : task'[u] = task[u]
BY DEF TaskOK

LEMMA NewTasks ==
  /\ Idle \in Task /\ Idle.pc = "idle"
  /\ Doing("bootstrap", "sent") \in Task /\ Doing("bootstrap", "sent").pc = "sent"
  /\ Doing("start", "permission") \in Task /\ Doing("start", "permission").pc = "permission"
  /\ Doing("stop", "sent") \in Task /\ Doing("stop", "sent").pc = "sent"
  /\ Doing("loop", "blob") \in Task /\ Doing("loop", "blob").pc = "blob"
  /\ Doing("loop", "timer") \in Task /\ Doing("loop", "timer").pc = "timer"
BY DEF Idle, Doing, Task, Answers

LEMMA ReleaseOK ==
  ASSUME PageOK, ReleaseCamera
  PROVE  /\ cameras' \subseteq Cameras /\ stream' \in Cameras \cup {None}
         /\ startOn' \in BOOLEAN /\ stopOn' \in BOOLEAN
BY DEF PageOK, ReleaseCamera

-----------------------------------------------------------------------------
\* The part of the invariant that is about the lock and the session.
LockInv ==
  /\ \A t \in Tasks : task[t].pc \in Working =>
       /\ task[t].kind = "loop"
       /\ lock = t
       /\ task[t].session = receiver
       /\ scanning
  /\ lock # None => task[lock].pc \in Working
  /\ recovered # None => recovered = receiver /\ ~scanning

LEMMA InvParts == IInv => TypeOK /\ LockInv /\ PageOK /\ ServerOK /\ TaskOK
BY TypeParts DEF IInv, LockInv

LEMMA InvBuild ==
  ASSUME PageOK', ServerOK', TaskOK', LockInv'
  PROVE  IInv'
BY DEF IInv, TypeOK, PageOK, ServerOK, TaskOK, Task, LockInv

\* A step that leaves the server alone and takes a task that holds no lock to a
\* place where it holds none.
LEMMA LockInvKept ==
  ASSUME TypeOK, LockInv, NEW t \in Tasks,
         task[t].pc \notin Working, task'[t].pc \notin Working,
         \A u \in Tasks \ {t} : task'[u] = task[u],
         UNCHANGED server
  PROVE  LockInv'
<1>1. lock \in Tasks \cup {None} /\ lock # t
  BY NoneAssumption DEF TypeOK, LockInv
<1> QED
  BY <1>1 DEF LockInv, server

LEMMA PageStep ==
  ASSUME IInv, NEW t \in Tasks,
         \/ ClickStart(t) \/ GetUserMedia(t) \/ StartAnswered(t) \/ ClickStop(t)
         \/ StopAnswered(t) \/ JpegBlob(t) \/ FrameAnswered(t) \/ Timer(t)
         \/ BootstrapAnswered(t) \/ Lost(t) \/ Play(t) \/ JpegFails(t)
  PROVE  IInv'
<1> USE NewTasks
<1>0. TypeOK /\ LockInv /\ PageOK /\ ServerOK /\ TaskOK
  BY InvParts
<1>1. CASE ClickStart(t)
  <2>1. PageOK' /\ UNCHANGED server /\ UNCHANGED licensed
    BY <1>0, <1>1 DEF ClickStart, PageOK
  <2>2. /\ task[t].pc \notin Working /\ task'[t].pc \notin Working /\ TaskOK'
        /\ \A u \in Tasks \ {t} : task'[u] = task[u]
    BY <1>0, <1>1, NewTask DEF ClickStart, Working
  <2>3. LockInv' /\ ServerOK'
    BY <1>0, <2>1, <2>2, LockInvKept DEF ServerOK, server
  <2> QED
    BY <2>1, <2>2, <2>3, InvBuild
<1>2. CASE GetUserMedia(t)
  <2>1. PageOK' /\ UNCHANGED server /\ UNCHANGED licensed
    BY <1>0, <1>2, ReleaseOK DEF GetUserMedia, PageOK
  <2>2. Goto(t, "playing") \/ End(t)
    BY <1>2 DEF GetUserMedia
  <2>3. /\ task[t].pc \notin Working /\ task'[t].pc \notin Working /\ TaskOK'
        /\ \A u \in Tasks \ {t} : task'[u] = task[u]
    BY <1>0, <1>2, <2>2, NewTask, GotoTask DEF GetUserMedia, At, Working, End
  <2>4. LockInv' /\ ServerOK'
    BY <1>0, <2>1, <2>3, LockInvKept DEF ServerOK, server
  <2> QED
    BY <2>1, <2>3, <2>4, InvBuild
<1>3. CASE StartAnswered(t)
  <2>1. PageOK' /\ UNCHANGED server /\ UNCHANGED licensed
    BY <1>0, <1>3, ReleaseOK DEF StartAnswered, PageOK
  <2>2. task' = [task EXCEPT ![t] = Doing("loop", "blob")] \/ End(t)
    BY <1>3 DEF StartAnswered
  <2>3. /\ task[t].pc \notin Working /\ task'[t].pc \notin Working /\ TaskOK'
        /\ \A u \in Tasks \ {t} : task'[u] = task[u]
    BY <1>0, <1>3, <2>2, NewTask DEF StartAnswered, Answered, At, Working, End
  <2>4. LockInv' /\ ServerOK'
    BY <1>0, <2>1, <2>3, LockInvKept DEF ServerOK, server
  <2> QED
    BY <2>1, <2>3, <2>4, InvBuild
<1>4. CASE ClickStop(t)
  <2>1. PageOK' /\ UNCHANGED server /\ UNCHANGED licensed
    BY <1>0, <1>4, ReleaseOK DEF ClickStop, PageOK
  <2>2. /\ task[t].pc \notin Working /\ task'[t].pc \notin Working /\ TaskOK'
        /\ \A u \in Tasks \ {t} : task'[u] = task[u]
    BY <1>0, <1>4, NewTask DEF ClickStop, Working
  <2>3. LockInv' /\ ServerOK'
    BY <1>0, <2>1, <2>2, LockInvKept DEF ServerOK, server
  <2> QED
    BY <2>1, <2>2, <2>3, InvBuild
<1>5. CASE StopAnswered(t)
  <2>1. PageOK' /\ UNCHANGED server /\ UNCHANGED licensed
    BY <1>0, <1>5, ReleaseOK DEF StopAnswered, RenderStatus, PageOK, page
  <2>2. /\ task[t].pc \notin Working /\ task'[t].pc \notin Working /\ TaskOK'
        /\ \A u \in Tasks \ {t} : task'[u] = task[u]
    BY <1>0, <1>5, NewTask DEF StopAnswered, Answered, At, Working, End
  <2>3. LockInv' /\ ServerOK'
    BY <1>0, <2>1, <2>2, LockInvKept DEF ServerOK, server
  <2> QED
    BY <2>1, <2>2, <2>3, InvBuild
<1>6. CASE JpegBlob(t)
  <2>1. PageOK' /\ UNCHANGED server /\ UNCHANGED licensed
    BY <1>0, <1>6 DEF JpegBlob, PageOK, page
  <2>2. /\ task[t].pc \notin Working /\ task'[t].pc \notin Working /\ TaskOK'
        /\ \A u \in Tasks \ {t} : task'[u] = task[u]
    BY <1>0, <1>6, GotoTask DEF JpegBlob, At, Working
  <2>3. LockInv' /\ ServerOK'
    BY <1>0, <2>1, <2>2, LockInvKept DEF ServerOK, server
  <2> QED
    BY <2>1, <2>2, <2>3, InvBuild
<1>7. CASE FrameAnswered(t)
  <2>1. PageOK' /\ UNCHANGED server /\ UNCHANGED licensed
    BY <1>0, <1>7, ReleaseOK DEF FrameAnswered, RenderStatus, PageOK, page
  <2>2. \E new \in {Doing("loop", "timer"), Idle} : task' = [task EXCEPT ![t] = new]
    BY <1>7 DEF FrameAnswered, LoopAgain
  <2>3. /\ task[t].pc \notin Working /\ task'[t].pc \notin Working /\ TaskOK'
        /\ \A u \in Tasks \ {t} : task'[u] = task[u]
    BY <1>0, <1>7, <2>2, NewTask DEF FrameAnswered, Answered, At, Working
  <2>4. LockInv' /\ ServerOK'
    BY <1>0, <2>1, <2>3, LockInvKept DEF ServerOK, server
  <2> QED
    BY <2>1, <2>3, <2>4, InvBuild
<1>8. CASE Timer(t)
  <2>1. PageOK' /\ UNCHANGED server /\ UNCHANGED licensed
    BY <1>0, <1>8 DEF Timer, PageOK, page
  <2>2. Goto(t, "blob") \/ End(t)
    BY <1>8 DEF Timer
  <2>3. /\ task[t].pc \notin Working /\ task'[t].pc \notin Working /\ TaskOK'
        /\ \A u \in Tasks \ {t} : task'[u] = task[u]
    BY <1>0, <1>8, <2>2, NewTask, GotoTask DEF Timer, At, Working, End
  <2>4. LockInv' /\ ServerOK'
    BY <1>0, <2>1, <2>3, LockInvKept DEF ServerOK, server
  <2> QED
    BY <2>1, <2>3, <2>4, InvBuild
<1>9. CASE BootstrapAnswered(t) \/ Lost(t)
  <2>1. PageOK' /\ UNCHANGED server /\ UNCHANGED licensed
    BY <1>0, <1>9 DEF BootstrapAnswered, Lost, PageOK, page
  <2>2. /\ task[t].pc \notin Working /\ task'[t].pc \notin Working /\ TaskOK'
        /\ \A u \in Tasks \ {t} : task'[u] = task[u]
    BY <1>0, <1>9, NewTask DEF BootstrapAnswered, Lost, Answered, At, Working, End
  <2>3. LockInv' /\ ServerOK'
    BY <1>0, <2>1, <2>2, LockInvKept DEF ServerOK, server
  <2> QED
    BY <2>1, <2>2, <2>3, InvBuild
<1>10. CASE Play(t)
  <2>1. PageOK' /\ UNCHANGED server /\ UNCHANGED licensed
    BY <1>0, <1>10, ReleaseOK DEF Play, PageOK, page
  <2>2. Goto(t, "sent") \/ End(t)
    BY <1>10 DEF Play
  <2>3. /\ task[t].pc \notin Working /\ task'[t].pc \notin Working /\ TaskOK'
        /\ \A u \in Tasks \ {t} : task'[u] = task[u]
    BY <1>0, <1>10, <2>2, NewTask, GotoTask DEF Play, At, Working, End
  <2>4. LockInv' /\ ServerOK'
    BY <1>0, <2>1, <2>3, LockInvKept DEF ServerOK, server
  <2> QED
    BY <2>1, <2>3, <2>4, InvBuild
<1>11. CASE JpegFails(t)
  <2>1. PageOK' /\ UNCHANGED server /\ UNCHANGED licensed
    BY <1>0, <1>11 DEF JpegFails, PageOK, page
  <2>2. \E new \in {Doing("loop", "timer"), Idle} : task' = [task EXCEPT ![t] = new]
    BY <1>11 DEF JpegFails, LoopAgain
  <2>3. /\ task[t].pc \notin Working /\ task'[t].pc \notin Working /\ TaskOK'
        /\ \A u \in Tasks \ {t} : task'[u] = task[u]
    BY <1>0, <1>11, <2>2, NewTask DEF JpegFails, At, Working
  <2>4. LockInv' /\ ServerOK'
    BY <1>0, <2>1, <2>3, LockInvKept DEF ServerOK, server
  <2> QED
    BY <2>1, <2>3, <2>4, InvBuild
<1> QED
  BY <1>1, <1>2, <1>3, <1>4, <1>5, <1>6, <1>7, <1>8, <1>9, <1>10, <1>11

\* A page that is loaded leaves the frame that is being processed where it is.
LEMMA LoadStep ==
  ASSUME IInv, NEW t \in Tasks, LoadPage(t)
  PROVE  IInv'
<1>0. TypeOK /\ LockInv /\ PageOK /\ ServerOK /\ TaskOK
  BY InvParts
<1>1. PageOK' /\ ServerOK' /\ UNCHANGED server
  BY <1>0 DEF LoadPage, PageOK, ServerOK, server
<1>2. ASSUME NEW u \in Tasks
      PROVE  /\ task'[u] \in Task
             /\ task[u].pc \in Working => /\ task'[u].pc = task[u].pc
                                         /\ task'[u].kind = task[u].kind
                                         /\ task'[u].session = task[u].session
             /\ task[u].pc \notin Working => task'[u].pc \notin Working
  <2> DEFINE gone == [task[u] EXCEPT !.gone = TRUE]
  <2>1. task[u] \in Task
    BY <1>0 DEF TaskOK
  <2>2. /\ gone \in Task /\ gone.pc = task[u].pc /\ gone.kind = task[u].kind
        /\ gone.session = task[u].session
    BY <2>1 DEF Task
  <2>3. task'[u] = IF u = t THEN Doing("bootstrap", "sent")
                   ELSE IF task[u].pc \in UnderWay THEN gone ELSE Idle
    BY DEF LoadPage
  <2>4. task[t].pc \notin UnderWay
    BY DEF LoadPage
  <2> QED
    BY <2>2, <2>3, <2>4, NewTasks DEF UnderWay, Working
<1>3. TaskOK'
  <2>1. task' = [u \in Tasks |-> task'[u]]
    BY DEF LoadPage
  <2> QED
    BY <1>2, <2>1 DEF TaskOK
<1>4. LockInv'
  <2>1. lock' = lock /\ receiver' = receiver /\ scanning' = scanning /\ recovered' = recovered
    BY <1>1 DEF server
  <2>2. lock \in Tasks \cup {None}
    BY <1>0 DEF ServerOK
  <2>3. lock # None => task'[lock].pc \in Working
    BY <1>0, <1>2, <2>2 DEF LockInv
  <2> QED
    BY <1>0, <1>2, <2>1, <2>3 DEF LockInv
<1> QED
  BY <1>1, <1>3, <1>4, InvBuild

-----------------------------------------------------------------------------
\* While nobody holds the lock nobody works on a frame, so that a session may
\* begin and end.
LEMMA NobodyWorks ==
  ASSUME IInv, lock = None, NEW u \in Tasks
  PROVE  task[u].pc \notin Working
BY NoneAssumption DEF IInv

LEMMA AcquireStep ==
  ASSUME IInv, NEW t \in Tasks, Acquire(t)
  PROVE  IInv'
<1>0. TypeOK /\ LockInv /\ PageOK /\ ServerOK /\ TaskOK
  BY InvParts
<1>1. lock = None /\ PageOK' /\ UNCHANGED licensed
  BY <1>0 DEF Acquire, ServeStart, ServeStop, RefuseFrame, DelayFrame, TakeFrame, PageOK,
              page, server
<1>2. \A u \in Tasks : task[u].pc \notin Working
  BY <1>1, NobodyWorks
<1>3. CASE \E a \in Answers : Answer(t, a) /\ UNCHANGED lock
  <2>1. TaskOK' /\ \A u \in Tasks : task'[u].pc \notin Working
    BY <1>0, <1>2, <1>3, AnswerTask DEF Working
  <2>2. CASE ServeStart(t)
    <3>1. ServerOK'
      BY <1>0, <1>1, <2>2, NumbersAssumption DEF ServeStart, ServerOK
    <3>2. LockInv'
      BY <1>1, <2>1, <2>2, <3>1 DEF ServeStart, LockInv
    <3> QED
      BY <1>1, <2>1, <3>1, <3>2, InvBuild
  <2>3. CASE ServeStop(t)
    <3>1. ServerOK'
      BY <1>0, <1>1, <2>3 DEF ServeStop, ServerOK
    <3>2. LockInv'
      BY <1>0, <1>1, <2>1, <2>3, <3>1 DEF ServeStop, LockInv
    <3> QED
      BY <1>1, <2>1, <3>1, <3>2, InvBuild
  <2>4. CASE RefuseFrame(t)
    <3>1. ServerOK'
      BY <1>0, <1>1, <2>4 DEF RefuseFrame, ServerOK
    <3>2. LockInv'
      BY <1>0, <1>1, <2>1, <2>4, <3>1 DEF RefuseFrame, LockInv
    <3> QED
      BY <1>1, <2>1, <3>1, <3>2, InvBuild
  <2>5. CASE DelayFrame(t)
    <3>1. ServerOK'
      BY <1>0, <1>1, <2>5 DEF DelayFrame, ServerOK, server
    <3>2. LockInv'
      BY <1>0, <1>1, <2>1, <2>5, <3>1 DEF DelayFrame, LockInv, server
    <3> QED
      BY <1>1, <2>1, <3>1, <3>2, InvBuild
  <2>6. CASE TakeFrame(t)
    BY <1>1, <1>3, <2>6, NoneAssumption DEF TakeFrame
  <2> QED
    BY <2>2, <2>3, <2>4, <2>5, <2>6 DEF Acquire
<1>4. CASE TakeFrame(t)
  <2>3. /\ TaskOK' /\ task'[t].pc = "reading" /\ task'[t].kind = "loop"
        /\ task'[t].session = receiver /\ \A u \in Tasks \ {t} : task'[u] = task[u]
    <3>1. receiver \in Nat /\ Work(t, "reading") /\ task[t].kind = "loop"
      BY <1>0, <1>4 DEF TakeFrame, At, ServerOK
    <3> QED
      BY <1>0, <3>1, WorkTask DEF Working
  <2>4. ServerOK'
    BY <1>0, <1>4, NumbersAssumption DEF TakeFrame, ServerOK
  <2>5. LockInv'
    BY <1>0, <1>2, <1>4, <2>3, <2>4 DEF TakeFrame, LockInv, Working
  <2> QED
    BY <1>1, <2>3, <2>4, <2>5, InvBuild
<1> QED
  BY <1>3, <1>4 DEF Acquire, ServeStart, ServeStop, RefuseFrame, DelayFrame, Answers, server

\* The steps of a frame under the lock.
LEMMA FrameStep ==
  ASSUME IInv, NEW t \in Tasks, ReadFrame(t) \/ ProcessFrame(t) \/ Reconstruct(t)
  PROVE  IInv'
<1>0. TypeOK /\ LockInv /\ PageOK /\ ServerOK /\ TaskOK
  BY InvParts
<1>1. PageOK' /\ UNCHANGED <<licensed, receiver, captured>> /\ task[t].pc \in Working
  BY <1>0 DEF ReadFrame, ProcessFrame, Reconstruct, PageOK, page, At, Working
<1>2. /\ lock = t /\ task[t].session = receiver /\ task[t].kind = "loop" /\ scanning
      /\ recovered = None
  BY <1>0, <1>1 DEF LockInv
<1>3. \A u \in Tasks \ {t} : task[u].pc \notin Working
  BY <1>0, <1>2 DEF LockInv
<1>4. CASE /\ \E pc \in {"processing", "reconstructing"} : Work(t, pc)
           /\ UNCHANGED <<lock, scanning, recovered>>
  <2>1. /\ TaskOK' /\ task'[t].pc \in Working /\ task'[t].kind = "loop"
        /\ task'[t].session = receiver /\ \A u \in Tasks \ {t} : task'[u] = task[u]
    BY <1>0, <1>2, <1>4, WorkTask DEF Working, ServerOK
  <2>2. ServerOK'
    BY <1>0, <1>1, <1>4 DEF ServerOK
  <2>3. LockInv'
    BY <1>0, <1>1, <1>2, <1>3, <1>4, <2>1 DEF LockInv
  <2> QED
    BY <1>1, <2>1, <2>2, <2>3, InvBuild
<1>5. CASE /\ \E a \in Answers : Answer(t, a)
           /\ lock' = None
           /\ \/ UNCHANGED <<scanning, recovered>>
              \/ recovered' = task[t].session /\ scanning' = FALSE
  <2>1. TaskOK' /\ \A u \in Tasks : task'[u].pc \notin Working
    BY <1>0, <1>3, <1>5, AnswerTask DEF Working
  <2>2. ServerOK'
    BY <1>0, <1>1, <1>2, <1>5 DEF ServerOK
  <2>3. LockInv'
    BY <1>0, <1>1, <1>2, <1>5, <2>1 DEF LockInv
  <2> QED
    BY <1>1, <2>1, <2>2, <2>3, InvBuild
<1> QED
  BY <1>4, <1>5 DEF ReadFrame, ProcessFrame, Reconstruct, Answers

LEMMA AuthorizeStep ==
  ASSUME IInv, NEW t \in Tasks, Authorize(t) \/ ServeBootstrap(t)
  PROVE  IInv'
<1>1. TypeOK /\ LockInv /\ PageOK /\ ServerOK /\ TaskOK
  BY InvParts
<1>2. PageOK' /\ ServerOK' /\ UNCHANGED server
  BY <1>1 DEF Authorize, ServeBootstrap, PageOK, page, ServerOK, server
<1>3. Goto(t, "queued") \/ Answer(t, "ok") \/ Answer(t, "other")
  BY DEF Authorize, ServeBootstrap
<1>4. /\ task[t].pc \notin Working /\ task'[t].pc \notin Working /\ TaskOK'
      /\ \A u \in Tasks \ {t} : task'[u] = task[u]
  BY <1>1, <1>3, GotoTask, AnswerTask DEF Authorize, ServeBootstrap, At, Working, Answers
<1>5. LockInv'
  BY <1>1, <1>2, <1>4, LockInvKept
<1> QED
  BY <1>2, <1>4, <1>5, InvBuild

-----------------------------------------------------------------------------
\* IInv is an inductive invariant.
LEMMA InitInv == Init => IInv
<1> SUFFICES ASSUME Init
             PROVE  IInv
  OBVIOUS
<1>1. TaskOK /\ \A t \in Tasks : task[t].pc = "idle"
  BY NewTasks DEF Init, TaskOK
<1>2. PageOK
  BY DEF Init, PageOK
<1>3. ServerOK
  <2>1. receiver \in Nat /\ captured \in 0 .. MaxFrames
    BY NumbersAssumption DEF Init
  <2> QED
    BY <2>1 DEF Init, ServerOK
<1>4. LockInv
  BY <1>1 DEF Init, LockInv, Working
<1> QED
  BY <1>1, <1>2, <1>3, <1>4, TypeParts DEF IInv, LockInv

LEMMA NextInv == IInv /\ [Next]_vars => IInv'
<1> SUFFICES ASSUME IInv, [Next]_vars
             PROVE  IInv'
  OBVIOUS
<1>1. CASE UNCHANGED vars
  BY <1>1 DEF vars, IInv, TypeOK
<1>2. CASE LicenceChange
  BY <1>2 DEF LicenceChange, server, page, IInv, TypeOK
<1>6. ASSUME NEW t \in Tasks, LoadPage(t)
      PROVE  IInv'
  BY <1>6, LoadStep
<1>3. ASSUME NEW t \in Tasks, ClickStart(t) \/ ClickStop(t) \/ GetUserMedia(t)
      PROVE  IInv'
  BY <1>3, PageStep
<1>4. ASSUME NEW t \in Tasks, Acquire(t)
      PROVE  IInv'
  BY <1>4, AcquireStep
<1>5. ASSUME NEW t \in Tasks, Proceed(t)
      PROVE  IInv'
  BY <1>5, PageStep, FrameStep, AuthorizeStep DEF Proceed
<1> QED
  BY <1>1, <1>2, <1>3, <1>4, <1>5, <1>6 DEF Next

\* Every reachable state of page and server satisfies the inductive invariant.
THEOREM Invariance == Spec => []IInv
BY InitInv, NextInv, PTL DEF Spec

\* The variables keep their types; in particular no session takes more frames
\* than its limit (web.py:207-217).
THEOREM TypeCorrect == Spec => []TypeOK
<1>1. IInv => TypeOK
  BY DEF IInv
<1> QED
  BY <1>1, Invariance, PTL

\* What the server has rebuilt, and the frame that has the lock, belong to the session
\* the server shows, for any number of tasks that start, stop and send frames at once
\* (web.py:165-253).
THEOREM ResultSafety == Spec => []ResultIsOfItsSession
<1>1. IInv => ResultIsOfItsSession
  BY DEF IInv, TypeOK, ResultIsOfItsSession
<1> QED
  BY <1>1, Invariance, PTL

-----------------------------------------------------------------------------
(***************************************************************************)
(* The camera handle, when Start waits for the answers of the run before.  *)
(***************************************************************************)
\* A step of the server, or the encoded frame: the task goes on, the page's
\* variables stay.
LEMMA MovesOn ==
  ASSUME PageInv, NEW t \in Tasks, UNCHANGED page,
         task[t].pc \notin {"idle", "permission", "timer"},
         task'[t].pc \notin {"idle", "permission", "playing", "blob", "timer"},
         task'[t].kind = task[t].kind, task'[t].gone = task[t].gone,
         \A u \in Tasks \ {t} : task'[u] = task[u]
  PROVE  PageInv'
<1>1. \A u \in Tasks, kind \in {"start", "bootstrap"} : Live(u, kind)' <=> Live(u, kind)
  BY DEF Live
<1>2. HandleInv'
  BY <1>1 DEF PageInv, HandleInv, page
<1>3. ButtonsInv'
  BY <1>1 DEF PageInv, ButtonsInv, page
<1>4. AloneInv'
  BY <1>1 DEF PageInv, AloneInv, page
<1> QED
  BY <1>2, <1>3, <1>4 DEF PageInv

\* A task that is not starting the camera ends.
LEMMA JustEnds ==
  ASSUME PageInv, NEW t \in Tasks, UNCHANGED page, ~Live(t, "start"),
         task'[t] = Idle, \A u \in Tasks \ {t} : task'[u] = task[u]
  PROVE  PageInv'
<1>1. \A u \in Tasks : Live(u, "start")' <=> Live(u, "start")
  BY DEF Live, Idle
<1>2. \A u \in Tasks : Live(u, "bootstrap")' => Live(u, "bootstrap")
  BY DEF Live, Idle
<1>3. HandleInv'
  BY <1>1 DEF PageInv, HandleInv, page, Idle
<1>4. ButtonsInv'
  BY <1>1, <1>2 DEF PageInv, ButtonsInv, page
<1>5. AloneInv'
  BY <1>1, <1>2 DEF PageInv, AloneInv, page, Idle
<1> QED
  BY <1>3, <1>4, <1>5 DEF PageInv

\* releaseCamera where no other task starts the camera or the page.
LEMMA Releases ==
  ASSUME PageInv, NEW t \in Tasks, ReleaseCamera, running' = FALSE,
         task'[t] \in {Idle, Doing("stop", "sent")},
         \A u \in Tasks \ {t} :
           task'[u] = task[u] /\ ~Live(u, "start") /\ ~Live(u, "bootstrap")
  PROVE  PageInv'
<1>0. /\ task'[t].kind \in {"none", "stop"} /\ task'[t].pc \in {"idle", "sent"}
      /\ task'[t].pc = "idle" <=> task'[t].kind = "none"
  <2>1. CASE task'[t] = Idle
    BY <2>1 DEF Idle
  <2>2. CASE task'[t] = Doing("stop", "sent")
    BY <2>2 DEF Idle, Doing
  <2> QED
    BY <2>1, <2>2
<1>1. \A u \in Tasks : ~Live(u, "start")' /\ ~Live(u, "bootstrap")'
  BY <1>0 DEF Live
<1>2. cameras' = {}
  BY DEF PageInv, HandleInv, ReleaseCamera
<1>3. HandleInv' /\ ButtonsInv'
  BY <1>1, <1>2 DEF HandleInv, ButtonsInv, ReleaseCamera
<1>4. AloneInv'
  BY <1>0, <1>1 DEF PageInv, AloneInv
<1> QED
  BY <1>3, <1>4 DEF PageInv

\* While a frame, a stop or another start of this page is under way, nothing else
\* starts the camera or the page.
LEMMA OthersWait ==
  ASSUME PageInv, NEW t \in Tasks, ~task[t].gone, task[t].pc \notin {"idle", "timer"}
  PROVE  \A u \in Tasks \ {t} : ~Live(u, "start") /\ ~Live(u, "bootstrap")
BY DEF PageInv, AloneInv

LEMMA StartClicked ==
  ASSUME TaskOK, PageInv, NEW t \in Tasks, ClickStart(t),
         \A u \in Tasks : task[u].kind \in {"loop", "stop"} =>
           task[u].gone \/ task[u].pc = "timer"
  PROVE  PageInv'
<1>1. task'[t] = Doing("start", "permission") /\ \A u \in Tasks \ {t} : task'[u] = task[u]
  BY NewTask, NewTasks DEF ClickStart
<1>2. /\ startOn /\ ~running /\ cameras = {} /\ ~stopOn
      /\ \A u \in Tasks : ~Live(u, "start") /\ ~Live(u, "bootstrap")
  BY DEF ClickStart, PageInv, ButtonsInv, HandleInv
<1>3. UNCHANGED <<running, stream, cameras, stopOn>> /\ startOn' = FALSE
  BY DEF ClickStart
<1>4. \A u \in Tasks \ {t} : task[u].gone \/ task[u].pc \in {"idle", "timer"}
  <2> SUFFICES ASSUME NEW u \in Tasks \ {t}, ~task[u].gone
               PROVE  task[u].pc \in {"idle", "timer"}
    OBVIOUS
  <2>1. task[u].kind \in {"none", "bootstrap", "start", "stop", "loop"}
    BY DEF TaskOK, Task
  <2>2. task[u].kind \in {"none", "loop", "stop"}
    BY <1>2, <2>1 DEF Live
  <2>3. task[u].kind = "none" => task[u].pc = "idle"
    BY DEF PageInv, AloneInv
  <2> QED
    BY <2>2, <2>3
<1>5. HandleInv' /\ ButtonsInv'
  BY <1>1, <1>2, <1>3 DEF HandleInv, ButtonsInv, Live, Doing, Idle
<1>6. AloneInv'
  <2>1. \A u \in Tasks \ {t} : ~Live(u, "start")' /\ ~Live(u, "bootstrap")'
    BY <1>1, <1>2 DEF Live
  <2>2. ~Live(t, "bootstrap")' /\ task'[t].pc = "permission" /\ task'[t].kind = "start"
        /\ ~task'[t].gone
    BY <1>1 DEF Live, Doing, Idle
  <2> QED
    BY <1>1, <1>2, <1>3, <1>4, <2>1, <2>2 DEF PageInv, AloneInv
<1> QED
  BY <1>5, <1>6 DEF PageInv

LEMMA CameraGranted ==
  ASSUME TaskOK, PageInv, NEW t \in Tasks, GetUserMedia(t)
  PROVE  PageInv'
<1>1. Live(t, "start") /\ task[t].pc = "permission" /\ cameras = {} /\ ~running /\ ~startOn
  BY DEF GetUserMedia, At, PageInv, AloneInv, HandleInv, Live
<1>2. /\ \A u \in Tasks \ {t} : ~Live(u, "start") /\ ~Live(u, "bootstrap")
      /\ \A u \in Tasks \ {t} : task[u].gone \/ task[u].pc \in {"idle", "timer"}
  BY <1>1, OthersWait DEF Live, PageInv, AloneInv
<1>3. running' = FALSE
  BY <1>1 DEF GetUserMedia, PageInv, AloneInv
<1>4. CASE Goto(t, "playing") /\ UNCHANGED <<startOn, stopOn>>
           /\ \E c \in Cameras \ cameras : stream' = c /\ cameras' = cameras \cup {c}
  <2>1. /\ task'[t].pc = "playing" /\ task'[t].kind = "start" /\ ~task'[t].gone
        /\ \A u \in Tasks \ {t} : task'[u] = task[u]
    BY <1>1, <1>4 DEF Goto, TaskOK, Task, Live
  <2>2. cameras' = {stream'}
    BY <1>1, <1>4
  <2>3. Live(t, "start")' /\ ~Live(t, "bootstrap")'
    BY <2>1 DEF Live
  <2>4. \A u \in Tasks \ {t} : ~Live(u, "start")' /\ ~Live(u, "bootstrap")'
    BY <1>2, <2>1 DEF Live
  <2>5. HandleInv'
    BY <1>2, <2>1, <2>2, <2>3 DEF PageInv, AloneInv, HandleInv
  <2>6. ButtonsInv'
    BY <1>1, <1>3, <1>4 DEF PageInv, ButtonsInv
  <2>7. AloneInv'
    BY <1>1, <1>2, <1>3, <1>4, <2>1, <2>3, <2>4 DEF PageInv, AloneInv
  <2> QED
    BY <2>5, <2>6, <2>7 DEF PageInv
<1>5. CASE ReleaseCamera /\ End(t)
  BY <1>2, <1>3, <1>5, Releases, NewTask, NewTasks DEF End
<1> QED
  BY <1>4, <1>5 DEF GetUserMedia

\* The video plays, or its stream is released.
LEMMA VideoPlays ==
  ASSUME TaskOK, PageInv, NEW t \in Tasks, Play(t)
  PROVE  PageInv'
<1>1. Live(t, "start") /\ task[t].pc = "playing" /\ ~running
  BY DEF Play, At, PageInv, AloneInv, Live
<1>2. \A u \in Tasks \ {t} : ~Live(u, "start") /\ ~Live(u, "bootstrap")
  BY <1>1, OthersWait DEF Live
<1>3. CASE Goto(t, "sent") /\ UNCHANGED page
  <2>1. /\ task'[t].pc = "sent" /\ task'[t].kind = task[t].kind /\ task'[t].gone = task[t].gone
        /\ \A u \in Tasks \ {t} : task'[u] = task[u]
    BY <1>3 DEF Goto, TaskOK, Task
  <2> QED
    BY <1>1, <1>3, <2>1, MovesOn
<1>4. CASE ReleaseCamera /\ End(t) /\ UNCHANGED running
  <2>1. running' = FALSE
    BY <1>1, <1>4
  <2>2. task'[t] = Idle /\ \A u \in Tasks \ {t} : task'[u] = task[u]
    BY <1>4, NewTask, NewTasks DEF End
  <2> QED
    BY <1>2, <1>4, <2>1, <2>2, Releases
<1> QED
  BY <1>3, <1>4 DEF Play

LEMMA StartDone ==
  ASSUME TaskOK, PageInv, NEW t \in Tasks, StartAnswered(t)
  PROVE  PageInv'
<1>1. Live(t, "start") /\ task[t].pc = "answered"
  BY DEF StartAnswered, Answered, At, Live
<1>2. /\ \A u \in Tasks \ {t} : ~Live(u, "start") /\ ~Live(u, "bootstrap")
      /\ \A u \in Tasks \ {t} : task[u].gone \/ task[u].pc \in {"idle", "timer"}
      /\ ~running /\ ~startOn
  BY <1>1, OthersWait DEF Live, PageInv, AloneInv
<1>3. CASE task[t].answer = "ok"
  <2>1. /\ task'[t] = Doing("loop", "blob") /\ \A u \in Tasks \ {t} : task'[u] = task[u]
        /\ running' /\ stopOn' /\ UNCHANGED <<stream, cameras, startOn>>
    BY <1>3, NewTask, NewTasks DEF StartAnswered
  <2>2. \A u \in Tasks : ~Live(u, "start")' /\ ~Live(u, "bootstrap")'
    BY <1>2, <2>1 DEF Live, Doing, Idle
  <2>3. \A u \in Tasks : task'[u].pc # "permission"
    BY <1>2, <2>1 DEF PageInv, AloneInv, Doing, Idle
  <2>4. HandleInv'
    BY <2>1, <2>3 DEF PageInv, HandleInv
  <2>5. ButtonsInv'
    BY <1>2, <2>1 DEF ButtonsInv, PageInv
  <2>6. AloneInv'
    BY <2>1, <2>2 DEF PageInv, AloneInv, Doing, Idle
  <2> QED
    BY <2>4, <2>5, <2>6 DEF PageInv
<1>4. CASE task[t].answer # "ok"
  <2>1. ReleaseCamera /\ End(t) /\ UNCHANGED running
    BY <1>4 DEF StartAnswered
  <2>2. running' = FALSE
    BY <1>1, <2>1 DEF PageInv, AloneInv
  <2> QED
    BY <1>2, <2>1, <2>2, Releases, NewTask, NewTasks DEF End
<1> QED
  BY <1>3, <1>4

LEMMA StopClicked ==
  ASSUME TaskOK, PageInv, NEW t \in Tasks, ClickStop(t)
  PROVE  PageInv'
<1>1. running
  BY DEF ClickStop, PageInv, ButtonsInv
<1>2. \A u \in Tasks : ~Live(u, "start") /\ ~Live(u, "bootstrap")
  BY <1>1 DEF PageInv, AloneInv
<1> QED
  BY <1>2, Releases, NewTask, NewTasks DEF ClickStop

\* The answers to stop and to frames, or no frame to send; the next frame after the
\* timer.
LEMMA AnswerRead ==
  ASSUME TaskOK, PageInv, PageOK, NEW t \in Tasks,
         StopAnswered(t) \/ FrameAnswered(t) \/ JpegFails(t)
  PROVE  PageInv'
<1>1. /\ ~task[t].gone /\ task[t].pc \in {"answered", "blob"}
      /\ ~Live(t, "start") /\ ~Live(t, "bootstrap")
  BY DEF StopAnswered, FrameAnswered, JpegFails, Answered, At, Live, PageInv, AloneInv
<1>2. \A u \in Tasks \ {t} : ~Live(u, "start") /\ ~Live(u, "bootstrap")
  BY <1>1, OthersWait
<1>3. /\ task'[t] \in {Idle, Doing("loop", "timer")}
      /\ \A u \in Tasks \ {t} : task'[u] = task[u]
  <2>1. \E new \in {Idle, Doing("loop", "timer")} : task' = [task EXCEPT ![t] = new]
    BY DEF StopAnswered, FrameAnswered, JpegFails, LoopAgain, End
  <2> QED
    BY <2>1, NewTask, NewTasks
<1>4. CASE running' = FALSE /\ ReleaseCamera
  <2>1. task' = [task EXCEPT ![t] = Idle]
    BY <1>4 DEF StopAnswered, FrameAnswered, JpegFails, LoopAgain, End
  <2> QED
    BY <1>2, <1>4, <2>1, Releases, NewTask, NewTasks
<1>5. CASE UNCHANGED page
  <2>1. CASE task'[t] = Idle
    BY <1>1, <1>3, <1>5, <2>1, JustEnds
  <2>2. CASE task'[t] = Doing("loop", "timer")
    <3>1. \A u \in Tasks : ~Live(u, "start")' /\ ~Live(u, "bootstrap")'
      BY <1>2, <1>3, <2>2 DEF Live, Doing, Idle
    <3>2. \A u \in Tasks : ~Live(u, "start") /\ ~Live(u, "bootstrap")
      BY <1>1, <1>2
    <3>3. HandleInv' /\ ButtonsInv'
      BY <1>3, <1>5, <2>2, <3>1, <3>2 DEF PageInv, HandleInv, ButtonsInv, page, Doing, Idle
    <3>4. AloneInv'
      BY <1>3, <2>2, <3>1 DEF PageInv, AloneInv, Doing, Idle
    <3> QED
      BY <3>3, <3>4 DEF PageInv
  <2> QED
    BY <1>3, <2>1, <2>2
<1> QED
  BY <1>4, <1>5 DEF StopAnswered, FrameAnswered, JpegFails, RenderStatus

LEMMA TimerRuns ==
  ASSUME TaskOK, PageInv, NEW t \in Tasks, Timer(t)
  PROVE  PageInv'
<1>1. ~task[t].gone /\ task[t].kind = "loop" /\ task[t].pc = "timer" /\ UNCHANGED page
  BY DEF Timer, At, PageInv, AloneInv
<1>2. CASE ~running
  <2>1. task'[t] = Idle /\ \A u \in Tasks \ {t} : task'[u] = task[u]
    BY <1>2, NewTask, NewTasks DEF Timer, End
  <2> QED
    BY <1>1, <2>1, JustEnds DEF Live
<1>3. CASE running
  <2>1. /\ task'[t].pc = "blob" /\ task'[t].kind = "loop" /\ ~task'[t].gone
        /\ \A u \in Tasks \ {t} : task'[u] = task[u]
    BY <1>1, <1>3 DEF Timer, Goto, TaskOK, Task
  <2>2. \A u \in Tasks : ~Live(u, "start") /\ ~Live(u, "bootstrap")
    BY <1>3 DEF PageInv, AloneInv
  <2>3. \A u \in Tasks : ~Live(u, "start")' /\ ~Live(u, "bootstrap")'
    BY <2>1, <2>2 DEF Live
  <2>4. HandleInv' /\ ButtonsInv'
    BY <1>1, <2>1, <2>2, <2>3 DEF PageInv, HandleInv, ButtonsInv, page
  <2>5. AloneInv'
    BY <2>1, <2>3 DEF PageInv, AloneInv
  <2> QED
    BY <2>4, <2>5 DEF PageInv
<1> QED
  BY <1>2, <1>3

LEMMA PageLoads ==
  ASSUME TaskOK, PageInv, NEW t \in Tasks, LoadPage(t) \/ BootstrapAnswered(t)
  PROVE  PageInv'
<1>1. CASE LoadPage(t)
  <2>1. /\ task'[t] = Doing("bootstrap", "sent")
        /\ cameras' = {} /\ ~running' /\ ~startOn' /\ ~stopOn'
    BY <1>1 DEF LoadPage
  <2>2. \A u \in Tasks \ {t} :
          \/ task'[u] = Idle
          \/ /\ task'[u].gone /\ task'[u].pc = task[u].pc /\ task'[u].kind = task[u].kind
             /\ task[u].pc \in UnderWay
    <3> TAKE u \in Tasks \ {t}
    <3>1. task'[u] = IF task[u].pc \in UnderWay THEN [task[u] EXCEPT !.gone = TRUE] ELSE Idle
      BY <1>1 DEF LoadPage
    <3>2. task[u] \in Task
      BY DEF TaskOK
    <3>3. CASE task[u].pc \in UnderWay
      BY <3>1, <3>2, <3>3 DEF Task
    <3> QED
      BY <3>1, <3>3
  <2>3. \A u \in Tasks : ~Live(u, "start")'
    <3>1. ~Live(t, "start")'
      BY <2>1 DEF Live, Doing, Idle
    <3>2. ASSUME NEW u \in Tasks \ {t} PROVE ~Live(u, "start")'
      <4>1. CASE task'[u] = Idle
        BY <4>1 DEF Live, Idle
      <4>2. CASE task'[u].gone
        BY <4>2 DEF Live
      <4> QED
        BY <2>2, <4>1, <4>2
    <3> QED
      BY <3>1, <3>2
  <2>4. HandleInv' /\ ButtonsInv'
    <3>1. HandleInv'
      BY <2>1 DEF HandleInv
    <3>2. ButtonsInv'
      BY <2>1 DEF ButtonsInv
    <3> QED
      BY <3>1, <3>2
  <2>5. \A u \in Tasks \ {t} : /\ task'[u].gone \/ task'[u].pc = "idle"
                               /\ task'[u].gone => task'[u].pc \in UnderWay
                               /\ task'[u].pc = "idle" <=> task'[u].kind = "none"
                               /\ ~Live(u, "bootstrap")'
    BY <2>2 DEF Idle, Live, PageInv, AloneInv
  <2>6. AloneInv'
    BY <2>1, <2>3, <2>5 DEF AloneInv, Doing, Idle, UnderWay, Working, Live
  <2> QED
    BY <2>4, <2>6 DEF PageInv
<1>2. CASE BootstrapAnswered(t)
  <2>1. Live(t, "bootstrap") /\ task[t].pc = "answered"
    BY <1>2 DEF BootstrapAnswered, Answered, At, Live
  <2>2. /\ \A u \in Tasks \ {t} : ~Live(u, "start") /\ ~Live(u, "bootstrap")
        /\ ~Live(t, "start") /\ ~running
    BY <2>1, OthersWait DEF Live, PageInv, AloneInv
  <2>3. /\ task'[t] = Idle /\ \A u \in Tasks \ {t} : task'[u] = task[u]
        /\ UNCHANGED <<running, stream, cameras, stopOn>>
    BY <1>2, NewTask, NewTasks DEF BootstrapAnswered, End
  <2>4. \A u \in Tasks : ~Live(u, "start")' /\ ~Live(u, "bootstrap")'
    BY <2>2, <2>3 DEF Live, Idle
  <2>5. HandleInv' /\ ButtonsInv'
    BY <2>2, <2>3, <2>4 DEF PageInv, HandleInv, ButtonsInv, Idle
  <2>6. AloneInv'
    BY <2>3, <2>4 DEF PageInv, AloneInv, Idle
  <2> QED
    BY <2>5, <2>6 DEF PageInv
<1> QED
  BY <1>1, <1>2

\* The server's steps, Lost and JpegBlob.
LEMMA RestOfPage ==
  ASSUME TaskOK, PageInv, NEW t \in Tasks,
         \/ Acquire(t) \/ Authorize(t) \/ ServeBootstrap(t) \/ JpegBlob(t) \/ Lost(t)
         \/ ReadFrame(t) \/ ProcessFrame(t) \/ Reconstruct(t)
  PROVE  PageInv'
<1>1. CASE Lost(t)
  BY <1>1, JustEnds, NewTask, NewTasks DEF Lost, End, Live
<1>2. CASE ~Lost(t)
  <2>1. UNCHANGED page /\ task[t].pc \in {"blob"} \cup UnderWay
    BY <1>2 DEF Acquire, ServeStart, ServeStop, RefuseFrame, DelayFrame, TakeFrame, Authorize,
                ServeBootstrap, JpegBlob, ReadFrame, ProcessFrame, Reconstruct, page, At, UnderWay,
                Working
  <2>2. \/ \E pc \in {"sent", "queued"} : Goto(t, pc)
        \/ \E a \in Answers : Answer(t, a)
        \/ \E pc \in Working : Work(t, pc)
    BY <1>2 DEF Acquire, ServeStart, ServeStop, RefuseFrame, DelayFrame, TakeFrame, Authorize,
                ServeBootstrap, JpegBlob, ReadFrame, ProcessFrame, Reconstruct, UnderWay, Working,
                Answers
  <2>3. /\ task'[t].pc \in {"answered"} \cup UnderWay
        /\ task'[t].kind = task[t].kind /\ task'[t].gone = task[t].gone
        /\ \A u \in Tasks \ {t} : task'[u] = task[u]
    <3>1. ASSUME NEW pc \in {"sent", "queued"}, Goto(t, pc)
          PROVE  /\ task'[t].pc \in {"answered"} \cup UnderWay
                 /\ task'[t].kind = task[t].kind /\ task'[t].gone = task[t].gone
                 /\ \A u \in Tasks \ {t} : task'[u] = task[u]
      BY <3>1 DEF Goto, TaskOK, Task, UnderWay
    <3>2. ASSUME NEW a \in Answers, Answer(t, a)
          PROVE  /\ task'[t].pc \in {"answered"} \cup UnderWay
                 /\ task'[t].kind = task[t].kind /\ task'[t].gone = task[t].gone
                 /\ \A u \in Tasks \ {t} : task'[u] = task[u]
      BY <3>2 DEF Answer, TaskOK, Task
    <3>3. ASSUME NEW pc \in Working, Work(t, pc)
          PROVE  /\ task'[t].pc \in {"answered"} \cup UnderWay
                 /\ task'[t].kind = task[t].kind /\ task'[t].gone = task[t].gone
                 /\ \A u \in Tasks \ {t} : task'[u] = task[u]
      BY <3>3 DEF Work, TaskOK, Task, UnderWay
    <3> QED
      BY <2>2, <3>1, <3>2, <3>3
  <2> QED
    BY <2>1, <2>3, MovesOn DEF UnderWay, Working
<1> QED
  BY <1>1, <1>2

LEMMA PageInvStep ==
  ASSUME IInv, PageInv, [Next]_vars,
         [\A t \in Tasks : ClickStart(t) =>
            \A u \in Tasks : task[u].kind \in {"loop", "stop"} =>
              task[u].gone \/ task[u].pc = "timer"]_vars
  PROVE  PageInv'
<1>1. TaskOK /\ PageOK
  BY InvParts
<1>2. CASE UNCHANGED vars
  BY <1>2 DEF vars, PageInv, HandleInv, ButtonsInv, AloneInv, Live
<1>3. CASE LicenceChange
  BY <1>3 DEF LicenceChange, page, PageInv, HandleInv, ButtonsInv, AloneInv, Live
<1>4. ASSUME NEW t \in Tasks, ClickStart(t) PROVE PageInv'
  BY <1>1, <1>2, <1>4, StartClicked
<1>5. ASSUME NEW t \in Tasks, LoadPage(t) \/ ClickStop(t) \/ GetUserMedia(t) \/ Acquire(t)
      PROVE  PageInv'
  BY <1>1, <1>5, PageLoads, StopClicked, CameraGranted, RestOfPage
<1>6. ASSUME NEW t \in Tasks, Proceed(t) PROVE PageInv'
  BY <1>1, <1>6, PageLoads, VideoPlays, StartDone, AnswerRead, TimerRuns, RestOfPage DEF Proceed
<1> QED
  BY <1>2, <1>3, <1>4, <1>5, <1>6 DEF Next

\* Stopping releases every track and camera handle, as ARCHITECTURE.md:74 says, on
\* one condition: Start is not clicked while a frame or the stop of the run before
\* is unanswered (app.js:56-109, 127-151).
THEOREM CameraLeakHasOneCause == Spec /\ NoLateAnswer => []StoppedReleasesAll
<1>1. Init => PageInv
  BY DEF Init, PageInv, HandleInv, ButtonsInv, AloneInv, Live, Idle
<1>2. PageInv => StoppedReleasesAll
  BY DEF PageInv, HandleInv, StoppedReleasesAll, Live
<1> QED
  BY <1>1, <1>2, Invariance, PageInvStep, PTL DEF Spec, NoLateAnswer

=============================================================================
