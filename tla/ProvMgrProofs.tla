--------------------------- MODULE ProvMgrProofs ---------------------------
(***************************************************************************)
(* Theorems about ProvMgr for every set of tasks, credentials, calls,      *)
(* failures and races.  The inductive invariants, each proved with the     *)
(* help of those before it: TypeOK; Exclusion, which says that a start or  *)
(* a tear-down is one thread's own; Stages, which says what of the service *)
(* there is at each stage of them; and Intact, which says that no pointer  *)
(* to freed memory is kept.  LockReleased needs only the types.  The last  *)
(* theorem is that the manager implements ProvSession.  In each part there *)
(* is one lemma per group of actions, and one step per action.             *)
(***************************************************************************)
EXTENDS ProvMgr, TLAPS

USE DEF locks, data, station, service, timers, config, driver, session,
        env, world, vars

-----------------------------------------------------------------------------
\* The calls of an application task keep the types.
LEMMA TypeCaller ==
    ASSUME TypeOK, NEW t \in Callers, CallerCalls(t)
    PROVE  TypeOK'
<1> USE DEF TypeOK, Threads, System, Http, TimerTask, EventLoop, Nobody,
            Labels, States, Timer, Goto, Move, Locked, Call, Fault, NoCred
<1>1. CASE InitManager(t)
  <2>1. scanning' \in BOOLEAN
    BY <1>1, Zenon DEF InitManager
  <2> QED
    BY <1>1, <2>1 DEF InitManager
<1>2. CASE InitFails(t)
  BY <1>2 DEF InitFails
<1>3. CASE TouchFreed(t)
  BY <1>3 DEF TouchFreed
<1>4. ASSUME NEW what \in {"no_auto_stop", "app_info", "endpoint"},
             Configure(t, what)
      PROVE  TypeOK'
  BY <1>4 DEF Configure
<1>5. CASE UseEndpoint(t)
  BY <1>5 DEF UseEndpoint, InSession
<1>6. ASSUME NEW m \in Modes, StartProvisioning(t, m)
      PROVE  TypeOK'
  BY <1>6, DataAssumption DEF StartProvisioning, MayStart, BlankStation,
     WriteConfig, Disconnect, CreateTimers
<1>7. ASSUME NEW m \in Modes, NEW what \in {"pop", "timer"},
             StartPrepareFails(t, m, what)
      PROVE  TypeOK'
  BY <1>7, DataAssumption DEF StartPrepareFails, MayStart, RestoreConfig,
     WriteConfig, Disconnect, Delete
<1>8. CASE StartWifiFails(t)
  BY <1>8 DEF StartWifiFails, MayStart, WriteConfig
<1>9. CASE CallStop(t)
  BY <1>9 DEF CallStop
<1>10. CASE ResetNull(t)
  BY <1>10 DEF ResetNull
<1>11. CASE Reset(t)
  BY <1>11 DEF Reset, Finished
<1> QED
  BY <1>1, <1>2, <1>3, <1>4, <1>5, <1>6, <1>7, <1>8, <1>9, <1>10, <1>11 DEF
     CallerCalls

\* The steps of a start keep the types.
LEMMA TypeStart ==
    ASSUME TypeOK, NEW t \in Threads, StartStep(t)
    PROVE  TypeOK'
<1> USE DEF TypeOK, Threads, System, Http, TimerTask, EventLoop, Nobody,
            Labels, States, Timer, Goto, Move, Locked, Call, Fault, NoCred
<1>1. CASE StartService(t)
  BY <1>1 DEF StartService
<1>2. CASE StartRegister(t)
  BY <1>2 DEF StartRegister, Register
<1>3. CASE StartServiceFails(t)
  <2>1. endpoints' \in BOOLEAN
    BY <1>3, Zenon DEF StartServiceFails
  <2> QED
    BY <1>3, <2>1 DEF StartServiceFails
<1>4. CASE StartUndo(t)
  BY <1>4 DEF StartUndo, DeleteTimers, DeletedTwice, Delete
<1>5. CASE StartFailed(t)
  BY <1>5 DEF StartFailed, RestoreConfig, WriteConfig
<1>6. CASE Started(t)
  BY <1>6 DEF Started
<1> QED
  BY <1>1, <1>2, <1>3, <1>4, <1>5, <1>6 DEF StartStep

\* The steps of a stop and of a de-initialisation keep the types.
LEMMA TypeStop ==
    ASSUME TypeOK, NEW t \in Threads, StopStep(t)
    PROVE  TypeOK'
<1> USE DEF TypeOK, Threads, System, Http, TimerTask, EventLoop, Nobody,
            Labels, States, Timer, Goto, Move, Locked, Call, Fault, NoCred
<1>1. CASE Done(t)
  BY <1>1 DEF Done
<1>2. CASE Wait(t)
  BY <1>2 DEF Wait
<1>3. CASE StopNotRunning(t)
  BY <1>3 DEF StopNotRunning
<1>4. CASE StopBegin(t)
  <2>1. scanning' \in BOOLEAN
    BY <1>4, Zenon DEF StopBegin, BeginStop
  <2> QED
    BY <1>4, <2>1 DEF StopBegin, BeginStop, Settled, NotRunning, StopTimers,
       DeletedTwice
<1>5. CASE DeinitBegin(t)
  <2>1. scanning' \in BOOLEAN
    BY <1>5, Zenon DEF DeinitBegin, BeginStop
  <2> QED
    BY <1>5, <2>1 DEF DeinitBegin, BeginStop, Settled, NotRunning, StopTimers,
       DeletedTwice
<1>6. ASSUME NEW k \in StopTasks, StopUnregister(t, k)
      PROVE  TypeOK'
  <2>1. handlers' \in BOOLEAN
    BY <1>6, Zenon DEF StopUnregister, Unregister
  <2>2. pc' \in [Threads -> Labels]
    BY <1>6 DEF StopUnregister
  <2> QED
    BY <1>6, <2>1, <2>2 DEF StopUnregister, Release
<1>7. CASE DeinitUnregister(t)
  <2>1. handlers' \in BOOLEAN
    BY <1>7, Zenon DEF DeinitUnregister, Unregister
  <2> QED
    BY <1>7, <2>1 DEF DeinitUnregister, Unregister, Release
<1>8. CASE CleanUp(t)
  <2>1. endpoints' \in BOOLEAN
    BY <1>8, Zenon DEF CleanUp
  <2> QED
    BY <1>8, <2>1 DEF CleanUp
<1>9. CASE StopTaskIdle(t)
  BY <1>9 DEF StopTaskIdle, EndSession
<1>10. CASE DeinitStopped(t)
  BY <1>10 DEF DeinitStopped, EndSession
<1>11. CASE DeinitIdle(t)
  BY <1>11 DEF DeinitIdle, Settled, NotRunning
<1>12. CASE EmitEnd(t)
  BY <1>12 DEF EmitEnd
<1>13. CASE EmitDeinit(t)
  BY <1>13 DEF EmitDeinit
<1> QED
  BY <1>1, <1>2, <1>3, <1>4, <1>5, <1>6, <1>7, <1>8, <1>9, <1>10, <1>11, <1>12,
     <1>13 DEF StopStep

\* The requests of a client keep the types.
LEMMA TypeRequest ==
    ASSUME TypeOK, RequestStep
    PROVE  TypeOK'
<1> USE DEF TypeOK, Threads, System, Http, TimerTask, EventLoop, Nobody,
            Labels, States, Timer, Goto, Move, Locked, Call, Fault, NoCred
<1>1. ASSUME NEW c \in Creds, SetConfig(c)
      PROVE  TypeOK'
  BY <1>1 DEF SetConfig, Request
<1>2. CASE ApplyRefused
  BY <1>2 DEF ApplyRefused, Apply, Request
<1>3. CASE ApplyTimerFails
  BY <1>3 DEF ApplyTimerFails, Apply, Request, WriteConfig
<1>4. CASE ApplyConfig
  BY <1>4 DEF ApplyConfig, Apply, Request, ArmConnect, WriteConfig
<1>5. CASE GetStatus
  BY <1>5 DEF GetStatus, Request
<1>6. ASSUME NEW blocking \in BOOLEAN, ScanStart(blocking)
      PROVE  TypeOK'
  BY <1>6 DEF ScanStart, ScanRequest, Request
<1>7. CASE ScanStartFails
  BY <1>7 DEF ScanStartFails, ScanRequest, Request
<1> QED
  BY <1>1, <1>2, <1>3, <1>4, <1>5, <1>6, <1>7 DEF RequestStep

\* The handling of an event keep the types.
LEMMA TypeEvent ==
    ASSUME TypeOK, HandleEvent
    PROVE  TypeOK'
<1> USE DEF TypeOK, Threads, System, Http, TimerTask, EventLoop, Nobody,
            Labels, States, Timer, Goto, Move, Locked, Call, Fault, NoCred
<1>1. CASE HandleNothing
  BY <1>1 DEF HandleNothing, EventHandled, LeaveLoop
<1>2. CASE HandleScanDone
  <2>1. scanning' \in BOOLEAN
    BY <1>2, Zenon DEF HandleScanDone, ScanOver
  <2> QED
    BY <1>2, <2>1 DEF HandleScanDone, ScanOver, EventHandled, LeaveLoop
<1>3. CASE HandleConnecting
  BY <1>3 DEF HandleConnecting, Listening, Connect, EventHandled, LeaveLoop
<1>4. CASE HandleGotIp
  BY <1>4 DEF HandleGotIp, Listening, Succeed, EventReported
<1>5. CASE HandleRejected
  BY <1>5 DEF HandleRejected, Listening, EventReported
<1> QED
  BY <1>1, <1>2, <1>3, <1>4, <1>5 DEF HandleEvent

\* Every step of the manager keeps the types.
LEMMA TypeStep ==
    ASSUME TypeOK, [Next]_vars
    PROVE  TypeOK'
<1> USE DEF TypeOK, Threads, System, Http, TimerTask, EventLoop, Nobody,
            Labels, States, Timer, Goto, Move, Locked, Call, Fault, NoCred
<1>1. ASSUME NEW t \in Threads, Callback(t)
      PROVE  TypeOK'
  BY <1>1 DEF Callback
<1>2. ASSUME NEW t \in Threads, Relock(t)
      PROVE  TypeOK'
  BY <1>2 DEF Relock, LeaveLoop
<1>3. CASE ScanWait
  BY <1>3 DEF ScanWait
<1>4. CASE AutostopFires
  BY <1>4 DEF AutostopFires
<1>5. CASE ConnectFires
  BY <1>5 DEF ConnectFires
<1>6. CASE ConnectCallback
  BY <1>6 DEF ConnectCallback, Connect
<1>7. CASE DriverGotIp
  BY <1>7 DEF DriverGotIp, DriverLink, Post, Events
<1>8. CASE DriverRejected
  BY <1>8 DEF DriverRejected, DriverLink, Post, Events
<1>9. CASE DriverDropped
  BY <1>9 DEF DriverDropped, DriverLink, Post, Events
<1>10. ASSUME NEW op \in {"start", "scan"},
              NEW e \in {"STA_START", "SCAN_DONE"}, DriverDone(op, e)
      PROVE  TypeOK'
  BY <1>10 DEF DriverDone, Post, Events
<1>11. CASE Dispatch
  <2>1. queue' \in Seq(Events) /\ event' \in Events \cup {"none"}
    BY <1>11 DEF Dispatch
  <2>2. /\ pc' \in [Threads -> Labels]
        /\ loopLock' \in Threads \cup {Nobody}
    BY <1>11 DEF Dispatch
  <2> QED
    BY <1>11, <2>1, <2>2 DEF Dispatch
<1>12. CASE UNCHANGED vars
  BY <1>12
<1> QED
  BY <1>1, <1>2, <1>3, <1>4, <1>5, <1>6, <1>7, <1>8, <1>9, <1>10, <1>11, <1>12,
     TypeCaller, TypeStart, TypeStop, TypeRequest, TypeEvent DEF Next,
     ThreadStep, TimerStep, DriverStep, DriverOther
\* Every reachable state has the types the module declares.
THEOREM TypeCorrect == Spec => []TypeOK
<1>1. Init => TypeOK
  <2> SUFFICES ASSUME Init PROVE TypeOK
    OBVIOUS
  <2>1. /\ scanning \in BOOLEAN
        /\ endpoints \in BOOLEAN
        /\ handlers \in BOOLEAN
    BY Zenon DEF Init
  <2>2. queue \in Seq(Events)
    BY DEF Init
  <2> QED
    BY <2>1, <2>2 DEF Init, TypeOK, Threads, System, Nobody, NoCred, Labels,
       States, Timer
<1>2. TypeOK /\ [Next]_vars => TypeOK'
  BY TypeStep
<1> QED
  BY <1>1, <1>2, PTL DEF Spec

-----------------------------------------------------------------------------
Unreg(t) == pc[t] \in {"unreg_stop", "unreg_deinit"}

\* StartExclusive and StopExclusive with what keeps them: a stop that removes
\* the handlers has the lock, after that no handler is registered, and an event
\* that is being handled holds the loop's mutex, so the removal waits for it.
Exclusion ==
    /\ \A t, u \in Threads : InStart(t) /\ InStart(u) => t = u
    /\ \A t \in Threads : InStart(t) => ctx = "live" /\ st = "STARTING"
    /\ "wifi" \notin MayFail /\ ctx = "live" /\ st = "STARTING" =>
          \E t \in Threads : InStart(t)
    /\ StopExclusive
    /\ \A t \in Threads : Unreg(t) => lock = t
    /\ \A t \in Threads : pc[t] \in {"cleanup", "cleaned"} => ~handlers
    /\ pc[EventLoop] = "handle" => loopLock = EventLoop /\ handlers

Live(timer) == timer \in {"idle", "armed"}

NoTimers == ~Live(connectTimer) /\ ~Live(autostopTimer)

HasTimers ==
    Live(connectTimer) /\ ("no_auto_stop" \notin caps => Live(autostopTimer))

\* What there is of the service at each stage of a start and of a stop.
Stages ==
    /\ ServiceWhole
    /\ NothingLeft
    /\ st \in {"IDLE", "STARTING", "STOPPING"} => ~scanning
    /\ \A t \in Threads :
          /\ pc[t] \in {"service", "undo", "failed"} =>
                pcomm # "live" /\ ~endpoints /\ ~handlers
          /\ pc[t] = "register" => pcomm = "live" /\ endpoints /\ ~handlers
          /\ pc[t] = "started" => pcomm = "live" /\ endpoints /\ handlers
          /\ pc[t] \in {"service", "register", "started"} => HasTimers
          /\ Unreg(t) \/ pc[t] = "cleanup" => pcomm = "live"
          /\ pc[t] = "cleaned" => pcomm # "live" /\ ~endpoints
          /\ InStop(t) \/ pc[t] = "failed" => NoTimers

\* The calls of an application task keep Exclusion.
LEMMA ExclusionCaller ==
    ASSUME TypeOK, Exclusion, "early_request" \notin Races,
           NEW t \in Callers, CallerCalls(t)
    PROVE  Exclusion'
<1> USE DEF TypeOK, Exclusion, StopExclusive, InStart, InStop, Unreg, Threads,
            System, Http, TimerTask, EventLoop, Nobody, Goto, Move, Locked,
            Call
<1>1. CASE InitManager(t)
  BY <1>1, ThreadsAssumption DEF InitManager
<1>2. CASE InitFails(t)
  BY <1>2, ThreadsAssumption DEF InitFails
<1>3. CASE TouchFreed(t)
  BY <1>3, ThreadsAssumption DEF TouchFreed
<1>4. ASSUME NEW what \in {"no_auto_stop", "app_info", "endpoint"},
             Configure(t, what)
      PROVE  Exclusion'
  BY <1>4, ThreadsAssumption DEF Configure
<1>5. CASE UseEndpoint(t)
  BY <1>5, ThreadsAssumption DEF UseEndpoint, InSession
<1>6. ASSUME NEW m \in Modes, StartProvisioning(t, m)
      PROVE  Exclusion'
  BY <1>6, ThreadsAssumption DEF StartProvisioning, MayStart, BlankStation,
     WriteConfig, Disconnect, CreateTimers
<1>7. ASSUME NEW m \in Modes, NEW what \in {"pop", "timer"},
             StartPrepareFails(t, m, what)
      PROVE  Exclusion'
  BY <1>7, ThreadsAssumption DEF StartPrepareFails, MayStart, RestoreConfig,
     WriteConfig, Disconnect, Delete
<1>8. CASE StartWifiFails(t)
  BY <1>8, ThreadsAssumption DEF StartWifiFails, MayStart, WriteConfig, Fails
<1>9. CASE CallStop(t)
  BY <1>9, ThreadsAssumption DEF CallStop
<1>10. CASE ResetNull(t)
  BY <1>10, ThreadsAssumption DEF ResetNull
<1>11. CASE Reset(t)
  BY <1>11, ThreadsAssumption DEF Reset, Finished
<1> QED
  BY <1>1, <1>2, <1>3, <1>4, <1>5, <1>6, <1>7, <1>8, <1>9, <1>10, <1>11 DEF
     CallerCalls

\* The steps of a start keep Exclusion.
LEMMA ExclusionStart ==
    ASSUME TypeOK, Exclusion, "early_request" \notin Races,
           NEW t \in Threads, StartStep(t)
    PROVE  Exclusion'
<1> USE DEF TypeOK, Exclusion, StopExclusive, InStart, InStop, Unreg, Threads,
            System, Http, TimerTask, EventLoop, Nobody, Goto, Move, Locked,
            Call
<1>1. CASE StartService(t)
  BY <1>1, ThreadsAssumption DEF StartService
<1>2. CASE StartRegister(t)
  BY <1>2, ThreadsAssumption DEF StartRegister, Register
<1>3. CASE StartServiceFails(t)
  BY <1>3, ThreadsAssumption DEF StartServiceFails
<1>4. CASE StartUndo(t)
  BY <1>4, ThreadsAssumption DEF StartUndo, DeleteTimers, DeletedTwice, Delete
<1>5. CASE StartFailed(t)
  BY <1>5, ThreadsAssumption DEF StartFailed, RestoreConfig, WriteConfig
<1>6. CASE Started(t)
  BY <1>6, ThreadsAssumption DEF Started
<1> QED
  BY <1>1, <1>2, <1>3, <1>4, <1>5, <1>6 DEF StartStep

\* The steps of a stop and of a de-initialisation keep Exclusion.
LEMMA ExclusionStop ==
    ASSUME TypeOK, Exclusion, "early_request" \notin Races,
           NEW t \in Threads, StopStep(t)
    PROVE  Exclusion'
<1> USE DEF TypeOK, Exclusion, StopExclusive, InStart, InStop, Unreg, Threads,
            System, Http, TimerTask, EventLoop, Nobody, Goto, Move, Locked,
            Call
<1>1. CASE Done(t)
  BY <1>1, ThreadsAssumption DEF Done
<1>2. CASE Wait(t)
  BY <1>2, ThreadsAssumption DEF Wait
<1>3. CASE StopNotRunning(t)
  BY <1>3, ThreadsAssumption DEF StopNotRunning
<1>4. CASE StopBegin(t)
  BY <1>4, ThreadsAssumption DEF StopBegin, BeginStop, Settled, NotRunning,
     StopTimers, DeletedTwice
<1>5. CASE DeinitBegin(t)
  BY <1>5, ThreadsAssumption DEF DeinitBegin, BeginStop, Settled, NotRunning,
     StopTimers, DeletedTwice
<1>6. ASSUME NEW k \in StopTasks, StopUnregister(t, k)
      PROVE  Exclusion'
  <2>1. /\ pc' = [pc EXCEPT ![t] = "idle", ![k] = "cleanup"]
        /\ t # k /\ Unreg(t) /\ ~InStart(t) /\ ~InStart(k)
        /\ ctx = "live" /\ st = "STOPPING"
        /\ UNCHANGED <<loopLock, ctx, st>>
    BY <1>6 DEF StopUnregister
  <2>2. ~handlers' /\ loopLock = Nobody
    BY <1>6, Zenon DEF StopUnregister, Unregister
  <2>3. \A u \in Threads : InStop(u)' <=> u = k
    BY <2>1
  <2>4. \A u \in Threads : ~Unreg(u)' /\ ~InStart(u)'
    BY <2>1
  <2>5. pc'[EventLoop] # "handle"
    BY <2>1, <2>2, ThreadsAssumption
  <2>6. StopExclusive'
    BY <2>1, <2>3
  <2> QED
    BY <2>1, <2>2, <2>4, <2>5, <2>6
<1>7. CASE DeinitUnregister(t)
  BY <1>7, ThreadsAssumption DEF DeinitUnregister, Unregister, Release
<1>8. CASE CleanUp(t)
  BY <1>8, ThreadsAssumption DEF CleanUp
<1>9. CASE StopTaskIdle(t)
  BY <1>9, ThreadsAssumption DEF StopTaskIdle, EndSession
<1>10. CASE DeinitStopped(t)
  BY <1>10, ThreadsAssumption DEF DeinitStopped, EndSession
<1>11. CASE DeinitIdle(t)
  BY <1>11, ThreadsAssumption DEF DeinitIdle, Settled, NotRunning
<1>12. CASE EmitEnd(t)
  BY <1>12, ThreadsAssumption DEF EmitEnd
<1>13. CASE EmitDeinit(t)
  BY <1>13, ThreadsAssumption DEF EmitDeinit
<1> QED
  BY <1>1, <1>2, <1>3, <1>4, <1>5, <1>6, <1>7, <1>8, <1>9, <1>10, <1>11, <1>12,
     <1>13 DEF StopStep

\* The requests of a client keep Exclusion.
LEMMA ExclusionRequest ==
    ASSUME TypeOK, Exclusion, "early_request" \notin Races, RequestStep
    PROVE  Exclusion'
<1> USE DEF TypeOK, Exclusion, StopExclusive, InStart, InStop, Unreg, Threads,
            System, Http, TimerTask, EventLoop, Nobody, Goto, Move, Locked,
            Call
<1>1. ASSUME NEW c \in Creds, SetConfig(c)
      PROVE  Exclusion'
  BY <1>1, ThreadsAssumption DEF SetConfig, Request
<1>2. CASE ApplyRefused
  BY <1>2, ThreadsAssumption DEF ApplyRefused, Apply, Request
<1>3. CASE ApplyTimerFails
  BY <1>3, ThreadsAssumption DEF ApplyTimerFails, Apply, Request, WriteConfig
<1>4. CASE ApplyConfig
  BY <1>4, ThreadsAssumption DEF ApplyConfig, Apply, Request, ArmConnect,
     WriteConfig
<1>5. CASE GetStatus
  BY <1>5, ThreadsAssumption DEF GetStatus, Request
<1>6. ASSUME NEW blocking \in BOOLEAN, ScanStart(blocking)
      PROVE  Exclusion'
  BY <1>6, ThreadsAssumption DEF ScanStart, ScanRequest, Request
<1>7. CASE ScanStartFails
  BY <1>7, ThreadsAssumption DEF ScanStartFails, ScanRequest, Request
<1> QED
  BY <1>1, <1>2, <1>3, <1>4, <1>5, <1>6, <1>7 DEF RequestStep

\* The handling of an event keep Exclusion.
LEMMA ExclusionEvent ==
    ASSUME TypeOK, Exclusion, "early_request" \notin Races, HandleEvent
    PROVE  Exclusion'
<1> USE DEF TypeOK, Exclusion, StopExclusive, InStart, InStop, Unreg, Threads,
            System, Http, TimerTask, EventLoop, Nobody, Goto, Move, Locked,
            Call
<1>1. CASE HandleNothing
  BY <1>1, ThreadsAssumption DEF HandleNothing, EventHandled, LeaveLoop
<1>2. CASE HandleScanDone
  BY <1>2, ThreadsAssumption DEF HandleScanDone, ScanOver, EventHandled,
     LeaveLoop
<1>3. CASE HandleConnecting
  BY <1>3, ThreadsAssumption DEF HandleConnecting, Listening, Connect,
     EventHandled, LeaveLoop
<1>4. CASE HandleGotIp
  BY <1>4, ThreadsAssumption DEF HandleGotIp, Listening, Succeed, EventReported
<1>5. CASE HandleRejected
  BY <1>5, ThreadsAssumption DEF HandleRejected, Listening, EventReported
<1> QED
  BY <1>1, <1>2, <1>3, <1>4, <1>5 DEF HandleEvent

\* Every step keeps a start and a tear-down to one thread.
LEMMA ExclusionStep ==
    ASSUME TypeOK, Exclusion, "early_request" \notin Races, [Next]_vars
    PROVE  Exclusion'
<1> USE DEF TypeOK, Exclusion, StopExclusive, InStart, InStop, Unreg, Threads,
            System, Http, TimerTask, EventLoop, Nobody, Goto, Move, Locked,
            Call
<1>1. ASSUME NEW t \in Threads, Callback(t)
      PROVE  Exclusion'
  BY <1>1, ThreadsAssumption DEF Callback
<1>2. ASSUME NEW t \in Threads, Relock(t)
      PROVE  Exclusion'
  BY <1>2, ThreadsAssumption DEF Relock, LeaveLoop
<1>3. CASE ScanWait
  BY <1>3, ThreadsAssumption DEF ScanWait
<1>4. CASE AutostopFires
  BY <1>4, ThreadsAssumption DEF AutostopFires
<1>5. CASE ConnectFires
  BY <1>5, ThreadsAssumption DEF ConnectFires
<1>6. CASE ConnectCallback
  BY <1>6, ThreadsAssumption DEF ConnectCallback, Connect
<1>7. CASE DriverGotIp
  BY <1>7, ThreadsAssumption DEF DriverGotIp, DriverLink, Post, Events
<1>8. CASE DriverRejected
  BY <1>8, ThreadsAssumption DEF DriverRejected, DriverLink, Post, Events
<1>9. CASE DriverDropped
  BY <1>9, ThreadsAssumption DEF DriverDropped, DriverLink, Post, Events
<1>10. ASSUME NEW op \in {"start", "scan"},
              NEW e \in {"STA_START", "SCAN_DONE"}, DriverDone(op, e)
      PROVE  Exclusion'
  BY <1>10, ThreadsAssumption DEF DriverDone, Post, Events
<1>11. CASE Dispatch
  BY <1>11, ThreadsAssumption DEF Dispatch, Events
<1>12. CASE UNCHANGED vars
  BY <1>12, ThreadsAssumption
<1> QED
  BY <1>1, <1>2, <1>3, <1>4, <1>5, <1>6, <1>7, <1>8, <1>9, <1>10, <1>11, <1>12,
     ExclusionCaller, ExclusionStart, ExclusionStop, ExclusionRequest,
     ExclusionEvent DEF Next, ThreadStep, TimerStep, DriverStep, DriverOther
\* Both halves of start_provisioning's and stop_service's exclusion.
LEMMA ExclusionCorrect ==
    ASSUME "early_request" \notin Races
    PROVE  Spec => []Exclusion
<1>1. Init => Exclusion
  BY DEF Init, Exclusion, StopExclusive, InStart, InStop, Unreg, Threads,
     System, EventLoop
<1>2. TypeOK /\ Exclusion /\ [Next]_vars => Exclusion'
  BY ExclusionStep
<1> QED
  BY <1>1, <1>2, TypeCorrect, PTL DEF Spec

\* A tear-down is one thread's own: as long as no request is served before
\* start_provisioning has returned, only one thread at a time is between
\* STOPPING and IDLE, and STOPPING is never left without one (542-632).
THEOREM StopIsExclusive ==
    ASSUME "early_request" \notin Races
    PROVE  Spec => []StopExclusive
<1>1. Exclusion => StopExclusive
  BY DEF Exclusion
<1> QED
  BY <1>1, ExclusionCorrect, PTL

\* The same for a start, provided that no esp_wifi call fails in it: the early
\* return after such a failure leaves STARTING behind (manager.c:1421-1457).
THEOREM StartIsExclusive ==
    ASSUME "early_request" \notin Races, "wifi" \notin MayFail
    PROVE  Spec => []StartExclusive
<1>1. Exclusion => StartExclusive
  BY DEF Exclusion, StartExclusive
<1> QED
  BY <1>1, ExclusionCorrect, PTL

-----------------------------------------------------------------------------
\* The calls of an application task keep Stages.
LEMMA StagesCaller ==
    ASSUME TypeOK, Exclusion, Stages, "early_request" \notin Races,
           "late_scan" \notin Races, NEW t \in Callers, CallerCalls(t)
    PROVE  Stages'
<1> USE DEF TypeOK, Exclusion, StopExclusive, Stages, ServiceWhole,
            NothingLeft, NoTimers, HasTimers, Live, InStart, InStop, Unreg,
            Active, Timer, Threads, System, Http, TimerTask, EventLoop, Nobody,
            Goto, Move, Locked, Call
<1>1. CASE InitManager(t)
  BY <1>1, ThreadsAssumption DEF InitManager
<1>2. CASE InitFails(t)
  BY <1>2, ThreadsAssumption DEF InitFails
<1>3. CASE TouchFreed(t)
  BY <1>3, ThreadsAssumption DEF TouchFreed
<1>4. ASSUME NEW what \in {"no_auto_stop", "app_info", "endpoint"},
             Configure(t, what)
      PROVE  Stages'
  BY <1>4, ThreadsAssumption DEF Configure
<1>5. CASE UseEndpoint(t)
  BY <1>5, ThreadsAssumption DEF UseEndpoint, InSession
<1>6. ASSUME NEW m \in Modes, StartProvisioning(t, m)
      PROVE  Stages'
  BY <1>6, ThreadsAssumption DEF StartProvisioning, MayStart, BlankStation,
     WriteConfig, Disconnect, CreateTimers
<1>7. ASSUME NEW m \in Modes, NEW what \in {"pop", "timer"},
             StartPrepareFails(t, m, what)
      PROVE  Stages'
  BY <1>7, ThreadsAssumption DEF StartPrepareFails, MayStart, RestoreConfig,
     WriteConfig, Disconnect, Delete
<1>8. CASE StartWifiFails(t)
  BY <1>8, ThreadsAssumption DEF StartWifiFails, MayStart, WriteConfig
<1>9. CASE CallStop(t)
  BY <1>9, ThreadsAssumption DEF CallStop
<1>10. CASE ResetNull(t)
  BY <1>10, ThreadsAssumption DEF ResetNull
<1>11. CASE Reset(t)
  BY <1>11, ThreadsAssumption DEF Reset, Finished
<1> QED
  BY <1>1, <1>2, <1>3, <1>4, <1>5, <1>6, <1>7, <1>8, <1>9, <1>10, <1>11 DEF
     CallerCalls

\* The steps of a start keep Stages.
LEMMA StagesStart ==
    ASSUME TypeOK, Exclusion, Stages, "early_request" \notin Races,
           "late_scan" \notin Races, NEW t \in Threads, StartStep(t)
    PROVE  Stages'
<1> USE DEF TypeOK, Exclusion, StopExclusive, Stages, ServiceWhole,
            NothingLeft, NoTimers, HasTimers, Live, InStart, InStop, Unreg,
            Active, Timer, Threads, System, Http, TimerTask, EventLoop, Nobody,
            Goto, Move, Locked, Call
<1>1. CASE StartService(t)
  BY <1>1, ThreadsAssumption DEF StartService
<1>2. CASE StartRegister(t)
  BY <1>2, ThreadsAssumption DEF StartRegister, Register
<1>3. CASE StartServiceFails(t)
  BY <1>3, ThreadsAssumption DEF StartServiceFails
<1>4. CASE StartUndo(t)
  BY <1>4, ThreadsAssumption DEF StartUndo, DeleteTimers, DeletedTwice, Delete
<1>5. CASE StartFailed(t)
  BY <1>5, ThreadsAssumption DEF StartFailed, RestoreConfig, WriteConfig
<1>6. CASE Started(t)
  BY <1>6, ThreadsAssumption DEF Started
<1> QED
  BY <1>1, <1>2, <1>3, <1>4, <1>5, <1>6 DEF StartStep

\* The steps of a stop and of a de-initialisation keep Stages.
LEMMA StagesStop ==
    ASSUME TypeOK, Exclusion, Stages, "early_request" \notin Races,
           "late_scan" \notin Races, NEW t \in Threads, StopStep(t)
    PROVE  Stages'
<1> USE DEF TypeOK, Exclusion, StopExclusive, Stages, ServiceWhole,
            NothingLeft, NoTimers, HasTimers, Live, InStart, InStop, Unreg,
            Active, Timer, Threads, System, Http, TimerTask, EventLoop, Nobody,
            Goto, Move, Locked, Call
<1>1. CASE Done(t)
  BY <1>1, ThreadsAssumption DEF Done
<1>2. CASE Wait(t)
  BY <1>2, ThreadsAssumption DEF Wait
<1>3. CASE StopNotRunning(t)
  BY <1>3, ThreadsAssumption DEF StopNotRunning
<1>4. CASE StopBegin(t)
  <2>1. /\ ctx = "live" /\ st \in Active
        /\ \A u \in Threads : ~InStart(u) /\ ~InStop(u)
    BY <1>4 DEF StopBegin, BeginStop, Settled, NotRunning, States
  <2>2. /\ pc' = [pc EXCEPT ![t] = "unreg_stop"]
        /\ st' = "STOPPING" /\ NoTimers'
        /\ UNCHANGED <<ctx, caps, pcomm, endpoints, handlers>>
    BY <1>4 DEF StopBegin, BeginStop, StopTimers
  <2>3. ~scanning'
    BY <1>4, Zenon DEF StopBegin, BeginStop
  <2>4. \A u \in Threads \ {t} : ~InStart(u)' /\ ~InStop(u)'
    BY <2>1, <2>2
  <2>5. InStop(t)' /\ Unreg(t)' /\ ~InStart(t)'
    BY <2>2
  <2> QED
    BY <2>1, <2>2, <2>3, <2>4, <2>5
<1>5. CASE DeinitBegin(t)
  <2>1. /\ ctx = "live" /\ st \in Active
        /\ \A u \in Threads : ~InStart(u) /\ ~InStop(u)
    BY <1>5 DEF DeinitBegin, BeginStop, Settled, NotRunning, States
  <2>2. /\ pc' = [pc EXCEPT ![t] = "unreg_deinit"]
        /\ st' = "STOPPING" /\ NoTimers'
        /\ UNCHANGED <<ctx, caps, pcomm, endpoints, handlers>>
    BY <1>5 DEF DeinitBegin, BeginStop, StopTimers
  <2>3. ~scanning'
    BY <1>5, Zenon DEF DeinitBegin, BeginStop
  <2>4. \A u \in Threads \ {t} : ~InStart(u)' /\ ~InStop(u)'
    BY <2>1, <2>2
  <2>5. InStop(t)' /\ Unreg(t)' /\ ~InStart(t)'
    BY <2>2
  <2> QED
    BY <2>1, <2>2, <2>3, <2>4, <2>5
<1>6. ASSUME NEW k \in StopTasks, StopUnregister(t, k)
      PROVE  Stages'
  BY <1>6, ThreadsAssumption DEF StopUnregister, Unregister, Release
<1>7. CASE DeinitUnregister(t)
  BY <1>7, ThreadsAssumption DEF DeinitUnregister, Unregister, Release
<1>8. CASE CleanUp(t)
  BY <1>8, ThreadsAssumption DEF CleanUp
<1>9. CASE StopTaskIdle(t)
  BY <1>9, ThreadsAssumption DEF StopTaskIdle, EndSession
<1>10. CASE DeinitStopped(t)
  BY <1>10, ThreadsAssumption DEF DeinitStopped, EndSession
<1>11. CASE DeinitIdle(t)
  BY <1>11, ThreadsAssumption DEF DeinitIdle, Settled, NotRunning
<1>12. CASE EmitEnd(t)
  BY <1>12, ThreadsAssumption DEF EmitEnd
<1>13. CASE EmitDeinit(t)
  BY <1>13, ThreadsAssumption DEF EmitDeinit
<1> QED
  BY <1>1, <1>2, <1>3, <1>4, <1>5, <1>6, <1>7, <1>8, <1>9, <1>10, <1>11, <1>12,
     <1>13 DEF StopStep

\* The requests of a client keep Stages.
LEMMA StagesRequest ==
    ASSUME TypeOK, Exclusion, Stages, "early_request" \notin Races,
           "late_scan" \notin Races, RequestStep
    PROVE  Stages'
<1> USE DEF TypeOK, Exclusion, StopExclusive, Stages, ServiceWhole,
            NothingLeft, NoTimers, HasTimers, Live, InStart, InStop, Unreg,
            Active, Timer, Threads, System, Http, TimerTask, EventLoop, Nobody,
            Goto, Move, Locked, Call
<1>1. ASSUME NEW c \in Creds, SetConfig(c)
      PROVE  Stages'
  BY <1>1, ThreadsAssumption DEF SetConfig, Request
<1>2. CASE ApplyRefused
  BY <1>2, ThreadsAssumption DEF ApplyRefused, Apply, Request
<1>3. CASE ApplyTimerFails
  BY <1>3, ThreadsAssumption DEF ApplyTimerFails, Apply, Request, WriteConfig
<1>4. CASE ApplyConfig
  BY <1>4, ThreadsAssumption DEF ApplyConfig, Apply, Request, ArmConnect,
     WriteConfig
<1>5. CASE GetStatus
  BY <1>5, ThreadsAssumption DEF GetStatus, Request
<1>6. ASSUME NEW blocking \in BOOLEAN, ScanStart(blocking)
      PROVE  Stages'
  BY <1>6, ThreadsAssumption DEF ScanStart, ScanRequest, Request
<1>7. CASE ScanStartFails
  BY <1>7, ThreadsAssumption DEF ScanStartFails, ScanRequest, Request
<1> QED
  BY <1>1, <1>2, <1>3, <1>4, <1>5, <1>6, <1>7 DEF RequestStep

\* The handling of an event keep Stages.
LEMMA StagesEvent ==
    ASSUME TypeOK, Exclusion, Stages, "early_request" \notin Races,
           "late_scan" \notin Races, HandleEvent
    PROVE  Stages'
<1> USE DEF TypeOK, Exclusion, StopExclusive, Stages, ServiceWhole,
            NothingLeft, NoTimers, HasTimers, Live, InStart, InStop, Unreg,
            Active, Timer, Threads, System, Http, TimerTask, EventLoop, Nobody,
            Goto, Move, Locked, Call
<1>1. CASE HandleNothing
  BY <1>1, ThreadsAssumption DEF HandleNothing, EventHandled, LeaveLoop
<1>2. CASE HandleScanDone
  BY <1>2, ThreadsAssumption DEF HandleScanDone, ScanOver, EventHandled,
     LeaveLoop
<1>3. CASE HandleConnecting
  BY <1>3, ThreadsAssumption DEF HandleConnecting, Listening, Connect,
     EventHandled, LeaveLoop
<1>4. CASE HandleGotIp
  <2>1. st \in Active /\ \A u \in Threads : ~InStart(u) /\ ~InStop(u)
    BY <1>4, ThreadsAssumption DEF HandleGotIp, Listening, States
  <2> QED
    BY <1>4, <2>1, ThreadsAssumption DEF HandleGotIp, EventReported, Succeed
<1>5. CASE HandleRejected
  <2>1. st \in Active /\ \A u \in Threads : ~InStart(u) /\ ~InStop(u)
    BY <1>5, ThreadsAssumption DEF HandleRejected, Listening, States
  <2> QED
    BY <1>5, <2>1, ThreadsAssumption DEF HandleRejected, EventReported
<1> QED
  BY <1>1, <1>2, <1>3, <1>4, <1>5 DEF HandleEvent

\* Every step keeps what there is of the service in line with its stage.
LEMMA StagesStep ==
    ASSUME TypeOK, Exclusion, Stages, "early_request" \notin Races,
           "late_scan" \notin Races, [Next]_vars
    PROVE  Stages'
<1> USE DEF TypeOK, Exclusion, StopExclusive, Stages, ServiceWhole,
            NothingLeft, NoTimers, HasTimers, Live, InStart, InStop, Unreg,
            Active, Timer, Threads, System, Http, TimerTask, EventLoop, Nobody,
            Goto, Move, Locked, Call
<1>1. ASSUME NEW t \in Threads, Callback(t)
      PROVE  Stages'
  BY <1>1, ThreadsAssumption DEF Callback
<1>2. ASSUME NEW t \in Threads, Relock(t)
      PROVE  Stages'
  BY <1>2, ThreadsAssumption DEF Relock, LeaveLoop
<1>3. CASE ScanWait
  BY <1>3, ThreadsAssumption DEF ScanWait
<1>4. CASE AutostopFires
  BY <1>4, ThreadsAssumption DEF AutostopFires
<1>5. CASE ConnectFires
  BY <1>5, ThreadsAssumption DEF ConnectFires
<1>6. CASE ConnectCallback
  BY <1>6, ThreadsAssumption DEF ConnectCallback, Connect
<1>7. CASE DriverGotIp
  BY <1>7, ThreadsAssumption DEF DriverGotIp, DriverLink, Post, Events
<1>8. CASE DriverRejected
  BY <1>8, ThreadsAssumption DEF DriverRejected, DriverLink, Post, Events
<1>9. CASE DriverDropped
  BY <1>9, ThreadsAssumption DEF DriverDropped, DriverLink, Post, Events
<1>10. ASSUME NEW op \in {"start", "scan"},
              NEW e \in {"STA_START", "SCAN_DONE"}, DriverDone(op, e)
      PROVE  Stages'
  BY <1>10, ThreadsAssumption DEF DriverDone, Post, Events
<1>11. CASE Dispatch
  BY <1>11, ThreadsAssumption DEF Dispatch, Events
<1>12. CASE UNCHANGED vars
  BY <1>12, ThreadsAssumption
<1> QED
  BY <1>1, <1>2, <1>3, <1>4, <1>5, <1>6, <1>7, <1>8, <1>9, <1>10, <1>11, <1>12,
     StagesCaller, StagesStart, StagesStop, StagesRequest, StagesEvent DEF
     Next, ThreadStep, TimerStep, DriverStep, DriverOther
\* Hence Stages, in every reachable state.
LEMMA StagesCorrect ==
    ASSUME "early_request" \notin Races, "late_scan" \notin Races
    PROVE  Spec => []Stages
<1>1. Init => Stages
  <2> SUFFICES ASSUME Init PROVE Stages
    OBVIOUS
  <2>1. ~scanning /\ ~endpoints /\ ~handlers
    BY Zenon DEF Init
  <2> QED
    BY <2>1 DEF Init, Stages, ServiceWhole, NothingLeft, NoTimers, Live,
       InStop, Unreg
<1>2. TypeOK /\ Exclusion /\ Stages /\ [Next]_vars => Stages'
  BY StagesStep
<1> QED
  BY <1>1, <1>2, TypeCorrect, ExclusionCorrect, PTL DEF Spec

\* A running session has all that a request or an event handler relies on, as
\* long as requests are served only between start_provisioning's return and the
\* stop (manager.c:433-632).
THEOREM ServiceIsWhole ==
    ASSUME "early_request" \notin Races, "late_scan" \notin Races
    PROVE  Spec => []ServiceWhole
<1>1. Stages => ServiceWhole
  BY DEF Stages
<1> QED
  BY <1>1, StagesCorrect, PTL

\* With no session nothing of one is left, under the same conditions: a failed
\* start, a stop and a deinit all take the whole of it down (manager.c:472-632).
THEOREM NothingIsLeft ==
    ASSUME "early_request" \notin Races, "late_scan" \notin Races
    PROVE  Spec => []NothingLeft
<1>1. Stages => NothingLeft
  BY DEF Stages
<1> QED
  BY <1>1, StagesCorrect, PTL

\* While the event loop is in the handler there is a session, and none that is
\* being stopped, unless the lock is held.
LEMMA EventMeetsSession ==
    ASSUME TypeOK, Exclusion, Stages
    PROVE  EventInSession
<1> SUFFICES ASSUME pc[EventLoop] = "handle", lock = Nobody
             PROVE  ctx = "live" /\ st \notin {"IDLE", "STOPPING"}
  BY DEF EventInSession
<1>1. handlers
  BY DEF Exclusion
<1>2. ctx = "live" /\ st # "IDLE"
  BY <1>1 DEF Stages, NothingLeft
<1>3. ASSUME st = "STOPPING" PROVE FALSE
  <2>1. PICK t \in Threads : InStop(t)
    BY <1>2, <1>3 DEF Exclusion, StopExclusive
  <2>2. pc[t] \notin {"cleanup", "cleaned"}
    BY <1>1 DEF Exclusion
  <2>3. lock = t
    BY <2>1, <2>2 DEF InStop, Unreg, Exclusion
  <2> QED
    BY <2>3, ThreadsAssumption DEF Threads, System, Http, TimerTask,
       EventLoop, Nobody
<1> QED
  BY <1>2, <1>3

\* The handler never meets a session other than the one its event was
\* dispatched for (manager.c:806-900), even when a stop begins meanwhile: the
\* stop holds the lock until the loop lets it remove the handler.
THEOREM EventIsInSession ==
    ASSUME "early_request" \notin Races, "late_scan" \notin Races
    PROVE  Spec => []EventInSession
<1>1. TypeOK /\ Exclusion /\ Stages => EventInSession
  BY EventMeetsSession
<1> QED
  BY <1>1, TypeCorrect, ExclusionCorrect, StagesCorrect, PTL

-----------------------------------------------------------------------------
\* The calls of an application task keep LockReleased.
LEMMA LockCaller ==
    ASSUME TypeOK, LockReleased, "scan" \notin MayFail,
           NEW t \in Callers, CallerCalls(t)
    PROVE  LockReleased'
<1> USE DEF TypeOK, LockReleased, Threads, System, Http, TimerTask, EventLoop,
            Nobody, Goto, Move, Locked, Call
<1>1. CASE InitManager(t)
  BY <1>1, ThreadsAssumption DEF InitManager
<1>2. CASE InitFails(t)
  BY <1>2, ThreadsAssumption DEF InitFails
<1>3. CASE TouchFreed(t)
  BY <1>3, ThreadsAssumption DEF TouchFreed
<1>4. ASSUME NEW what \in {"no_auto_stop", "app_info", "endpoint"},
             Configure(t, what)
      PROVE  LockReleased'
  BY <1>4, ThreadsAssumption DEF Configure
<1>5. CASE UseEndpoint(t)
  BY <1>5, ThreadsAssumption DEF UseEndpoint, InSession
<1>6. ASSUME NEW m \in Modes, StartProvisioning(t, m)
      PROVE  LockReleased'
  BY <1>6, ThreadsAssumption DEF StartProvisioning, MayStart, BlankStation,
     WriteConfig, Disconnect, CreateTimers
<1>7. ASSUME NEW m \in Modes, NEW what \in {"pop", "timer"},
             StartPrepareFails(t, m, what)
      PROVE  LockReleased'
  BY <1>7, ThreadsAssumption DEF StartPrepareFails, MayStart, RestoreConfig,
     WriteConfig, Disconnect, Delete
<1>8. CASE StartWifiFails(t)
  BY <1>8, ThreadsAssumption DEF StartWifiFails, MayStart, WriteConfig
<1>9. CASE CallStop(t)
  BY <1>9, ThreadsAssumption DEF CallStop
<1>10. CASE ResetNull(t)
  BY <1>10, ThreadsAssumption DEF ResetNull
<1>11. CASE Reset(t)
  BY <1>11, ThreadsAssumption DEF Reset, Finished
<1> QED
  BY <1>1, <1>2, <1>3, <1>4, <1>5, <1>6, <1>7, <1>8, <1>9, <1>10, <1>11 DEF
     CallerCalls

\* The steps of a start keep LockReleased.
LEMMA LockStart ==
    ASSUME TypeOK, LockReleased, "scan" \notin MayFail,
           NEW t \in Threads, StartStep(t)
    PROVE  LockReleased'
<1> USE DEF TypeOK, LockReleased, Threads, System, Http, TimerTask, EventLoop,
            Nobody, Goto, Move, Locked, Call
<1>1. CASE StartService(t)
  BY <1>1, ThreadsAssumption DEF StartService
<1>2. CASE StartRegister(t)
  BY <1>2, ThreadsAssumption DEF StartRegister, Register
<1>3. CASE StartServiceFails(t)
  BY <1>3, ThreadsAssumption DEF StartServiceFails
<1>4. CASE StartUndo(t)
  BY <1>4, ThreadsAssumption DEF StartUndo, DeleteTimers, DeletedTwice, Delete
<1>5. CASE StartFailed(t)
  BY <1>5, ThreadsAssumption DEF StartFailed, RestoreConfig, WriteConfig
<1>6. CASE Started(t)
  BY <1>6, ThreadsAssumption DEF Started
<1> QED
  BY <1>1, <1>2, <1>3, <1>4, <1>5, <1>6 DEF StartStep

\* The steps of a stop and of a de-initialisation keep LockReleased.
LEMMA LockStop ==
    ASSUME TypeOK, LockReleased, "scan" \notin MayFail,
           NEW t \in Threads, StopStep(t)
    PROVE  LockReleased'
<1> USE DEF TypeOK, LockReleased, Threads, System, Http, TimerTask, EventLoop,
            Nobody, Goto, Move, Locked, Call
<1>1. CASE Done(t)
  BY <1>1, ThreadsAssumption DEF Done
<1>2. CASE Wait(t)
  BY <1>2, ThreadsAssumption DEF Wait
<1>3. CASE StopNotRunning(t)
  BY <1>3, ThreadsAssumption DEF StopNotRunning
<1>4. CASE StopBegin(t)
  BY <1>4, ThreadsAssumption DEF StopBegin, BeginStop, Settled, NotRunning,
     StopTimers, DeletedTwice
<1>5. CASE DeinitBegin(t)
  BY <1>5, ThreadsAssumption DEF DeinitBegin, BeginStop, Settled, NotRunning,
     StopTimers, DeletedTwice
<1>6. ASSUME NEW k \in StopTasks, StopUnregister(t, k)
      PROVE  LockReleased'
  BY <1>6, ThreadsAssumption DEF StopUnregister, Unregister, Release
<1>7. CASE DeinitUnregister(t)
  BY <1>7, ThreadsAssumption DEF DeinitUnregister, Unregister, Release
<1>8. CASE CleanUp(t)
  BY <1>8, ThreadsAssumption DEF CleanUp
<1>9. CASE StopTaskIdle(t)
  BY <1>9, ThreadsAssumption DEF StopTaskIdle, EndSession
<1>10. CASE DeinitStopped(t)
  BY <1>10, ThreadsAssumption DEF DeinitStopped, EndSession
<1>11. CASE DeinitIdle(t)
  BY <1>11, ThreadsAssumption DEF DeinitIdle, Settled, NotRunning
<1>12. CASE EmitEnd(t)
  BY <1>12, ThreadsAssumption DEF EmitEnd
<1>13. CASE EmitDeinit(t)
  BY <1>13, ThreadsAssumption DEF EmitDeinit
<1> QED
  BY <1>1, <1>2, <1>3, <1>4, <1>5, <1>6, <1>7, <1>8, <1>9, <1>10, <1>11, <1>12,
     <1>13 DEF StopStep

\* The requests of a client keep LockReleased.
LEMMA LockRequest ==
    ASSUME TypeOK, LockReleased, "scan" \notin MayFail, RequestStep
    PROVE  LockReleased'
<1> USE DEF TypeOK, LockReleased, Threads, System, Http, TimerTask, EventLoop,
            Nobody, Goto, Move, Locked, Call
<1>1. ASSUME NEW c \in Creds, SetConfig(c)
      PROVE  LockReleased'
  BY <1>1, ThreadsAssumption DEF SetConfig, Request
<1>2. CASE ApplyRefused
  BY <1>2, ThreadsAssumption DEF ApplyRefused, Apply, Request
<1>3. CASE ApplyTimerFails
  BY <1>3, ThreadsAssumption DEF ApplyTimerFails, Apply, Request, WriteConfig
<1>4. CASE ApplyConfig
  BY <1>4, ThreadsAssumption DEF ApplyConfig, Apply, Request, ArmConnect,
     WriteConfig
<1>5. CASE GetStatus
  BY <1>5, ThreadsAssumption DEF GetStatus, Request
<1>6. ASSUME NEW blocking \in BOOLEAN, ScanStart(blocking)
      PROVE  LockReleased'
  BY <1>6, ThreadsAssumption DEF ScanStart, ScanRequest, Request
<1>7. CASE ScanStartFails
  BY <1>7, ThreadsAssumption DEF ScanStartFails, ScanRequest, Request, Fails
<1> QED
  BY <1>1, <1>2, <1>3, <1>4, <1>5, <1>6, <1>7 DEF RequestStep

\* The handling of an event keep LockReleased.
LEMMA LockEvent ==
    ASSUME TypeOK, LockReleased, "scan" \notin MayFail, HandleEvent
    PROVE  LockReleased'
<1> USE DEF TypeOK, LockReleased, Threads, System, Http, TimerTask, EventLoop,
            Nobody, Goto, Move, Locked, Call
<1>1. CASE HandleNothing
  BY <1>1, ThreadsAssumption DEF HandleNothing, EventHandled, LeaveLoop
<1>2. CASE HandleScanDone
  BY <1>2, ThreadsAssumption DEF HandleScanDone, ScanOver, EventHandled,
     LeaveLoop
<1>3. CASE HandleConnecting
  BY <1>3, ThreadsAssumption DEF HandleConnecting, Listening, Connect,
     EventHandled, LeaveLoop
<1>4. CASE HandleGotIp
  BY <1>4, ThreadsAssumption DEF HandleGotIp, Listening, Succeed, EventReported
<1>5. CASE HandleRejected
  BY <1>5, ThreadsAssumption DEF HandleRejected, Listening, EventReported
<1> QED
  BY <1>1, <1>2, <1>3, <1>4, <1>5 DEF HandleEvent

\* Every step that takes the lock gives it back or removes the handlers.
LEMMA LockStep ==
    ASSUME TypeOK, LockReleased, "scan" \notin MayFail, [Next]_vars
    PROVE  LockReleased'
<1> USE DEF TypeOK, LockReleased, Threads, System, Http, TimerTask, EventLoop,
            Nobody, Goto, Move, Locked, Call
<1>1. ASSUME NEW t \in Threads, Callback(t)
      PROVE  LockReleased'
  BY <1>1, ThreadsAssumption DEF Callback
<1>2. ASSUME NEW t \in Threads, Relock(t)
      PROVE  LockReleased'
  BY <1>2, ThreadsAssumption DEF Relock, LeaveLoop
<1>3. CASE ScanWait
  BY <1>3, ThreadsAssumption DEF ScanWait
<1>4. CASE AutostopFires
  BY <1>4, ThreadsAssumption DEF AutostopFires
<1>5. CASE ConnectFires
  BY <1>5, ThreadsAssumption DEF ConnectFires
<1>6. CASE ConnectCallback
  BY <1>6, ThreadsAssumption DEF ConnectCallback, Connect
<1>7. CASE DriverGotIp
  BY <1>7, ThreadsAssumption DEF DriverGotIp, DriverLink, Post, Events
<1>8. CASE DriverRejected
  BY <1>8, ThreadsAssumption DEF DriverRejected, DriverLink, Post, Events
<1>9. CASE DriverDropped
  BY <1>9, ThreadsAssumption DEF DriverDropped, DriverLink, Post, Events
<1>10. ASSUME NEW op \in {"start", "scan"},
              NEW e \in {"STA_START", "SCAN_DONE"}, DriverDone(op, e)
      PROVE  LockReleased'
  BY <1>10, ThreadsAssumption DEF DriverDone, Post, Events
<1>11. CASE Dispatch
  BY <1>11, ThreadsAssumption DEF Dispatch, Events
<1>12. CASE UNCHANGED vars
  BY <1>12, ThreadsAssumption
<1> QED
  BY <1>1, <1>2, <1>3, <1>4, <1>5, <1>6, <1>7, <1>8, <1>9, <1>10, <1>11, <1>12,
     LockCaller, LockStart, LockStop, LockRequest, LockEvent DEF Next,
     ThreadStep, TimerStep, DriverStep, DriverOther
\* Every path of manager.c gives the lock back, but for a stop that waits for
\* the event loop and, when esp_wifi_scan_start fails, a scan (946-949).
THEOREM LockIsReleased ==
    ASSUME "scan" \notin MayFail
    PROVE  Spec => []LockReleased
<1>1. Init => LockReleased
  BY DEF Init, LockReleased
<1>2. TypeOK /\ LockReleased /\ [Next]_vars => LockReleased'
  BY LockStep
<1> QED
  BY <1>1, <1>2, TypeCorrect, PTL DEF Spec

-----------------------------------------------------------------------------
\* What a program that no allocation or timer fails in keeps: nothing it still
\* points to is gone, and no start is undone.
Intact ==
    /\ NoFault
    /\ ctx # "freed"
    /\ "dangling" \notin {pop, connectTimer, autostopTimer}
    /\ \A t \in Threads : pc[t] \notin {"undo", "failed"}

\* The calls of an application task keep Intact.
LEMMA IntactCaller ==
    ASSUME TypeOK, Stages, Intact, "reset_when_down" \notin Races,
           {"init", "timer", "service"} \cap MayFail = {},
           NEW t \in Callers, CallerCalls(t)
    PROVE  Intact'
<1> USE DEF TypeOK, Intact, NoFault, Stages, ServiceWhole, Unreg, Active,
            Threads, System, Goto, Move, Locked, Call, Fault, Fails
<1>1. CASE InitManager(t)
  BY <1>1 DEF InitManager
<1>2. CASE InitFails(t)
  BY <1>2 DEF InitFails
<1>3. CASE TouchFreed(t)
  BY <1>3 DEF TouchFreed
<1>4. ASSUME NEW what \in {"no_auto_stop", "app_info", "endpoint"},
             Configure(t, what)
      PROVE  Intact'
  BY <1>4 DEF Configure
<1>5. CASE UseEndpoint(t)
  BY <1>5 DEF UseEndpoint, InSession
<1>6. ASSUME NEW m \in Modes, StartProvisioning(t, m)
      PROVE  Intact'
  BY <1>6 DEF StartProvisioning, MayStart, BlankStation, WriteConfig,
     Disconnect, CreateTimers
<1>7. ASSUME NEW m \in Modes, NEW what \in {"pop", "timer"},
             StartPrepareFails(t, m, what)
      PROVE  Intact'
  BY <1>7 DEF StartPrepareFails, MayStart, RestoreConfig, WriteConfig,
     Disconnect, Delete
<1>8. CASE StartWifiFails(t)
  BY <1>8 DEF StartWifiFails, MayStart, WriteConfig
<1>9. CASE CallStop(t)
  BY <1>9 DEF CallStop
<1>10. CASE ResetNull(t)
  BY <1>10 DEF ResetNull
<1>11. CASE Reset(t)
  BY <1>11 DEF Reset, Finished
<1> QED
  BY <1>1, <1>2, <1>3, <1>4, <1>5, <1>6, <1>7, <1>8, <1>9, <1>10, <1>11 DEF
     CallerCalls

\* The steps of a start keep Intact.
LEMMA IntactStart ==
    ASSUME TypeOK, Stages, Intact, "reset_when_down" \notin Races,
           {"init", "timer", "service"} \cap MayFail = {},
           NEW t \in Threads, StartStep(t)
    PROVE  Intact'
<1> USE DEF TypeOK, Intact, NoFault, Stages, ServiceWhole, Unreg, Active,
            Threads, System, Goto, Move, Locked, Call, Fault, Fails
<1>1. CASE StartService(t)
  BY <1>1 DEF StartService
<1>2. CASE StartRegister(t)
  BY <1>2 DEF StartRegister, Register
<1>3. CASE StartServiceFails(t)
  BY <1>3 DEF StartServiceFails
<1>4. CASE StartUndo(t)
  BY <1>4 DEF StartUndo, DeleteTimers, DeletedTwice, Delete
<1>5. CASE StartFailed(t)
  BY <1>5 DEF StartFailed, RestoreConfig, WriteConfig
<1>6. CASE Started(t)
  BY <1>6 DEF Started
<1> QED
  BY <1>1, <1>2, <1>3, <1>4, <1>5, <1>6 DEF StartStep

\* The steps of a stop and of a de-initialisation keep Intact.
LEMMA IntactStop ==
    ASSUME TypeOK, Stages, Intact, "reset_when_down" \notin Races,
           {"init", "timer", "service"} \cap MayFail = {},
           NEW t \in Threads, StopStep(t)
    PROVE  Intact'
<1> USE DEF TypeOK, Intact, NoFault, Stages, ServiceWhole, Unreg, Active,
            Threads, System, Goto, Move, Locked, Call, Fault, Fails
<1>1. CASE Done(t)
  BY <1>1 DEF Done
<1>2. CASE Wait(t)
  BY <1>2 DEF Wait
<1>3. CASE StopNotRunning(t)
  BY <1>3 DEF StopNotRunning
<1>4. CASE StopBegin(t)
  BY <1>4 DEF StopBegin, BeginStop, Settled, NotRunning, StopTimers,
     DeletedTwice
<1>5. CASE DeinitBegin(t)
  BY <1>5 DEF DeinitBegin, BeginStop, Settled, NotRunning, StopTimers,
     DeletedTwice
<1>6. ASSUME NEW k \in StopTasks, StopUnregister(t, k)
      PROVE  Intact'
  BY <1>6 DEF StopUnregister, Unregister, Release
<1>7. CASE DeinitUnregister(t)
  BY <1>7 DEF DeinitUnregister, Unregister, Release
<1>8. CASE CleanUp(t)
  BY <1>8 DEF CleanUp
<1>9. CASE StopTaskIdle(t)
  BY <1>9 DEF StopTaskIdle, EndSession
<1>10. CASE DeinitStopped(t)
  BY <1>10 DEF DeinitStopped, EndSession
<1>11. CASE DeinitIdle(t)
  BY <1>11 DEF DeinitIdle, Settled, NotRunning
<1>12. CASE EmitEnd(t)
  BY <1>12 DEF EmitEnd
<1>13. CASE EmitDeinit(t)
  BY <1>13 DEF EmitDeinit
<1> QED
  BY <1>1, <1>2, <1>3, <1>4, <1>5, <1>6, <1>7, <1>8, <1>9, <1>10, <1>11, <1>12,
     <1>13 DEF StopStep

\* The requests of a client keep Intact.
LEMMA IntactRequest ==
    ASSUME TypeOK, Stages, Intact, "reset_when_down" \notin Races,
           {"init", "timer", "service"} \cap MayFail = {}, RequestStep
    PROVE  Intact'
<1> USE DEF TypeOK, Intact, NoFault, Stages, ServiceWhole, Unreg, Active,
            Threads, System, Goto, Move, Locked, Call, Fault, Fails
<1>1. ASSUME NEW c \in Creds, SetConfig(c)
      PROVE  Intact'
  BY <1>1 DEF SetConfig, Request
<1>2. CASE ApplyRefused
  BY <1>2 DEF ApplyRefused, Apply, Request
<1>3. CASE ApplyTimerFails
  BY <1>3 DEF ApplyTimerFails, Apply, Request, WriteConfig
<1>4. CASE ApplyConfig
  BY <1>4 DEF ApplyConfig, Apply, Request, ArmConnect, WriteConfig
<1>5. CASE GetStatus
  BY <1>5 DEF GetStatus, Request
<1>6. ASSUME NEW blocking \in BOOLEAN, ScanStart(blocking)
      PROVE  Intact'
  BY <1>6 DEF ScanStart, ScanRequest, Request
<1>7. CASE ScanStartFails
  BY <1>7 DEF ScanStartFails, ScanRequest, Request
<1> QED
  BY <1>1, <1>2, <1>3, <1>4, <1>5, <1>6, <1>7 DEF RequestStep

\* The handling of an event keep Intact.
LEMMA IntactEvent ==
    ASSUME TypeOK, Stages, Intact, "reset_when_down" \notin Races,
           {"init", "timer", "service"} \cap MayFail = {}, HandleEvent
    PROVE  Intact'
<1> USE DEF TypeOK, Intact, NoFault, Stages, ServiceWhole, Unreg, Active,
            Threads, System, Goto, Move, Locked, Call, Fault, Fails
<1>1. CASE HandleNothing
  BY <1>1 DEF HandleNothing, EventHandled, LeaveLoop
<1>2. CASE HandleScanDone
  BY <1>2 DEF HandleScanDone, ScanOver, EventHandled, LeaveLoop
<1>3. CASE HandleConnecting
  BY <1>3 DEF HandleConnecting, Listening, Connect, EventHandled, LeaveLoop
<1>4. CASE HandleGotIp
  BY <1>4 DEF HandleGotIp, Listening, Succeed, EventReported
<1>5. CASE HandleRejected
  BY <1>5 DEF HandleRejected, Listening, EventReported
<1> QED
  BY <1>1, <1>2, <1>3, <1>4, <1>5 DEF HandleEvent

\* Every step leaves no pointer to memory that is gone.
LEMMA IntactStep ==
    ASSUME TypeOK, Stages, Intact, "reset_when_down" \notin Races,
           {"init", "timer", "service"} \cap MayFail = {}, [Next]_vars
    PROVE  Intact'
<1> USE DEF TypeOK, Intact, NoFault, Stages, ServiceWhole, Unreg, Active,
            Threads, System, Goto, Move, Locked, Call, Fault, Fails
<1>1. ASSUME NEW t \in Threads, Callback(t)
      PROVE  Intact'
  BY <1>1 DEF Callback
<1>2. ASSUME NEW t \in Threads, Relock(t)
      PROVE  Intact'
  BY <1>2 DEF Relock, LeaveLoop
<1>3. CASE ScanWait
  BY <1>3 DEF ScanWait
<1>4. CASE AutostopFires
  BY <1>4 DEF AutostopFires
<1>5. CASE ConnectFires
  BY <1>5 DEF ConnectFires
<1>6. CASE ConnectCallback
  BY <1>6 DEF ConnectCallback, Connect
<1>7. CASE DriverGotIp
  BY <1>7 DEF DriverGotIp, DriverLink, Post, Events
<1>8. CASE DriverRejected
  BY <1>8 DEF DriverRejected, DriverLink, Post, Events
<1>9. CASE DriverDropped
  BY <1>9 DEF DriverDropped, DriverLink, Post, Events
<1>10. ASSUME NEW op \in {"start", "scan"},
              NEW e \in {"STA_START", "SCAN_DONE"}, DriverDone(op, e)
      PROVE  Intact'
  BY <1>10 DEF DriverDone, Post, Events
<1>11. CASE Dispatch
  BY <1>11 DEF Dispatch, Events
<1>12. CASE UNCHANGED vars
  BY <1>12
<1> QED
  BY <1>1, <1>2, <1>3, <1>4, <1>5, <1>6, <1>7, <1>8, <1>9, <1>10, <1>11, <1>12,
     IntactCaller, IntactStart, IntactStop, IntactRequest, IntactEvent DEF
     Next, ThreadStep, TimerStep, DriverStep, DriverOther
\* Hence Intact, in every reachable state.
LEMMA IntactCorrect ==
    ASSUME "early_request" \notin Races, "late_scan" \notin Races,
           "reset_when_down" \notin Races,
           {"init", "timer", "service"} \cap MayFail = {}
    PROVE  Spec => []Intact
<1>1. Init => Intact
  BY DEF Init, Intact, NoFault
<1>2. TypeOK /\ Stages /\ Intact /\ [Next]_vars => Intact'
  BY IntactStep
<1> QED
  BY <1>1, <1>2, TypeCorrect, StagesCorrect, PTL DEF Spec

\* No call, request, timer or event uses memory that is gone, if no allocation
\* of init, no timer and no step of start_service fails.
THEOREM NothingFaults ==
    ASSUME "early_request" \notin Races, "late_scan" \notin Races,
           "reset_when_down" \notin Races,
           {"init", "timer", "service"} \cap MayFail = {}
    PROVE  Spec => []NoFault
<1>1. Intact => NoFault
  BY DEF Intact
<1> QED
  BY <1>1, IntactCorrect, PTL

-----------------------------------------------------------------------------
\* The cause of a change of the configuration in flash.
FlashCause ==
    \/ /\ st \in {"IDLE", "STARTING", "STARTED"} /\ staged # NoCred
       /\ flash' = staged
    \/ st \in {"FAIL", "SUCCESS"} /\ flash' = NoCred

\* A step that changes flash has one of the two causes.
LEMMA FlashStep ==
    ASSUME Intact, {"pop", "timer"} \cap MayFail = {}, Next, flash' # flash
    PROVE  FlashCause
<1> USE DEF Call, Locked, Fails, WriteConfig
<1>1. ASSUME NEW t \in Callers, CallerCalls(t)
      PROVE  FlashCause
  <2>1. ASSUME NEW m \in Modes, StartProvisioning(t, m)
        PROVE  FALSE
    BY <2>1 DEF StartProvisioning, BlankStation
  <2>2. ASSUME NEW m \in Modes, NEW what \in {"pop", "timer"},
               StartPrepareFails(t, m, what)
        PROVE  FALSE
    BY <2>2 DEF StartPrepareFails
  <2>3. CASE StartWifiFails(t)
    BY <2>3 DEF StartWifiFails
  <2>4. CASE Reset(t)
    BY <2>4 DEF Reset, Finished, FlashCause
  <2>5. ASSUME InitManager(t) \/ InitFails(t) \/ TouchFreed(t) \/ UseEndpoint(t)
        PROVE  FALSE
    BY <2>5 DEF InitManager, InitFails, TouchFreed, UseEndpoint
  <2>6. ASSUME CallStop(t) \/ ResetNull(t) \/ \E what : Configure(t, what)
        PROVE  FALSE
    BY <2>6 DEF CallStop, ResetNull, Configure
  <2> QED
    BY <1>1, <2>1, <2>2, <2>3, <2>4, <2>5, <2>6 DEF CallerCalls
<1>2. ASSUME NEW t \in Threads, ThreadStep(t)
      PROVE  FALSE
  <2>1. ASSUME StartStep(t) PROVE FALSE
    BY <2>1 DEF StartStep, StartService, StartRegister, StartServiceFails,
       StartUndo, StartFailed, Started, Intact
  <2>2. ASSUME StopBegin(t) \/ DeinitBegin(t) PROVE FALSE
    BY <2>2 DEF StopBegin, DeinitBegin, BeginStop
  <2>3. ASSUME StopStep(t) PROVE FALSE
    BY <2>2, <2>3 DEF StopStep, Done, Wait, StopNotRunning, StopUnregister,
       DeinitUnregister, CleanUp, StopTaskIdle, EmitEnd, DeinitStopped,
       DeinitIdle, EmitDeinit, Move
  <2> QED
    BY <1>2, <2>1, <2>3 DEF ThreadStep, Callback, Relock
<1>3. CASE RequestStep
  <2>1. CASE ApplyTimerFails \/ ApplyConfig
    BY <2>1 DEF ApplyTimerFails, ApplyConfig, Apply, FlashCause
  <2>2. ASSUME ~(ApplyTimerFails \/ ApplyConfig) PROVE FALSE
    BY <1>3, <2>2 DEF RequestStep, SetConfig, ApplyRefused, GetStatus,
       ScanStart, ScanStartFails, Move
  <2> QED
    BY <2>1, <2>2
<1>4. ASSUME ScanWait \/ TimerStep \/ DriverStep PROVE FALSE
  BY <1>4 DEF ScanWait, Move, TimerStep, AutostopFires, ConnectFires,
     ConnectCallback, DriverStep, DriverGotIp, DriverRejected, DriverDropped,
     DriverLink, DriverOther, DriverDone
<1>5. ASSUME Dispatch \/ HandleEvent PROVE FALSE
  BY <1>5 DEF Dispatch, HandleEvent, HandleNothing, HandleScanDone,
     HandleConnecting, HandleGotIp, HandleRejected
<1> QED
  BY <1>1, <1>2, <1>3, <1>4, <1>5 DEF Next

\* Flash changes only when credentials are applied or a finished session is
\* reset: the failure paths of start_provisioning, the one exception, write
\* back what they took for the old configuration (manager.c:1516-1540).
THEOREM FlashIsKept ==
    ASSUME "early_request" \notin Races, "late_scan" \notin Races,
           "reset_when_down" \notin Races,
           {"init", "pop", "timer", "service"} \cap MayFail = {}
    PROVE  Spec => FlashKept
<1>1. Intact /\ [Next]_vars => [flash' # flash => FlashCause]_vars
  BY FlashStep
<1>2. Spec => []Intact
  <2>1. {"init", "timer", "service"} \cap MayFail = {}
    OBVIOUS
  <2> QED
    BY <2>1, IntactCorrect
<1> QED
  BY <1>1, <1>2, PTL DEF Spec, FlashKept, FlashCause
-----------------------------------------------------------------------------
\* The refinement of ProvSession: a thread that starts or stops the manager owns
\* the session, and only such a step disturbs it.
Busy(t) == InStart(t) \/ InStop(t)

OneOwner == \A t, u \in Threads : Busy(t) /\ Busy(u) => t = u

Calm == Phase' = Phase /\ \A t \in Threads : Busy(t)' <=> Busy(t)

\* The busy thread owns the session, after a step.
LEMMA BusyOwns ==
    ASSUME OneOwner', NEW t \in Threads, Busy(t)'
    PROVE  Owner' = t
BY DEF OneOwner, Busy, Owner

\* With no busy thread nobody does.
LEMMA NobodyOwns ==
    ASSUME \A t \in Threads : ~Busy(t)'
    PROVE  Owner' = Nobody
BY DEF Busy, Owner

\* The owner stays while the busy thread does.
LEMMA SameOwner ==
    ASSUME OneOwner, OneOwner', \A t \in Threads : Busy(t)' <=> Busy(t)
    PROVE  Owner' = Owner
<1>1. CASE \E t \in Threads : Busy(t)
  <2>1. PICK t \in Threads : Busy(t)
    BY <1>1
  <2>2. Owner = t
    BY <2>1 DEF OneOwner, Busy, Owner
  <2> QED
    BY <2>1, <2>2, BusyOwns
<1>2. CASE \A t \in Threads : ~Busy(t)
  <2>1. Owner = Nobody
    BY <1>2 DEF Busy, Owner
  <2> QED
    BY <1>2, <2>1, NobodyOwns
<1> QED
  BY <1>1, <1>2

\* The calls of an application task map to steps of a session.
LEMMA SessionCaller ==
    ASSUME TypeOK, Exclusion, Stages, OneOwner, OneOwner',
           "early_request" \notin Races, "late_scan" \notin Races,
           "wifi" \notin MayFail, NEW t \in Callers, CallerCalls(t)
    PROVE  Calm \/ Session!Next
<1> USE DEF TypeOK, Calm, Busy, InStart, InStop, Phase, States, Threads,
            System, Http, TimerTask, EventLoop, Goto, Move, Locked, Call
<1>1. CASE InitManager(t)
  <2>1. Phase = "down" /\ Phase' = "idle"
    BY <1>1, ThreadsAssumption DEF InitManager, Exclusion, StopExclusive
  <2>2. Owner' = Owner
    BY <1>1, ThreadsAssumption, SameOwner DEF InitManager
  <2> QED
    BY <2>1, <2>2 DEF Session!Next, Session!Create
<1>2. CASE InitFails(t)
  BY <1>2, ThreadsAssumption DEF InitFails
<1>3. CASE TouchFreed(t)
  BY <1>3, ThreadsAssumption DEF TouchFreed
<1>4. ASSUME NEW what \in {"no_auto_stop", "app_info", "endpoint"},
             Configure(t, what)
      PROVE  Calm \/ Session!Next
  BY <1>4, ThreadsAssumption DEF Configure
<1>5. CASE UseEndpoint(t)
  BY <1>5, ThreadsAssumption DEF UseEndpoint, InSession
<1>6. ASSUME NEW m \in Modes, StartProvisioning(t, m)
      PROVE  Calm \/ Session!Next
  <2>1. Phase = "idle" /\ Phase' = "starting"
    BY <1>6, ThreadsAssumption DEF StartProvisioning, MayStart, BlankStation,
       WriteConfig, Disconnect, CreateTimers, Exclusion, StopExclusive
  <2>2. Busy(t)'
    BY <1>6, ThreadsAssumption DEF StartProvisioning, MayStart, BlankStation,
       WriteConfig, Disconnect, CreateTimers
  <2>3. Owner' = t
    BY <2>2, BusyOwns
  <2> QED
    BY <2>1, <2>3 DEF Session!Next, Session!BeginStart, Session!Enter
<1>7. ASSUME NEW m \in Modes, NEW what \in {"pop", "timer"},
             StartPrepareFails(t, m, what)
      PROVE  Calm \/ Session!Next
  BY <1>7, ThreadsAssumption DEF StartPrepareFails, MayStart, RestoreConfig,
     WriteConfig, Disconnect, Delete
<1>8. CASE StartWifiFails(t)
  BY <1>8, ThreadsAssumption DEF StartWifiFails, MayStart, WriteConfig, Fails
<1>9. CASE CallStop(t)
  BY <1>9, ThreadsAssumption DEF CallStop
<1>10. CASE ResetNull(t)
  BY <1>10, ThreadsAssumption DEF ResetNull
<1>11. CASE Reset(t)
  BY <1>11, ThreadsAssumption DEF Reset, Finished
<1> QED
  BY <1>1, <1>2, <1>3, <1>4, <1>5, <1>6, <1>7, <1>8, <1>9, <1>10, <1>11 DEF
     CallerCalls

\* The steps of a start map to steps of a session.
LEMMA SessionStart ==
    ASSUME TypeOK, Exclusion, Stages, OneOwner, OneOwner',
           "early_request" \notin Races, "late_scan" \notin Races,
           "wifi" \notin MayFail, NEW t \in Threads, StartStep(t)
    PROVE  Calm \/ Session!Next
<1> USE DEF TypeOK, Calm, Busy, InStart, InStop, Phase, States, Threads,
            System, Http, TimerTask, EventLoop, Goto, Move, Locked, Call
<1>1. CASE StartService(t)
  BY <1>1, ThreadsAssumption DEF StartService
<1>2. CASE StartRegister(t)
  BY <1>2, ThreadsAssumption DEF StartRegister, Register
<1>3. CASE StartServiceFails(t)
  BY <1>3, ThreadsAssumption DEF StartServiceFails
<1>4. CASE StartUndo(t)
  BY <1>4, ThreadsAssumption DEF StartUndo, DeleteTimers, DeletedTwice, Delete
<1>5. CASE StartFailed(t)
  <2>1. Phase = "starting" /\ Phase' = "idle"
    BY <1>5, ThreadsAssumption DEF StartFailed, RestoreConfig, WriteConfig,
       Exclusion, StopExclusive
  <2>2. \A u \in Threads : ~Busy(u)'
    BY <1>5, ThreadsAssumption DEF StartFailed, RestoreConfig, WriteConfig,
       OneOwner
  <2>3. Owner' = Nobody
    BY <2>2, NobodyOwns
  <2> QED
    BY <2>1, <2>3 DEF Session!Next, Session!CancelStart, Session!Enter
<1>6. CASE Started(t)
  <2>1. Phase = "starting" /\ Phase' = "active"
    BY <1>6, ThreadsAssumption DEF Started, Exclusion, StopExclusive
  <2>2. \A u \in Threads : ~Busy(u)'
    BY <1>6, ThreadsAssumption DEF Started, OneOwner
  <2>3. Owner' = Nobody
    BY <2>2, NobodyOwns
  <2> QED
    BY <2>1, <2>3 DEF Session!Next, Session!EndStart, Session!Enter
<1> QED
  BY <1>1, <1>2, <1>3, <1>4, <1>5, <1>6 DEF StartStep

\* The steps of a stop and of a de-initialisation map to steps of a session.
LEMMA SessionStop ==
    ASSUME TypeOK, Exclusion, Stages, OneOwner, OneOwner',
           "early_request" \notin Races, "late_scan" \notin Races,
           "wifi" \notin MayFail, NEW t \in Threads, StopStep(t)
    PROVE  Calm \/ Session!Next
<1> USE DEF TypeOK, Calm, Busy, InStart, InStop, Phase, States, Threads,
            System, Http, TimerTask, EventLoop, Goto, Move, Locked, Call
<1>1. CASE Done(t)
  BY <1>1, ThreadsAssumption DEF Done
<1>2. CASE Wait(t)
  BY <1>2, ThreadsAssumption DEF Wait
<1>3. CASE StopNotRunning(t)
  BY <1>3, ThreadsAssumption DEF StopNotRunning
<1>4. CASE StopBegin(t)
  <2>1. Phase = "active" /\ Phase' = "stopping"
    BY <1>4, ThreadsAssumption DEF StopBegin, BeginStop, Settled, NotRunning,
       StopTimers, DeletedTwice, Exclusion, StopExclusive
  <2>2. Busy(t)'
    BY <1>4, ThreadsAssumption DEF StopBegin, BeginStop, Settled, NotRunning,
       StopTimers, DeletedTwice
  <2>3. Owner' = t
    BY <2>2, BusyOwns
  <2> QED
    BY <2>1, <2>3 DEF Session!Next, Session!BeginStop, Session!Enter
<1>5. CASE DeinitBegin(t)
  <2>1. Phase = "active" /\ Phase' = "stopping"
    BY <1>5, ThreadsAssumption DEF DeinitBegin, BeginStop, Settled, NotRunning,
       StopTimers, DeletedTwice, Exclusion, StopExclusive
  <2>2. Busy(t)'
    BY <1>5, ThreadsAssumption DEF DeinitBegin, BeginStop, Settled, NotRunning,
       StopTimers, DeletedTwice
  <2>3. Owner' = t
    BY <2>2, BusyOwns
  <2> QED
    BY <2>1, <2>3 DEF Session!Next, Session!BeginStop, Session!Enter
<1>6. ASSUME NEW k \in StopTasks, StopUnregister(t, k)
      PROVE  Calm \/ Session!Next
  <2>1. Phase = "stopping" /\ Phase' = "stopping"
    BY <1>6, ThreadsAssumption DEF StopUnregister, Unregister, Release,
       Exclusion, StopExclusive
  <2>2. Busy(k)'
    BY <1>6, ThreadsAssumption DEF StopUnregister, Unregister, Release
  <2>3. Owner' = k
    BY <2>2, BusyOwns
  <2> QED
    BY <2>1, <2>3 DEF Session!Next, Session!HandOver, Session!Enter
<1>7. CASE DeinitUnregister(t)
  BY <1>7, ThreadsAssumption DEF DeinitUnregister, Unregister, Release
<1>8. CASE CleanUp(t)
  BY <1>8, ThreadsAssumption DEF CleanUp
<1>9. CASE StopTaskIdle(t)
  <2>1. Phase = "stopping" /\ Phase' = "idle"
    BY <1>9, ThreadsAssumption DEF StopTaskIdle, EndSession, Exclusion,
       StopExclusive
  <2>2. \A u \in Threads : ~Busy(u)'
    BY <1>9, ThreadsAssumption DEF StopTaskIdle, EndSession, OneOwner
  <2>3. Owner' = Nobody
    BY <2>2, NobodyOwns
  <2> QED
    BY <2>1, <2>3 DEF Session!Next, Session!EndStop, Session!Enter
<1>10. CASE DeinitStopped(t)
  <2>1. Phase = "stopping" /\ Phase' = "down"
    BY <1>10, ThreadsAssumption DEF DeinitStopped, EndSession, Exclusion,
       StopExclusive
  <2>2. \A u \in Threads : ~Busy(u)'
    BY <1>10, ThreadsAssumption DEF DeinitStopped, EndSession, OneOwner
  <2>3. Owner' = Nobody
    BY <2>2, NobodyOwns
  <2> QED
    BY <2>1, <2>3 DEF Session!Next, Session!Destroy
<1>11. CASE DeinitIdle(t)
  <2>1. CASE ctx = "live"
    <3>1. Phase = "idle" /\ Phase' = "down"
      BY <1>11, <2>1 DEF DeinitIdle, Settled, NotRunning
    <3>2. \A u \in Threads : ~Busy(u)'
      BY <1>11, <2>1, ThreadsAssumption
         DEF DeinitIdle, Settled, NotRunning, Exclusion, StopExclusive
    <3>3. Owner' = Nobody
      BY <3>2, NobodyOwns
    <3> QED
      BY <3>1, <3>3 DEF Session!Next, Session!Destroy
  <2>2. CASE ctx # "live"
    BY <1>11, <2>2, ThreadsAssumption DEF DeinitIdle, Settled, NotRunning
  <2> QED
    BY <2>1, <2>2
<1>12. CASE EmitEnd(t)
  BY <1>12, ThreadsAssumption DEF EmitEnd
<1>13. CASE EmitDeinit(t)
  BY <1>13, ThreadsAssumption DEF EmitDeinit
<1> QED
  BY <1>1, <1>2, <1>3, <1>4, <1>5, <1>6, <1>7, <1>8, <1>9, <1>10, <1>11, <1>12,
     <1>13 DEF StopStep

\* The requests of a client map to steps of a session.
LEMMA SessionRequest ==
    ASSUME TypeOK, Exclusion, Stages, OneOwner, OneOwner',
           "early_request" \notin Races, "late_scan" \notin Races,
           "wifi" \notin MayFail, RequestStep
    PROVE  Calm \/ Session!Next
<1> USE DEF TypeOK, Calm, Busy, InStart, InStop, Phase, States, Threads,
            System, Http, TimerTask, EventLoop, Goto, Move, Locked, Call
<1>1. ASSUME NEW c \in Creds, SetConfig(c)
      PROVE  Calm \/ Session!Next
  BY <1>1, ThreadsAssumption DEF SetConfig, Request
<1>2. CASE ApplyRefused
  BY <1>2, ThreadsAssumption DEF ApplyRefused, Apply, Request
<1>3. CASE ApplyTimerFails
  BY <1>3, ThreadsAssumption DEF ApplyTimerFails, Apply, Request, WriteConfig
<1>4. CASE ApplyConfig
  BY <1>4, ThreadsAssumption DEF ApplyConfig, Apply, Request, ArmConnect,
     WriteConfig, Exclusion, StopExclusive, Stages, NothingLeft, ServiceWhole
<1>5. CASE GetStatus
  BY <1>5, ThreadsAssumption DEF GetStatus, Request
<1>6. ASSUME NEW blocking \in BOOLEAN, ScanStart(blocking)
      PROVE  Calm \/ Session!Next
  BY <1>6, ThreadsAssumption DEF ScanStart, ScanRequest, Request
<1>7. CASE ScanStartFails
  BY <1>7, ThreadsAssumption DEF ScanStartFails, ScanRequest, Request
<1> QED
  BY <1>1, <1>2, <1>3, <1>4, <1>5, <1>6, <1>7 DEF RequestStep

\* The handling of an event map to steps of a session.
LEMMA SessionEvent ==
    ASSUME TypeOK, Exclusion, Stages, OneOwner, OneOwner',
           "early_request" \notin Races, "late_scan" \notin Races,
           "wifi" \notin MayFail, HandleEvent
    PROVE  Calm \/ Session!Next
<1> USE DEF TypeOK, Calm, Busy, InStart, InStop, Phase, States, Threads,
            System, Http, TimerTask, EventLoop, Goto, Move, Locked, Call
<1>1. CASE HandleNothing
  BY <1>1, ThreadsAssumption DEF HandleNothing, EventHandled, LeaveLoop
<1>2. CASE HandleScanDone
  BY <1>2, ThreadsAssumption DEF HandleScanDone, ScanOver, EventHandled,
     LeaveLoop
<1>3. CASE HandleConnecting
  BY <1>3, ThreadsAssumption DEF HandleConnecting, Listening, Connect,
     EventHandled, LeaveLoop
<1>4. CASE HandleGotIp
  BY <1>4, ThreadsAssumption, EventMeetsSession DEF HandleGotIp, Listening,
     Succeed, EventReported, EventInSession
<1>5. CASE HandleRejected
  BY <1>5, ThreadsAssumption, EventMeetsSession DEF HandleRejected, Listening,
     EventReported, EventInSession
<1> QED
  BY <1>1, <1>2, <1>3, <1>4, <1>5 DEF HandleEvent

\* Every step of the manager maps to a step of a session, or to none.
LEMMA SessionStep ==
    ASSUME TypeOK, Exclusion, Stages, OneOwner, OneOwner',
           "early_request" \notin Races, "late_scan" \notin Races,
           "wifi" \notin MayFail, [Next]_vars
    PROVE  Calm \/ Session!Next
<1> USE DEF TypeOK, Calm, Busy, InStart, InStop, Phase, States, Threads,
            System, Http, TimerTask, EventLoop, Goto, Move, Locked, Call
<1>1. ASSUME NEW t \in Threads, Callback(t)
      PROVE  Calm \/ Session!Next
  BY <1>1, ThreadsAssumption DEF Callback
<1>2. ASSUME NEW t \in Threads, Relock(t)
      PROVE  Calm \/ Session!Next
  BY <1>2, ThreadsAssumption DEF Relock, LeaveLoop
<1>3. CASE ScanWait
  BY <1>3, ThreadsAssumption DEF ScanWait
<1>4. CASE AutostopFires
  BY <1>4, ThreadsAssumption DEF AutostopFires
<1>5. CASE ConnectFires
  BY <1>5, ThreadsAssumption DEF ConnectFires
<1>6. CASE ConnectCallback
  BY <1>6, ThreadsAssumption DEF ConnectCallback, Connect
<1>7. CASE DriverGotIp
  BY <1>7, ThreadsAssumption DEF DriverGotIp, DriverLink, Post, Events
<1>8. CASE DriverRejected
  BY <1>8, ThreadsAssumption DEF DriverRejected, DriverLink, Post, Events
<1>9. CASE DriverDropped
  BY <1>9, ThreadsAssumption DEF DriverDropped, DriverLink, Post, Events
<1>10. ASSUME NEW op \in {"start", "scan"},
              NEW e \in {"STA_START", "SCAN_DONE"}, DriverDone(op, e)
      PROVE  Calm \/ Session!Next
  BY <1>10, ThreadsAssumption DEF DriverDone, Post, Events
<1>11. CASE Dispatch
  BY <1>11, ThreadsAssumption DEF Dispatch, Events
<1>12. CASE UNCHANGED vars
  BY <1>12
<1> QED
  BY <1>1, <1>2, <1>3, <1>4, <1>5, <1>6, <1>7, <1>8, <1>9, <1>10, <1>11, <1>12,
     SessionCaller, SessionStart, SessionStop, SessionRequest, SessionEvent DEF
     Next, ThreadStep, TimerStep, DriverStep, DriverOther
\* The manager implements a session with one owner (SessionKept), when requests
\* are served only between the return of a start and a stop and no early error
\* leaves STARTING behind.
THEOREM ImplementsSession ==
    ASSUME "early_request" \notin Races, "late_scan" \notin Races,
           "wifi" \notin MayFail
    PROVE  Spec => SessionKept
<1>1. Init => Session!Init
  BY DEF Init, Session!Init, Phase, Owner, InStart, InStop
<1>2. TypeOK /\ Exclusion /\ Stages /\ Exclusion' /\ [Next]_vars
         => [Session!Next]_<<Phase, Owner>>
  <2> SUFFICES ASSUME TypeOK, Exclusion, Stages, Exclusion', [Next]_vars
               PROVE  Session!Next \/ UNCHANGED <<Phase, Owner>>
    OBVIOUS
  <2>1. OneOwner /\ OneOwner'
    BY DEF Exclusion, StopExclusive, OneOwner, Busy
  <2>2. Calm \/ Session!Next
    BY <2>1, SessionStep
  <2>3. Calm => Owner' = Owner
    BY <2>1, SameOwner DEF Calm
  <2> QED
    BY <2>2, <2>3 DEF Calm
<1> QED
  BY <1>1, <1>2, TypeCorrect, ExclusionCorrect, StagesCorrect, PTL
     DEF Spec, SessionKept, Session!Spec
=============================================================================
