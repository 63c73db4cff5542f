----------------------- MODULE DeviceLifecycleProofs -----------------------
(***************************************************************************)
(* Safety of DeviceLifecycle for any number of devices and requests.       *)
(*                                                                         *)
(* The invariants are not inductive by themselves: that a data thread dies *)
(* without its mutex depends on who holds which mutex at every program     *)
(* counter (MgrInv, DevInv), on the status at the moment pthread_cancel is *)
(* called (ThreadInv), and that no thread uses a freed device on the order *)
(* of the steps of cleanup_resources (FreeInv, ClientInv).                 *)
(***************************************************************************)
EXTENDS DeviceLifecycle, TLAPS

StartHoldsDev == {"log", "init", "init_failed", "set_ok", "run", "create",
                  "create_failed"}
StartHoldsMgr == StartHoldsDev \cup {"next", "lock", "report"}
StopPcs == {"stop_lock", "stop_flag", "stop_offline", "stop_cancel",
            "stop_join"}
FreePcs == {"free_next", "free_dev", "grpc_stop", "grpc_wait", "done"}
MainHoldsMgr == StopPcs \cup {"health", "all_next", "free_next", "free_dev"}
BeforeStop == {"spawn", "loop", "health_lock", "health", "http_stop"}

(* Who holds the manager's mutex.                                          *)
MgrInv ==
  /\ startPc \in StartHoldsMgr => mgrMutex = "start"
  /\ mainPc \in MainHoldsMgr => mgrMutex = "main"

(* Who holds a device's mutex.                                             *)
DevInv ==
  /\ startPc \in StartHoldsDev \cup {"lock", "report"} => startIdx \in Device
  /\ startPc \in StartHoldsDev => devMutex[startIdx] = "start"
  /\ mainPc \in StopPcs \cup {"free_dev"} => mainIdx \in Device
  /\ mainPc \in {"stop_flag", "stop_offline"} => devMutex[mainIdx] = "main"
  /\ \A d \in Device : devMutex[d] = "data" <=> dataPc[d] \in {"check", "deal"}

(* A data thread that is asked to end can no longer find its device ok.    *)
ThreadInv ==
  /\ \A d \in Device : dataPc[d] = "deal" => status[d] = "ok"
  /\ \A d \in Device :
       dataCancel[d] => mainPc = "stop_join" /\ mainIdx = d
  /\ mainPc = "stop_offline" => ~running[mainIdx]
  /\ mainPc \in {"stop_cancel", "stop_join"} => status[mainIdx] = "offline"

(* Status and flag through the steps of device_start.                      *)
FlagInv ==
  /\ \A d \in Device : devMutex[d] \in {"none", "data"} =>
                         (status[d] = "ok" <=> running[d])
  /\ startPc = "log" => (status[startIdx] = "ok" <=> running[startIdx])
  /\ startPc \in {"init", "init_failed", "set_ok", "run"} => ~running[startIdx]
  /\ startPc \in {"run", "create", "create_failed"} => status[startIdx] = "ok"
  /\ startPc \in {"create", "create_failed"} => running[startIdx]

(* What has ended when device_manager_free runs.                           *)
FreeInv ==
  /\ caller = "free" => mainPc \in StopPcs \cup FreePcs
  /\ mainPc \in FreePcs => caller = "free"
  /\ mainPc = "free_lock" \/ caller = "free" => startPc \in {"none", "ended"}
  /\ mainPc = "free_dev" => ~handle[mainIdx]
  /\ mainPc = "stop_join" => handle[mainIdx]
  /\ \A d \in Device : ~Gone(d) => handle[d]
  /\ \A d \in Device : freed[d] => Gone(d) /\ caller = "free"

(* HTTP handlers end before the devices are stopped.                       *)
ClientInv ==
  /\ \A c \in Clients : clientPc[c] = "use" => clientDev[c] \in Device
  /\ mainPc \notin BeforeStop => \A c \in HttpClients : clientPc[c] = "idle"

IInv == /\ TypeOK /\ MgrInv /\ DevInv /\ ThreadInv /\ FlagInv
        /\ FreeInv /\ ClientInv

-----------------------------------------------------------------------------
(* The program starts with every mutex free and every thread at its first  *)
(* step.                                                                   *)
LEMMA InitInv == Init => IInv
<1>. SUFFICES ASSUME Init PROVE IInv
  OBVIOUS
<1>1. TypeOK
  <2>1. 1 \in 1 .. N + 1
    BY NAssumption
  <2>2. /\ status \in [Device -> {"unknown", "ok", "offline"}]
        /\ devMutex \in [Device -> {"none", "main", "start", "data"}]
        /\ dataPc \in [Device -> DataPcs]
        /\ clientPc \in [Clients -> {"idle", "get", "use"}]
        /\ clientDev \in [Clients -> Device \cup {0}]
    BY DEF Init, DataPcs
  <2>3. /\ running \in [Device -> BOOLEAN]
        /\ handle \in [Device -> BOOLEAN]
        /\ freed \in [Device -> BOOLEAN]
        /\ dataCancel \in [Device -> BOOLEAN]
    BY DEF Init
  <2>4. stopped \in BOOLEAN /\ startCancel \in BOOLEAN
    BY DEF Init
  <2>5. /\ mgrMutex \in {"none", "main", "start"}
        /\ startPc \in StartPcs /\ mainPc \in MainPcs /\ caller \in {"all", "free"}
    BY DEF Init, StartPcs, MainPcs
  <2>6. startIdx \in 1 .. N + 1 /\ mainIdx \in 1 .. N + 1 /\ signals \in 0 .. 2
    BY <2>1 DEF Init
  <2>. QED
    BY <2>2, <2>3, <2>4, <2>5, <2>6 DEF TypeOK
<1>2. MgrInv /\ DevInv /\ ThreadInv
  BY DEF Init, MgrInv, DevInv, ThreadInv, StartHoldsDev, StartHoldsMgr,
     StopPcs, MainHoldsMgr
<1>3. FlagInv /\ FreeInv
  BY DEF Init, FlagInv, FreeInv, Gone, StopPcs, FreePcs
<1>4. ClientInv
  BY DEF Init, ClientInv, Clients, BeforeStop
<1>. QED  BY <1>1, <1>2, <1>3, <1>4 DEF IInv

(* Steps of a data thread. A cancelled one is at stop_join with its device *)
(* offline (ThreadInv), so it is not dealing with twins and holds nothing. *)
LEMMA DataStepInv ==
  ASSUME IInv, NEW d \in Device, DataStep(d)
  PROVE  IInv'
<1>. USE DEF IInv, TypeOK, MgrInv, DevInv, ThreadInv, FlagInv, FreeInv,
         ClientInv, StartHoldsDev, StartHoldsMgr, StopPcs, FreePcs,
         MainHoldsMgr, BeforeStop, DataPcs, StartPcs, MainPcs, deviceVars,
         dataVars, startVars, mainVars, clientVars, Gone
<1>1. CASE DataStarted(d)
  BY <1>1 DEF DataStarted, DataOnly, DataGoto, DataFrame
<1>2. CASE DataTest(d)
  BY <1>2 DEF DataTest, DataOnly, DataGoto, DataFrame
<1>3. CASE DataLock(d)
  BY <1>3 DEF DataLock, DataGoto, DataFrame
<1>4. CASE DataNotOk(d)
  BY <1>4 DEF DataNotOk, DataGoto, DataFrame
<1>5. CASE DataOk(d)
  BY <1>5 DEF DataOk, DataOnly, DataGoto, DataFrame
<1>6. CASE DataDealt(d)
  BY <1>6 DEF DataDealt, DataGoto, DataFrame
<1>7. CASE DataSlept(d)
  BY <1>7 DEF DataSlept, DataOnly, DataGoto, DataFrame
<1>8. CASE DataLeave(d)
  BY <1>8 DEF DataLeave, DataOnly, DataGoto, DataFrame
<1>9. CASE DataCancelled(d)
  <2>1. mainPc = "stop_join" /\ mainIdx = d /\ status[d] = "offline"
    BY <1>9 DEF DataCancelled
  <2>2. dataPc[d] \notin {"check", "deal"}
    BY <1>9, <2>1 DEF DataCancelled, DataCancelPoints
  <2>. QED
    BY <1>9, <2>1, <2>2 DEF DataCancelled, DataOnly, DataGoto, DataFrame
<1>. QED  BY <1>1, <1>2, <1>3, <1>4, <1>5, <1>6, <1>7, <1>8, <1>9 DEF DataStep

(* Steps of the start thread. It writes a device's fields only while it    *)
(* holds both mutexes, hence never while device_stop or a data thread does.*)
LEMMA StartStepInv ==
  ASSUME IInv, StartStep
  PROVE  IInv'
<1>. USE NAssumption DEF IInv, TypeOK, MgrInv, DevInv, ThreadInv, FlagInv,
         FreeInv, ClientInv, StartHoldsDev, StartHoldsMgr, StopPcs, FreePcs,
         MainHoldsMgr, BeforeStop, DataPcs, StartPcs, MainPcs, deviceVars,
         dataVars, startVars, mainVars, clientVars, Gone, Device
<1>1. CASE StartAllLock
  BY <1>1 DEF StartAllLock, StartFrame
<1>2. CASE StartAllNext
  BY <1>2 DEF StartAllNext, StartOnly, StartGoto, StartFrame
<1>3. CASE StartAllUnlock
  BY <1>3 DEF StartAllUnlock, StartGoto, StartFrame
<1>4. CASE StartLock
  BY <1>4 DEF StartLock, StartGoto, StartFrame
<1>5. CASE StartCheck
  BY <1>5 DEF StartCheck, StartReturn, StartFrame, StartGoto
<1>6. CASE StartInit
  BY <1>6 DEF StartInit, StartOnly, StartGoto, StartFrame
<1>7. CASE StartInitFailed
  BY <1>7 DEF StartInitFailed, StartReturn, StartFrame
<1>8. CASE StartSetOk
  BY <1>8 DEF StartSetOk, StartGoto, StartFrame
<1>9. CASE StartRun
  BY <1>9 DEF StartRun, StartGoto, StartFrame
<1>10. CASE StartCreate
  BY <1>10 DEF StartCreate, StartGoto, StartFrame
<1>11. CASE StartCreateFails
  BY <1>11 DEF StartCreateFails, StartGoto, StartFrame
<1>12. CASE StartCreateFailed
  BY <1>12 DEF StartCreateFailed, StartReturn, StartFrame
<1>13. CASE StartReport
  BY <1>13 DEF StartReport, StartFrame
<1>14. CASE StartFinish
  BY <1>14 DEF StartFinish, StartOnly, StartGoto, StartFrame
<1>15. CASE StartCancelled
  BY <1>15 DEF StartCancelled, StartOnly, StartGoto, StartFrame,
     StartCancelPoints
<1>. QED  BY <1>1, <1>2, <1>3, <1>4, <1>5, <1>6, <1>7, <1>8, <1>9, <1>10,
             <1>11, <1>12, <1>13, <1>14, <1>15 DEF StartStep

(* Steps of the main thread: the health check and cleanup_resources.       *)
LEMMA MainStepInv ==
  ASSUME IInv, MainStep
  PROVE  IInv'
<1>. USE NAssumption DEF IInv, TypeOK, MgrInv, DevInv, ThreadInv, FlagInv,
         FreeInv, ClientInv, StartHoldsDev, StartHoldsMgr, StopPcs, FreePcs,
         MainHoldsMgr, BeforeStop, DataPcs, StartPcs, MainPcs, deviceVars,
         dataVars, startVars, mainVars, clientVars, Gone, Device
<1>1. CASE Spawn
  BY <1>1 DEF Spawn, MainGoto, MainFrame
<1>2. CASE HealthDue
  BY <1>2 DEF HealthDue, MainOnly, MainGoto, MainFrame
<1>3. CASE HealthLock
  BY <1>3 DEF HealthLock, MainGoto, MainFrame
<1>4. CASE HealthDone
  BY <1>4 DEF HealthDone, MainGoto, MainFrame
<1>5. CASE LoopExit
  BY <1>5 DEF LoopExit, MainOnly, MainGoto, MainFrame
<1>6. CASE HttpStop
  BY <1>6 DEF HttpStop, MainOnly, MainGoto, MainFrame
<1>7. CASE StopAllLock
  BY <1>7 DEF StopAllLock, MainFrame
<1>8. CASE StopAllNext
  BY <1>8 DEF StopAllNext, MainOnly, MainGoto, MainFrame
<1>9. CASE StopAllUnlock
  BY <1>9 DEF StopAllUnlock, MainFrame
<1>10. CASE StopLock
  BY <1>10 DEF StopLock, MainGoto, MainFrame
<1>11. CASE StopFlag
  BY <1>11 DEF StopFlag, MainGoto, MainFrame
<1>12. CASE StopOffline
  BY <1>12 DEF StopOffline, MainGoto, MainFrame
<1>13. CASE StopCancel
  BY <1>13 DEF StopCancel, MainGoto, MainFrame
<1>14. CASE StopNoThread
  BY <1>14 DEF StopNoThread, StopReturn, MainFrame
<1>15. CASE StopJoin
  BY <1>15 DEF StopJoin, StopReturn, MainFrame
<1>16. CASE CancelStart
  BY <1>16 DEF CancelStart, MainGoto, MainFrame
<1>17. CASE NoStartThread
  BY <1>17 DEF NoStartThread, MainOnly, MainGoto, MainFrame
<1>18. CASE JoinStart
  BY <1>18 DEF JoinStart, MainOnly, MainGoto, MainFrame
<1>19. CASE FreeLock
  BY <1>19 DEF FreeLock, MainFrame
<1>20. CASE FreeNext
  BY <1>20 DEF FreeNext, MainOnly, MainGoto, MainFrame
<1>21. CASE FreeDev
  BY <1>21 DEF FreeDev, MainFrame
<1>22. CASE FreeManager
  BY <1>22 DEF FreeManager, MainGoto, MainFrame
<1>23. CASE GrpcStop
  BY <1>23 DEF GrpcStop, MainOnly, MainGoto, MainFrame
<1>24. CASE GrpcJoin
  BY <1>24 DEF GrpcJoin, MainOnly, MainGoto, MainFrame
<1>. QED  BY <1>1, <1>2, <1>3, <1>4, <1>5, <1>6, <1>7, <1>8, <1>9, <1>10,
             <1>11, <1>12, <1>13, <1>14, <1>15, <1>16, <1>17, <1>18, <1>19,
             <1>20, <1>21, <1>22, <1>23, <1>24 DEF MainStep, StopStep

(* Steps of the request handlers: they change nothing but their own state, *)
(* and a new HTTP request needs a server that still runs.                  *)
LEMMA ClientStepInv ==
  ASSUME IInv, NEW c \in Clients, ClientStep(c)
  PROVE  IInv'
<1>. USE DEF IInv, TypeOK, MgrInv, DevInv, ThreadInv, FlagInv, FreeInv,
   ClientInv
<1>1. CASE Arrive(c)
  BY <1>1 DEF Arrive, ClientFrame, Clients, HttpServing, StartHoldsDev,
     StartHoldsMgr, StopPcs, FreePcs, MainHoldsMgr, BeforeStop, DataPcs,
     StartPcs, MainPcs, deviceVars, dataVars, startVars, mainVars, clientVars,
     Gone
<1>2. CASE Get(c)
  BY <1>2 DEF Get, ClientFrame, Clients, StartHoldsDev, StartHoldsMgr,
     StopPcs, FreePcs, MainHoldsMgr, BeforeStop, DataPcs, StartPcs, MainPcs,
     deviceVars, dataVars, startVars, mainVars, clientVars, Gone
<1>3. CASE Use(c)
  BY <1>3 DEF Use, ClientFrame, Clients, StartHoldsDev, StartHoldsMgr,
     StopPcs, FreePcs, MainHoldsMgr, BeforeStop, DataPcs, StartPcs, MainPcs,
     deviceVars, dataVars, startVars, mainVars, clientVars, Gone
<1>. QED  BY <1>1, <1>2, <1>3 DEF ClientStep

(* The inductive invariant is preserved by every step.                     *)
LEMMA NextInv == IInv /\ [Next]_vars => IInv'
<1>. SUFFICES ASSUME IInv, [Next]_vars PROVE IInv'
  OBVIOUS
<1>1. CASE Signal
  BY <1>1 DEF Signal, IInv, TypeOK, MgrInv, DevInv, ThreadInv, FlagInv,
     FreeInv, ClientInv, StartHoldsDev, StartHoldsMgr, StopPcs, FreePcs,
     MainHoldsMgr, BeforeStop, DataPcs, StartPcs, MainPcs, deviceVars,
     dataVars, startVars, mainVars, clientVars, Gone
<1>2. CASE ThreadStep
  BY <1>2, DataStepInv, StartStepInv, MainStepInv, ClientStepInv DEF ThreadStep
<1>3. CASE UNCHANGED vars
  BY <1>3 DEF vars, IInv, TypeOK, MgrInv, DevInv, ThreadInv, FlagInv, FreeInv,
     ClientInv, StartHoldsDev, StartHoldsMgr, StopPcs, FreePcs, MainHoldsMgr,
     BeforeStop, DataPcs, StartPcs, MainPcs, deviceVars, dataVars, startVars,
     mainVars, clientVars, Gone
<1>. QED  BY <1>1, <1>2, <1>3 DEF Next

(* The inductive invariant holds in every reachable state.                 *)
THEOREM Invariance == Spec => []IInv
<1>. QED  BY InitInv, NextInv, PTL DEF Spec

(* Every variable keeps its type, for any number of devices and requests.  *)
THEOREM TypeCorrect == Spec => []TypeOK
<1>1. IInv => TypeOK
  BY DEF IInv
<1>. QED  BY <1>1, Invariance, PTL

(* No data thread ever ends, by itself or cancelled by device_stop, while  *)
(* it holds its device's mutex.                                            *)
THEOREM CancellationSafe == Spec => []DataThreadReleasesMutex
<1>1. IInv => DataThreadReleasesMutex
  BY DEF IInv, DevInv, DataThreadReleasesMutex
<1>. QED  BY <1>1, Invariance, PTL

(* A free device mutex means that status and dataThreadRunning agree.      *)
THEOREM FlagsAlwaysAgree == Spec => []FlagsAgree
<1>1. IInv => FlagsAgree
  BY DEF IInv, FlagInv, FlagsAgree
<1>. QED  BY <1>1, Invariance, PTL

(* device_manager_free never frees a device under a data thread, the start *)
(* thread or an HTTP handler.                                              *)
THEOREM FreeIsSafe == Spec => []NoWorkerOnFreedDevice
<1>1. IInv => NoWorkerOnFreedDevice
  BY DEF IInv, TypeOK, FreeInv, ClientInv, NoWorkerOnFreedDevice, ManagerFreed,
         Clients, BeforeStop, StopPcs, FreePcs
<1>. QED  BY <1>1, Invariance, PTL

(* The health check and the data threads never see a status string         *)
(* replaced while they read it.                                            *)
THEOREM StatusReadsAreStable == Spec => StatusReadersSafe
<1>. DEFINE Stable == /\ mainPc = "health" => UNCHANGED status
                      /\ \A d \in Device : dataPc[d] = "check" => status'[d] =
                         status[d]
<1>1. IInv /\ [Next]_vars => [Stable]_vars
  <2>. SUFFICES ASSUME IInv, Next PROVE Stable
    OBVIOUS
  <2>1. CASE Signal
    BY <2>1 DEF Signal, deviceVars
  <2>2. CASE \E d \in Device : DataStep(d)
    BY <2>2 DEF DataStep, DataStarted, DataTest, DataLock, DataNotOk, DataOk,
       DataDealt, DataSlept, DataLeave, DataCancelled, DataOnly, DataGoto,
       DataFrame, deviceVars
  <2>3. CASE \E c \in Clients : ClientStep(c)
    BY <2>3 DEF ClientStep, Arrive, Get, Use, ClientFrame, deviceVars
  <2>4. CASE StartStep
    BY <2>4 DEF IInv, TypeOK, MgrInv, DevInv, StartHoldsMgr, StartHoldsDev,
       MainHoldsMgr, StartStep, StartAllLock, StartAllNext, StartAllUnlock,
          StartLock, StartCheck, StartInit, StartInitFailed, StartSetOk,
          StartRun, StartCreate, StartCreateFails, StartCreateFailed,
          StartReport, StartFinish, StartCancelled,
       StartReturn, StartOnly, StartGoto, StartFrame, deviceVars
  <2>5. CASE MainStep
    BY <2>5 DEF IInv, TypeOK, DevInv, StopPcs, MainStep, StopStep, Spawn,
       HealthDue, HealthLock, HealthDone, LoopExit, HttpStop, StopAllLock,
       StopAllNext, StopAllUnlock, StopLock, StopFlag, StopOffline,
       StopCancel, StopNoThread, StopJoin, CancelStart, NoStartThread,
       JoinStart, FreeLock, FreeNext, FreeDev, FreeManager, GrpcStop,
       GrpcJoin,
       StopReturn, MainOnly, MainGoto, MainFrame, deviceVars
  <2>. QED  BY <2>1, <2>2, <2>3, <2>4, <2>5 DEF Next, ThreadStep
<1>. QED  BY <1>1, Invariance, PTL DEF Spec, StatusReadersSafe

(* When a failing pthread_create leaves dataThread untouched, device_stop  *)
(* cancels and joins only threads that were created.                       *)
THEOREM JoinsAreReal ==
  ASSUME "junk" \notin CreateFaults
  PROVE  Spec => []StopsOnlyRealThreads
<1>. DEFINE Real == \A d \in Device : handle[d] => dataPc[d] # "none"
<1>1. Init => Real
  BY DEF Init
<1>2. IInv /\ Real /\ [Next]_vars => Real'
  <2>. SUFFICES ASSUME IInv, Real, [Next]_vars PROVE Real'
    OBVIOUS
  <2>. USE DEF IInv, TypeOK
  <2>1. CASE Signal
    BY <2>1 DEF Signal, deviceVars, dataVars
  <2>2. CASE \E d \in Device : DataStep(d)
    BY <2>2 DEF DataStep, DataStarted, DataTest, DataLock, DataNotOk, DataOk,
       DataDealt, DataSlept, DataLeave, DataCancelled, DataOnly, DataGoto,
       DataFrame, deviceVars,
       DataCancelPoints
  <2>3. CASE \E c \in Clients : ClientStep(c)
    BY <2>3 DEF ClientStep, Arrive, Get, Use, ClientFrame, deviceVars, dataVars
  <2>4. CASE StartStep
    BY <2>4, FaultAssumption DEF DevInv, StartHoldsDev, StartStep,
       StartAllLock, StartAllNext, StartAllUnlock, StartLock, StartCheck,
       StartInit, StartInitFailed, StartSetOk, StartRun, StartCreate,
       StartCreateFails, StartCreateFailed, StartReport, StartFinish,
       StartCancelled,
       StartReturn, StartOnly, StartGoto, StartFrame, deviceVars
  <2>5. CASE MainStep
    BY <2>5 DEF MainStep, StopStep, Spawn, HealthDue, HealthLock, HealthDone,
       LoopExit, HttpStop, StopAllLock, StopAllNext, StopAllUnlock, StopLock,
       StopFlag, StopOffline, StopCancel, StopNoThread, StopJoin, CancelStart,
       NoStartThread, JoinStart, FreeLock, FreeNext, FreeDev, FreeManager,
       GrpcStop, GrpcJoin,
       StopReturn, MainOnly, MainGoto, MainFrame, deviceVars
  <2>6. CASE UNCHANGED vars
    BY <2>6 DEF vars, deviceVars, dataVars
  <2>. QED  BY <2>1, <2>2, <2>3, <2>4, <2>5, <2>6 DEF Next, ThreadStep
<1>3. IInv /\ Real => StopsOnlyRealThreads
  BY DEF IInv, DevInv, FreeInv, StopPcs, StopsOnlyRealThreads
<1>. QED  BY <1>1, <1>2, <1>3, Invariance, PTL DEF Spec
=============================================================================
