--------------------------- MODULE DeviceLifecycle ---------------------------
(***************************************************************************)
(* Start, data collection and shutdown of the devices of a mapper process. *)
(*                                                                         *)
(* The threads of main.c and device/device.c, with the two kinds of mutex  *)
(* they share:                                                             *)
(*   - the main thread: main loop with health check, then                  *)
(*     cleanup_resources (stop_all, cancel and join of the start thread,   *)
(*     device_manager_free, gRPC shutdown);                                *)
(*   - the device start thread (device_manager_start_all, device_start);   *)
(*   - one data thread per device (device_data_thread);                    *)
(*   - HTTP and gRPC request handlers, which look a device up under the    *)
(*     manager's mutex and then use it without any lock.                   *)
(*                                                                         *)
(* Cancellation is the deferred cancellation of POSIX threads: a cancelled *)
(* thread ends at its next cancellation point (every log call writes to    *)
(* stderr, usleep and system are such points, pthread_mutex_lock is not)   *)
(* and keeps every mutex it holds, since no cleanup handler is installed.  *)
(***************************************************************************)
EXTENDS Naturals

CONSTANTS
  N,              \* number of devices in the manager
  HttpClients,    \* concurrent HTTP requests
  RpcClients,     \* concurrent gRPC calls
  InitCanFail,    \* may the driver's InitDevice return an error?
  CreateFaults    \* what a failing pthread_create leaves in dataThread

ASSUME NAssumption == N \in Nat
ASSUME ClientsAssumption == HttpClients \cap RpcClients = {}
ASSUME FaultAssumption ==
  /\ InitCanFail \in BOOLEAN
  /\ CreateFaults \subseteq {"clean", "junk"}

Device == 1 .. N
Clients == HttpClients \cup RpcClients

VARIABLES
  status,      \* device->status
  running,     \* device->dataThreadRunning
  handle,      \* device->dataThread # 0
  devMutex,    \* holder of device->mutex
  mgrMutex,    \* holder of manager->managerMutex
  stopped,     \* manager->stopped
  freed,       \* device_free has released the device
  dataPc,      \* the data thread of each device
  dataCancel,  \* pthread_cancel was called on it
  startPc, startIdx, startCancel,   \* the device start thread
  mainPc, mainIdx, caller,          \* the main thread; who called device_stop
  signals,     \* SIGINT/SIGTERM received, capped at the second
  clientPc, clientDev               \* request handlers and the device they hold

deviceVars == <<status, running, handle>>
dataVars   == <<dataPc, dataCancel>>
startVars  == <<startPc, startIdx, startCancel>>
mainVars   == <<mainPc, mainIdx, caller, stopped, freed>>
clientVars == <<clientPc, clientDev>>
vars == <<deviceVars, devMutex, mgrMutex, dataVars, startVars, mainVars,
          signals, clientVars>>

DataPcs  == {"none", "started", "test", "lock", "check", "deal", "sleep",
             "leaving", "exited"}
StartPcs == {"none", "begin", "next", "lock", "log", "init", "init_failed",
             "set_ok", "run", "create", "create_failed", "report", "finish",
             "ended"}
MainPcs  == {"spawn", "loop", "health_lock", "health", "http_stop", "all_lock",
             "all_next", "stop_lock", "stop_flag", "stop_offline",
             "stop_cancel", "stop_join", "cancel_start", "join_start",
             "free_lock", "free_next", "free_dev", "grpc_stop", "grpc_wait",
             "done"}

(* Cancellation points of the two cancellable threads: where a log call,   *)
(* usleep or system is about to run.                                       *)
DataCancelPoints  == {"started", "deal", "sleep", "leaving"}
StartCancelPoints == {"log", "init_failed", "run", "create_failed", "report",
                      "finish"}

Gone(d) == dataPc[d] \in {"none", "exited"}   \* no live data thread for d
ManagerFreed == mainPc \in {"grpc_stop", "grpc_wait", "done"}
HttpServing  == mainPc \in {"loop", "health_lock", "health"}
GrpcServing  == mainPc \notin {"grpc_wait", "done"}

Init ==
  /\ status = [d \in Device |-> "unknown"]
  /\ running = [d \in Device |-> FALSE]
  /\ handle = [d \in Device |-> FALSE]
  /\ devMutex = [d \in Device |-> "none"]
  /\ mgrMutex = "none"
  /\ stopped = FALSE
  /\ freed = [d \in Device |-> FALSE]
  /\ dataPc = [d \in Device |-> "none"]
  /\ dataCancel = [d \in Device |-> FALSE]
  /\ startPc = "none" /\ startIdx = 1 /\ startCancel = FALSE
  /\ mainPc = "spawn" /\ mainIdx = 1 /\ caller = "all"
  /\ signals = 0
  /\ clientPc = [c \in Clients |-> "idle"]
  /\ clientDev = [c \in Clients |-> 0]

-----------------------------------------------------------------------------
(* Data thread: device_data_thread.                                        *)

DataFrame == UNCHANGED <<deviceVars, mgrMutex, dataCancel, startVars, mainVars,
                         signals, clientVars>>
DataGoto(d, p) == dataPc' = [dataPc EXCEPT ![d] = p] /\ DataFrame
DataOnly(d, p) == DataGoto(d, p) /\ UNCHANGED devMutex

DataStarted(d) ==
  /\ dataPc[d] = "started"
  /\ DataOnly(d, "test")

DataTest(d) ==    \* while (device->dataThreadRunning), read without the mutex
  /\ dataPc[d] = "test"
  /\ DataOnly(d, IF running[d] THEN "lock" ELSE "leaving")

DataLock(d) ==
  /\ dataPc[d] = "lock"
  /\ devMutex[d] = "none"
  /\ devMutex' = [devMutex EXCEPT ![d] = "data"]
  /\ DataGoto(d, "check")

DataNotOk(d) ==   \* status is not ok: unlock and sleep a second
  /\ dataPc[d] = "check"
  /\ status[d] # "ok"
  /\ devMutex' = [devMutex EXCEPT ![d] = "none"]
  /\ DataGoto(d, "sleep")

DataOk(d) ==      \* go through the twins, logging and calling system()
  /\ dataPc[d] = "check"
  /\ status[d] = "ok"
  /\ DataOnly(d, "deal")

MutDataDealt(d) ==   \* mutant: the end of a turn forgets to unlock
  /\ dataPc[d] = "deal"
  /\ DataOnly(d, "sleep")

DataDealt(d) ==
  /\ dataPc[d] = "deal"
  /\ devMutex' = [devMutex EXCEPT ![d] = "none"]
  /\ DataGoto(d, "sleep")

DataSlept(d) ==
  /\ dataPc[d] = "sleep"
  /\ DataOnly(d, "test")

DataLeave(d) ==
  /\ dataPc[d] = "leaving"
  /\ DataOnly(d, "exited")

DataCancelled(d) ==   \* the thread dies here, whatever it holds
  /\ dataCancel[d]
  /\ dataPc[d] \in DataCancelPoints
  /\ DataOnly(d, "exited")

DataStep(d) ==
  \/ DataStarted(d) \/ DataTest(d) \/ DataLock(d) \/ DataNotOk(d)
  \/ DataOk(d) \/ DataDealt(d) \/ DataSlept(d) \/ DataLeave(d)
  \/ DataCancelled(d)

-----------------------------------------------------------------------------
(* Start thread: device_manager_start_all calling device_start.            *)

StartFrame == UNCHANGED <<dataCancel, startCancel, mainVars, signals,
                          clientVars>>
StartGoto(p) == startPc' = p /\ UNCHANGED startIdx /\ StartFrame
StartOnly(p) == StartGoto(p) /\ UNCHANGED <<deviceVars, devMutex, mgrMutex, dataPc>>

StartAllLock ==
  /\ startPc = "begin"
  /\ mgrMutex = "none"
  /\ mgrMutex' = "start"
  /\ startIdx' = 1
  /\ startPc' = "next"
  /\ UNCHANGED <<deviceVars, devMutex, dataPc>> /\ StartFrame

StartAllNext ==
  /\ startPc = "next"
  /\ startIdx \in Device
  /\ StartOnly("lock")

StartAllUnlock ==
  /\ startPc = "next"
  /\ startIdx \notin Device
  /\ mgrMutex' = "none"
  /\ StartGoto("finish")
  /\ UNCHANGED <<deviceVars, devMutex, dataPc>>

StartLock ==
  /\ startPc = "lock"
  /\ devMutex[startIdx] = "none"
  /\ devMutex' = [devMutex EXCEPT ![startIdx] = "start"]
  /\ StartGoto("log")
  /\ UNCHANGED <<deviceVars, mgrMutex, dataPc>>

StartReturn ==     \* release the device's mutex and go to the next device
  /\ devMutex' = [devMutex EXCEPT ![startIdx] = "none"]
  /\ startIdx' = startIdx + 1
  /\ startPc' = "next"
  /\ StartFrame

StartCheck ==      \* "Starting device", then the already-running test
  /\ startPc = "log"
  /\ IF running[startIdx] THEN StartReturn
                          ELSE StartGoto("init") /\ UNCHANGED devMutex
  /\ UNCHANGED <<deviceVars, mgrMutex, dataPc>>

StartInit ==       \* InitDevice: the driver decides
  /\ startPc = "init"
  /\ \E p \in {"set_ok"} \cup (IF InitCanFail THEN {"init_failed"} ELSE {}) :
       StartOnly(p)

StartInitFailed ==
  /\ startPc = "init_failed"
  /\ status' = [status EXCEPT ![startIdx] = "offline"]
  /\ StartReturn
  /\ UNCHANGED <<running, handle, mgrMutex, dataPc>>

MutStartSetOk ==   \* mutant: a status the rest of the code does not know
  /\ startPc = "set_ok"
  /\ status' = [status EXCEPT ![startIdx] = "online"]
  /\ StartGoto("run")
  /\ UNCHANGED <<running, handle, devMutex, mgrMutex, dataPc>>

StartSetOk ==      \* device_set_status logs the change before the flag is set
  /\ startPc = "set_ok"
  /\ status' = [status EXCEPT ![startIdx] = "ok"]
  /\ StartGoto("run")
  /\ UNCHANGED <<running, handle, devMutex, mgrMutex, dataPc>>

StartRun ==
  /\ startPc = "run"
  /\ running' = [running EXCEPT ![startIdx] = TRUE]
  /\ StartGoto("create")
  /\ UNCHANGED <<status, handle, devMutex, mgrMutex, dataPc>>

StartCreate ==     \* pthread_create succeeds; the mutex is released
  /\ startPc = "create"
  /\ handle' = [handle EXCEPT ![startIdx] = TRUE]
  /\ dataPc' = [dataPc EXCEPT ![startIdx] = "started"]
  /\ devMutex' = [devMutex EXCEPT ![startIdx] = "none"]
  /\ StartGoto("report")
  /\ UNCHANGED <<status, running, mgrMutex>>

(* pthread_create fails: what it leaves in dataThread is unspecified.      *)
StartCreateFails ==
  /\ startPc = "create"
  /\ \E f \in CreateFaults :
       handle' = [handle EXCEPT ![startIdx] = @ \/ f = "junk"]
  /\ StartGoto("create_failed")
  /\ UNCHANGED <<status, running, devMutex, mgrMutex, dataPc>>

MutStartCreateFailed ==   \* mutant: the failure path leaves the status ok
  /\ startPc = "create_failed"
  /\ running' = [running EXCEPT ![startIdx] = FALSE]
  /\ StartReturn
  /\ UNCHANGED <<status, handle, mgrMutex, dataPc>>

StartCreateFailed ==
  /\ startPc = "create_failed"
  /\ running' = [running EXCEPT ![startIdx] = FALSE]
  /\ status' = [status EXCEPT ![startIdx] = "offline"]
  /\ StartReturn
  /\ UNCHANGED <<handle, mgrMutex, dataPc>>

StartReport ==     \* "started successfully", logged under the manager's mutex
  /\ startPc = "report"
  /\ startIdx' = startIdx + 1
  /\ startPc' = "next"
  /\ UNCHANGED <<deviceVars, devMutex, mgrMutex, dataPc>> /\ StartFrame

StartFinish ==
  /\ startPc = "finish"
  /\ StartOnly("ended")

StartCancelled ==  \* the thread dies at a log call and keeps its mutexes
  /\ startCancel
  /\ startPc \in StartCancelPoints
  /\ StartOnly("ended")

StartStep ==
  \/ StartAllLock \/ StartAllNext \/ StartAllUnlock \/ StartLock \/ StartCheck
  \/ StartInit \/ StartInitFailed \/ StartSetOk \/ StartRun \/ StartCreate
  \/ StartCreateFails \/ StartCreateFailed \/ StartReport \/ StartFinish
  \/ StartCancelled

-----------------------------------------------------------------------------
(* Main thread.                                                            *)

MainFrame == UNCHANGED <<dataPc, startIdx, signals, clientVars>>
MainGoto(p) == /\ mainPc' = p
               /\ UNCHANGED <<mainIdx, caller, stopped, freed>>
               /\ MainFrame
MainOnly(p) == MainGoto(p) /\ UNCHANGED <<deviceVars, devMutex, mgrMutex,
                                          dataCancel, startPc, startCancel>>

Spawn ==           \* pthread_create of device_start_thread, HTTP server start
  /\ mainPc = "spawn"
  /\ startPc' \in {"begin", "none"}
  /\ MainGoto("loop")
  /\ UNCHANGED <<deviceVars, devMutex, mgrMutex, dataCancel, startCancel>>

HealthDue ==       \* every 30th turn of while (running)
  /\ mainPc = "loop"
  /\ signals = 0
  /\ N > 0
  /\ MainOnly("health_lock")

MutHealthLock ==   \* mutant: statuses read without the manager's mutex
  /\ mainPc = "health_lock"
  /\ MainOnly("health")

HealthLock ==
  /\ mainPc = "health_lock"
  /\ mgrMutex = "none"
  /\ mgrMutex' = "main"
  /\ MainGoto("health")
  /\ UNCHANGED <<deviceVars, devMutex, dataCancel, startPc, startCancel>>

HealthDone ==      \* every device's status string was read and printed
  /\ mainPc = "health"
  /\ mgrMutex' = "none"
  /\ MainGoto("loop")
  /\ UNCHANGED <<deviceVars, devMutex, dataCancel, startPc, startCancel>>

LoopExit ==
  /\ mainPc = "loop"
  /\ signals > 0
  /\ MainOnly("http_stop")

HttpStop ==        \* MHD_stop_daemon waits for the running handlers
  /\ mainPc = "http_stop"
  /\ \A c \in HttpClients : clientPc[c] = "idle"
  /\ MainOnly("all_lock")

StopAllLock ==
  /\ mainPc = "all_lock"
  /\ mgrMutex = "none"
  /\ mgrMutex' = "main"
  /\ mainPc' = "all_next" /\ mainIdx' = 1 /\ caller' = "all"
  /\ UNCHANGED <<deviceVars, devMutex, dataCancel, startPc, startCancel,
                 stopped, freed>> /\ MainFrame

StopAllNext ==
  /\ mainPc = "all_next"
  /\ mainIdx \in Device
  /\ MainOnly("stop_lock")

StopAllUnlock ==
  /\ mainPc = "all_next"
  /\ mainIdx \notin Device
  /\ mgrMutex' = "none"
  /\ stopped' = TRUE
  /\ mainPc' = "cancel_start"
  /\ UNCHANGED <<deviceVars, devMutex, dataCancel, startPc, startCancel,
                 mainIdx, caller, freed>> /\ MainFrame

(* device_stop(devices[mainIdx]), called by stop_all and by device_free.   *)

StopLock ==
  /\ mainPc = "stop_lock"
  /\ devMutex[mainIdx] = "none"
  /\ devMutex' = [devMutex EXCEPT ![mainIdx] = "main"]
  /\ MainGoto("stop_flag")
  /\ UNCHANGED <<deviceVars, mgrMutex, dataCancel, startPc, startCancel>>

StopFlag ==
  /\ mainPc = "stop_flag"
  /\ running' = [running EXCEPT ![mainIdx] = FALSE]
  /\ MainGoto("stop_offline")
  /\ UNCHANGED <<status, handle, devMutex, mgrMutex, dataCancel, startPc,
                 startCancel>>

MutStopOffline ==  \* mutant: device_stop leaves the status as it was
  /\ mainPc = "stop_offline"
  /\ devMutex' = [devMutex EXCEPT ![mainIdx] = "none"]
  /\ MainGoto("stop_cancel")
  /\ UNCHANGED <<deviceVars, mgrMutex, dataCancel, startPc, startCancel>>

StopOffline ==     \* set the status, release the mutex
  /\ mainPc = "stop_offline"
  /\ status' = [status EXCEPT ![mainIdx] = "offline"]
  /\ devMutex' = [devMutex EXCEPT ![mainIdx] = "none"]
  /\ MainGoto("stop_cancel")
  /\ UNCHANGED <<running, handle, mgrMutex, dataCancel, startPc, startCancel>>

StopReturn ==      \* back in stop_all's loop or in device_free
  IF caller = "all"
    THEN mainPc' = "all_next" /\ mainIdx' = mainIdx + 1
    ELSE mainPc' = "free_dev" /\ UNCHANGED mainIdx

MutStopCancel ==   \* mutant: cancel and join without testing the handle
  /\ mainPc = "stop_cancel"
  /\ dataCancel' = [dataCancel EXCEPT ![mainIdx] = TRUE]
  /\ MainGoto("stop_join")
  /\ UNCHANGED <<deviceVars, devMutex, mgrMutex, startPc, startCancel>>

StopCancel ==      \* the wait loop ends at once: the flag is clear
  /\ mainPc = "stop_cancel"
  /\ handle[mainIdx]
  /\ dataCancel' = [dataCancel EXCEPT ![mainIdx] = TRUE]
  /\ MainGoto("stop_join")
  /\ UNCHANGED <<deviceVars, devMutex, mgrMutex, startPc, startCancel>>

StopNoThread ==
  /\ mainPc = "stop_cancel"
  /\ ~handle[mainIdx]
  /\ StopReturn
  /\ UNCHANGED <<deviceVars, devMutex, mgrMutex, dataCancel, startPc,
                 startCancel, caller, stopped, freed>> /\ MainFrame

StopJoin ==
  /\ mainPc = "stop_join"
  /\ Gone(mainIdx)
  /\ handle' = [handle EXCEPT ![mainIdx] = FALSE]
  /\ dataCancel' = [dataCancel EXCEPT ![mainIdx] = FALSE]
  /\ StopReturn
  /\ UNCHANGED <<status, running, devMutex, mgrMutex, startPc, startCancel,
                 caller, stopped, freed>> /\ MainFrame

CancelStart ==     \* if (g_devStartThread) pthread_cancel(g_devStartThread)
  /\ mainPc = "cancel_start"
  /\ startPc # "none"
  /\ startCancel' = TRUE
  /\ MainGoto("join_start")
  /\ UNCHANGED <<deviceVars, devMutex, mgrMutex, dataCancel, startPc>>

NoStartThread ==
  /\ mainPc = "cancel_start"
  /\ startPc = "none"
  /\ MainOnly("free_lock")

JoinStart ==       \* timedjoin; after 3 s cancel again and join for good
  /\ mainPc = "join_start"
  /\ startPc = "ended"
  /\ MainOnly("free_lock")

(* device_manager_free; its call of stop_all for a manager that was not    *)
(* stopped is never made, since cleanup_resources stopped it before.       *)
FreeLock ==
  /\ mainPc = "free_lock"
  /\ stopped
  /\ mgrMutex = "none"
  /\ mgrMutex' = "main"
  /\ mainPc' = "free_next" /\ mainIdx' = 1 /\ caller' = "free"
  /\ UNCHANGED <<deviceVars, devMutex, dataCancel, startPc, startCancel,
                 stopped, freed>> /\ MainFrame

MutFreeNext ==     \* mutant: device_free trusts the earlier stop_all
  /\ mainPc = "free_next"
  /\ mainIdx \in Device
  /\ MainOnly("free_dev")

FreeNext ==        \* device_free: stop the device only if it still runs
  /\ mainPc = "free_next"
  /\ mainIdx \in Device
  /\ MainOnly(IF running[mainIdx] \/ handle[mainIdx] THEN "stop_lock"
                                                     ELSE "free_dev")

FreeDev ==
  /\ mainPc = "free_dev"
  /\ freed' = [freed EXCEPT ![mainIdx] = TRUE]
  /\ mainIdx' = mainIdx + 1
  /\ mainPc' = "free_next"
  /\ UNCHANGED <<deviceVars, devMutex, mgrMutex, dataCancel, startPc,
                 startCancel, caller, stopped>> /\ MainFrame

FreeManager ==
  /\ mainPc = "free_next"
  /\ mainIdx \notin Device
  /\ mgrMutex' = "none"
  /\ MainGoto("grpc_stop")
  /\ UNCHANGED <<deviceVars, devMutex, dataCancel, startPc, startCancel>>

GrpcStop ==        \* Shutdown: no new calls
  /\ mainPc = "grpc_stop"
  /\ MainOnly("grpc_wait")

GrpcJoin ==        \* Shutdown waits for the calls in flight
  /\ mainPc = "grpc_wait"
  /\ \A c \in RpcClients : clientPc[c] = "idle"
  /\ MainOnly("done")

StopStep == \/ StopLock \/ StopFlag \/ StopOffline \/ StopCancel
            \/ StopNoThread \/ StopJoin
MainStep ==
  \/ Spawn \/ HealthDue \/ HealthLock \/ HealthDone \/ LoopExit \/ HttpStop
  \/ StopAllLock \/ StopAllNext \/ StopAllUnlock \/ StopStep
  \/ CancelStart \/ NoStartThread \/ JoinStart
  \/ FreeLock \/ FreeNext \/ FreeDev \/ FreeManager \/ GrpcStop \/ GrpcJoin

-----------------------------------------------------------------------------
(* Request handlers.                                                       *)

ClientFrame == UNCHANGED <<deviceVars, devMutex, mgrMutex, dataVars, startVars,
                           mainVars, signals>>

Arrive(c) ==
  /\ clientPc[c] = "idle"
  /\ c \in HttpClients => HttpServing
  /\ c \in RpcClients => GrpcServing
  /\ clientPc' = [clientPc EXCEPT ![c] = "get"]
  /\ UNCHANGED clientDev /\ ClientFrame

(* device_manager_get; on a freed manager the mutex and the array are      *)
(* garbage and the call may return anything.                               *)
Get(c) ==
  /\ clientPc[c] = "get"
  /\ mgrMutex = "none"
  /\ \E d \in Device \cup {0} :
       /\ clientDev' = [clientDev EXCEPT ![c] = d]
       /\ clientPc' = [clientPc EXCEPT ![c] = IF d = 0 THEN "idle" ELSE "use"]
  /\ ClientFrame

Use(c) ==          \* read or write the device's twins, no mutex
  /\ clientPc[c] = "use"
  /\ clientPc' = [clientPc EXCEPT ![c] = "idle"]
  /\ clientDev' = [clientDev EXCEPT ![c] = 0]
  /\ ClientFrame

ClientStep(c) == Arrive(c) \/ Get(c) \/ Use(c)

-----------------------------------------------------------------------------

Signal ==          \* signal_handler; the second signal ends the process
  /\ signals < 2
  /\ mainPc # "done"
  /\ signals' = signals + 1
  /\ UNCHANGED <<deviceVars, devMutex, mgrMutex, dataVars, startVars, mainVars,
                 clientVars>>

ThreadStep ==
  /\ signals < 2
  /\ \/ MainStep
     \/ StartStep
     \/ \E d \in Device : DataStep(d)
     \/ \E c \in Clients : ClientStep(c)

Next == Signal \/ ThreadStep

Spec == Init /\ [][Next]_vars

(* Every thread keeps running. device_stop competes for the device's mutex *)
(* with a data thread that takes it again and again; it gets it, since the *)
(* data thread sleeps one to five seconds between two turns. Nothing       *)
(* obliges a signal or a request to arrive.                                *)
Alive(A) == signals < 2 /\ A
Fairness ==
  /\ WF_vars(Alive(MainStep))
  /\ SF_vars(Alive(StopLock))
  /\ WF_vars(Alive(StartStep))
  /\ \A d \in Device : WF_vars(Alive(DataStep(d)))
  /\ \A c \in Clients : WF_vars(Alive(Get(c) \/ Use(c)))

FairSpec == Spec /\ Fairness

-----------------------------------------------------------------------------
(* Properties.                                                             *)

(* Flags, mutex owners, program counters and the loop indices of the three *)
(* kinds of threads keep their types; no index leaves 1..N+1.              *)
TypeOK ==
  /\ status \in [Device -> {"unknown", "ok", "offline"}]
  /\ running \in [Device -> BOOLEAN]
  /\ handle \in [Device -> BOOLEAN]
  /\ devMutex \in [Device -> {"none", "main", "start", "data"}]
  /\ mgrMutex \in {"none", "main", "start"}
  /\ stopped \in BOOLEAN
  /\ freed \in [Device -> BOOLEAN]
  /\ dataPc \in [Device -> DataPcs]
  /\ dataCancel \in [Device -> BOOLEAN]
  /\ startPc \in StartPcs /\ startIdx \in 1 .. N + 1 /\ startCancel \in BOOLEAN
  /\ mainPc \in MainPcs /\ mainIdx \in 1 .. N + 1 /\ caller \in {"all", "free"}
  /\ signals \in 0 .. 2
  /\ clientPc \in [Clients -> {"idle", "get", "use"}]
  /\ clientDev \in [Clients -> Device \cup {0}]

(* device_stop cancels a data thread that may be anywhere in its loop. The *)
(* thread must never die with its device's mutex: it holds it only for the *)
(* status test and while it deals with twins, never after it ended.        *)
DataThreadReleasesMutex ==
  \A d \in Device : devMutex[d] = "data" => dataPc[d] \in {"check", "deal"}

(* Whenever no thread is inside device_start or device_stop, the status    *)
(* string and the thread flag tell the same story: ok exactly when the     *)
(* data thread is meant to run, on every failure path too.                 *)
FlagsAgree ==
  \A d \in Device : devMutex[d] = "none" => (status[d] = "ok" <=> running[d])

(* cleanup_resources frees a device only when no thread that it stopped,   *)
(* cancelled or joined can still touch it: the device's data thread (also  *)
(* one started after stop_all went by), the start thread, HTTP handlers.   *)
NoWorkerOnFreedDevice ==
  /\ \A d \in Device : freed[d] => Gone(d) /\ startPc \in {"none", "ended"}
  /\ \A c \in HttpClients : clientPc[c] = "use" => ~freed[clientDev[c]]
  /\ ManagerFreed => \A c \in HttpClients : clientPc[c] = "idle"

(* device_stop cancels and joins only a thread that pthread_create really  *)
(* created: "only stop what still runs" (device.c, device_free).           *)
StopsOnlyRealThreads ==
  mainPc = "stop_join" => dataPc[mainIdx] # "none"

(* device_set_status frees the old status string. Neither the health check *)
(* (under the manager's mutex) nor a data thread (under its device's) may  *)
(* see the string replaced while it reads it.                              *)
StatusReadersSafe ==
  [][/\ mainPc = "health" => UNCHANGED status
     /\ \A d \in Device : dataPc[d] = "check" => status'[d] = status[d]]_vars

(* Once the start thread has finished by itself, a first signal leads to   *)
(* the end of cleanup_resources (or the user forces the exit).             *)
ShutdownAfterStartup ==
  (mainPc = "http_stop" /\ startPc \in {"none", "ended"})
     ~> (mainPc = "done" \/ signals = 2)

(* signal_handler's promise, "shutting down gracefully": after the first   *)
(* signal cleanup_resources ends without a second one.                     *)
GracefulShutdown == (signals = 1) ~> (mainPc = "done" \/ signals = 2)

(* The manager is created first "for the gRPC callbacks": a gRPC handler   *)
(* never looks up a device in a freed manager nor uses a freed device.     *)
RpcUsesLiveDevices ==
  \A c \in RpcClients : /\ clientPc[c] = "get" => ~ManagerFreed
                        /\ clientPc[c] = "use" => ~freed[clientDev[c]]
=============================================================================
