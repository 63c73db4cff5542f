----------------------------- MODULE GrpcServer -----------------------------
(***************************************************************************)
(* The gRPC server of a mapper process, from main's start-up to the end of *)
(* cleanup_resources, and the Unix socket file that processes share.       *)
(*                                                                         *)
(* In each process two threads work on the server object: main creates it, *)
(* starts the server thread, polls for the socket file, registers at       *)
(* EdgeCore and finally stops, joins and frees; the server thread runs     *)
(* GrpcServer::Start. Nothing but the file and the pointer server_ tells   *)
(* main how far the thread has come, and neither is protected by a lock.   *)
(*                                                                         *)
(* A process may be killed at any time, or leave by _exit at the second    *)
(* signal; its socket file then stays behind for the next process. The     *)
(* next process may also be launched while the previous one still runs.    *)
(*                                                                         *)
(* Abstracted: the devices (modules DeviceLifecycle and Registry) and the  *)
(* contents of the calls (module TwinSync).                                *)
(***************************************************************************)
EXTENDS Naturals

CONSTANTS
  NumProcs,    \* runs of the mapper that use the same socket path
  Calls,       \* calls EdgeCore may have in flight
  NoPath,      \* an empty or missing socket_path
  Default,     \* "/tmp/mapper_dmi.sock"
  Confs,       \* configurations: see ConfAssumption
  MaxCrashes,  \* bound on the processes that are killed
  MaxFaults    \* bound on the failures of unlink and chmod

ASSUME ProcAssumption == NumProcs \in Nat
ASSUME BoundAssumption == MaxCrashes \in Nat /\ MaxFaults \in Nat
ASSUME ConfAssumption ==
  \A c \in Confs :
    /\ c.env \in BOOLEAN      \* is EDGECORE_SOCK set?
    /\ c.found \in BOOLEAN    \* is there a config.yaml in . or ..?
    /\ {"main", "own"} \subseteq DOMAIN c   \* socket_path in the file main
                              \* was given and in the one RegisterMapper reads

Procs == 1 .. NumProcs   \* in the order in which they are launched
NoProc == 0              \* nobody: the owner of a file that is not there

VARIABLES
  conf,        \* configuration and environment of the processes
  file,        \* the socket file: the process that bound it, open to others?
  mainPc, path, seen, signals,  \* main; g_grpcSockPath set; file seen
  srvPc,       \* the server thread
  obj,         \* the GrpcServer object
  server,      \* server_ is set
  shut,        \* grpc::Server::Shutdown: "no", "begun", "done"
  call,        \* the process that serves each call
  crashes, faults,
  overlapped   \* history: a process was launched while another one ran

mainVars == <<mainPc, path, seen, signals>>
srvVars  == <<srvPc, obj, server, shut>>
envVars  == <<conf, crashes, overlapped>>
vars == <<file, mainVars, srvVars, call, faults, envVars>>

MainPcs == {"off", "begin", "create", "spawn", "wait", "register", "loop",
            "devices", "stop", "shutdown", "join", "free", "remove",
            "ended", "killed"}
SrvPcs  == {"none", "clear", "build", "bound", "chmod", "serving", "left"}

Files == [owner : Procs \cup {NoProc}, open : BOOLEAN]
NoFile == [owner |-> NoProc, open |-> FALSE]
Exists == file.owner # NoProc
Running(p) == mainPc[p] \notin {"off", "ended", "killed"}
Listening(p) == srvPc[p] \in {"bound", "chmod", "serving"} /\ shut[p] = "no"
FsFault == faults < MaxFaults /\ faults' = faults + 1

Served ==        \* where main listens
  IF conf.main = NoPath THEN Default ELSE conf.main

Announced ==     \* MapperInfo.address as RegisterMapperCpp fills it in
  IF conf.env THEN Default ELSE conf.own

Init ==
  /\ conf \in Confs
  /\ file = NoFile
  /\ mainPc = [p \in Procs |-> "off"]
  /\ path = [p \in Procs |-> FALSE]
  /\ seen = [p \in Procs |-> FALSE]
  /\ signals = [p \in Procs |-> 0]
  /\ srvPc = [p \in Procs |-> "none"]
  /\ obj = [p \in Procs |-> "none"]
  /\ server = [p \in Procs |-> FALSE]
  /\ shut = [p \in Procs |-> "no"]
  /\ call = [c \in Calls |-> NoProc]
  /\ crashes = 0 /\ faults = 0
  /\ overlapped = FALSE

-----------------------------------------------------------------------------
(* main: start-up.                                                         *)

Goto(p, at) == mainPc' = [mainPc EXCEPT ![p] = at]
MainFrame == UNCHANGED <<srvVars, call, envVars>>

Vanish(p) ==          \* the process is gone, and its memory with it
  /\ path' = [path EXCEPT ![p] = FALSE]
  /\ seen' = [seen EXCEPT ![p] = FALSE]
  /\ signals' = [signals EXCEPT ![p] = 0]

Launch(p) ==
  /\ mainPc[p] = "off" /\ \A q \in 1 .. p - 1 : mainPc[q] # "off"
  /\ Goto(p, "begin")
  /\ overlapped' = (overlapped \/ \E q \in Procs : Running(q))
  /\ UNCHANGED <<path, seen, signals, file, srvVars, call, faults, conf,
                 crashes>>

EarlyFails(p) ==      \* no configuration or no device manager
  /\ mainPc[p] = "begin"
  /\ Goto(p, "devices")
  /\ UNCHANGED <<path, seen, signals, file, faults>> /\ MainFrame

MutClearStale(p) ==   \* mutant: the file of an earlier process stays
  /\ mainPc[p] = "begin"
  /\ path' = [path EXCEPT ![p] = TRUE]
  /\ Goto(p, "create")
  /\ UNCHANGED <<seen, signals, file, faults>> /\ MainFrame

ClearStale(p) ==      \* unlink(grpc_sock), result ignored; path saved
  /\ mainPc[p] = "begin"
  /\ path' = [path EXCEPT ![p] = TRUE]
  /\ Goto(p, "create")
  /\ \/ file' = NoFile /\ UNCHANGED faults
     \/ Exists /\ FsFault /\ UNCHANGED file
  /\ UNCHANGED <<seen, signals>> /\ MainFrame

Create(p) ==
  /\ mainPc[p] = "create"
  /\ \/ obj' = [obj EXCEPT ![p] = "live"] /\ Goto(p, "spawn")
     \/ UNCHANGED obj /\ Goto(p, "devices")     \* grpcserver_new failed
  /\ UNCHANGED <<path, seen, signals, file, faults, srvPc, server, shut, call,
                 envVars>>

Spawn(p) ==
  /\ mainPc[p] = "spawn"
  /\ \/ srvPc' = [srvPc EXCEPT ![p] = "clear"] /\ Goto(p, "wait")
     \/ UNCHANGED srvPc /\ Goto(p, "devices")   \* pthread_create failed
  /\ UNCHANGED <<path, seen, signals, file, faults, obj, server, shut, call,
                 envVars>>

MutUdsReady(p) ==     \* mutant: the file's permissions are left alone
  /\ mainPc[p] = "wait"
  /\ Exists
  /\ seen' = [seen EXCEPT ![p] = TRUE]
  /\ Goto(p, "register")
  /\ UNCHANGED <<path, signals, file, faults>> /\ MainFrame

UdsReady(p) ==        \* wait_uds_ready finds a file, whoever made it
  /\ mainPc[p] = "wait"
  /\ Exists
  /\ seen' = [seen EXCEPT ![p] = TRUE]
  /\ Goto(p, "register")
  /\ \/ file' = [file EXCEPT !.open = TRUE] /\ UNCHANGED faults
     \/ FsFault /\ UNCHANGED file
  /\ UNCHANGED <<path, signals>> /\ MainFrame

UdsTimesOut(p) ==     \* not ready within 3 s: only a warning
  /\ mainPc[p] = "wait"
  /\ ~Exists
  /\ Goto(p, "register")
  /\ UNCHANGED <<path, seen, signals, file, faults>> /\ MainFrame

Registers(p) ==
  /\ mainPc[p] = "register"
  /\ conf.env \/ conf.found
  /\ Goto(p, "loop")
  /\ UNCHANGED <<path, seen, signals, file, faults>> /\ MainFrame

RegisterFails(p) ==   \* no config.yaml, EdgeCore away, refusal or deadline
  /\ mainPc[p] = "register"
  /\ Goto(p, "devices")
  /\ UNCHANGED <<path, seen, signals, file, faults>> /\ MainFrame

LoopExit(p) ==
  /\ mainPc[p] = "loop"
  /\ signals[p] > 0
  /\ Goto(p, "devices")
  /\ UNCHANGED <<path, seen, signals, file, faults>> /\ MainFrame

-----------------------------------------------------------------------------
(* main: cleanup_resources.                                                *)

DevicesFreed(p) ==    \* HTTP server and devices: module DeviceLifecycle
  /\ mainPc[p] = "devices"
  /\ Goto(p, IF obj[p] = "live" THEN "stop" ELSE "remove")
  /\ UNCHANGED <<path, seen, signals, file, faults>> /\ MainFrame

MutStop(p) ==         \* mutant: stopped_ is tested after it was set
  /\ mainPc[p] = "stop"
  /\ Goto(p, "join")
  /\ UNCHANGED <<path, seen, signals, file, faults>> /\ MainFrame

Stop(p) ==            \* GrpcServer::Stop: Shutdown only if server_ is set
  /\ mainPc[p] = "stop"
  /\ \/ /\ server[p]
        /\ shut' = [shut EXCEPT ![p] = "begun"]
        /\ Goto(p, "shutdown")
     \/ ~server[p] /\ UNCHANGED shut /\ Goto(p, "join")
  /\ UNCHANGED <<path, seen, signals, file, faults, srvPc, obj, server, call,
                 envVars>>

ShutdownReturns(p) ==    \* the calls have ended; gRPC may unlink its socket
  /\ mainPc[p] = "shutdown"
  /\ \A c \in Calls : call[c] # p
  /\ shut' = [shut EXCEPT ![p] = "done"]
  /\ Goto(p, "join")
  /\ file' \in {file, NoFile}
  /\ UNCHANGED <<path, seen, signals, faults, srvPc, obj, server, call,
                 envVars>>

MutJoin(p) ==         \* mutant: the thread is detached instead of joined
  /\ mainPc[p] = "join"
  /\ Goto(p, "free")
  /\ UNCHANGED <<path, seen, signals, file, faults>> /\ MainFrame

Join(p) ==
  /\ mainPc[p] = "join"
  /\ srvPc[p] \in {"none", "left"}
  /\ Goto(p, "free")
  /\ UNCHANGED <<path, seen, signals, file, faults>> /\ MainFrame

Free(p) ==
  /\ mainPc[p] = "free"
  /\ obj' = [obj EXCEPT ![p] = "freed"]
  /\ server' = [server EXCEPT ![p] = FALSE]
  /\ Goto(p, "remove")
  /\ UNCHANGED <<path, seen, signals, file, faults, srvPc, shut, call,
                 envVars>>

MutRemove(p) ==       \* mutant: the path is forgotten before unlink
  /\ mainPc[p] = "remove"
  /\ Goto(p, "ended") /\ Vanish(p)
  /\ UNCHANGED <<file, faults>> /\ MainFrame

Remove(p) ==          \* unlink(g_grpcSockPath), whoever owns the file now
  /\ mainPc[p] = "remove"
  /\ Goto(p, "ended") /\ Vanish(p)
  /\ \/ path[p] /\ file' = NoFile /\ UNCHANGED faults
     \/ path[p] /\ Exists /\ FsFault /\ UNCHANGED file
     \/ ~path[p] /\ UNCHANGED <<file, faults>>
  /\ MainFrame

-----------------------------------------------------------------------------
(* The server thread: GrpcServer::Start.                                   *)

SrvGoto(p, at) == srvPc' = [srvPc EXCEPT ![p] = at]
SrvFrame == UNCHANGED <<mainVars, obj, shut, call, envVars>>

Clear(p) ==           \* an existing file is removed, or Start gives up
  /\ srvPc[p] = "clear"
  /\ \/ file' = NoFile /\ SrvGoto(p, "build") /\ UNCHANGED faults
     \/ Exists /\ FsFault /\ SrvGoto(p, "left") /\ UNCHANGED file
  /\ UNCHANGED server /\ SrvFrame

Bind(p) ==            \* inside BuildAndStart: server_ is not assigned yet
  /\ srvPc[p] = "build"
  /\ file' = [owner |-> p, open |-> FALSE]
  /\ SrvGoto(p, "bound")
  /\ UNCHANGED <<server, faults>> /\ SrvFrame

BuildFails(p) ==
  /\ srvPc[p] = "build"
  /\ SrvGoto(p, "left")
  /\ UNCHANGED <<file, server, faults>> /\ SrvFrame

Assign(p) ==          \* BuildAndStart has returned
  /\ srvPc[p] = "bound"
  /\ server' = [server EXCEPT ![p] = TRUE]
  /\ SrvGoto(p, "chmod")
  /\ UNCHANGED <<file, faults>> /\ SrvFrame

Chmod(p) ==           \* up to 1 s for the file, then on without it
  /\ srvPc[p] = "chmod"
  /\ SrvGoto(p, "serving")
  /\ \/ Exists /\ file' = [file EXCEPT !.open = TRUE] /\ UNCHANGED faults
     \/ Exists /\ FsFault /\ UNCHANGED file
     \/ ~Exists /\ UNCHANGED <<file, faults>>
  /\ UNCHANGED server /\ SrvFrame

WaitReturns(p) ==     \* server_->Wait(), woken by the end of Shutdown
  /\ srvPc[p] = "serving"
  /\ shut[p] = "done"
  /\ SrvGoto(p, "left")
  /\ UNCHANGED <<file, server, faults>> /\ SrvFrame

-----------------------------------------------------------------------------
(* The outside: EdgeCore, signals, kills.                                  *)

CallArrives(c) ==     \* EdgeCore connects to the file of a live process
  /\ call[c] = NoProc
  /\ Exists /\ file.open
  /\ Listening(file.owner)
  /\ call' = [call EXCEPT ![c] = file.owner]
  /\ UNCHANGED <<file, mainVars, srvVars, faults, envVars>>

CallEnds(c) ==
  /\ call[c] # NoProc
  /\ call' = [call EXCEPT ![c] = NoProc]
  /\ UNCHANGED <<file, mainVars, srvVars, faults, envVars>>

MutSignal(p) ==       \* mutant: the second signal is counted as well
  /\ Running(p) /\ signals[p] < 2
  /\ signals' = [signals EXCEPT ![p] = @ + 1]
  /\ UNCHANGED <<mainPc, path, seen, file, srvVars, call, faults, envVars>>

Signal(p) ==          \* the first one only clears running
  /\ Running(p) /\ signals[p] = 0
  /\ signals' = [signals EXCEPT ![p] = 1]
  /\ UNCHANGED <<mainPc, path, seen, file, srvVars, call, faults, envVars>>

Dies(p) ==            \* memory, threads and connections go, the file stays
  /\ Goto(p, "killed") /\ Vanish(p)
  /\ SrvGoto(p, "none")
  /\ obj' = [obj EXCEPT ![p] = "none"]
  /\ server' = [server EXCEPT ![p] = FALSE]
  /\ shut' = [shut EXCEPT ![p] = "no"]
  /\ call' = [c \in Calls |-> IF call[c] = p THEN NoProc ELSE call[c]]
  /\ UNCHANGED <<file, faults, conf, overlapped>>

Exits(p) ==           \* the second signal: _exit
  /\ Running(p) /\ signals[p] = 1
  /\ Dies(p)
  /\ UNCHANGED crashes

Crash(p) ==
  /\ Running(p) /\ crashes < MaxCrashes
  /\ crashes' = crashes + 1
  /\ Dies(p)

-----------------------------------------------------------------------------
MainStep(p) ==
  \/ EarlyFails(p) \/ ClearStale(p) \/ Create(p) \/ Spawn(p)
  \/ UdsReady(p) \/ UdsTimesOut(p) \/ Registers(p) \/ RegisterFails(p)
  \/ LoopExit(p) \/ DevicesFreed(p) \/ Stop(p) \/ ShutdownReturns(p)
  \/ Join(p) \/ Free(p) \/ Remove(p)

SrvStep(p) ==
  \/ Clear(p) \/ Bind(p) \/ BuildFails(p) \/ Assign(p) \/ Chmod(p)
  \/ WaitReturns(p)

Next ==
  \/ \E p \in Procs :
       \/ Launch(p) \/ MainStep(p) \/ SrvStep(p)
       \/ Signal(p) \/ Exits(p) \/ Crash(p)
  \/ \E c \in Calls : CallArrives(c) \/ CallEnds(c)

Spec == Init /\ [][Next]_vars

(* The scheduler runs both threads, and the handlers of calls end (module  *)
(* TwinSync shows that UpdateDevice does).                                 *)
Fairness ==
  /\ \A p \in Procs : WF_vars(MainStep(p)) /\ WF_vars(SrvStep(p))
  /\ \A c \in Calls : WF_vars(CallEnds(c))

FairSpec == Spec /\ Fairness

-----------------------------------------------------------------------------
(* Types, and the files and threads a process can have.                    *)
TypeOK ==
  /\ conf \in Confs
  /\ file \in Files
  /\ mainPc \in [Procs -> MainPcs]
  /\ path \in [Procs -> BOOLEAN] /\ seen \in [Procs -> BOOLEAN]
  /\ signals \in [Procs -> 0 .. 1]
  /\ srvPc \in [Procs -> SrvPcs]
  /\ obj \in [Procs -> {"none", "live", "freed"}]
  /\ server \in [Procs -> BOOLEAN]
  /\ shut \in [Procs -> {"no", "begun", "done"}]
  /\ call \in [Calls -> Procs \cup {NoProc}]
  /\ crashes \in 0 .. MaxCrashes /\ faults \in 0 .. MaxFaults
  /\ overlapped \in BOOLEAN

(* The server thread and the calls it serves work on the GrpcServer object *)
(* and on the service that is local to Start. grpcserver_free deletes the  *)
(* object only after the thread has left Start, and Start is not left      *)
(* while a call is in flight, whatever failed during start-up.             *)
ServerOutlivesUsers ==
  /\ \A p \in Procs :
       srvPc[p] \notin {"none", "left"} => obj[p] = "live"
  /\ \A c \in Calls :
       call[c] # NoProc => srvPc[call[c]] \in {"bound", "chmod", "serving"}

Settled ==     \* main and RegisterMapper agree on the socket path
  IF conf.env THEN conf.main \in {NoPath, Default}
  ELSE conf.own = conf.main /\ conf.main # NoPath

(* main.c starts the gRPC server first so that EdgeCore can call back:     *)
(* when main has seen the socket file, then from before the registration   *)
(* until cleanup the file at the announced path is its own server's, is    *)
(* open to EdgeCore and is listened on, even if an earlier process was     *)
(* killed and left its file. Not so if processes overlap (each unlinks the *)
(* other's file), if unlink or chmod fail, or if RegisterMapper reads      *)
(* another path than main.                                                 *)
CallbackPossible ==
  \A p \in Procs :
    /\ mainPc[p] \in {"register", "loop", "devices"}
    /\ seen[p] /\ Settled /\ ~overlapped /\ faults = 0
    => /\ file = [owner |-> p, open |-> TRUE]
       /\ Listening(p)
       /\ Announced = Served

(* A process whose cleanup_resources has ended leaves no socket file of    *)
(* its own, on any path through start-up, as long as unlink works.         *)
NothingLeftBehind ==
  \A p \in Procs :
    mainPc[p] = "ended" /\ faults = 0 => file.owner # p

(* Shutdown ends: once cleanup reaches grpcserver_stop with server_ set,   *)
(* or with no server thread, the calls in flight end, Wait returns and the *)
(* process is gone.                                                        *)
ShutdownEnds ==
  \A p \in Procs :
    mainPc[p] = "stop" /\ (server[p] \/ srvPc[p] \in {"none", "left"})
      ~> ~Running(p)

(* What server.cc says of Wait ("woken by Stop()->Shutdown()"): whenever   *)
(* cleanup calls grpcserver_stop, the server thread comes back and the     *)
(* process ends. Violated when registration fails between the appearance   *)
(* of the socket file and the assignment of server_.                       *)
StopAlwaysWakes ==
  \A p \in Procs : mainPc[p] = "stop" ~> ~Running(p)
=============================================================================
