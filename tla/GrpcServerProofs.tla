-------------------------- MODULE GrpcServerProofs --------------------------
(* Proofs about GrpcServer, for any number of processes and calls and any  *)
(* bounds: the server object outlives the thread and the calls that use    *)
(* it, and a process that cleans up leaves no socket file.                 *)
EXTENDS GrpcServer, TLAPS

-----------------------------------------------------------------------------
(* Types.                                                                  *)

LEMMA FileValues ==
  /\ NoFile \in Files
  /\ \A f \in Files : [f EXCEPT !.open = TRUE] \in Files
  /\ \A p \in Procs : [owner |-> p, open |-> FALSE] \in Files
  BY DEF NoFile, Files

LEMMA InitTyped == Init => TypeOK
<1> SUFFICES ASSUME Init PROVE TypeOK
  OBVIOUS
<1>1. conf \in Confs /\ file \in Files
  BY FileValues DEF Init
<1>2. /\ mainPc \in [Procs -> MainPcs] /\ signals \in [Procs -> 0 .. 1]
      /\ srvPc \in [Procs -> SrvPcs]
      /\ obj \in [Procs -> {"none", "live", "freed"}]
      /\ shut \in [Procs -> {"no", "begun", "done"}]
      /\ call \in [Calls -> Procs \cup {NoProc}]
  BY DEF Init, MainPcs, SrvPcs
<1>3. /\ path \in [Procs -> BOOLEAN] /\ seen \in [Procs -> BOOLEAN]
      /\ server \in [Procs -> BOOLEAN] /\ overlapped \in BOOLEAN
  BY DEF Init
<1>4. crashes \in 0 .. MaxCrashes /\ faults \in 0 .. MaxFaults
  BY BoundAssumption DEF Init
<1>5. QED
  BY <1>1, <1>2, <1>3, <1>4 DEF TypeOK

LEMMA NextTyped == TypeOK /\ [Next]_vars => TypeOK'
<1> SUFFICES ASSUME TypeOK, [Next]_vars PROVE TypeOK'
  OBVIOUS
<1> USE BoundAssumption, FileValues DEF TypeOK, Goto, envVars, mainVars, srvVars, MainPcs,
                            SrvPcs, NoProc
<1>1. ASSUME NEW p \in Procs, Launch(p) PROVE TypeOK'
  BY <1>1 DEF Launch
<1>2. ASSUME NEW p \in Procs, EarlyFails(p) PROVE TypeOK'
  BY <1>2 DEF EarlyFails, MainFrame
<1>3. ASSUME NEW p \in Procs, ClearStale(p) PROVE TypeOK'
  BY <1>3 DEF ClearStale, MainFrame, FsFault
<1>4. ASSUME NEW p \in Procs, Create(p) PROVE TypeOK'
  BY <1>4 DEF Create
<1>5. ASSUME NEW p \in Procs, Spawn(p) PROVE TypeOK'
  BY <1>5 DEF Spawn
<1>6. ASSUME NEW p \in Procs, UdsReady(p) PROVE TypeOK'
  BY <1>6 DEF UdsReady, MainFrame, FsFault
<1>7. ASSUME NEW p \in Procs, UdsTimesOut(p) PROVE TypeOK'
  BY <1>7 DEF UdsTimesOut, MainFrame
<1>8. ASSUME NEW p \in Procs, Registers(p) PROVE TypeOK'
  BY <1>8 DEF Registers, MainFrame
<1>9. ASSUME NEW p \in Procs, RegisterFails(p) PROVE TypeOK'
  BY <1>9 DEF RegisterFails, MainFrame
<1>10. ASSUME NEW p \in Procs, LoopExit(p) PROVE TypeOK'
  BY <1>10 DEF LoopExit, MainFrame
<1>11. ASSUME NEW p \in Procs, DevicesFreed(p) PROVE TypeOK'
  BY <1>11 DEF DevicesFreed, MainFrame
<1>12. ASSUME NEW p \in Procs, Stop(p) PROVE TypeOK'
  BY <1>12 DEF Stop
<1>13. ASSUME NEW p \in Procs, ShutdownReturns(p) PROVE TypeOK'
  BY <1>13 DEF ShutdownReturns
<1>14. ASSUME NEW p \in Procs, Join(p) PROVE TypeOK'
  BY <1>14 DEF Join, MainFrame
<1>15. ASSUME NEW p \in Procs, Free(p) PROVE TypeOK'
  BY <1>15 DEF Free
<1>16. ASSUME NEW p \in Procs, Remove(p) PROVE TypeOK'
  BY <1>16 DEF Remove, MainFrame, Vanish, FsFault
<1>17. ASSUME NEW p \in Procs, Clear(p) PROVE TypeOK'
  BY <1>17 DEF Clear, SrvGoto, SrvFrame, FsFault
<1>18. ASSUME NEW p \in Procs, Bind(p) PROVE TypeOK'
  BY <1>18 DEF Bind, SrvGoto, SrvFrame
<1>19. ASSUME NEW p \in Procs, BuildFails(p) PROVE TypeOK'
  BY <1>19 DEF BuildFails, SrvGoto, SrvFrame
<1>20. ASSUME NEW p \in Procs, Assign(p) PROVE TypeOK'
  BY <1>20 DEF Assign, SrvGoto, SrvFrame
<1>21. ASSUME NEW p \in Procs, Chmod(p) PROVE TypeOK'
  BY <1>21 DEF Chmod, SrvGoto, SrvFrame, FsFault
<1>22. ASSUME NEW p \in Procs, WaitReturns(p) PROVE TypeOK'
  BY <1>22 DEF WaitReturns, SrvGoto, SrvFrame
<1>23. ASSUME NEW p \in Procs, Signal(p) PROVE TypeOK'
  BY <1>23 DEF Signal
<1>24. ASSUME NEW p \in Procs, Exits(p) PROVE TypeOK'
  BY <1>24 DEF Exits, Dies, Vanish, SrvGoto
<1>25. ASSUME NEW p \in Procs, Crash(p) PROVE TypeOK'
  BY <1>25 DEF Crash, Dies, Vanish, SrvGoto
<1>26. ASSUME NEW c \in Calls, CallArrives(c) PROVE TypeOK'
  BY <1>26 DEF CallArrives, Listening, Exists, Files
<1>27. ASSUME NEW c \in Calls, CallEnds(c) PROVE TypeOK'
  BY <1>27 DEF CallEnds
<1>28. CASE UNCHANGED vars
  BY <1>28 DEF vars
<1>29. QED
  BY <1>1, <1>2, <1>3, <1>4, <1>5, <1>6, <1>7, <1>8, <1>9, <1>10, <1>11, <1>12, <1>13, <1>14, <1>15, <1>16, <1>17, <1>18, <1>19, <1>20, <1>21, <1>22, <1>23, <1>24, <1>25, <1>26, <1>27, <1>28 DEF Next, MainStep, SrvStep

(* Phases, flags, file and counters of all processes keep their types.     *)
THEOREM TypeCorrect == Spec => []TypeOK
  BY InitTyped, NextTyped, PTL DEF Spec

-----------------------------------------------------------------------------
(* The server thread runs only between its creation and the join, during   *)
(* which the object is there and the path is saved. An object is freed     *)
(* after the join, so the order of main's steps is all that protects it.   *)

Active(p) == srvPc[p] \notin {"none", "left"}
Between == {"wait", "register", "loop", "devices", "stop", "shutdown", "join"}

ThreadInv ==
  \A p \in Procs :
    /\ Active(p) => obj[p] = "live" /\ path[p] /\ mainPc[p] \in Between
    /\ mainPc[p] \in {"create", "spawn"} => path[p]
    /\ mainPc[p] = "spawn" => obj[p] = "live"

(* Calls are accepted by a thread that is inside Start, never after        *)
(* Shutdown has begun, and Shutdown ends when there are none.              *)
CallInv ==
  /\ \A c \in Calls :
       call[c] # NoProc => srvPc[call[c]] \in {"bound", "chmod", "serving"}
  /\ \A p \in Procs : shut[p] = "done" => \A c \in Calls : call[c] # p

(* The owner of the file still has the path saved, was killed, or failed   *)
(* to unlink it.                                                           *)
FileInv ==
  \A p \in Procs :
    /\ file.owner = p =>
         path[p] \/ mainPc[p] = "killed" \/ (mainPc[p] = "ended" /\ faults > 0)
    /\ mainPc[p] = "ended" => ~path[p]

LEMMA InitThread == Init => ThreadInv
  BY DEF Init, ThreadInv, Active

LEMMA NextThread == TypeOK /\ ThreadInv /\ [Next]_vars => ThreadInv'
<1> SUFFICES ASSUME TypeOK, ThreadInv, [Next]_vars PROVE ThreadInv'
  OBVIOUS
<1> USE DEF TypeOK, ThreadInv, Active, Between, Goto, envVars, mainVars,
            srvVars, MainPcs, SrvPcs
<1>1. ASSUME NEW p \in Procs, Launch(p) PROVE ThreadInv'
  BY <1>1 DEF Launch
<1>2. ASSUME NEW p \in Procs, EarlyFails(p) PROVE ThreadInv'
  BY <1>2 DEF EarlyFails, MainFrame
<1>3. ASSUME NEW p \in Procs, ClearStale(p) PROVE ThreadInv'
  BY <1>3 DEF ClearStale, MainFrame, NoFile, FsFault
<1>4. ASSUME NEW p \in Procs, Create(p) PROVE ThreadInv'
  BY <1>4 DEF Create
<1>5. ASSUME NEW p \in Procs, Spawn(p) PROVE ThreadInv'
  BY <1>5 DEF Spawn
<1>6. ASSUME NEW p \in Procs, UdsReady(p) PROVE ThreadInv'
  BY <1>6 DEF UdsReady, MainFrame, FsFault
<1>7. ASSUME NEW p \in Procs, UdsTimesOut(p) PROVE ThreadInv'
  BY <1>7 DEF UdsTimesOut, MainFrame
<1>8. ASSUME NEW p \in Procs, Registers(p) PROVE ThreadInv'
  BY <1>8 DEF Registers, MainFrame
<1>9. ASSUME NEW p \in Procs, RegisterFails(p) PROVE ThreadInv'
  BY <1>9 DEF RegisterFails, MainFrame
<1>10. ASSUME NEW p \in Procs, LoopExit(p) PROVE ThreadInv'
  BY <1>10 DEF LoopExit, MainFrame
<1>11. ASSUME NEW p \in Procs, DevicesFreed(p) PROVE ThreadInv'
  BY <1>11 DEF DevicesFreed, MainFrame
<1>12. ASSUME NEW p \in Procs, Stop(p) PROVE ThreadInv'
  BY <1>12 DEF Stop
<1>13. ASSUME NEW p \in Procs, ShutdownReturns(p) PROVE ThreadInv'
  BY <1>13 DEF ShutdownReturns, NoFile
<1>14. ASSUME NEW p \in Procs, Join(p) PROVE ThreadInv'
  BY <1>14 DEF Join, MainFrame
<1>15. ASSUME NEW p \in Procs, Free(p) PROVE ThreadInv'
  BY <1>15 DEF Free
<1>16. ASSUME NEW p \in Procs, Remove(p) PROVE ThreadInv'
  BY <1>16 DEF Remove, MainFrame, Vanish, NoFile, FsFault
<1>17. ASSUME NEW p \in Procs, Clear(p) PROVE ThreadInv'
  BY <1>17 DEF Clear, SrvGoto, SrvFrame, NoFile, FsFault
<1>18. ASSUME NEW p \in Procs, Bind(p) PROVE ThreadInv'
  BY <1>18 DEF Bind, SrvGoto, SrvFrame
<1>19. ASSUME NEW p \in Procs, BuildFails(p) PROVE ThreadInv'
  BY <1>19 DEF BuildFails, SrvGoto, SrvFrame
<1>20. ASSUME NEW p \in Procs, Assign(p) PROVE ThreadInv'
  BY <1>20 DEF Assign, SrvGoto, SrvFrame
<1>21. ASSUME NEW p \in Procs, Chmod(p) PROVE ThreadInv'
  BY <1>21 DEF Chmod, SrvGoto, SrvFrame, FsFault
<1>22. ASSUME NEW p \in Procs, WaitReturns(p) PROVE ThreadInv'
  BY <1>22 DEF WaitReturns, SrvGoto, SrvFrame
<1>23. ASSUME NEW p \in Procs, Signal(p) PROVE ThreadInv'
  BY <1>23 DEF Signal
<1>24. ASSUME NEW p \in Procs, Exits(p) PROVE ThreadInv'
  BY <1>24 DEF Exits, Dies, Vanish, SrvGoto
<1>25. ASSUME NEW p \in Procs, Crash(p) PROVE ThreadInv'
  BY <1>25 DEF Crash, Dies, Vanish, SrvGoto
<1>26. ASSUME NEW c \in Calls, CallArrives(c) PROVE ThreadInv'
  BY <1>26 DEF CallArrives, Listening, Exists
<1>27. ASSUME NEW c \in Calls, CallEnds(c) PROVE ThreadInv'
  BY <1>27 DEF CallEnds
<1>28. CASE UNCHANGED vars
  BY <1>28 DEF vars
<1>29. QED
  BY <1>1, <1>2, <1>3, <1>4, <1>5, <1>6, <1>7, <1>8, <1>9, <1>10, <1>11, <1>12, <1>13, <1>14, <1>15, <1>16, <1>17, <1>18, <1>19, <1>20, <1>21, <1>22, <1>23, <1>24, <1>25, <1>26, <1>27, <1>28 DEF Next, MainStep, SrvStep

LEMMA InitCall == Init => CallInv
  BY DEF Init, CallInv

LEMMA NextCall == TypeOK /\ ThreadInv /\ CallInv /\ [Next]_vars => CallInv'
<1> SUFFICES ASSUME TypeOK, ThreadInv, CallInv, [Next]_vars PROVE CallInv'
  OBVIOUS
<1> USE DEF TypeOK, ThreadInv, CallInv, Active, Between, Goto, envVars,
            mainVars, srvVars, NoProc, Procs
<1>1. ASSUME NEW p \in Procs, Launch(p) PROVE CallInv'
  BY <1>1 DEF Launch
<1>2. ASSUME NEW p \in Procs, EarlyFails(p) PROVE CallInv'
  BY <1>2 DEF EarlyFails, MainFrame
<1>3. ASSUME NEW p \in Procs, ClearStale(p) PROVE CallInv'
  <2>1. UNCHANGED <<call, srvPc, shut>>
    BY <1>3 DEF ClearStale, MainFrame
  <2> QED
    BY <2>1
<1>4. ASSUME NEW p \in Procs, Create(p) PROVE CallInv'
  BY <1>4 DEF Create
<1>5. ASSUME NEW p \in Procs, Spawn(p) PROVE CallInv'
  BY <1>5 DEF Spawn
<1>6. ASSUME NEW p \in Procs, UdsReady(p) PROVE CallInv'
  BY <1>6 DEF UdsReady, MainFrame, FsFault
<1>7. ASSUME NEW p \in Procs, UdsTimesOut(p) PROVE CallInv'
  BY <1>7 DEF UdsTimesOut, MainFrame
<1>8. ASSUME NEW p \in Procs, Registers(p) PROVE CallInv'
  BY <1>8 DEF Registers, MainFrame
<1>9. ASSUME NEW p \in Procs, RegisterFails(p) PROVE CallInv'
  BY <1>9 DEF RegisterFails, MainFrame
<1>10. ASSUME NEW p \in Procs, LoopExit(p) PROVE CallInv'
  BY <1>10 DEF LoopExit, MainFrame
<1>11. ASSUME NEW p \in Procs, DevicesFreed(p) PROVE CallInv'
  BY <1>11 DEF DevicesFreed, MainFrame
<1>12. ASSUME NEW p \in Procs, Stop(p) PROVE CallInv'
  <2>1. CASE server[p] /\ shut' = [shut EXCEPT ![p] = "begun"]
    BY <1>12, <2>1 DEF Stop
  <2>2. CASE ~server[p] /\ UNCHANGED shut
    BY <1>12, <2>2 DEF Stop
  <2>3. QED
    BY <1>12, <2>1, <2>2 DEF Stop
<1>13. ASSUME NEW p \in Procs, ShutdownReturns(p) PROVE CallInv'
  BY <1>13 DEF ShutdownReturns, NoFile
<1>14. ASSUME NEW p \in Procs, Join(p) PROVE CallInv'
  BY <1>14 DEF Join, MainFrame
<1>15. ASSUME NEW p \in Procs, Free(p) PROVE CallInv'
  BY <1>15 DEF Free
<1>16. ASSUME NEW p \in Procs, Remove(p) PROVE CallInv'
  BY <1>16 DEF Remove, MainFrame, Vanish, NoFile, FsFault
<1>17. ASSUME NEW p \in Procs, Clear(p) PROVE CallInv'
  BY <1>17 DEF Clear, SrvGoto, SrvFrame, NoFile, FsFault
<1>18. ASSUME NEW p \in Procs, Bind(p) PROVE CallInv'
  BY <1>18 DEF Bind, SrvGoto, SrvFrame
<1>19. ASSUME NEW p \in Procs, BuildFails(p) PROVE CallInv'
  BY <1>19 DEF BuildFails, SrvGoto, SrvFrame
<1>20. ASSUME NEW p \in Procs, Assign(p) PROVE CallInv'
  BY <1>20 DEF Assign, SrvGoto, SrvFrame
<1>21. ASSUME NEW p \in Procs, Chmod(p) PROVE CallInv'
  BY <1>21 DEF Chmod, SrvGoto, SrvFrame, FsFault
<1>22. ASSUME NEW p \in Procs, WaitReturns(p) PROVE CallInv'
  BY <1>22 DEF WaitReturns, SrvGoto, SrvFrame
<1>23. ASSUME NEW p \in Procs, Signal(p) PROVE CallInv'
  BY <1>23 DEF Signal
<1>24. ASSUME NEW p \in Procs, Exits(p) PROVE CallInv'
  BY <1>24 DEF Exits, Dies, Vanish, SrvGoto
<1>25. ASSUME NEW p \in Procs, Crash(p) PROVE CallInv'
  BY <1>25 DEF Crash, Dies, Vanish, SrvGoto
<1>26. ASSUME NEW c \in Calls, CallArrives(c) PROVE CallInv'
  BY <1>26 DEF CallArrives, Listening, Exists
<1>27. ASSUME NEW c \in Calls, CallEnds(c) PROVE CallInv'
  BY <1>27 DEF CallEnds
<1>28. CASE UNCHANGED vars
  BY <1>28 DEF vars
<1>29. QED
  BY <1>1, <1>2, <1>3, <1>4, <1>5, <1>6, <1>7, <1>8, <1>9, <1>10, <1>11, <1>12, <1>13, <1>14, <1>15, <1>16, <1>17, <1>18, <1>19, <1>20, <1>21, <1>22, <1>23, <1>24, <1>25, <1>26, <1>27, <1>28 DEF Next, MainStep, SrvStep

LEMMA InitFile == Init => FileInv
  BY DEF Init, FileInv, NoFile, NoProc, Procs

LEMMA NextFile == TypeOK /\ ThreadInv /\ FileInv /\ [Next]_vars => FileInv'
<1> SUFFICES ASSUME TypeOK, ThreadInv, FileInv, [Next]_vars PROVE FileInv'
  OBVIOUS
<1> USE BoundAssumption DEF TypeOK, ThreadInv, FileInv, Active, Between, Goto,
                            envVars, mainVars, srvVars, NoProc, Procs, Running,
                            Exists, Files
<1>1. ASSUME NEW p \in Procs, Launch(p) PROVE FileInv'
  BY <1>1 DEF Launch
<1>2. ASSUME NEW p \in Procs, EarlyFails(p) PROVE FileInv'
  BY <1>2 DEF EarlyFails, MainFrame
<1>3. ASSUME NEW p \in Procs, ClearStale(p) PROVE FileInv'
  BY <1>3 DEF ClearStale, MainFrame, NoFile, FsFault
<1>4. ASSUME NEW p \in Procs, Create(p) PROVE FileInv'
  <2>1. UNCHANGED <<path, file, faults>> /\ mainPc[p] = "create"
    BY <1>4 DEF Create
  <2>2. \E a \in {"spawn", "devices"} : mainPc' = [mainPc EXCEPT ![p] = a]
    BY <1>4 DEF Create
  <2>3. /\ mainPc'[p] \in {"spawn", "devices"}
        /\ \A q \in Procs \ {p} : mainPc'[q] = mainPc[q]
    BY <2>2
  <2> QED
    BY <2>1, <2>3
<1>5. ASSUME NEW p \in Procs, Spawn(p) PROVE FileInv'
  BY <1>5 DEF Spawn
<1>6. ASSUME NEW p \in Procs, UdsReady(p) PROVE FileInv'
  BY <1>6 DEF UdsReady, MainFrame, FsFault
<1>7. ASSUME NEW p \in Procs, UdsTimesOut(p) PROVE FileInv'
  BY <1>7 DEF UdsTimesOut, MainFrame
<1>8. ASSUME NEW p \in Procs, Registers(p) PROVE FileInv'
  BY <1>8 DEF Registers, MainFrame
<1>9. ASSUME NEW p \in Procs, RegisterFails(p) PROVE FileInv'
  BY <1>9 DEF RegisterFails, MainFrame
<1>10. ASSUME NEW p \in Procs, LoopExit(p) PROVE FileInv'
  BY <1>10 DEF LoopExit, MainFrame
<1>11. ASSUME NEW p \in Procs, DevicesFreed(p) PROVE FileInv'
  BY <1>11 DEF DevicesFreed, MainFrame
<1>12. ASSUME NEW p \in Procs, Stop(p) PROVE FileInv'
  <2>1. UNCHANGED <<path, file, faults>> /\ mainPc[p] = "stop"
    BY <1>12 DEF Stop
  <2>2. \E a \in {"shutdown", "join"} : mainPc' = [mainPc EXCEPT ![p] = a]
    BY <1>12 DEF Stop
  <2>3. /\ mainPc'[p] \in {"shutdown", "join"}
        /\ \A q \in Procs \ {p} : mainPc'[q] = mainPc[q]
    BY <2>2
  <2> QED
    BY <2>1, <2>3
<1>13. ASSUME NEW p \in Procs, ShutdownReturns(p) PROVE FileInv'
  BY <1>13 DEF ShutdownReturns, NoFile
<1>14. ASSUME NEW p \in Procs, Join(p) PROVE FileInv'
  BY <1>14 DEF Join, MainFrame
<1>15. ASSUME NEW p \in Procs, Free(p) PROVE FileInv'
  BY <1>15 DEF Free
<1>16. ASSUME NEW p \in Procs, Remove(p) PROVE FileInv'
  BY <1>16 DEF Remove, MainFrame, Vanish, NoFile, FsFault
<1>17. ASSUME NEW p \in Procs, Clear(p) PROVE FileInv'
  BY <1>17 DEF Clear, SrvGoto, SrvFrame, NoFile, FsFault
<1>18. ASSUME NEW p \in Procs, Bind(p) PROVE FileInv'
  BY <1>18 DEF Bind, SrvGoto, SrvFrame
<1>19. ASSUME NEW p \in Procs, BuildFails(p) PROVE FileInv'
  BY <1>19 DEF BuildFails, SrvGoto, SrvFrame
<1>20. ASSUME NEW p \in Procs, Assign(p) PROVE FileInv'
  BY <1>20 DEF Assign, SrvGoto, SrvFrame
<1>21. ASSUME NEW p \in Procs, Chmod(p) PROVE FileInv'
  BY <1>21 DEF Chmod, SrvGoto, SrvFrame, FsFault
<1>22. ASSUME NEW p \in Procs, WaitReturns(p) PROVE FileInv'
  BY <1>22 DEF WaitReturns, SrvGoto, SrvFrame
<1>23. ASSUME NEW p \in Procs, Signal(p) PROVE FileInv'
  BY <1>23 DEF Signal
<1>24. ASSUME NEW p \in Procs, Exits(p) PROVE FileInv'
  BY <1>24 DEF Exits, Dies, Vanish, SrvGoto
<1>25. ASSUME NEW p \in Procs, Crash(p) PROVE FileInv'
  BY <1>25 DEF Crash, Dies, Vanish, SrvGoto
<1>26. ASSUME NEW c \in Calls, CallArrives(c) PROVE FileInv'
  BY <1>26 DEF CallArrives, Listening, Exists
<1>27. ASSUME NEW c \in Calls, CallEnds(c) PROVE FileInv'
  BY <1>27 DEF CallEnds
<1>28. CASE UNCHANGED vars
  BY <1>28 DEF vars
<1>29. QED
  BY <1>1, <1>2, <1>3, <1>4, <1>5, <1>6, <1>7, <1>8, <1>9, <1>10, <1>11, <1>12, <1>13, <1>14, <1>15, <1>16, <1>17, <1>18, <1>19, <1>20, <1>21, <1>22, <1>23, <1>24, <1>25, <1>26, <1>27, <1>28 DEF Next, MainStep, SrvStep

IInv == TypeOK /\ ThreadInv /\ CallInv /\ FileInv

LEMMA Inductive == Spec => []IInv
<1>1. Init => IInv
  BY InitTyped, InitThread, InitCall, InitFile DEF IInv
<1>2. IInv /\ [Next]_vars => IInv'
  BY NextTyped, NextThread, NextCall, NextFile DEF IInv
<1>3. QED
  BY <1>1, <1>2, PTL DEF Spec

-----------------------------------------------------------------------------
(* grpcserver_free never deletes an object that the server thread or a     *)
(* call still uses, wherever start-up failed and whenever cleanup began.   *)
THEOREM NoUseAfterFree == Spec => []ServerOutlivesUsers
<1>1. IInv => ServerOutlivesUsers
  BY DEF IInv, ThreadInv, CallInv, Active, ServerOutlivesUsers
<1>2. QED
  BY <1>1, Inductive, PTL

(* A process whose cleanup has ended leaves no socket file of its own, for *)
(* any number of processes that come after or overlap with one another.    *)
THEOREM FilesRemoved == Spec => []NothingLeftBehind
<1>1. IInv => NothingLeftBehind
  BY DEF IInv, FileInv, NothingLeftBehind
<1>2. QED
  BY <1>1, Inductive, PTL

-----------------------------------------------------------------------------
(* Call-backs. While processes do not overlap and unlink and chmod work,   *)
(* the socket file can only be that of the one process that runs.          *)

Starting == {"off", "begin", "create", "spawn", "wait"}

(* How far main has come: it has seen no file before the end of its wait,  *)
(* and Shutdown has not begun before Stop.                                 *)
StartInv ==
  \A p \in Procs :
    /\ mainPc[p] \in Starting => ~seen[p]
    /\ mainPc[p] \in Starting \cup {"register", "loop", "devices", "stop"}
         => shut[p] = "no"
    /\ mainPc[p] = "wait" => srvPc[p] # "none"

AloneInv ==
  ~overlapped => \A p, q \in Procs : Running(p) /\ Running(q) => p = q

Bound == {"bound", "chmod", "serving"}

(* The file follows the server thread of the process that runs, and main's *)
(* chmod opens it before main goes on.                                     *)
ReadyInv ==
  ~overlapped /\ faults = 0 =>
    \A p \in Procs :
      /\ mainPc[p] \in {"create", "spawn"} => ~Exists
      /\ mainPc[p] = "wait" =>
           /\ srvPc[p] \notin Bound => ~Exists
           /\ srvPc[p] \in Bound => file.owner = p
      /\ mainPc[p] \in {"register", "loop", "devices"} /\ seen[p] =>
           srvPc[p] \in Bound /\ file = [owner |-> p, open |-> TRUE]

LEMMA Opened ==
  \A f \in Files, p \in Procs :
    f.owner = p => [f EXCEPT !.open = TRUE] = [owner |-> p, open |-> TRUE]
<1> SUFFICES ASSUME NEW f \in Files, NEW p \in Procs, f.owner = p
             PROVE  [f EXCEPT !.open = TRUE] = [owner |-> p, open |-> TRUE]
  OBVIOUS
<1> DEFINE g == [f EXCEPT !.open = TRUE]
<1>1. g \in Files /\ g.owner = p /\ g.open = TRUE
  BY DEF Files
<1>2. g = [owner |-> g.owner, open |-> g.open]
  <2> HIDE DEF g
  <2>1. QED
    BY <1>1 DEF Files
<1>3. QED
  BY <1>1, <1>2

LEMMA InitReady == Init => StartInv /\ AloneInv /\ ReadyInv
  BY DEF Init, StartInv, AloneInv, ReadyInv, Starting, Running

LEMMA NextStart == TypeOK /\ ThreadInv /\ StartInv /\ [Next]_vars => StartInv'
<1> SUFFICES ASSUME TypeOK, ThreadInv, StartInv, [Next]_vars PROVE StartInv'
  OBVIOUS
<1> USE DEF StartInv, Starting, TypeOK, ThreadInv, Active, Between, Goto, envVars, mainVars,
            srvVars, MainPcs, SrvPcs
<1>1. ASSUME NEW p \in Procs, Launch(p) PROVE StartInv'
  BY <1>1 DEF Launch
<1>2. ASSUME NEW p \in Procs, EarlyFails(p) PROVE StartInv'
  BY <1>2 DEF EarlyFails, MainFrame
<1>3. ASSUME NEW p \in Procs, ClearStale(p) PROVE StartInv'
  BY <1>3 DEF ClearStale, MainFrame, NoFile, FsFault
<1>4. ASSUME NEW p \in Procs, Create(p) PROVE StartInv'
  BY <1>4 DEF Create
<1>5. ASSUME NEW p \in Procs, Spawn(p) PROVE StartInv'
  BY <1>5 DEF Spawn
<1>6. ASSUME NEW p \in Procs, UdsReady(p) PROVE StartInv'
  BY <1>6 DEF UdsReady, MainFrame, FsFault
<1>7. ASSUME NEW p \in Procs, UdsTimesOut(p) PROVE StartInv'
  BY <1>7 DEF UdsTimesOut, MainFrame
<1>8. ASSUME NEW p \in Procs, Registers(p) PROVE StartInv'
  BY <1>8 DEF Registers, MainFrame
<1>9. ASSUME NEW p \in Procs, RegisterFails(p) PROVE StartInv'
  BY <1>9 DEF RegisterFails, MainFrame
<1>10. ASSUME NEW p \in Procs, LoopExit(p) PROVE StartInv'
  BY <1>10 DEF LoopExit, MainFrame
<1>11. ASSUME NEW p \in Procs, DevicesFreed(p) PROVE StartInv'
  BY <1>11 DEF DevicesFreed, MainFrame
<1>12. ASSUME NEW p \in Procs, Stop(p) PROVE StartInv'
  BY <1>12 DEF Stop
<1>13. ASSUME NEW p \in Procs, ShutdownReturns(p) PROVE StartInv'
  BY <1>13 DEF ShutdownReturns, NoFile
<1>14. ASSUME NEW p \in Procs, Join(p) PROVE StartInv'
  BY <1>14 DEF Join, MainFrame
<1>15. ASSUME NEW p \in Procs, Free(p) PROVE StartInv'
  BY <1>15 DEF Free
<1>16. ASSUME NEW p \in Procs, Remove(p) PROVE StartInv'
  BY <1>16 DEF Remove, MainFrame, Vanish, NoFile, FsFault
<1>17. ASSUME NEW p \in Procs, Clear(p) PROVE StartInv'
  BY <1>17 DEF Clear, SrvGoto, SrvFrame, NoFile, FsFault
<1>18. ASSUME NEW p \in Procs, Bind(p) PROVE StartInv'
  BY <1>18 DEF Bind, SrvGoto, SrvFrame
<1>19. ASSUME NEW p \in Procs, BuildFails(p) PROVE StartInv'
  BY <1>19 DEF BuildFails, SrvGoto, SrvFrame
<1>20. ASSUME NEW p \in Procs, Assign(p) PROVE StartInv'
  BY <1>20 DEF Assign, SrvGoto, SrvFrame
<1>21. ASSUME NEW p \in Procs, Chmod(p) PROVE StartInv'
  BY <1>21 DEF Chmod, SrvGoto, SrvFrame, FsFault
<1>22. ASSUME NEW p \in Procs, WaitReturns(p) PROVE StartInv'
  BY <1>22 DEF WaitReturns, SrvGoto, SrvFrame
<1>23. ASSUME NEW p \in Procs, Signal(p) PROVE StartInv'
  BY <1>23 DEF Signal
<1>24. ASSUME NEW p \in Procs, Exits(p) PROVE StartInv'
  BY <1>24 DEF Exits, Dies, Vanish, SrvGoto
<1>25. ASSUME NEW p \in Procs, Crash(p) PROVE StartInv'
  BY <1>25 DEF Crash, Dies, Vanish, SrvGoto
<1>26. ASSUME NEW c \in Calls, CallArrives(c) PROVE StartInv'
  BY <1>26 DEF CallArrives
<1>27. ASSUME NEW c \in Calls, CallEnds(c) PROVE StartInv'
  BY <1>27 DEF CallEnds
<1>28. CASE UNCHANGED vars
  BY <1>28 DEF vars
<1>29. QED
  BY <1>1, <1>2, <1>3, <1>4, <1>5, <1>6, <1>7, <1>8, <1>9, <1>10, <1>11, <1>12, <1>13, <1>14, <1>15, <1>16, <1>17, <1>18, <1>19, <1>20, <1>21, <1>22, <1>23, <1>24, <1>25, <1>26, <1>27, <1>28
     DEF Next, MainStep, SrvStep

LEMMA NextAlone == TypeOK /\ AloneInv /\ [Next]_vars => AloneInv'
<1> SUFFICES ASSUME TypeOK, AloneInv, [Next]_vars PROVE AloneInv'
  OBVIOUS
<1> USE DEF AloneInv, Running, TypeOK, Goto, envVars, mainVars, srvVars,
            MainPcs
<1>1. ASSUME NEW p \in Procs, Launch(p) PROVE AloneInv'
  BY <1>1 DEF Launch
<1>2. ASSUME NEW p \in Procs, EarlyFails(p) PROVE AloneInv'
  BY <1>2 DEF EarlyFails, MainFrame
<1>3. ASSUME NEW p \in Procs, ClearStale(p) PROVE AloneInv'
  BY <1>3 DEF ClearStale, MainFrame, NoFile, FsFault
<1>4. ASSUME NEW p \in Procs, Create(p) PROVE AloneInv'
  BY <1>4 DEF Create
<1>5. ASSUME NEW p \in Procs, Spawn(p) PROVE AloneInv'
  BY <1>5 DEF Spawn
<1>6. ASSUME NEW p \in Procs, UdsReady(p) PROVE AloneInv'
  BY <1>6 DEF UdsReady, MainFrame, FsFault
<1>7. ASSUME NEW p \in Procs, UdsTimesOut(p) PROVE AloneInv'
  BY <1>7 DEF UdsTimesOut, MainFrame
<1>8. ASSUME NEW p \in Procs, Registers(p) PROVE AloneInv'
  BY <1>8 DEF Registers, MainFrame
<1>9. ASSUME NEW p \in Procs, RegisterFails(p) PROVE AloneInv'
  BY <1>9 DEF RegisterFails, MainFrame
<1>10. ASSUME NEW p \in Procs, LoopExit(p) PROVE AloneInv'
  BY <1>10 DEF LoopExit, MainFrame
<1>11. ASSUME NEW p \in Procs, DevicesFreed(p) PROVE AloneInv'
  BY <1>11 DEF DevicesFreed, MainFrame
<1>12. ASSUME NEW p \in Procs, Stop(p) PROVE AloneInv'
  BY <1>12 DEF Stop
<1>13. ASSUME NEW p \in Procs, ShutdownReturns(p) PROVE AloneInv'
  BY <1>13 DEF ShutdownReturns, NoFile
<1>14. ASSUME NEW p \in Procs, Join(p) PROVE AloneInv'
  BY <1>14 DEF Join, MainFrame
<1>15. ASSUME NEW p \in Procs, Free(p) PROVE AloneInv'
  BY <1>15 DEF Free
<1>16. ASSUME NEW p \in Procs, Remove(p) PROVE AloneInv'
  BY <1>16 DEF Remove, MainFrame, Vanish, NoFile, FsFault
<1>17. ASSUME NEW p \in Procs, Clear(p) PROVE AloneInv'
  BY <1>17 DEF Clear, SrvGoto, SrvFrame, NoFile, FsFault
<1>18. ASSUME NEW p \in Procs, Bind(p) PROVE AloneInv'
  BY <1>18 DEF Bind, SrvGoto, SrvFrame
<1>19. ASSUME NEW p \in Procs, BuildFails(p) PROVE AloneInv'
  BY <1>19 DEF BuildFails, SrvGoto, SrvFrame
<1>20. ASSUME NEW p \in Procs, Assign(p) PROVE AloneInv'
  BY <1>20 DEF Assign, SrvGoto, SrvFrame
<1>21. ASSUME NEW p \in Procs, Chmod(p) PROVE AloneInv'
  BY <1>21 DEF Chmod, SrvGoto, SrvFrame, FsFault
<1>22. ASSUME NEW p \in Procs, WaitReturns(p) PROVE AloneInv'
  BY <1>22 DEF WaitReturns, SrvGoto, SrvFrame
<1>23. ASSUME NEW p \in Procs, Signal(p) PROVE AloneInv'
  BY <1>23 DEF Signal
<1>24. ASSUME NEW p \in Procs, Exits(p) PROVE AloneInv'
  BY <1>24 DEF Exits, Dies, Vanish, SrvGoto
<1>25. ASSUME NEW p \in Procs, Crash(p) PROVE AloneInv'
  BY <1>25 DEF Crash, Dies, Vanish, SrvGoto
<1>26. ASSUME NEW c \in Calls, CallArrives(c) PROVE AloneInv'
  BY <1>26 DEF CallArrives
<1>27. ASSUME NEW c \in Calls, CallEnds(c) PROVE AloneInv'
  BY <1>27 DEF CallEnds
<1>28. CASE UNCHANGED vars
  BY <1>28 DEF vars
<1>29. QED
  BY <1>1, <1>2, <1>3, <1>4, <1>5, <1>6, <1>7, <1>8, <1>9, <1>10, <1>11, <1>12, <1>13, <1>14, <1>15, <1>16, <1>17, <1>18, <1>19, <1>20, <1>21, <1>22, <1>23, <1>24, <1>25, <1>26, <1>27, <1>28
     DEF Next, MainStep, SrvStep

LEMMA NextReady == TypeOK /\ ThreadInv /\ StartInv /\ AloneInv /\ ReadyInv /\ [Next]_vars => ReadyInv'
<1> SUFFICES ASSUME TypeOK, ThreadInv, StartInv, AloneInv, ReadyInv, [Next]_vars PROVE ReadyInv'
  OBVIOUS
<1> USE DEF ReadyInv, AloneInv, Running, StartInv, Starting, Bound, Exists, NoProc,
            Procs, TypeOK, ThreadInv, Active, Between, Goto, envVars, mainVars,
            srvVars, MainPcs, SrvPcs
<1>1. ASSUME NEW p \in Procs, Launch(p) PROVE ReadyInv'
  BY <1>1 DEF Launch
<1>2. ASSUME NEW p \in Procs, EarlyFails(p) PROVE ReadyInv'
  BY <1>2 DEF EarlyFails, MainFrame
<1>3. ASSUME NEW p \in Procs, ClearStale(p) PROVE ReadyInv'
  BY <1>3 DEF ClearStale, MainFrame, NoFile, FsFault
<1>4. ASSUME NEW p \in Procs, Create(p) PROVE ReadyInv'
  <2>1. CASE obj' = [obj EXCEPT ![p] = "live"] /\ Goto(p, "spawn")
    BY <1>4, <2>1 DEF Create
  <2>2. CASE UNCHANGED obj /\ Goto(p, "devices")
    BY <1>4, <2>2 DEF Create
  <2>3. QED
    BY <1>4, <2>1, <2>2 DEF Create
<1>5. ASSUME NEW p \in Procs, Spawn(p) PROVE ReadyInv'
  <2>1. CASE srvPc' = [srvPc EXCEPT ![p] = "clear"] /\ Goto(p, "wait")
    BY <1>5, <2>1 DEF Spawn
  <2>2. CASE UNCHANGED srvPc /\ Goto(p, "devices")
    BY <1>5, <2>2 DEF Spawn
  <2>3. QED
    BY <1>5, <2>1, <2>2 DEF Spawn
<1>6. ASSUME NEW p \in Procs, UdsReady(p) PROVE ReadyInv'
  <2> SUFFICES ASSUME ~overlapped', faults' = 0 PROVE ReadyInv'
    BY DEF ReadyInv
  <2>1. ~overlapped /\ faults = 0 /\ faults' = faults
    BY <1>6 DEF UdsReady, MainFrame, FsFault
  <2>2. file' = [file EXCEPT !.open = TRUE]
    BY <1>6, <2>1 DEF UdsReady, FsFault
  <2>3. srvPc[p] \in Bound /\ file.owner = p /\ srvPc' = srvPc
    BY <1>6, <2>1 DEF UdsReady, MainFrame
  <2>4. file' = [owner |-> p, open |-> TRUE]
    BY <2>2, <2>3 DEF Files
  <2>5. mainPc' = [mainPc EXCEPT ![p] = "register"] /\ mainPc[p] = "wait"
    BY <1>6 DEF UdsReady
  <2>6. \A q \in Procs : q # p => ~Running(q) /\ mainPc'[q] = mainPc[q]
    BY <2>1, <2>5
  <2>7. mainPc'[p] = "register" /\ srvPc'[p] \in Bound
    BY <2>3, <2>5
  <2>8. \A q \in Procs : q # p => mainPc'[q] \in {"off", "ended", "killed"}
    BY <2>6
  <2>9. QED
    BY <2>4, <2>7, <2>8
<1>7. ASSUME NEW p \in Procs, UdsTimesOut(p) PROVE ReadyInv'
  BY <1>7 DEF UdsTimesOut, MainFrame
<1>8. ASSUME NEW p \in Procs, Registers(p) PROVE ReadyInv'
  BY <1>8 DEF Registers, MainFrame
<1>9. ASSUME NEW p \in Procs, RegisterFails(p) PROVE ReadyInv'
  BY <1>9 DEF RegisterFails, MainFrame
<1>10. ASSUME NEW p \in Procs, LoopExit(p) PROVE ReadyInv'
  BY <1>10 DEF LoopExit, MainFrame
<1>11. ASSUME NEW p \in Procs, DevicesFreed(p) PROVE ReadyInv'
  BY <1>11 DEF DevicesFreed, MainFrame
<1>12. ASSUME NEW p \in Procs, Stop(p) PROVE ReadyInv'
  <2>1. CASE server[p] /\ shut' = [shut EXCEPT ![p] = "begun"] /\ Goto(p, "shutdown")
    BY <1>12, <2>1 DEF Stop
  <2>2. CASE ~server[p] /\ UNCHANGED shut /\ Goto(p, "join")
    BY <1>12, <2>2 DEF Stop
  <2>3. QED
    BY <1>12, <2>1, <2>2 DEF Stop
<1>13. ASSUME NEW p \in Procs, ShutdownReturns(p) PROVE ReadyInv'
  BY <1>13 DEF ShutdownReturns, NoFile
<1>14. ASSUME NEW p \in Procs, Join(p) PROVE ReadyInv'
  BY <1>14 DEF Join, MainFrame
<1>15. ASSUME NEW p \in Procs, Free(p) PROVE ReadyInv'
  BY <1>15 DEF Free
<1>16. ASSUME NEW p \in Procs, Remove(p) PROVE ReadyInv'
  BY <1>16 DEF Remove, MainFrame, Vanish, NoFile, FsFault
<1>17. ASSUME NEW p \in Procs, Clear(p) PROVE ReadyInv'
  <2> SUFFICES ASSUME ~overlapped', faults' = 0 PROVE ReadyInv'
    BY DEF ReadyInv
  <2>1. ~overlapped /\ faults = 0 /\ UNCHANGED <<mainPc, seen>>
    BY <1>17 DEF Clear, SrvFrame, FsFault
  <2>2. file' = NoFile /\ srvPc' = [srvPc EXCEPT ![p] = "build"] /\ srvPc[p] = "clear"
    BY <1>17, <2>1 DEF Clear, SrvGoto, FsFault
  <2>3. \A q \in Procs : q # p => ~Running(q)
    BY <2>1, <2>2
  <2>4. QED
    BY <2>1, <2>2, <2>3 DEF NoFile
<1>18. ASSUME NEW p \in Procs, Bind(p) PROVE ReadyInv'
  BY <1>18 DEF Bind, SrvGoto, SrvFrame
<1>19. ASSUME NEW p \in Procs, BuildFails(p) PROVE ReadyInv'
  BY <1>19 DEF BuildFails, SrvGoto, SrvFrame
<1>20. ASSUME NEW p \in Procs, Assign(p) PROVE ReadyInv'
  BY <1>20 DEF Assign, SrvGoto, SrvFrame
<1>21. ASSUME NEW p \in Procs, Chmod(p) PROVE ReadyInv'
  <2> SUFFICES ASSUME ~overlapped', faults' = 0 PROVE ReadyInv'
    BY DEF ReadyInv
  <2>1. ~overlapped /\ faults = 0 /\ UNCHANGED <<mainPc, seen>>
    BY <1>21 DEF Chmod, SrvFrame, FsFault
  <2>2. /\ srvPc' = [srvPc EXCEPT ![p] = "serving"] /\ srvPc[p] = "chmod"
        /\ file' = [file EXCEPT !.open = TRUE] \/ file' = file
    BY <1>21, <2>1 DEF Chmod, SrvGoto, FsFault
  <2>3. \A q \in Procs : q # p => ~Running(q)
    BY <2>1, <2>2
  <2>4. file'.owner = file.owner
    BY <2>2 DEF Files
  <2>5. file = [owner |-> p, open |-> TRUE] => file' = file
    BY <2>2, Opened
  <2>6. QED
    BY <2>1, <2>2, <2>3, <2>4, <2>5
<1>22. ASSUME NEW p \in Procs, WaitReturns(p) PROVE ReadyInv'
  BY <1>22 DEF WaitReturns, SrvGoto, SrvFrame
<1>23. ASSUME NEW p \in Procs, Signal(p) PROVE ReadyInv'
  BY <1>23 DEF Signal
<1>24. ASSUME NEW p \in Procs, Exits(p) PROVE ReadyInv'
  BY <1>24 DEF Exits, Dies, Vanish, SrvGoto
<1>25. ASSUME NEW p \in Procs, Crash(p) PROVE ReadyInv'
  BY <1>25 DEF Crash, Dies, Vanish, SrvGoto
<1>26. ASSUME NEW c \in Calls, CallArrives(c) PROVE ReadyInv'
  BY <1>26 DEF CallArrives
<1>27. ASSUME NEW c \in Calls, CallEnds(c) PROVE ReadyInv'
  BY <1>27 DEF CallEnds
<1>28. CASE UNCHANGED vars
  BY <1>28 DEF vars
<1>29. QED
  BY <1>1, <1>2, <1>3, <1>4, <1>5, <1>6, <1>7, <1>8, <1>9, <1>10, <1>11, <1>12, <1>13, <1>14, <1>15, <1>16, <1>17, <1>18, <1>19, <1>20, <1>21, <1>22, <1>23, <1>24, <1>25, <1>26, <1>27, <1>28
     DEF Next, MainStep, SrvStep

(* Whenever main is between the registration and the end of cleanup's work *)
(* on devices, EdgeCore reaches this process at the announced address.     *)
THEOREM EdgeCoreCanCallBack == Spec => []CallbackPossible
<1> DEFINE I == TypeOK /\ ThreadInv /\ StartInv /\ AloneInv /\ ReadyInv
<1>1. Init => I
  BY InitTyped, InitThread, InitReady
<1>2. I /\ [Next]_vars => I'
  BY NextTyped, NextThread, NextStart, NextAlone, NextReady
<1>3. I => CallbackPossible
  <2> SUFFICES ASSUME I, NEW p \in Procs,
                      mainPc[p] \in {"register", "loop", "devices"},
                      seen[p] /\ Settled /\ ~overlapped /\ faults = 0
               PROVE  /\ file = [owner |-> p, open |-> TRUE]
                      /\ Listening(p)
                      /\ Announced = Served
    BY DEF CallbackPossible
  <2>1. srvPc[p] \in Bound /\ file = [owner |-> p, open |-> TRUE]
    BY DEF ReadyInv
  <2>2. Listening(p)
    BY <2>1 DEF StartInv, Bound, Listening
  <2>3. Announced = Served
    BY DEF Settled, Announced, Served
  <2>4. QED
    BY <2>1, <2>2, <2>3
<1>4. QED
  BY <1>1, <1>2, <1>3, PTL DEF Spec
=============================================================================
