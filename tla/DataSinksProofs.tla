-------------------------- MODULE DataSinksProofs --------------------------
(* No thread is ever inside a closed connection or a freed publisher, for  *)
(* any number of devices and calls.                                        *)
EXTENDS DataSinks, TLAPS

(* Which users are gone in which phase of cleanup_resources.               *)
UsersGone ==
  /\ main \in {"db", "publisher"} => \A u \in Users : user[u].pc = "rest"
  /\ main \in {"stop rpc", "close db", "free publisher", "over"}
       => Ended(DataThreads)
  /\ main \in {"close db", "free publisher", "over"} => Ended(RpcTasks)

(* When a handle is destroyed.                                             *)
DestroyedLast ==
  /\ conn = "freed" => main \in {"free publisher", "over"}
  /\ handle = Freed => main = "over"

(* Each user is inside the handle it takes itself to be in.                *)
InOwnHandle ==
  \A u \in Users :
    /\ user[u].pc \in InDb => conn = "open"
    /\ user[u].pc = "publish" => handle # Freed
    /\ user[u].pc \in InHttp => handle.kind \in {"http", "otel"}
    /\ user[u].pc \in InMqtt => handle.kind = "mqtt"

SinkInv == TypeOK /\ UsersGone /\ DestroyedLast /\ InOwnHandle

(* A user that has not ended keeps main from destroying the handles.       *)
LEMMA AliveKeepsHandles ==
  ASSUME SinkInv, NEW u \in Users, user[u].pc # "ended"
  PROVE  /\ main \notin {"close db", "free publisher", "over"}
         /\ conn # "freed" /\ handle # Freed
BY DEF SinkInv, UsersGone, DestroyedLast, Ended, Users

(* The process starts without handles and without users inside.            *)
LEMMA SinkInit == Init => SinkInv
<1> SUFFICES ASSUME Init PROVE SinkInv
  OBVIOUS
<1>1. user \in [Users -> UserRecord] /\ \A u \in Users : user[u].pc = "rest"
  BY DEF Init, Rest, UserRecord, Results
<1>2. TypeOK
  <2>1. attached \in BOOLEAN /\ {stray, shared} \subseteq BOOLEAN
        /\ row \in [Users -> BOOLEAN] /\ handle \in Handles
    BY DEF Init, Handles
  <2> QED
    BY <1>1, <2>1, SinkAssumption DEF Init, TypeOK, Links
<1>3. UsersGone /\ DestroyedLast /\ InOwnHandle
  BY <1>1 DEF Init, UsersGone, DestroyedLast, InOwnHandle, Null, Freed,
     InDb, InHttp, InMqtt
<1> QED
  BY <1>2, <1>3 DEF SinkInv

(* main's steps.                                                           *)
LEMMA MainKeeps == SinkInv /\ MainStep => SinkInv'
<1> SUFFICES ASSUME SinkInv, MainStep PROVE SinkInv'
  OBVIOUS
<1> USE DEF SinkInv, TypeOK, UsersGone, DestroyedLast, InOwnHandle, Ended,
            dbVars, configVars, sinkVars, InDb, InHttp, InMqtt
<1>1. CASE DbDisabled
  BY <1>1 DEF DbDisabled
<1>2. CASE DbConnects
  BY <1>2 DEF DbConnects
<1>3. CASE DbConnectFails
  BY <1>3, SinkAssumption DEF DbConnectFails, Fault
<1>4. CASE PublisherReady
  BY <1>4 DEF PublisherReady, publisher_new, http_publisher_new,
     otel_publisher_new, mqtt_publisher_new, Null, Freed, Handles
<1>5. CASE PublisherFails
  BY <1>5, SinkAssumption DEF PublisherFails, Fault
<1>6. CASE Signal
  BY <1>6 DEF Signal
<1>7. CASE DataStopped
  BY <1>7 DEF DataStopped
<1>8. CASE RpcStopped
  BY <1>8 DEF RpcStopped
<1>9. CASE CloseDb
  BY <1>9 DEF CloseDb, Users
<1>10. CASE publisher_free
  BY <1>10 DEF publisher_free, Users, Handles, Links
<1> QED
  BY <1>1, <1>2, <1>3, <1>4, <1>5, <1>6, <1>7, <1>8, <1>9, <1>10 DEF MainStep

(* What a step of user u does to the users: the others keep their state,   *)
(* u goes to one of the points in pcs.                                     *)
Goes(u, pcs) ==
  /\ user' \in [Users -> UserRecord]
  /\ \A v \in Users \ {u} : user'[v] = user[v]
  /\ user'[u].pc \in pcs

(* A step of user u that leaves main and the database alone, keeps the     *)
(* kind of the publisher and goes where its handle lets it go.             *)
LEMMA UserKeeps ==
  ASSUME SinkInv, NEW u \in Users, user[u].pc # "ended",
         NEW pcs, Goes(u, pcs), "ended" \notin pcs,
         main \notin {"db", "publisher"},
         UNCHANGED <<main, dbVars, configVars>>,
         \A p \in pcs : /\ p \in InDb => conn = "open"
                        /\ p \in InHttp => handle.kind \in {"http", "otel"}
                        /\ p \in InMqtt => handle.kind = "mqtt",
         handle' \in Handles, handle'.kind = handle.kind,
         link' \in Links, got' \in [Users -> Nat], row' \in [Users -> BOOLEAN],
         stray' \in BOOLEAN, shared' \in BOOLEAN,
         pushes' \in 0 .. MaxPushes, faults' \in 0 .. MaxFaults
  PROVE  SinkInv'
<1>1. handle # Freed /\ main \notin {"close db", "free publisher", "over"}
  BY AliveKeepsHandles
<1>2. handle' # Freed
  <2>1. handle.kind # "freed"
    <3>1. handle \in Handles
      BY DEF SinkInv, TypeOK
    <3>2. CASE handle \in {Null}
      BY <3>2 DEF Null
    <3>3. CASE handle \in [kind : {"mqtt"}, connected : BOOLEAN]
      BY <3>3
    <3>4. CASE handle \in [kind : {"http", "otel"}, post : Users \cup {None}]
      BY <3>4
    <3> QED
      BY <1>1, <3>1, <3>2, <3>3, <3>4 DEF Handles
  <2> QED
    BY <2>1 DEF Freed
<1>3. TypeOK'
  BY DEF SinkInv, TypeOK, dbVars, configVars, Goes
<1>4. UsersGone'
  BY <1>1 DEF SinkInv, UsersGone, Ended, Goes, Users
<1>5. DestroyedLast'
  BY <1>2 DEF SinkInv, DestroyedLast, dbVars
<1>6. InOwnHandle'
  BY <1>2 DEF SinkInv, InOwnHandle, dbVars, Goes
<1> QED
  BY <1>3, <1>4, <1>5, <1>6 DEF SinkInv

(* The three ways in which the model changes a user's record.              *)
LEMMA Going ==
  ASSUME user \in [Users -> UserRecord], NEW u \in Users
  PROVE  /\ \A p \in {"rest", "publish"} \cup InDb \cup InPublisher :
               Moves(u, p) => Goes(u, {p})
         /\ \A p \in {"rest", "publish"} \cup InDb \cup InPublisher :
               user' = [user EXCEPT ![u].pc = p, ![u].tries = 0] => Goes(u, {p})
         /\ \A rc \in Results : user' = Published(u, rc) => Goes(u, {"rest"})
         /\ \A r \in Results : Recorded(u, r) => Goes(u, {"rest", "publish"})
         /\ user' = [user EXCEPT ![u].tries = @ + 1] => Goes(u, {user[u].pc})
<1> USE DEF Goes, UserRecord
<1>1. \A p \in {"rest", "publish"} \cup InDb \cup InPublisher :
        Moves(u, p) => Goes(u, {p})
  BY DEF Moves
<1>2. \A p \in {"rest", "publish"} \cup InDb \cup InPublisher :
        user' = [user EXCEPT ![u].pc = p, ![u].tries = 0] => Goes(u, {p})
  <2> SUFFICES ASSUME NEW p \in {"rest", "publish"} \cup InDb \cup InPublisher,
                      user' = [user EXCEPT ![u].pc = p, ![u].tries = 0]
               PROVE  Goes(u, {p})
    BY Zenon
  <2>1. user'[u] = [user[u] EXCEPT !.pc = p, !.tries = 0]
    OBVIOUS
  <2>2. \A r \in UserRecord : LET q == [r EXCEPT !.pc = p, !.tries = 0]
                             IN  q \in UserRecord /\ q.pc = p
    OBVIOUS
  <2> HIDE DEF UserRecord
  <2>3. user'[u] \in UserRecord /\ user'[u].pc = p
    BY <2>1, <2>2
  <2> QED
    BY <2>3
<1>3. \A rc \in Results : user' = Published(u, rc) => Goes(u, {"rest"})
  BY DEF Published
<1>4. \A r \in Results : Recorded(u, r) => Goes(u, {"rest", "publish"})
  <2> SUFFICES ASSUME NEW r \in Results, Recorded(u, r)
               PROVE  Goes(u, {"rest", "publish"})
    BY Zenon
  <2>1. CASE user[u].both
    BY <2>1 DEF Recorded
  <2>2. CASE ~user[u].both
    BY <2>2 DEF Recorded
  <2> QED
    BY <2>1, <2>2
<1>5. user' = [user EXCEPT ![u].tries = @ + 1] => Goes(u, {user[u].pc})
  OBVIOUS
<1> QED
  BY <1>1, <1>2, <1>3, <1>4, <1>5

(* A user at work excludes the phases before and after serving, and what   *)
(* its frame leaves alone.                                                 *)
LEMMA AtWork ==
  ASSUME SinkInv, NEW u \in Users, user[u].pc \notin {"rest", "ended"}, Stays
  PROVE  /\ main \notin {"db", "publisher"}
         /\ UNCHANGED <<main, dbVars, configVars>>
         /\ pushes' \in 0 .. MaxPushes /\ shared' \in BOOLEAN
<1>1. main \notin {"db", "publisher"}
  BY DEF SinkInv, UsersGone
<1>2. UNCHANGED <<main, dbVars, configVars>> /\ pushes' \in 0 .. MaxPushes
  BY DEF Stays, SinkInv, TypeOK
<1>3. shared' \in BOOLEAN
  BY DEF Stays
<1> QED
  BY <1>1, <1>2, <1>3

(* Failures are counted up to their bound.                                 *)
LEMMA FaultsCounted ==
  ASSUME SinkInv,
         faults' = faults \/ (faults < MaxFaults /\ faults' = faults + 1)
  PROVE  faults' \in 0 .. MaxFaults
<1>1. faults \in 0 .. MaxFaults
  BY DEF SinkInv, TypeOK
<1>2. MaxFaults \in Nat
  BY SinkAssumption
<1> QED
  BY <1>1, <1>2

(* A new push, of a thread that has not ended.                             *)
LEMMA BeginKeeps ==
  ASSUME SinkInv, NEW u \in Users, Begins(u)
  PROVE  SinkInv'
<1>1. PICK both \in BOOLEAN :
        user' = [user EXCEPT ![u] = [Rest EXCEPT !.both = both,
                   !.pc = IF attached /\ conn # "null" THEN "create"
                          ELSE IF both THEN "publish" ELSE "rest"]]
  BY DEF Begins
<1> DEFINE pcs == {"publish", "rest"} \cup (IF conn # "null" THEN {"create"} ELSE {})
<1>2. Goes(u, pcs)
  BY <1>1 DEF Rest, Goes, UserRecord, Results, InDb, SinkInv, TypeOK
<1>3. user[u].pc # "ended" /\ main \notin {"db", "publisher"}
      /\ UNCHANGED <<main, dbVars, configVars, handle, link, stray, faults>>
  BY DEF Begins
<1>4. shared' \in BOOLEAN /\ stray' \in BOOLEAN
  BY DEF Begins, SinkInv, TypeOK
<1>5. pushes' \in 0 .. MaxPushes /\ faults' \in 0 .. MaxFaults
      /\ handle' \in Handles /\ link' \in Links
  <2>1. pushes \in 0 .. MaxPushes /\ pushes < MaxPushes /\ pushes' = pushes + 1
    BY DEF Begins, SinkInv, TypeOK
  <2>2. pushes' \in 0 .. MaxPushes
    BY <2>1, SinkAssumption
  <2> QED
    BY <1>3, <2>2 DEF SinkInv, TypeOK
<1>6. got' \in [Users -> Nat] /\ row' \in [Users -> BOOLEAN]
  BY DEF Begins, SinkInv, TypeOK
<1>7. \A p \in pcs : /\ p \in InDb => conn = "open"
                     /\ p \notin InHttp \cup InMqtt /\ p # "ended"
  BY <1>3, AliveKeepsHandles DEF SinkInv, TypeOK, InDb, InHttp, InMqtt
<1> HIDE DEF pcs
<1> QED
  BY <1>2, <1>3, <1>4, <1>5, <1>6, <1>7, UserKeeps

(* Steps on the connection to the database.                                *)
LEMMA DbKeeps ==
  ASSUME SinkInv, NEW u \in Users, DbStep(u)
  PROVE  SinkInv'
<1>1. user[u].pc \in InDb /\ Stays /\ UNCHANGED <<handle, link, got, stray>>
  BY DEF DbStep, Adds, AddFails, DbStepOk, InDb
<1>2. Goes(u, {"prepare", "execute", "rest", "publish"})
  <2>1. user \in [Users -> UserRecord]
    BY DEF SinkInv, TypeOK
  <2>2. \/ Moves(u, "prepare") \/ Moves(u, "execute")
        \/ Recorded(u, "ok") \/ Recorded(u, "failed")
    BY DEF DbStep, Adds, AddFails, DbStepOk
  <2>3. \/ Goes(u, {"prepare"}) \/ Goes(u, {"execute"})
        \/ Goes(u, {"rest", "publish"})
    BY <2>1, <2>2, Going DEF InDb, Results
  <2> QED
    BY <2>3 DEF Goes
<1>3. row' \in [Users -> BOOLEAN] /\ faults' \in 0 .. MaxFaults
  <2>1. row \in [Users -> BOOLEAN] /\ faults \in 0 .. MaxFaults
    BY DEF SinkInv, TypeOK
  <2>2. row' = row \/ \E b \in BOOLEAN : row' = [row EXCEPT ![u] = b]
    BY DEF DbStep, Adds, AddFails, DbStepOk
  <2>3. faults' = faults \/ (faults < MaxFaults /\ faults' = faults + 1)
    BY DEF DbStep, Adds, AddFails, Fault
  <2>4. row' \in [Users -> BOOLEAN]
    BY <2>1, <2>2
  <2> QED
    BY <2>1, <2>3, <2>4, SinkAssumption
<1>4. handle' \in Handles /\ link' \in Links /\ got' \in [Users -> Nat]
      /\ stray' \in BOOLEAN
  BY <1>1 DEF SinkInv, TypeOK
<1>5. user[u].pc \notin {"rest", "ended"} /\ conn = "open"
  BY <1>1 DEF InDb, SinkInv, InOwnHandle
<1> QED
  BY <1>1, <1>2, <1>3, <1>4, <1>5, AtWork, UserKeeps DEF InHttp, InMqtt

(* Steps on the HTTP and OpenTelemetry handles.                            *)
LEMMA HttpKeeps ==
  ASSUME SinkInv, NEW u \in Users,
         PublishSkipped(u) \/ Posts(u) \/ PerformOk(u) \/ PerformRefused(u)
           \/ PerformFails(u)
  PROVE  SinkInv'
<1>1. /\ user[u].pc \in {"publish", "perform"} /\ Stays
      /\ UNCHANGED <<link, row>>
  BY DEF PublishSkipped, Posts, PerformOk, PerformRefused, PerformFails, sinkVars
<1>2. user \in [Users -> UserRecord] /\ handle \in Handles
  BY DEF SinkInv, TypeOK
<1>3. Goes(u, {"rest"}) \/ (handle.kind \in {"http", "otel"} /\ Goes(u, {"perform"}))
  <2>1. user[u].pc = "perform" => handle.kind \in {"http", "otel"}
    BY DEF SinkInv, InOwnHandle, InHttp
  <2>2. CASE PublishSkipped(u) \/ PerformOk(u)
    BY <1>2, <2>2, Going DEF PublishSkipped, PerformOk, Results
  <2>3. CASE Posts(u)
    BY <1>2, <2>3, Going DEF Posts, InPublisher, InHttp
  <2>4. CASE PerformRefused(u) \/ PerformFails(u)
    <3>1. user[u].pc = "perform" /\ RetryOrGiveUp(u)
      BY <2>4 DEF PerformRefused, PerformFails
    <3> QED
      BY <1>2, <2>1, <3>1, Going DEF RetryOrGiveUp, Results
  <2> QED
    BY <2>2, <2>3, <2>4
<1>4. handle' \in Handles /\ handle'.kind = handle.kind
  <2>1. CASE UNCHANGED handle
    BY <1>2, <2>1
  <2>2. CASE Posts(u)
    <3>1. handle \in [kind : {"http", "otel"}, post : Users \cup {None}]
      BY <1>2, <2>2 DEF Posts, Handles, Null, Freed
    <3>2. handle' = [handle EXCEPT !.post = u]
      BY <2>2 DEF Posts
    <3> QED
      BY <3>1, <3>2 DEF Handles
  <2> QED
    BY <2>1, <2>2 DEF PublishSkipped, PerformOk, PerformRefused, PerformFails
<1>5. got' \in [Users -> Nat] /\ stray' \in BOOLEAN
  <2>1. got \in [Users -> Nat] /\ stray \in BOOLEAN
    BY DEF SinkInv, TypeOK
  <2>2. UNCHANGED <<got, stray>> \/ Sends
    BY DEF PublishSkipped, Posts, PerformOk, PerformRefused, PerformFails, sinkVars
  <2>3. got' \in [Users -> Nat]
    BY <2>1, <2>2 DEF Sends
  <2>4. stray' \in BOOLEAN
    BY <2>1, <2>2 DEF Sends
  <2> QED
    BY <2>3, <2>4
<1>6. faults' \in 0 .. MaxFaults
  <2>1. faults' = faults \/ (faults < MaxFaults /\ faults' = faults + 1)
    BY DEF PublishSkipped, Posts, PerformOk, PerformRefused, PerformFails, Fault
  <2> QED
    BY <2>1, FaultsCounted
<1>7. link' \in Links /\ row' \in [Users -> BOOLEAN]
  BY <1>1 DEF SinkInv, TypeOK
<1>8. CASE Goes(u, {"rest"})
  BY <1>1, <1>4, <1>5, <1>6, <1>7, <1>8, AtWork, UserKeeps DEF InDb, InHttp, InMqtt
<1>9. CASE handle.kind \in {"http", "otel"} /\ Goes(u, {"perform"})
  BY <1>1, <1>4, <1>5, <1>6, <1>7, <1>9, AtWork, UserKeeps DEF InDb, InHttp, InMqtt
<1> QED
  BY <1>3, <1>8, <1>9

(* Steps on the MQTT client.                                               *)
LEMMA MqttKeeps ==
  ASSUME SinkInv, NEW u \in Users,
         MqttChecks(u) \/ MqttConnects(u) \/ MqttConnectFails(u)
           \/ MqttWaits(u) \/ MqttSends(u) \/ MqttSendFails(u) \/ MqttLoops(u)
  PROVE  SinkInv'
<1> USE DEF sinkVars
<1>1. /\ user[u].pc \in {"publish"} \cup InMqtt /\ Stays
      /\ UNCHANGED <<row, stray>>
  BY DEF MqttChecks, MqttConnects, MqttConnectFails, MqttWaits, MqttSends,
     MqttSendFails, MqttLoops, InMqtt
<1>2. user \in [Users -> UserRecord] /\ handle \in Handles /\ link \in Links
      /\ got \in [Users -> Nat]
  BY DEF SinkInv, TypeOK
<1>3. handle.kind = "mqtt"
  BY <1>1 DEF SinkInv, InOwnHandle, MqttChecks, MqttConnects, MqttConnectFails,
     MqttWaits, MqttSends, MqttSendFails, MqttLoops, InMqtt
<1>4. handle \in [kind : {"mqtt"}, connected : BOOLEAN]
  BY <1>2, <1>3 DEF Handles, Null, Freed
<1>5. \/ handle' = handle /\ link' \in Links
      \/ \E result \in LoopResults : Loops(result)
  <2>1. CASE MqttConnects(u) \/ MqttConnectFails(u)
    BY <2>1 DEF MqttConnects, MqttConnectFails, Links
  <2>2. CASE MqttWaits(u) \/ MqttLoops(u)
    <3>1. \E result \in LoopResults : Loops(result)
      BY <2>2, Zenon DEF MqttWaits, MqttLoops
    <3> QED
      BY <3>1, Zenon
  <2>3. CASE MqttChecks(u) \/ MqttSends(u) \/ MqttSendFails(u)
    <3>1. handle' = handle /\ link' \in Links
      BY <1>2, <2>3 DEF MqttChecks, MqttSends, MqttSendFails
    <3> QED
      BY <3>1, Zenon
  <2> QED
    BY <2>1, <2>2, <2>3
<1>6. handle' \in Handles /\ handle'.kind = handle.kind /\ link' \in Links
  <2>1. \A result \in LoopResults : Loops(result) =>
          /\ link' \in Links
          /\ \/ handle' = handle
             \/ \E b \in BOOLEAN : handle' = [handle EXCEPT !.connected = b]
    BY <1>2 DEF Loops, LoopResults, Links
  <2>2. \A b \in BOOLEAN : /\ [handle EXCEPT !.connected = b] \in Handles
                           /\ [handle EXCEPT !.connected = b].kind = handle.kind
    BY <1>4 DEF Handles
  <2> QED
    BY <1>2, <1>5, <2>1, <2>2
<1>7. Goes(u, {"rest"} \cup InMqtt)
  <2>1. \/ \E p \in InMqtt : Moves(u, p)
        \/ user' = [user EXCEPT ![u].pc = "wait", ![u].tries = 0]
        \/ \E rc \in Results : user' = Published(u, rc)
        \/ user[u].pc \in InMqtt /\ user' = [user EXCEPT ![u].tries = @ + 1]
    BY DEF MqttChecks, MqttConnects, MqttConnectFails, MqttWaits, MqttSends,
       MqttSendFails, MqttLoops, InMqtt, Moves, Results
  <2>2. \/ \E p \in InMqtt : Goes(u, {p})
        \/ Goes(u, {"rest"})
    BY <1>2, <2>1, Going DEF InMqtt, InPublisher
  <2> QED
    BY <2>2 DEF Goes
<1>8. got' \in [Users -> Nat]
  <2>1. got' = got \/ got' = [got EXCEPT ![u] = @ + 1]
    BY DEF MqttChecks, MqttConnects, MqttConnectFails, MqttWaits, MqttSends,
       MqttSendFails, MqttLoops
  <2> QED
    BY <1>2, <2>1
<1>9. faults' \in 0 .. MaxFaults
  <2>1. faults' = faults \/ (faults < MaxFaults /\ faults' = faults + 1)
    BY DEF MqttChecks, MqttConnects, MqttConnectFails, MqttWaits, MqttSends,
       MqttSendFails, MqttLoops, Fault
  <2> QED
    BY <2>1, FaultsCounted
<1>10. row' \in [Users -> BOOLEAN] /\ stray' \in BOOLEAN
  BY <1>1 DEF SinkInv, TypeOK
<1> QED
  BY <1>1, <1>3, <1>6, <1>7, <1>8, <1>9, <1>10, AtWork, UserKeeps
     DEF InDb, InHttp, InMqtt

(* A thread that ends, and a connection that breaks.                       *)
LEMMA RestKeeps ==
  ASSUME SinkInv,
         (\E u \in Users : Ends(u)) \/ LinkBreaks \/ Over \/ UNCHANGED vars
  PROVE  SinkInv'
<1> USE DEF SinkInv, TypeOK, UsersGone, DestroyedLast, InOwnHandle, Ended,
            dbVars, configVars, sinkVars, InDb, InHttp, InMqtt
<1>1. ASSUME NEW u \in Users, Ends(u) PROVE SinkInv'
  <2>1. user' \in [Users -> UserRecord]
    BY <1>1 DEF Ends, UserRecord
  <2>2. \A v \in Users : user'[v].pc = IF v = u THEN "ended" ELSE user[v].pc
    BY <1>1 DEF Ends, UserRecord
  <2>3. UNCHANGED <<main, dbVars, configVars, handle, link, sinkVars, pushes,
                    faults, shared>> /\ main \notin {"db", "publisher"}
    BY <1>1 DEF Ends
  <2>4. TypeOK'
    BY <2>1, <2>3
  <2>5. UsersGone'
    BY <2>2, <2>3 DEF Users
  <2>6. DestroyedLast' /\ InOwnHandle'
    BY <2>2, <2>3
  <2> QED
    BY <2>4, <2>5, <2>6
<1>2. CASE LinkBreaks
  <2>1. faults' \in 0 .. MaxFaults
    BY <1>2, FaultsCounted DEF LinkBreaks, Fault
  <2> QED
    BY <1>2, <2>1 DEF LinkBreaks, Links
<1>3. CASE Over \/ UNCHANGED vars
  BY <1>3 DEF Over, vars
<1> QED
  BY <1>1, <1>2, <1>3

(* Every step of main, of the users and of the network keeps it.           *)
LEMMA SinkStep == SinkInv /\ [Next]_vars => SinkInv'
BY MainKeeps, BeginKeeps, DbKeeps, HttpKeeps, MqttKeeps, RestKeeps
   DEF Next, PublishStep

(* Types, for any number of threads, calls, pushes and failures.           *)
THEOREM SinksTyped == Spec => []TypeOK
<1>1. SinkInv => TypeOK
  BY DEF SinkInv
<1> QED
  BY SinkInit, SinkStep, <1>1, PTL DEF Spec

(* The order of cleanup_resources is enough: no data thread and no         *)
(* UpdateDevice task uses the MySQL connection or the publisher after main *)
(* has destroyed it.                                                       *)
THEOREM NoUseAfterFree == Spec => []HandlesOutliveUsers
<1>1. SinkInv => HandlesOutliveUsers
  BY DEF SinkInv, InOwnHandle, HandlesOutliveUsers, Freed, InPublisher
<1> QED
  BY SinkInit, SinkStep, <1>1, PTL DEF Spec

-----------------------------------------------------------------------------
(* Results. While no two users meet in a handle, each finds there what it  *)
(* put there itself: its body, its connection, its commands.               *)

Bound == IF method = "http" /\ retry > 1 THEN retry ELSE 1

KindIsMethod ==
  /\ handle.kind \in {"http", "otel", "mqtt"} => handle.kind = method
  /\ main \in {"db", "publisher"} => handle = Null

UserTrue(u) ==
  /\ user[u].rec = "ok" => row[u]
  /\ user[u].pc = "perform" => /\ handle.post = u
                               /\ got[u] <= user[u].tries /\ user[u].tries < Bound
  /\ method \in {"http", "otel"} /\ user[u].rc = "ok" => got[u] > 0
  /\ got[u] <= Bound
  /\ user[u].pc \in InDb \cup {"publish"} \cup InMqtt => got[u] = 0
  /\ user[u].pc = "send" => link \in {"up", "broken"}
  /\ user[u].pc \in {"connect", "wait"} => ~handle.connected

FlagTrue ==
  handle.kind = "mqtt" => (handle.connected => link \in {"up", "broken"})

TruthInv ==
  ~shared => ~Meet /\ ~stray /\ FlagTrue /\ \A u \in Users : UserTrue(u)

LEMMA InitTruth == Init => KindIsMethod /\ TruthInv
<1> SUFFICES ASSUME Init PROVE KindIsMethod /\ TruthInv
  OBVIOUS
<1>1. /\ \A u \in Users : user[u] = Rest /\ got[u] = 0 /\ row[u] = FALSE
      /\ handle.kind = "null" /\ main = "db" /\ stray = FALSE /\ handle = Null
      /\ retry \in Nat
  BY SinkAssumption DEF Init, Null
<1>2. ~Meet
  BY <1>1 DEF Meet, Rest, InDb, InPublisher, InHttp, InMqtt
<1>3. FlagTrue /\ KindIsMethod
  BY <1>1 DEF FlagTrue, KindIsMethod
<1>4. \A u \in Users : UserTrue(u)
  BY <1>1 DEF UserTrue, Rest, InDb, InMqtt, Bound
<1> QED
  BY <1>1, <1>2, <1>3, <1>4 DEF TruthInv

(* main chooses the publisher once; nothing changes its kind before the    *)
(* end.                                                                    *)
LEMMA NextKind == SinkInv /\ KindIsMethod /\ [Next]_vars => KindIsMethod'
<1> SUFFICES ASSUME SinkInv, KindIsMethod, [Next]_vars PROVE KindIsMethod'
  OBVIOUS
<1> USE DEF dbVars, configVars, sinkVars
<1>1. CASE MainStep
  <2>1. CASE PublisherReady
    BY <2>1 DEF PublisherReady, publisher_new, http_publisher_new,
       otel_publisher_new, mqtt_publisher_new, Null, KindIsMethod
  <2>2. CASE publisher_free
    BY <2>2 DEF publisher_free, Null, Freed, KindIsMethod
  <2>3. CASE ~PublisherReady /\ ~publisher_free
    BY <1>1, <2>3 DEF MainStep, DbDisabled, DbConnects, DbConnectFails,
       PublisherFails, Signal, DataStopped, RpcStopped, CloseDb, KindIsMethod
  <2> QED
    BY <2>1, <2>2, <2>3
<1>2. CASE LinkBreaks \/ Over \/ UNCHANGED vars
  BY <1>2 DEF LinkBreaks, Over, vars, KindIsMethod
<1>3. ASSUME NEW u \in Users, Begins(u) \/ DbStep(u) \/ Ends(u) PROVE KindIsMethod'
  BY <1>3 DEF Begins, DbStep, Adds, AddFails, Ends, Stays, KindIsMethod
<1>4. ASSUME NEW u \in Users, PublishStep(u) PROVE KindIsMethod'
  <2>1. user[u].pc \notin {"rest", "ended"} /\ Stays
    BY <1>4 DEF PublishStep, PublishSkipped, Posts, PerformOk, PerformRefused,
       PerformFails, MqttChecks, MqttConnects, MqttConnectFails, MqttWaits,
       MqttSends, MqttSendFails, MqttLoops
  <2>2. main \notin {"db", "publisher"} /\ UNCHANGED <<main, configVars>>
    BY <2>1, AtWork
  <2>3. handle'.kind = handle.kind
    <3>1. handle \in Handles
      BY DEF SinkInv, TypeOK
    <3>2. CASE Posts(u)
      <4>1. handle \in [kind : {"http", "otel"}, post : Users \cup {None}]
        BY <3>1, <3>2 DEF Posts, Handles, Null, Freed
      <4> QED
        BY <3>2, <4>1 DEF Posts
    <3>3. CASE MqttWaits(u) \/ MqttLoops(u)
      <4>1. handle.kind = "mqtt"
        BY <3>3 DEF SinkInv, InOwnHandle, MqttWaits, MqttLoops, InMqtt
      <4>2. handle \in [kind : {"mqtt"}, connected : BOOLEAN]
        BY <3>1, <4>1 DEF Handles, Null, Freed
      <4>3. \E result \in LoopResults : Loops(result)
        BY <3>3, Zenon DEF MqttWaits, MqttLoops
      <4>4. handle' = handle \/ \E b \in BOOLEAN : handle' = [handle EXCEPT !.connected = b]
        BY <4>3 DEF Loops, LoopResults
      <4> QED
        BY <4>2, <4>4
    <3>4. CASE ~Posts(u) /\ ~MqttWaits(u) /\ ~MqttLoops(u)
      BY <1>4, <3>4 DEF PublishStep, PublishSkipped, PerformOk, PerformRefused,
         PerformFails, MqttChecks, MqttConnects, MqttConnectFails, MqttSends,
         MqttSendFails
    <3> QED
      BY <3>2, <3>3, <3>4
  <2> QED
    BY <2>2, <2>3 DEF KindIsMethod
<1> QED
  BY <1>1, <1>2, <1>3, <1>4 DEF Next

(* A step of u leaves what is true of another user v, as long as v is not  *)
(* inside the publisher that u changes.                                    *)
LEMMA OthersTrue ==
  ASSUME NEW u \in Users, NEW v \in Users, UserTrue(v),
         user'[v] = user[v], got'[v] = got[v], row'[v] = row[v],
         UNCHANGED configVars,
         UNCHANGED <<handle, link>> \/ user[v].pc \notin InPublisher
  PROVE  UserTrue(v)'
<1>1. Bound' = Bound
  BY DEF Bound, configVars
<1>2. CASE UNCHANGED <<handle, link>>
  BY <1>1, <1>2 DEF UserTrue, configVars
<1>3. CASE user[v].pc \notin InPublisher
  BY <1>1, <1>3 DEF UserTrue, configVars, InPublisher, InHttp, InMqtt, InDb
<1> QED
  BY <1>2, <1>3

(* The steps of main, of ending threads and of the network.                *)
LEMMA QuietTruth ==
  ASSUME SinkInv, KindIsMethod, TruthInv,
         \/ MainStep \/ LinkBreaks \/ Over \/ UNCHANGED vars
         \/ \E u \in Users : Ends(u)
  PROVE  TruthInv'
<1> SUFFICES ASSUME ~shared' PROVE TruthInv'
  BY DEF TruthInv
<1> USE DEF dbVars, configVars, sinkVars
<1>1. UNCHANGED <<shared, got, row, stray, method, retry>>
  <2>1. CASE MainStep
    BY <2>1 DEF MainStep, DbDisabled, DbConnects, DbConnectFails, PublisherReady,
       PublisherFails, Signal, DataStopped, RpcStopped, CloseDb, publisher_free
  <2>2. CASE LinkBreaks \/ Over \/ UNCHANGED vars
    BY <2>2 DEF LinkBreaks, Over, vars
  <2>3. CASE \E u \in Users : Ends(u)
    BY <2>3 DEF Ends
  <2> QED
    BY <2>1, <2>2, <2>3
<1>2. ~Meet /\ ~stray /\ FlagTrue /\ (\A u \in Users : UserTrue(u)) /\ Bound' = Bound
  BY <1>1 DEF TruthInv, Bound
<1>3. \A v \in Users :
        /\ user'[v].rec = user[v].rec /\ user'[v].rc = user[v].rc
        /\ user'[v].tries = user[v].tries
        /\ user'[v].pc = user[v].pc \/ (user[v].pc = "rest" /\ user'[v].pc = "ended")
  <2>1. CASE MainStep
    BY <2>1 DEF MainStep, DbDisabled, DbConnects, DbConnectFails, PublisherReady,
       PublisherFails, Signal, DataStopped, RpcStopped, CloseDb, publisher_free
  <2>2. CASE LinkBreaks \/ Over \/ UNCHANGED vars
    BY <2>2 DEF LinkBreaks, Over, vars
  <2>3. ASSUME NEW u \in Users, Ends(u)
        PROVE  \A v \in Users :
                 /\ user'[v].rec = user[v].rec /\ user'[v].rc = user[v].rc
                 /\ user'[v].tries = user[v].tries
                 /\ \/ user'[v].pc = user[v].pc
                    \/ user[v].pc = "rest" /\ user'[v].pc = "ended"
    <3>1. user \in [Users -> UserRecord] /\ user[u].pc = "rest"
      BY <2>3 DEF Ends, SinkInv, TypeOK
    <3>2. user' = [user EXCEPT ![u].pc = "ended"]
      BY <2>3 DEF Ends
    <3> QED
      BY <3>1, <3>2 DEF UserRecord
  <2> QED
    BY <2>1, <2>2, <2>3
<1>4. ~Meet'
  BY <1>2, <1>3 DEF Meet, Others, InDb, InPublisher, InHttp, InMqtt
<1>5. /\ FlagTrue'
      /\ \A v \in Users : user[v].pc \in InPublisher
           => handle' = handle /\ (link' = link \/ (link \in {"up", "opening"}
                                                     /\ link' = "broken"))
  <2>1. CASE PublisherReady
    <3>1. \A v \in Users : user[v].pc = "rest"
      BY <2>1 DEF SinkInv, UsersGone, PublisherReady
    <3>2. FlagTrue'
      BY <2>1 DEF FlagTrue, PublisherReady, publisher_new, http_publisher_new,
         otel_publisher_new, mqtt_publisher_new, Null
    <3> QED
      BY <3>1, <3>2 DEF InPublisher, InHttp, InMqtt
  <2>2. CASE publisher_free
    <3>1. \A v \in Users : user[v].pc = "ended"
      BY <2>2 DEF SinkInv, UsersGone, publisher_free, Ended, Users
    <3>2. FlagTrue'
      BY <2>2 DEF FlagTrue, publisher_free, Null, Freed
    <3> QED
      BY <3>1, <3>2 DEF InPublisher, InHttp, InMqtt
  <2>3. CASE LinkBreaks
    BY <1>2, <2>3 DEF LinkBreaks, FlagTrue
  <2>4. CASE ~PublisherReady /\ ~publisher_free /\ ~LinkBreaks
    <3>1. UNCHANGED <<handle, link>>
      <4>1. CASE MainStep
        BY <2>4, <4>1 DEF MainStep, DbDisabled, DbConnects, DbConnectFails,
           PublisherFails, Signal, DataStopped, RpcStopped, CloseDb
      <4>2. CASE Over \/ UNCHANGED vars
        BY <4>2 DEF Over, vars
      <4>3. CASE \E u \in Users : Ends(u)
        BY <4>3 DEF Ends
      <4> QED
        BY <2>4, <4>1, <4>2, <4>3
    <3> QED
      BY <1>2, <3>1 DEF FlagTrue
  <2> QED
    BY <2>1, <2>2, <2>3, <2>4
<1>6. ASSUME NEW v \in Users PROVE UserTrue(v)'
  <2>1. UserTrue(v)
    BY <1>2
  <2>2. CASE user[v].pc \in InPublisher
    <3>1. handle' = handle /\ user'[v].pc = user[v].pc
      BY <1>3, <1>5, <2>2 DEF InPublisher, InHttp, InMqtt
    <3>2. user[v].pc = "send" => link' \in {"up", "broken"}
      BY <1>5, <2>1, <2>2 DEF UserTrue
    <3> QED
      BY <1>1, <1>2, <1>3, <2>1, <3>1, <3>2 DEF UserTrue
  <2>3. CASE user[v].pc \notin InPublisher
    BY <1>1, <1>2, <1>3, <2>1, <2>3 DEF UserTrue, InPublisher, InHttp, InMqtt, InDb
  <2> QED
    BY <2>2, <2>3
<1> QED
  BY <1>1, <1>2, <1>4, <1>5, <1>6 DEF TruthInv

(* What the ways to change a user's record leave of it.                    *)
LEMMA Fields ==
  ASSUME user \in [Users -> UserRecord], NEW u \in Users
  PROVE  /\ \A p : Moves(u, p) =>
              user'[u].pc = p /\ user'[u].tries = user[u].tries
              /\ user'[u].rc = user[u].rc /\ user'[u].rec = user[u].rec
         /\ \A p : user' = [user EXCEPT ![u].pc = p, ![u].tries = 0] =>
              user'[u].pc = p /\ user'[u].tries = 0
              /\ user'[u].rc = user[u].rc /\ user'[u].rec = user[u].rec
         /\ \A rc : user' = Published(u, rc) =>
              user'[u].pc = "rest" /\ user'[u].rc = rc /\ user'[u].rec = user[u].rec
         /\ \A r : Recorded(u, r) =>
              user'[u].pc \in {"rest", "publish"} /\ user'[u].rec = r
              /\ user'[u].rc = user[u].rc
         /\ user' = [user EXCEPT ![u].tries = @ + 1] =>
              user'[u].pc = user[u].pc /\ user'[u].tries = user[u].tries + 1
              /\ user'[u].rc = user[u].rc /\ user'[u].rec = user[u].rec
<1> USE DEF UserRecord
<1>1. \A p : Moves(u, p) =>
        user'[u].pc = p /\ user'[u].tries = user[u].tries
        /\ user'[u].rc = user[u].rc /\ user'[u].rec = user[u].rec
  BY DEF Moves
<1>2. \A p : user' = [user EXCEPT ![u].pc = p, ![u].tries = 0] =>
        user'[u].pc = p /\ user'[u].tries = 0
        /\ user'[u].rc = user[u].rc /\ user'[u].rec = user[u].rec
  OBVIOUS
<1>3. \A rc : user' = Published(u, rc) =>
        user'[u].pc = "rest" /\ user'[u].rc = rc /\ user'[u].rec = user[u].rec
  BY DEF Published
<1>4. \A r : Recorded(u, r) =>
        user'[u].pc \in {"rest", "publish"} /\ user'[u].rec = r
        /\ user'[u].rc = user[u].rc
  BY DEF Recorded
<1>5. user' = [user EXCEPT ![u].tries = @ + 1] =>
        user'[u].pc = user[u].pc /\ user'[u].tries = user[u].tries + 1
        /\ user'[u].rc = user[u].rc /\ user'[u].rec = user[u].rec
  OBVIOUS
<1> QED
  BY <1>1, <1>2, <1>3, <1>4, <1>5

(* A step of u, inside a push, that keeps what is true of u; the others    *)
(* are elsewhere, because nobody meets.                                    *)
LEMMA StepTruth ==
  ASSUME SinkInv, TruthInv, NEW u \in Users,
         shared' = (shared \/ Meet'), ~shared', UNCHANGED configVars,
         \A v \in Users \ {u} :
           user'[v] = user[v] /\ got'[v] = got[v] /\ row'[v] = row[v],
         \/ UNCHANGED <<handle, link>> \/ user[u].pc \in InPublisher
         \/ user'[u].pc \in InPublisher,
         ~stray', FlagTrue', UserTrue(u)'
  PROVE  TruthInv'
<1>1. ~Meet' /\ ~Meet /\ \A v \in Users : UserTrue(v)
  BY DEF TruthInv
<1>2. ASSUME NEW v \in Users \ {u} PROVE UserTrue(v)'
  <2>1. UNCHANGED <<handle, link>> \/ user[v].pc \notin InPublisher
    BY <1>1 DEF Meet, Others
  <2> QED
    BY <1>1, <2>1, OthersTrue
<1> QED
  BY <1>1, <1>2 DEF TruthInv

LEMMA BeginTruth ==
  ASSUME SinkInv, KindIsMethod, TruthInv, NEW u \in Users, Begins(u)
  PROVE  TruthInv'
<1> SUFFICES ASSUME ~shared' PROVE TruthInv'
  BY DEF TruthInv
<1>1. PICK both \in BOOLEAN :
        user' = [user EXCEPT ![u] = [Rest EXCEPT !.both = both,
                   !.pc = IF attached /\ conn # "null" THEN "create"
                          ELSE IF both THEN "publish" ELSE "rest"]]
  BY DEF Begins
<1>2. /\ shared' = (shared \/ Meet') /\ UNCHANGED <<configVars, handle, link, stray>>
      /\ got' = [got EXCEPT ![u] = 0] /\ row' = [row EXCEPT ![u] = FALSE]
  BY DEF Begins
<1>3. user \in [Users -> UserRecord] /\ got \in [Users -> Nat] /\ row \in [Users -> BOOLEAN]
  BY DEF SinkInv, TypeOK
<1>4. /\ \A v \in Users \ {u} :
           user'[v] = user[v] /\ got'[v] = got[v] /\ row'[v] = row[v]
      /\ got'[u] = 0
  BY <1>1, <1>2, <1>3
<1>5. /\ user'[u].pc \in {"create", "publish", "rest"}
      /\ user'[u].rec = "none" /\ user'[u].rc = "none"
  BY <1>1, <1>3 DEF Rest
<1>6. retry \in Nat /\ Bound' = Bound
  BY <1>2, SinkAssumption DEF SinkInv, TypeOK, Bound, configVars
<1>7. UserTrue(u)'
  BY <1>4, <1>5, <1>6 DEF UserTrue, Bound
<1>8. ~stray' /\ FlagTrue'
  BY <1>2 DEF TruthInv, FlagTrue
<1> QED
  BY <1>2, <1>4, <1>7, <1>8, StepTruth

LEMMA DbTruth ==
  ASSUME SinkInv, KindIsMethod, TruthInv, NEW u \in Users, DbStep(u)
  PROVE  TruthInv'
<1> SUFFICES ASSUME ~shared' PROVE TruthInv'
  BY DEF TruthInv
<1>1. /\ user[u].pc \in InDb /\ Stays /\ UNCHANGED <<handle, link, got, stray>>
      /\ shared' = (shared \/ Meet') /\ UNCHANGED configVars
  BY DEF DbStep, Adds, AddFails, DbStepOk, InDb, Stays
<1>2. user \in [Users -> UserRecord] /\ got \in [Users -> Nat] /\ row \in [Users -> BOOLEAN]
  BY DEF SinkInv, TypeOK
<1>3. ~shared /\ UserTrue(u) /\ FlagTrue /\ ~stray /\ ~Others(u, InDb)
  BY <1>1 DEF TruthInv, Meet
<1>4. /\ row' = row \/ \E b \in BOOLEAN : row' = [row EXCEPT ![u] = b]
      /\ \/ Moves(u, "prepare") /\ row' = row
         \/ Moves(u, "execute") /\ row' = row
         \/ Recorded(u, "ok") /\ row' = [row EXCEPT ![u] = TRUE]
         \/ Recorded(u, "failed")
  BY <1>3 DEF DbStep, Adds, AddFails, DbStepOk
<1>5. \A v \in Users \ {u} :
        user'[v] = user[v] /\ got'[v] = got[v] /\ row'[v] = row[v]
  BY <1>1, <1>2, <1>4 DEF Moves, Recorded
<1>6. /\ user'[u].pc \in {"prepare", "execute", "rest", "publish"}
      /\ user'[u].rc = user[u].rc
      /\ \/ user'[u].rec = user[u].rec /\ row'[u] = row[u]
         \/ user'[u].rec = "ok" /\ row'[u] = TRUE
         \/ user'[u].rec = "failed"
  BY <1>2, <1>4, Fields
<1>7. retry \in Nat /\ Bound' = Bound
  BY <1>1, SinkAssumption DEF SinkInv, TypeOK, Bound, configVars
<1>8. UserTrue(u)'
  BY <1>1, <1>3, <1>6, <1>7 DEF UserTrue, InDb, InMqtt, configVars
<1>9. ~stray' /\ FlagTrue'
  BY <1>1, <1>3 DEF FlagTrue
<1> QED
  BY <1>1, <1>5, <1>8, <1>9, StepTruth

LEMMA HttpTruth ==
  ASSUME SinkInv, KindIsMethod, TruthInv, NEW u \in Users,
         PublishSkipped(u) \/ Posts(u) \/ PerformOk(u) \/ PerformRefused(u)
           \/ PerformFails(u)
  PROVE  TruthInv'
<1> SUFFICES ASSUME ~shared' PROVE TruthInv'
  BY DEF TruthInv
<1>1. /\ user[u].pc \in {"publish", "perform"} /\ Stays /\ UNCHANGED <<link, row>>
      /\ shared' = (shared \/ Meet') /\ UNCHANGED configVars
  BY DEF PublishSkipped, Posts, PerformOk, PerformRefused, PerformFails,
     sinkVars, Stays
<1>2. /\ user \in [Users -> UserRecord] /\ got \in [Users -> Nat]
      /\ row \in [Users -> BOOLEAN] /\ handle \in Handles
      /\ user[u].tries \in Nat /\ got[u] \in Nat
  BY DEF SinkInv, TypeOK, UserRecord
<1>3. ~shared /\ UserTrue(u) /\ FlagTrue /\ ~stray
  BY <1>1 DEF TruthInv
<1>4. retry \in Nat /\ Bound' = Bound /\ Bound \in Nat /\ Bound >= 1
  <2>1. retry \in Nat
    BY SinkAssumption DEF SinkInv, TypeOK
  <2>2. Bound' = Bound
    BY <1>1 DEF Bound, configVars
  <2> QED
    BY <2>1, <2>2 DEF Bound
<1>5. CASE PublishSkipped(u)
  <2>1. user' = Published(u, "none") /\ UNCHANGED <<handle, link, got, row, stray>>
    BY <1>5 DEF PublishSkipped, sinkVars
  <2>2. /\ user'[u].pc = "rest" /\ user'[u].rc = "none" /\ user'[u].rec = user[u].rec
        /\ \A v \in Users \ {u} : user'[v] = user[v]
    BY <1>2, <2>1, Fields DEF Published
  <2>3. UserTrue(u)'
    BY <1>3, <1>4, <2>1, <2>2 DEF UserTrue, InDb, InMqtt
  <2>4. FlagTrue'
    BY <1>3, <2>1 DEF FlagTrue
  <2> QED
    BY <1>1, <1>3, <2>1, <2>2, <2>3, <2>4, StepTruth
<1>6. CASE Posts(u)
  <2>1. /\ user' = [user EXCEPT ![u].pc = "perform", ![u].tries = 0]
        /\ handle' = [handle EXCEPT !.post = u] /\ UNCHANGED <<link, got, row, stray>>
        /\ user[u].pc = "publish" /\ handle.kind \in {"http", "otel"}
    BY <1>6 DEF Posts, sinkVars
  <2>2. /\ user'[u].pc = "perform" /\ user'[u].tries = 0
        /\ user'[u].rc = user[u].rc /\ user'[u].rec = user[u].rec
        /\ \A v \in Users \ {u} : user'[v] = user[v]
    BY <1>2, <2>1, Fields
  <2>3. handle \in [kind : {"http", "otel"}, post : Users \cup {None}]
    BY <1>2, <2>1 DEF Handles, Null, Freed
  <2>4. handle'.post = u /\ handle'.kind = handle.kind
    BY <2>1, <2>3
  <2>5. UserTrue(u)'
    BY <1>1, <1>2, <1>3, <1>4, <2>1, <2>2, <2>4 DEF UserTrue, InDb, InMqtt, configVars
  <2>6. FlagTrue'
    BY <2>1, <2>4 DEF FlagTrue
  <2>7. user'[u].pc \in InPublisher
    BY <2>2 DEF InPublisher, InHttp
  <2> QED
    BY <1>1, <1>3, <2>1, <2>2, <2>5, <2>6, <2>7, StepTruth
<1>7. CASE PerformOk(u) \/ PerformRefused(u) \/ PerformFails(u)
  <2>1. /\ user[u].pc = "perform" /\ UNCHANGED handle
        /\ (user' = Published(u, "ok") /\ Sends) \/ RetryOrGiveUp(u)
        /\ Sends \/ UNCHANGED <<got, stray>>
    BY <1>7 DEF PerformOk, PerformRefused, PerformFails
  <2>2. handle.post = u /\ got[u] <= user[u].tries /\ user[u].tries < Bound
    BY <1>3, <2>1 DEF UserTrue
  <2>3. u # None
    BY SinkAssumption
  <2>4. Sends => got' = [got EXCEPT ![u] = @ + 1] /\ stray' = stray
    BY <2>1, <2>2, <2>3 DEF Sends
  <2>5. /\ ~stray' /\ got'[u] \in {got[u], got[u] + 1} /\ (Sends => got'[u] = got[u] + 1)
        /\ \A v \in Users \ {u} : got'[v] = got[v]
    BY <1>2, <1>3, <2>1, <2>4
  <2>6. \A v \in Users \ {u} : user'[v] = user[v]
    BY <1>2, <2>1 DEF RetryOrGiveUp, Published
  <2>7. Attempts <= Bound
    BY <1>4, <2>1 DEF Attempts, Bound, KindIsMethod, SinkInv, InOwnHandle, InHttp
  <2>8. FlagTrue' /\ user[u].pc \in InPublisher
    BY <1>1, <1>3, <2>1 DEF FlagTrue, InPublisher, InHttp
  <2>9. \/ /\ user'[u].pc = "rest" /\ user'[u].rec = user[u].rec
           /\ user'[u].rc = "failed" \/ (user'[u].rc = "ok" /\ got'[u] = got[u] + 1)
        \/ /\ user'[u].pc = "perform" /\ user'[u].rec = user[u].rec
           /\ user'[u].tries = user[u].tries + 1 /\ user'[u].rc = user[u].rc
           /\ user[u].tries + 1 < Attempts
    BY <1>2, <2>1, <2>5, Fields DEF RetryOrGiveUp
  <2>10. UserTrue(u)'
    <3>1. row'[u] = row[u] /\ method' = method /\ handle' = handle
      BY <1>1, <2>1 DEF configVars
    <3>2. Attempts \in Nat
      BY <1>4 DEF Attempts
    <3>3. got'[u] <= Bound /\ got'[u] <= user[u].tries + 1
      BY <1>2, <1>4, <2>2, <2>5
    <3>4. CASE user'[u].pc = "rest"
      BY <1>2, <1>3, <1>4, <2>9, <3>1, <3>3, <3>4 DEF UserTrue, InDb, InMqtt
    <3>5. CASE user'[u].pc = "perform"
      BY <1>2, <1>3, <1>4, <2>2, <2>5, <2>7, <2>9, <3>1, <3>2, <3>3, <3>5
         DEF UserTrue, InDb, InMqtt
    <3> QED
      BY <2>9, <3>4, <3>5
  <2> QED
    BY <1>1, <2>5, <2>6, <2>8, <2>10, StepTruth
<1> QED
  BY <1>5, <1>6, <1>7

LEMMA MqttTruth ==
  ASSUME SinkInv, KindIsMethod, TruthInv, NEW u \in Users,
         MqttChecks(u) \/ MqttConnects(u) \/ MqttConnectFails(u)
           \/ MqttWaits(u) \/ MqttSends(u) \/ MqttSendFails(u) \/ MqttLoops(u)
  PROVE  TruthInv'
<1> SUFFICES ASSUME ~shared' PROVE TruthInv'
  BY DEF TruthInv
<1> USE DEF sinkVars
<1>1. /\ user[u].pc \in {"publish"} \cup InMqtt /\ Stays /\ UNCHANGED <<row, stray>>
      /\ shared' = (shared \/ Meet') /\ UNCHANGED configVars
  BY DEF MqttChecks, MqttConnects, MqttConnectFails, MqttWaits, MqttSends,
     MqttSendFails, MqttLoops, InMqtt, Stays
<1>2. /\ user \in [Users -> UserRecord] /\ got \in [Users -> Nat]
      /\ row \in [Users -> BOOLEAN] /\ handle \in Handles /\ got[u] \in Nat
  BY DEF SinkInv, TypeOK
<1>3. ~shared /\ UserTrue(u) /\ FlagTrue /\ ~stray /\ got[u] = 0
  BY <1>1 DEF TruthInv, UserTrue
<1>4. retry \in Nat /\ Bound' = Bound /\ Bound \in Nat /\ Bound >= 1
  <2>1. retry \in Nat
    BY SinkAssumption DEF SinkInv, TypeOK
  <2>2. Bound' = Bound
    BY <1>1 DEF Bound, configVars
  <2> QED
    BY <2>1, <2>2 DEF Bound
<1>5. handle.kind = "mqtt"
  BY <1>1 DEF SinkInv, InOwnHandle, MqttChecks, MqttConnects, MqttConnectFails,
     MqttWaits, MqttSends, MqttSendFails, MqttLoops, InMqtt
<1>6. handle \in [kind : {"mqtt"}, connected : BOOLEAN]
  BY <1>2, <1>5 DEF Handles, Null, Freed
<1>7. method = "mqtt"
  BY <1>5 DEF KindIsMethod
<1>8. \/ user'[u].pc \in {"rest", "loop"} /\ user'[u].rec = user[u].rec
      \/ /\ user'[u].pc \in {"send", "connect", "wait"}
         /\ user'[u].rec = user[u].rec
  <2>1. \/ \E p \in {"send", "connect", "loop"} : Moves(u, p)
        \/ user' = [user EXCEPT ![u].pc = "wait", ![u].tries = 0]
        \/ \E rc \in Results : user' = Published(u, rc)
        \/ user[u].pc = "wait" /\ user' = [user EXCEPT ![u].tries = @ + 1]
    BY DEF MqttChecks, MqttConnects, MqttConnectFails, MqttWaits, MqttSends,
       MqttSendFails, MqttLoops, Moves, Results
  <2> QED
    BY <1>2, <2>1, Fields
<1>9. \A v \in Users \ {u} : user'[v] = user[v]
  BY <1>2 DEF MqttChecks, MqttConnects, MqttConnectFails, MqttWaits, MqttSends,
     MqttSendFails, MqttLoops, Moves, Published
<1>10. /\ \A v \in Users \ {u} : got'[v] = got[v]
       /\ got'[u] \in {0, 1} /\ (got'[u] = 1 => user'[u].pc = "rest")
  <2>1. CASE MqttLoops(u)
    <3>1. user'[u].pc = "rest"
      BY <1>2, <2>1, Fields DEF MqttLoops
    <3>2. got' = got \/ got' = [got EXCEPT ![u] = @ + 1]
      BY <2>1 DEF MqttLoops
    <3> QED
      BY <1>2, <1>3, <3>1, <3>2
  <2>2. CASE ~MqttLoops(u)
    <3>1. got' = got
      BY <2>2 DEF MqttChecks, MqttConnects, MqttConnectFails, MqttWaits,
         MqttSends, MqttSendFails
    <3> QED
      BY <1>3, <3>1
  <2> QED
    BY <2>1, <2>2
<1>11. \A result \in LoopResults : Loops(result) =>
         /\ \/ handle' = handle /\ link' = link
            \/ handle'.connected = TRUE /\ link' = "up"
            \/ handle'.connected = FALSE /\ link' = "closed"
         /\ handle'.kind = "mqtt"
  BY <1>5, <1>6 DEF Loops, LoopResults
<1>12. /\ handle'.kind = "mqtt" /\ FlagTrue'
       /\ user'[u].pc = "send" => link' \in {"up", "broken"}
       /\ user'[u].pc \in {"connect", "wait"} => ~handle'.connected
       /\ UNCHANGED <<handle, link>> \/ user[u].pc \in InPublisher
  <2>1. CASE MqttChecks(u)
    <3>1. /\ user'[u].pc = (IF handle.connected THEN "send" ELSE "connect")
          /\ UNCHANGED <<handle, link>>
      BY <1>2, <2>1, Fields DEF MqttChecks
    <3> QED
      BY <1>3, <1>5, <3>1 DEF FlagTrue
  <2>2. CASE MqttConnects(u) \/ MqttConnectFails(u)
    <3>1. user[u].pc = "connect" /\ handle' = handle /\ ~handle.connected
      BY <1>3, <2>2 DEF MqttConnects, MqttConnectFails, UserTrue
    <3>2. user'[u].pc \in {"wait", "rest"}
      BY <1>2, <2>2, Fields DEF MqttConnects, MqttConnectFails
    <3> QED
      BY <1>5, <3>1, <3>2 DEF FlagTrue, InPublisher, InMqtt
  <2>3. CASE MqttWaits(u)
    <3>1. user[u].pc = "wait" /\ ~handle.connected
      BY <1>3, <2>3 DEF MqttWaits, UserTrue
    <3>2. /\ \/ handle' = handle /\ link' = link
             \/ handle'.connected = TRUE /\ link' = "up"
             \/ handle'.connected = FALSE /\ link' = "closed"
          /\ handle'.kind = "mqtt"
      BY <1>11, <2>3 DEF MqttWaits
    <3>3. IF handle'.connected THEN user'[u].pc = "send"
          ELSE user'[u].pc \in {"wait", "rest"}
      <4>1. CASE handle'.connected
        BY <1>2, <2>3, <4>1, Fields DEF MqttWaits, Moves
      <4>2. CASE ~handle'.connected
        BY <1>2, <2>3, <3>1, <4>2, Fields DEF MqttWaits
      <4> QED
        BY <4>1, <4>2
    <3> QED
      BY <3>1, <3>2, <3>3 DEF FlagTrue, InPublisher, InMqtt
  <2>4. CASE MqttSends(u) \/ MqttSendFails(u)
    <3>1. UNCHANGED <<handle, link>> /\ user'[u].pc \in {"loop", "rest"}
      BY <1>2, <2>4, Fields DEF MqttSends, MqttSendFails
    <3> QED
      BY <1>3, <1>5, <3>1 DEF FlagTrue
  <2>5. CASE MqttLoops(u)
    <3>1. /\ \/ handle' = handle /\ link' = link
             \/ handle'.connected = TRUE /\ link' = "up"
             \/ handle'.connected = FALSE /\ link' = "closed"
          /\ handle'.kind = "mqtt"
      BY <1>11, <2>5 DEF MqttLoops
    <3>2. user'[u].pc = "rest" /\ user[u].pc = "loop"
      BY <1>2, <2>5, Fields DEF MqttLoops
    <3> QED
      BY <1>3, <3>1, <3>2 DEF FlagTrue, InPublisher, InMqtt
  <2> QED
    BY <2>1, <2>2, <2>3, <2>4, <2>5
<1>13. UserTrue(u)'
  <2>1. method' = "mqtt" /\ row'[u] = row[u]
    BY <1>1, <1>7 DEF configVars
  <2>2. got'[u] <= Bound'
    BY <1>4, <1>10
  <2>3. user'[u].rec = "ok" => row'[u]
    BY <1>3, <1>8, <2>1 DEF UserTrue
  <2>4. user'[u].pc \in InDb \cup {"publish"} \cup InMqtt => got'[u] = 0
    BY <1>10 DEF InDb, InMqtt
  <2>5. user'[u].pc # "perform"
    BY <1>8
  <2> QED
    BY <1>12, <2>1, <2>2, <2>3, <2>4, <2>5 DEF UserTrue
<1> QED
  BY <1>1, <1>3, <1>9, <1>10, <1>12, <1>13, StepTruth

LEMMA TruthStep ==
  SinkInv /\ KindIsMethod /\ TruthInv /\ [Next]_vars => KindIsMethod' /\ TruthInv'
BY NextKind, QuietTruth, BeginTruth, DbTruth, HttpTruth, MqttTruth
   DEF Next, PublishStep

LEMMA TruthAlways == Spec => [](SinkInv /\ KindIsMethod /\ TruthInv)
<1>1. Init => SinkInv /\ KindIsMethod /\ TruthInv
  BY SinkInit, InitTruth
<1>2. SinkInv /\ KindIsMethod /\ TruthInv /\ [Next]_vars
        => (SinkInv /\ KindIsMethod /\ TruthInv)'
  BY SinkStep, TruthStep
<1> QED
  BY <1>1, <1>2, PTL DEF Spec

(* As long as no two users meet in a handle, a success that is logged is   *)
(* one, for any number of threads, retries and failures.                   *)
THEOREM SuccessesAreReal == Spec => []ResultsAreTrue
<1>1. SinkInv /\ KindIsMethod /\ TruthInv => ResultsAreTrue
  BY DEF TruthInv, UserTrue, ResultsAreTrue
<1> QED
  BY <1>1, TruthAlways, PTL

(* A push arrives at most once per attempt, whatever is retried.           *)
THEOREM CopiesCounted == Spec => []CopiesBounded
<1>1. SinkInv /\ KindIsMethod /\ TruthInv => CopiesBounded
  BY DEF TruthInv, UserTrue, CopiesBounded, Bound
<1> QED
  BY <1>1, TruthAlways, PTL

(* The connected flag of the MQTT publisher never runs ahead of the        *)
(* broker's answer.                                                        *)
THEOREM ConnectedIsAccepted == Spec => []SendsWhenAccepted
<1>1. SinkInv /\ KindIsMethod /\ TruthInv => SendsWhenAccepted
  BY DEF TruthInv, UserTrue, SendsWhenAccepted
<1> QED
  BY <1>1, TruthAlways, PTL
=============================================================================
