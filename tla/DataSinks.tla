----------------------------- MODULE DataSinks -----------------------------
(***************************************************************************)
(* Where the values of device_deal_twin go: into a MySQL table and to one  *)
(* publisher (HTTP, MQTT or OpenTelemetry).                                *)
(*                                                                         *)
(* main creates one connection and one publisher before any thread that    *)
(* pushes values exists, and destroys them at the end of                   *)
(* cleanup_resources. Between the two, the data thread of every device and *)
(* the tasks of the UpdateDevice calls use them, each for its own push,    *)
(* without a lock: only the mutex of a device orders its own thread.       *)
(*                                                                         *)
(* MySQL, libcurl and mosquitto handles must not be used by two threads at *)
(* a time. What two threads do to one handle is a choice over what they    *)
(* can see of each other; history variable shared says that it happened.   *)
(***************************************************************************)
EXTENDS Naturals

CONSTANTS
  DataThreads,   \* the data threads of the devices
  RpcTasks,      \* the tasks of UpdateDevice calls
  Methods,       \* what PUBLISH_METHOD may select
  Retries,       \* what retryCount may be (3 by default)
  WaitLimit,     \* rounds of waiting for CONNACK (50 in the code)
  MaxPushes,     \* bound on the values pushed
  MaxFaults      \* bound on failures of servers and connections

Users == DataThreads \cup RpcTasks
AllMethods == {"unknown", "http", "mqtt", "otel"}
None == "none"
Null == [kind |-> "null"]       \* g_publisher == NULL
Freed == [kind |-> "freed"]

ASSUME SinkAssumption ==
  /\ DataThreads \cap RpcTasks = {} /\ None \notin Users
  /\ Methods \subseteq AllMethods
  /\ Retries \subseteq Nat
  /\ WaitLimit \in Nat \ {0}
  /\ MaxPushes \in Nat /\ MaxFaults \in Nat

VARIABLES
  main,        \* main's phase
  conn,        \* g_mysql->conn: "null", "open", "freed"
  attached,    \* does the recorder know g_mysql?
  method, retry,  \* PUBLISH_METHOD and PUBLISH_CONFIG
  handle,      \* g_publisher and its client_handle
  link,        \* the client's connection to the broker
  user,        \* each user's push
  got,         \* copies of each user's current push that arrived
  row,         \* is the row of the current push in the table?
  stray,       \* did anything arrive that no live push sent?
  pushes, faults,
  shared       \* history: two users were inside a handle at a time

configVars == <<method, retry>>
dbVars == <<conn, attached>>
sinkVars == <<got, row, stray>>
vars == <<main, dbVars, configVars, handle, link, user, sinkVars, pushes,
          faults, shared>>

Rest == [pc |-> "rest", both |-> FALSE, tries |-> 0, rc |-> "none",
         rec |-> "none"]

Init ==
  /\ main = "db"
  /\ conn = "null" /\ attached = FALSE
  /\ method \in Methods /\ retry \in Retries
  /\ handle = Null
  /\ link = "closed"
  /\ user = [u \in Users |-> Rest]
  /\ got = [u \in Users |-> 0]
  /\ row = [u \in Users |-> FALSE]
  /\ stray = FALSE
  /\ pushes = 0 /\ faults = 0
  /\ shared = FALSE

Fault == faults < MaxFaults /\ faults' = faults + 1

-----------------------------------------------------------------------------
(* main creates the connection and the publisher.                          *)

DbDisabled ==
  /\ main = "db"
  /\ main' = "publisher"
  /\ UNCHANGED <<dbVars, configVars, handle, link, user, sinkVars, pushes>>
  /\ UNCHANGED <<faults, shared>>

DbConnects ==          \* the result of the self-test insert is only logged
  /\ main = "db"
  /\ conn' = "open" /\ attached' = TRUE
  /\ main' = "publisher"
  /\ UNCHANGED <<configVars, handle, link, user, sinkVars, pushes>>
  /\ UNCHANGED <<faults, shared>>

DbConnectFails ==      \* g_mysql stays, without connection or recorder
  /\ main = "db"
  /\ Fault
  /\ conn' = "null" /\ main' = "publisher"
  /\ UNCHANGED <<attached, configVars, handle, link, user, sinkVars, pushes>>
  /\ UNCHANGED shared

http_publisher_new == [kind |-> "http", post |-> None]
otel_publisher_new == [kind |-> "otel", post |-> None]
mqtt_publisher_new == [kind |-> "mqtt", connected |-> FALSE]

Mutpublisher_new(m) ==  \* mutant: a missing client is not noticed
  CASE m = "http" -> http_publisher_new
    [] m = "mqtt" -> mqtt_publisher_new
    [] m = "otel" -> otel_publisher_new
    [] OTHER -> [kind |-> m]

publisher_new(m) ==
  CASE m = "http" -> http_publisher_new
    [] m = "mqtt" -> mqtt_publisher_new
    [] m = "otel" -> otel_publisher_new
    [] OTHER -> Null

PublisherReady ==
  /\ main = "publisher"
  /\ handle' = publisher_new(method)
  /\ main' = "serving"
  /\ UNCHANGED <<dbVars, configVars, link, user, sinkVars, pushes, faults>>
  /\ UNCHANGED shared

PublisherFails ==      \* the configuration or the library
  /\ main = "publisher"
  /\ Fault
  /\ main' = "serving"
  /\ UNCHANGED <<dbVars, configVars, handle, link, user, sinkVars, pushes>>
  /\ UNCHANGED shared

-----------------------------------------------------------------------------
(* A push: mysql_recorder_record, then publisher_publish_data.             *)

InDb == {"create", "prepare", "execute"}
InHttp == {"perform"}
InMqtt == {"connect", "wait", "send", "loop"}
InPublisher == InHttp \cup InMqtt

Others(u, pcs) == \E v \in Users \ {u} : user[v].pc \in pcs

Meet == \E u \in Users : \E pcs \in {InDb, InPublisher} :
          user[u].pc \in pcs /\ Others(u, pcs)

Moves(u, pc) == user' = [user EXCEPT ![u].pc = pc]

Stays ==               \* frame of the steps inside a push
  /\ UNCHANGED <<main, dbVars, configVars, pushes>>
  /\ shared' = (shared \/ Meet')

Begins(u) ==           \* a simulated temperature is recorded only
  /\ main \notin {"db", "publisher"}
  /\ user[u].pc = "rest" /\ pushes < MaxPushes
  /\ pushes' = pushes + 1
  /\ \E both \in BOOLEAN :
       /\ u \in RpcTasks => both
       /\ user' = [user EXCEPT ![u] = [Rest EXCEPT !.both = both,
                     !.pc = IF attached /\ conn # "null" THEN "create"
                            ELSE IF both THEN "publish" ELSE "rest"]]
  /\ got' = [got EXCEPT ![u] = 0] /\ row' = [row EXCEPT ![u] = FALSE]
  /\ shared' = (shared \/ Meet')
  /\ UNCHANGED <<main, dbVars, configVars, handle, link, stray, faults>>

(* mysql_add_data: create the table, prepare, execute. Among two users of  *)
(* the connection each command may succeed or fail, with or without effect.*)
Recorded(u, r) ==
  user' = [user EXCEPT ![u].pc = IF user[u].both THEN "publish" ELSE "rest",
                       ![u].rec = r]

DbStepOk(u) ==
  \/ user[u].pc = "create" /\ Moves(u, "prepare") /\ UNCHANGED row
  \/ user[u].pc = "prepare" /\ Moves(u, "execute") /\ UNCHANGED row
  \/ /\ user[u].pc = "execute"
     /\ Recorded(u, "ok")
     /\ IF Others(u, InDb) THEN \E b \in BOOLEAN : row' = [row EXCEPT ![u] = b]
                           ELSE row' = [row EXCEPT ![u] = TRUE]

Adds(u) ==
  /\ DbStepOk(u)
  /\ Stays
  /\ UNCHANGED <<handle, link, got, stray, faults>>

AddFails(u) ==         \* perhaps after the server has inserted the row
  /\ user[u].pc \in InDb
  /\ IF Others(u, InDb) THEN UNCHANGED faults ELSE Fault
  /\ Recorded(u, "failed")
  /\ \E b \in BOOLEAN : row' = [row EXCEPT ![u] = user[u].pc = "execute" /\ b]
  /\ Stays
  /\ UNCHANGED <<handle, link, got, stray>>

Published(u, rc) == [user EXCEPT ![u].pc = "rest", ![u].rc = rc]

PublishSkipped(u) ==   \* no publisher
  /\ user[u].pc = "publish" /\ handle.kind = "null"
  /\ user' = Published(u, "none")
  /\ Stays
  /\ UNCHANGED <<handle, link, sinkVars, faults>>

-----------------------------------------------------------------------------
(* http_publisher_publish and otel_publisher_publish: the body is set on   *)
(* the handle and stays there until the next push sets its own.            *)

MutPosts(u) ==         \* mutant: the body is set on a new handle only
  /\ user[u].pc = "publish" /\ handle.kind \in {"http", "otel"}
  /\ handle' = [handle EXCEPT !.post = IF @ = None THEN u ELSE @]
  /\ user' = [user EXCEPT ![u].pc = "perform", ![u].tries = 0]
  /\ Stays
  /\ UNCHANGED <<link, sinkVars, faults>>

Posts(u) ==
  /\ user[u].pc = "publish" /\ handle.kind \in {"http", "otel"}
  /\ handle' = [handle EXCEPT !.post = u]
  /\ user' = [user EXCEPT ![u].pc = "perform", ![u].tries = 0]
  /\ Stays
  /\ UNCHANGED <<link, sinkVars, faults>>

Sends ==               \* the endpoint gets the body the handle points to
  LET v == handle.post
  IN  IF v # None /\ user[v].pc = "perform"
        THEN got' = [got EXCEPT ![v] = @ + 1] /\ UNCHANGED stray
        ELSE stray' = TRUE /\ UNCHANGED got       \* a freed string

PerformOk(u) ==        \* 2xx
  /\ user[u].pc = "perform"
  /\ Sends
  /\ user' = Published(u, "ok")
  /\ Stays
  /\ UNCHANGED <<handle, link, row, faults>>

Attempts == IF handle.kind = "otel" THEN 1 ELSE retry

MutRetryOrGiveUp(u) == \* mutant: one attempt more
  user' = IF user[u].tries < Attempts
            THEN [user EXCEPT ![u].tries = @ + 1]
            ELSE Published(u, "failed")

RetryOrGiveUp(u) ==
  user' = IF user[u].tries + 1 < Attempts
            THEN [user EXCEPT ![u].tries = @ + 1]
            ELSE Published(u, "failed")

PerformRefused(u) ==   \* another status
  /\ user[u].pc = "perform"
  /\ Sends
  /\ RetryOrGiveUp(u)
  /\ Stays
  /\ UNCHANGED <<handle, link, row, faults>>

PerformFails(u) ==     \* no connection, or no answer in time
  /\ user[u].pc = "perform"
  /\ Fault
  /\ \/ Sends
     \/ UNCHANGED <<got, stray>>
  /\ RetryOrGiveUp(u)
  /\ Stays
  /\ UNCHANGED <<handle, link, row>>

-----------------------------------------------------------------------------
(* mqtt_publisher_publish. The callbacks run inside mosquitto_loop only.   *)

MqttChecks(u) ==       \* mqtt_ensure_connected trusts its flag
  /\ user[u].pc = "publish" /\ handle.kind = "mqtt"
  /\ Moves(u, IF handle.connected THEN "send" ELSE "connect")
  /\ Stays
  /\ UNCHANGED <<handle, link, sinkVars, faults>>

MqttConnects(u) ==     \* drops whatever connection there was
  /\ user[u].pc = "connect"
  /\ link' = "opening"
  /\ user' = [user EXCEPT ![u].pc = "wait", ![u].tries = 0]
  /\ Stays
  /\ UNCHANGED <<handle, sinkVars, faults>>

MqttConnectFails(u) ==
  /\ user[u].pc = "connect"
  /\ Fault
  /\ link' = "closed"
  /\ user' = Published(u, "failed")
  /\ Stays
  /\ UNCHANGED <<handle, sinkVars>>

LoopResults == {"quiet", "accepted", "refused", "lost"}

(* One round of mosquitto_loop: nothing, CONNACK with either result, or a  *)
(* lost connection, each with its callback.                                *)
Loops(result) ==
  CASE result = "quiet"    -> link # "broken" /\ UNCHANGED <<handle, link>>
    [] result = "accepted" -> /\ link = "opening" /\ link' = "up"
                              /\ handle' = [handle EXCEPT !.connected = TRUE]
    [] result = "refused"  -> /\ link = "opening" /\ link' = "closed"
                              /\ handle' = [handle EXCEPT !.connected = FALSE]
    [] result = "lost"     -> /\ link = "broken" /\ link' = "closed"
                              /\ handle' = [handle EXCEPT !.connected = FALSE]

MutMqttWaits(u) ==     \* mutant: the last round counts as connected
  /\ user[u].pc = "wait"
  /\ \E result \in LoopResults : Loops(result)
  /\ user' = IF handle'.connected \/ user[u].tries + 1 >= WaitLimit
               THEN [user EXCEPT ![u].pc = "send"]
               ELSE [user EXCEPT ![u].tries = @ + 1]
  /\ Stays
  /\ UNCHANGED <<sinkVars, faults>>

MutMqttWaitsOn(u) ==   \* mutant: a timeout connects again
  /\ user[u].pc = "wait"
  /\ \E result \in LoopResults : Loops(result)
  /\ user' = IF handle'.connected THEN [user EXCEPT ![u].pc = "send"]
             ELSE IF user[u].tries + 1 < WaitLimit
                    THEN [user EXCEPT ![u].tries = @ + 1]
                    ELSE [user EXCEPT ![u].pc = "connect"]
  /\ Stays
  /\ UNCHANGED <<sinkVars, faults>>

MqttWaits(u) ==
  /\ user[u].pc = "wait"
  /\ \E result \in LoopResults : Loops(result)
  /\ user' = IF handle'.connected THEN [user EXCEPT ![u].pc = "send"]
             ELSE IF user[u].tries + 1 < WaitLimit
                    THEN [user EXCEPT ![u].tries = @ + 1]
                    ELSE Published(u, "failed")
  /\ Stays
  /\ UNCHANGED <<sinkVars, faults>>

MqttSends(u) ==        \* queued by the library; on a broken link as well
  /\ user[u].pc = "send"
  /\ Moves(u, "loop")
  /\ Stays
  /\ UNCHANGED <<handle, link, sinkVars, faults>>

MqttSendFails(u) ==    \* returns without a round of mosquitto_loop
  /\ user[u].pc = "send" /\ link # "up"
  /\ user' = Published(u, "failed")
  /\ Stays
  /\ UNCHANGED <<handle, link, sinkVars, faults>>

MqttLoops(u) ==        \* its result is ignored
  /\ user[u].pc = "loop"
  /\ \E result \in LoopResults : Loops(result)
  /\ got' = IF link = "up" THEN [got EXCEPT ![u] = @ + 1] ELSE got
  /\ user' = Published(u, "ok")
  /\ Stays
  /\ UNCHANGED <<row, stray, faults>>

LinkBreaks ==          \* noticed only in the next round of mosquitto_loop
  /\ link \in {"opening", "up"}
  /\ Fault
  /\ link' = "broken"
  /\ UNCHANGED <<main, dbVars, configVars, handle, user, sinkVars, pushes>>
  /\ UNCHANGED shared

-----------------------------------------------------------------------------
(* cleanup_resources. device_stop needs the mutex that a data thread holds *)
(* during a push, and joins the thread; Shutdown and the join of the gRPC  *)
(* thread wait for the calls that are running.                             *)

Signal ==
  /\ main = "serving"
  /\ main' = "stop data"
  /\ UNCHANGED <<dbVars, configVars, handle, link, user, sinkVars, pushes>>
  /\ UNCHANGED <<faults, shared>>

Ends(u) ==             \* a thread that is at rest ends for good
  /\ user[u].pc = "rest"
  /\ \/ u \in DataThreads /\ main = "stop data"
     \/ u \in RpcTasks /\ main = "stop rpc"
  /\ user' = [user EXCEPT ![u].pc = "ended"]
  /\ UNCHANGED <<main, dbVars, configVars, handle, link, sinkVars, pushes>>
  /\ UNCHANGED <<faults, shared>>

Ended(us) == \A u \in us : user[u].pc = "ended"

DataStopped ==
  /\ main = "stop data" /\ Ended(DataThreads)
  /\ main' = "stop rpc"
  /\ UNCHANGED <<dbVars, configVars, handle, link, user, sinkVars, pushes>>
  /\ UNCHANGED <<faults, shared>>

MutRpcStopped ==       \* mutant: the gRPC thread is not waited for
  /\ main = "stop rpc"
  /\ main' = "close db"
  /\ UNCHANGED <<dbVars, configVars, handle, link, user, sinkVars, pushes>>
  /\ UNCHANGED <<faults, shared>>

RpcStopped ==
  /\ main = "stop rpc" /\ Ended(RpcTasks)
  /\ main' = "close db"
  /\ UNCHANGED <<dbVars, configVars, handle, link, user, sinkVars, pushes>>
  /\ UNCHANGED <<faults, shared>>

CloseDb ==             \* the recorder keeps its pointer
  /\ main = "close db"
  /\ conn' = IF conn = "open" THEN "freed" ELSE conn
  /\ main' = "free publisher"
  /\ UNCHANGED <<attached, configVars, handle, link, user, sinkVars, pushes>>
  /\ UNCHANGED <<faults, shared>>

publisher_free ==
  /\ main = "free publisher"
  /\ handle' = IF handle = Null THEN Null ELSE Freed
  /\ link' = "closed"
  /\ main' = "over"
  /\ UNCHANGED <<dbVars, configVars, user, sinkVars, pushes, faults, shared>>

-----------------------------------------------------------------------------
DbStep(u) == Adds(u) \/ AddFails(u)

PublishStep(u) ==
  \/ PublishSkipped(u)
  \/ Posts(u) \/ PerformOk(u) \/ PerformRefused(u) \/ PerformFails(u)
  \/ MqttChecks(u) \/ MqttConnects(u) \/ MqttConnectFails(u)
  \/ MqttWaits(u) \/ MqttSends(u) \/ MqttSendFails(u) \/ MqttLoops(u)

MainStep ==
  \/ DbDisabled \/ DbConnects \/ DbConnectFails
  \/ PublisherReady \/ PublisherFails \/ Signal
  \/ DataStopped \/ RpcStopped \/ CloseDb \/ publisher_free

Over == main = "over" /\ UNCHANGED vars

Next ==
  \/ MainStep \/ LinkBreaks \/ Over
  \/ \E u \in Users : Begins(u) \/ DbStep(u) \/ PublishStep(u) \/ Ends(u)

Spec == Init /\ [][Next]_vars

(* libcurl has a time limit for every request and mosquitto_loop one for   *)
(* every round, so publishing goes on; a MySQL command has no limit.       *)
FairSpec == Spec /\ \A u \in Users : WF_vars(PublishStep(u))

-----------------------------------------------------------------------------
Handles == {Null, Freed} \cup [kind : {"mqtt"}, connected : BOOLEAN]
             \cup [kind : {"http", "otel"}, post : Users \cup {None}]
Links == {"closed", "opening", "up", "broken"}
Results == {"none", "ok", "failed"}
UserRecord == [pc : {"rest", "publish", "ended"} \cup InDb \cup InPublisher,
               both : BOOLEAN, tries : Nat, rc : Results, rec : Results]

(* Types: phases, handles, connection and each user's push.                *)
TypeOK ==
  /\ main \in {"db", "publisher", "serving", "stop data", "stop rpc",
               "close db", "free publisher", "over"}
  /\ conn \in {"null", "open", "freed"} /\ attached \in BOOLEAN
  /\ method \in Methods /\ retry \in Retries
  /\ handle \in Handles /\ link \in Links
  /\ user \in [Users -> UserRecord]
  /\ got \in [Users -> Nat] /\ row \in [Users -> BOOLEAN]
  /\ {stray, shared} \subseteq BOOLEAN
  /\ pushes \in 0 .. MaxPushes /\ faults \in 0 .. MaxFaults

(* Nobody is inside a handle that is closed or freed, though nothing       *)
(* detaches the recorder and no user looks: the order of cleanup_resources *)
(* alone keeps the users of both kinds away.                               *)
HandlesOutliveUsers ==
  \A u \in Users :
    /\ user[u].pc \in InDb => conn = "open"
    /\ user[u].pc \in {"publish"} \cup InPublisher => handle # Freed

(* As long as no two users meet in a handle, results are true: a record    *)
(* that succeeded has its row, a publication over HTTP that succeeded has  *)
(* arrived, and nothing but live bodies is ever sent, whoever used the     *)
(* handle before and however that ended.                                   *)
ResultsAreTrue ==
  ~shared =>
    /\ ~stray
    /\ \A u \in Users : user[u].rec = "ok" => row[u]
    /\ method \in {"http", "otel"} =>
         \A u \in Users : user[u].rc = "ok" => got[u] > 0

(* A push arrives at most as often as its attempts, and a retryCount of 0  *)
(* still means one attempt.                                                *)
CopiesBounded ==
  ~shared => \A u \in Users :
    got[u] <= IF method = "http" /\ retry > 1 THEN retry ELSE 1

(* A message is handed to the MQTT client only when the broker has         *)
(* accepted the connection and its loss has not been noticed since.        *)
SendsWhenAccepted ==
  ~shared => \A u \in Users : user[u].pc = "send" => link \in {"up", "broken"}

(* Retries and waiting end: every publication comes to its result, also    *)
(* when several users share the handle.                                    *)
PublicationsEnd ==
  \A u \in Users : (user[u].pc \in {"publish"} \cup InPublisher)
                     ~> (user[u].pc \in {"rest", "ended"})

(* "HTTP publish success" (http_publisher.c) is logged, and 0 returned,    *)
(* for data that the endpoint got: stated for threads that share the       *)
(* publisher, as those of two devices do.                                  *)
SuccessMeansSent ==
  \A u \in Users : user[u].rc = "ok" /\ method = "http" => got[u] > 0
=============================================================================
