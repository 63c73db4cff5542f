------------------------------ MODULE Registry ------------------------------
(***************************************************************************)
(* From EdgeCore's registration reply to the devices that HTTP and gRPC    *)
(* requests reach.                                                         *)
(*                                                                         *)
(* main calls RegisterMapper, which converts the reply into arrays of      *)
(* devices and models, creates a device for every entry whose model it     *)
(* finds, and appends it to the device manager's array. The gRPC server    *)
(* answers from the beginning, so its lookups meet a half-filled array;    *)
(* the HTTP server starts last, together with the thread that starts the   *)
(* devices and rebuilds their twins.                                       *)
(*                                                                         *)
(* A string that is taken apart somewhere is the sequence of its parts:    *)
(* the name "a.b" is <<"a", ".", "b">>.                                    *)
(***************************************************************************)
EXTENDS Naturals, FiniteSets, SequencesExt

CONSTANTS
  Replies,          \* what EdgeCore may answer to MapperRegister
  Urls,             \* HTTP requests: GET or not, route, path segments
  Targets,          \* namespace and name in the UpdateDevice requests
  Overlong, Cut,    \* segments beyond sscanf's width, and their beginnings
  InitialCapacity,  \* slots of a new device manager (10 in the code)
  MayFail,          \* steps that may fail
  MaxFaults,        \* bound on the entries of the reply dropped by failures
  MaxRequests       \* bound on the requests

Faults == {"register", "decode", "create", "realloc", "thread"}
Null == "null"          \* a NULL pointer
Garbage == "garbage"    \* what a string may read as once it is freed

ASSUME RegistryAssumption ==
  /\ InitialCapacity \in Nat \ {0}
  /\ MayFail \subseteq Faults
  /\ MaxFaults \in Nat /\ MaxRequests \in Nat
  /\ DOMAIN Cut = Overlong

IsList(s) == s \in Seq({s[k] : k \in DOMAIN s})

(* Lists are lists, and the texts of a protobuf message are never NULL.    *)
ASSUME ReplyAssumption ==
  \A r \in Replies :
    /\ IsList(r.devices) /\ IsList(r.models)
    /\ \A i \in DOMAIN r.devices :
         LET m == r.devices[i]
         IN  /\ IsList(m.name) /\ IsList(m.props) /\ IsList(m.methods)
             /\ \A k \in DOMAIN m.methods : IsList(m.methods[k])
             /\ m.proto \in BOOLEAN
    /\ \A j \in DOMAIN r.models : r.models[j].name # Null

ASSUME RequestAssumption ==
  /\ \A u \in Urls : /\ u.get \in BOOLEAN /\ IsList(u.segs)
                     /\ \A k \in DOMAIN u.segs : IsList(u.segs[k])
  /\ \A t \in Targets : IsList(t.ns) /\ IsList(t.name)

VARIABLES
  pc,          \* main: "register", "init", "running", "exit"
  reply,       \* the registration reply
  deviceList, modelList,  \* RegisterMapper's arrays
  at,          \* index of main's loop over deviceList
  devices,     \* manager->devices[0 .. deviceCount)
  capacity, allocated,    \* manager->capacity and the slots really there
  start, startAt,         \* the start thread and its index
  http, rpc,   \* the request each server works on
  answer,      \* the last HTTP answer
  sent,        \* requests so far
  lost         \* history: entries of the reply that a failure has dropped

managerVars == <<devices, capacity, allocated>>
mainVars == <<pc, reply, deviceList, modelList, at, lost>>
startVars == <<start, startAt>>
serverVars == <<http, rpc, answer, sent>>
vars == <<mainVars, managerVars, startVars, serverVars>>

Idle == [pc |-> "idle"]
NoAnswer == [code |-> 0]

Init ==
  /\ pc = "register"
  /\ reply = [devices |-> <<>>, models |-> <<>>]
  /\ deviceList = <<>> /\ modelList = <<>>
  /\ at = 1
  /\ devices = <<>>
  /\ capacity = InitialCapacity /\ allocated = InitialCapacity
  /\ start = "none" /\ startAt = 1
  /\ http = Idle /\ rpc = Idle
  /\ answer = NoAnswer
  /\ sent = 0
  /\ lost = {}

-----------------------------------------------------------------------------
(* The reply becomes DeviceInstances and DeviceModels.                     *)

Unbound(props) == [i \in DOMAIN props |-> [prop |-> props[i], bound |-> FALSE]]
Bound(props) == [i \in DOMAIN props |-> [prop |-> props[i], bound |-> TRUE]]

get_device_from_grpc(m) ==    \* without a model no twin gets its property
  [name |-> m.name, model |-> m.ref, proto |-> m.proto, props |-> m.props,
   twins |-> Unbound(m.props), methods |-> m.methods]

NoInstance ==                 \* a calloc'ed entry that was never filled in
  [name |-> <<Null>>, model |-> Null, proto |-> FALSE, props |-> <<>>,
   twins |-> <<>>, methods |-> <<>>]

get_device_model_from_grpc(m) ==  \* namespace_ is freed with the message
  [name |-> m.name, ns |-> {m.ns, Garbage}]    \* ns: what it may read as

NoModel == [name |-> Null, ns |-> {Null}]

MayDrop(fault, entries) ==
  /\ fault \in MayFail
  /\ Cardinality(lost) + Cardinality(entries) <= MaxFaults
  /\ lost' = lost \cup entries

RegisterFails ==       \* no configuration, or the RPC fails or is late
  /\ pc = "register" /\ "register" \in MayFail
  /\ pc' = "exit"
  /\ UNCHANGED <<reply, deviceList, modelList, at, lost>>
  /\ UNCHANGED <<managerVars, startVars, serverVars>>

Register(r) ==         \* badD, badM: entries that do not unpack
  /\ pc = "register"
  /\ \E badD \in SUBSET DOMAIN r.devices, badM \in SUBSET DOMAIN r.models :
       /\ LET bad == ({"device"} \X badD) \cup ({"model"} \X badM)
          IN  \/ bad = {} /\ UNCHANGED lost
              \/ bad # {} /\ MayDrop("decode", bad)
       /\ deviceList' = [i \in DOMAIN r.devices |->
            IF i \in badD THEN NoInstance
                          ELSE get_device_from_grpc(r.devices[i])]
       /\ modelList' = [j \in DOMAIN r.models |->
            IF j \in badM THEN NoModel
                          ELSE get_device_model_from_grpc(r.models[j])]
  /\ reply' = r
  /\ pc' = "init"
  /\ UNCHANGED <<at, managerVars, startVars, serverVars>>

-----------------------------------------------------------------------------
(* main creates the devices and adds them to the manager.                  *)

ModelOf(i) ==          \* index of the first model of the right name, or 0
  SelectInSeq(modelList, LAMBDA m : /\ m.name # Null
                                    /\ m.name = deviceList[i].model)

MutDefaultMethods(ms, props) == ms     \* mutant: no method is made up

DefaultMethods(ms, props) ==  \* SetProperty, with all properties
  IF ms = <<>> /\ props # <<>> THEN <<props>> ELSE ms

device_new(i) ==       \* copies what the model's namespace_ reads as now
  LET inst == deviceList[i]
  IN  [src |-> i, name |-> inst.name, ns |-> <<"test">>, model |-> inst.model,
       modelNs |-> modelList[ModelOf(i)].ns, client |-> inst.proto, props |-> inst.props,
       twins |-> IF inst.twins = <<>> THEN Bound(inst.props) ELSE inst.twins,
       methods |-> DefaultMethods(inst.methods, inst.props)]

InitSkips ==                  \* no model: the device is left out
  /\ pc = "init" /\ at <= Len(deviceList)
  /\ ModelOf(at) = 0
  /\ at' = at + 1
  /\ UNCHANGED <<pc, reply, deviceList, modelList, lost>>
  /\ UNCHANGED <<managerVars, startVars, serverVars>>

InitCreateFails ==
  /\ pc = "init" /\ at <= Len(deviceList)
  /\ ModelOf(at) # 0
  /\ at' = at + 1
  /\ MayDrop("create", {<<"device", at>>})
  /\ UNCHANGED <<pc, reply, deviceList, modelList>>
  /\ UNCHANGED <<managerVars, startVars, serverVars>>

Full == Len(devices) >= capacity

MutInitAdds ==                \* mutant: the array grows one device late
  /\ pc = "init" /\ at <= Len(deviceList)
  /\ ModelOf(at) # 0
  /\ devices' = Append(devices, device_new(at))
  /\ capacity' = IF Len(devices) > capacity THEN 2 * capacity ELSE capacity
  /\ allocated' = IF Len(devices) > capacity THEN 2 * capacity ELSE allocated
  /\ at' = at + 1
  /\ UNCHANGED <<pc, reply, deviceList, modelList, lost>>
  /\ UNCHANGED <<startVars, serverVars>>

InitAdds ==                   \* device_manager_add
  /\ pc = "init" /\ at <= Len(deviceList)
  /\ ModelOf(at) # 0
  /\ devices' = Append(devices, device_new(at))
  /\ capacity' = IF Full THEN 2 * capacity ELSE capacity
  /\ allocated' = IF Full THEN 2 * capacity ELSE allocated
  /\ at' = at + 1
  /\ UNCHANGED <<pc, reply, deviceList, modelList, lost>>
  /\ UNCHANGED <<startVars, serverVars>>

MutInitAddFails ==            \* mutant: takes back a doubling never made
  /\ pc = "init" /\ at <= Len(deviceList)
  /\ ModelOf(at) # 0
  /\ Full
  /\ capacity' = capacity \div 2
  /\ at' = at + 1
  /\ MayDrop("realloc", {<<"device", at>>})
  /\ UNCHANGED <<pc, reply, deviceList, modelList, devices, allocated>>
  /\ UNCHANGED <<startVars, serverVars>>

InitAddFails ==               \* realloc fails, the doubled capacity stays
  /\ pc = "init" /\ at <= Len(deviceList)
  /\ ModelOf(at) # 0
  /\ Full
  /\ capacity' = 2 * capacity
  /\ at' = at + 1
  /\ MayDrop("realloc", {<<"device", at>>})
  /\ UNCHANGED <<pc, reply, deviceList, modelList, devices, allocated>>
  /\ UNCHANGED <<startVars, serverVars>>

InitDone ==    \* the start thread is created, then the HTTP server started
  /\ pc = "init" /\ at > Len(deviceList)
  /\ pc' = "running"
  /\ start' \in {"ready"} \cup (IF "thread" \in MayFail THEN {"none"} ELSE {})
  /\ UNCHANGED <<reply, deviceList, modelList, at, lost, startAt>>
  /\ UNCHANGED <<managerVars, serverVars>>

-----------------------------------------------------------------------------
(* The start thread holds managerMutex from the first device to the last.  *)

ManagerFree == start # "busy"

StartAllLocks ==
  /\ start = "ready"
  /\ start' = "busy"
  /\ UNCHANGED <<startAt, mainVars, managerVars, serverVars>>

device_runtime_rebuild(d) ==
  LET rebuild == \/ d.props # <<>> /\ d.twins = <<>>
                 \/ \E t \in DOMAIN d.twins : ~d.twins[t].bound
  IN  [d EXCEPT !.twins = IF rebuild THEN Bound(d.props) ELSE @,
                !.methods = DefaultMethods(@, d.props)]

MutStartsDevice ==     \* mutant: the twins are left as they are
  /\ start = "busy" /\ startAt <= Len(devices)
  /\ startAt' = startAt + 1
  /\ UNCHANGED <<start, devices, capacity, allocated, mainVars, serverVars>>

StartsDevice ==        \* device_start
  /\ start = "busy" /\ startAt <= Len(devices)
  /\ devices' = [devices EXCEPT ![startAt] = device_runtime_rebuild(@)]
  /\ startAt' = startAt + 1
  /\ UNCHANGED <<start, capacity, allocated, mainVars, serverVars>>

MutStartAllUnlocks ==  \* mutant: the thread ends with the mutex locked
  /\ start = "busy" /\ startAt = Len(devices) + 1
  /\ startAt' = startAt + 1
  /\ UNCHANGED <<start, mainVars, managerVars, serverVars>>

StartAllUnlocks ==
  /\ start = "busy" /\ startAt > Len(devices)
  /\ start' = "done"
  /\ UNCHANGED <<startAt, mainVars, managerVars, serverVars>>

-----------------------------------------------------------------------------
(* device_manager_get: the whole identifier, then its last segment.        *)

MutNamed(n) == SelectLastInSeq(devices, LAMBDA d : d.name = n)  \* mutant

Named(n) == SelectInSeq(devices, LAMBDA d : d.name = n)

MutShortId(id) ==      \* mutant: only "namespace/name" is taken apart
  LET slash == SelectLastInSeq(id, LAMBDA x : x = "/")
  IN  IF slash = 0 THEN <<>> ELSE SubSeq(id, slash + 1, Len(id))

ShortId(id) ==         \* what follows the last dot, else the last slash
  LET dot == SelectLastInSeq(id, LAMBDA x : x = ".")
      slash == SelectLastInSeq(id, LAMBDA x : x = "/")
      sep == IF dot # 0 THEN dot ELSE slash
  IN  IF sep = 0 THEN <<>> ELSE SubSeq(id, sep + 1, Len(id))

MutManagerGet(id) ==   \* mutant: where the loop ended, found or not
  IF Named(id) # 0 THEN Named(id)
  ELSE IF ShortId(id) # <<>> /\ Named(ShortId(id)) # 0 THEN Named(ShortId(id))
  ELSE Len(devices)

device_manager_get(id) ==
  IF Named(id) # 0 THEN Named(id)
  ELSE IF ShortId(id) # <<>> THEN Named(ShortId(id)) ELSE 0

get_resource_id(ns, name) == ns \o <<".">> \o name

-----------------------------------------------------------------------------
(* The lookup of an UpdateDevice call: by name, then by namespace/name.    *)

RpcArrives(t) ==
  /\ pc # "exit" /\ rpc = Idle /\ sent < MaxRequests
  /\ rpc' = [pc |-> "first", target |-> t]
  /\ sent' = sent + 1
  /\ UNCHANGED <<mainVars, managerVars, startVars, http, answer>>

RpcFirst ==
  /\ rpc.pc = "first" /\ ManagerFree
  /\ LET d == device_manager_get(rpc.target.name)
     IN  rpc' = IF d = 0 /\ rpc.target.ns # <<>>
                  THEN [rpc EXCEPT !.pc = "second"]
                  ELSE [pc |-> "told", target |-> rpc.target, dev |-> d]
  /\ UNCHANGED <<mainVars, managerVars, startVars, http, answer, sent>>

RpcSecond ==
  /\ rpc.pc = "second" /\ ManagerFree
  /\ rpc' = [pc |-> "told", target |-> rpc.target,
             dev |-> device_manager_get(rpc.target.ns \o <<"/">>
                                                      \o rpc.target.name)]
  /\ UNCHANGED <<mainVars, managerVars, startVars, http, answer, sent>>

RpcDone ==             \* applies the values: see module TwinSync
  /\ rpc.pc = "told"
  /\ rpc' = Idle
  /\ UNCHANGED <<mainVars, managerVars, startVars, http, answer, sent>>

-----------------------------------------------------------------------------
(* router_callback: which handler a URL selects.                           *)

Scanned(segs, n) ==    \* how many of n fields sscanf converts
  LET most == IF n < Len(segs) THEN n ELSE Len(segs)
  IN  CHOOSE k \in 0 .. most :
        /\ \A j \in 1 .. k : segs[j] # <<>> /\ (j < k => segs[j] \notin Overlong)
        /\ k = most \/ segs[k + 1] = <<>> \/ (k > 0 /\ segs[k] \in Overlong)

Field(s) == IF s \in Overlong THEN Cut[s] ELSE s

Handler(u) ==
  CASE ~u.get -> "refused"
    [] u.get /\ u.route = "ping" /\ u.segs = <<>> -> "ping"
    [] u.get /\ u.route = "device" /\ Scanned(u.segs, 3) = 3 -> "read"
    [] u.get /\ u.route = "devicemethod" /\ Scanned(u.segs, 5) = 5 -> "write"
    [] /\ u.get /\ u.route = "devicemethod"
       /\ Scanned(u.segs, 5) # 5 /\ Scanned(u.segs, 2) = 2 -> "methods"
    [] u.get /\ u.route = "meta/model" /\ Scanned(u.segs, 2) = 2 -> "model"
    [] u.get /\ u.route = "database" /\ Scanned(u.segs, 2) = 2 -> "database"
    [] OTHER -> "unknown"

NeedsDevice == {"read", "write", "methods", "model"}

Code == [refused |-> 405, ping |-> 200, database |-> 200, unknown |-> 404]

Answers(req, code, body) ==
  /\ answer' = [url |-> req.url, to |-> req.to, early |-> req.early,
                dev |-> req.dev, code |-> code, body |-> body]
  /\ http' = Idle

HttpArrives(u) ==      \* early: the devices were not all started yet
  /\ pc = "running" /\ http = Idle /\ sent < MaxRequests
  /\ sent' = sent + 1
  /\ LET req == [pc |-> "lookup", url |-> u, to |-> Handler(u),
                 early |-> start # "done", dev |-> 0]
     IN  IF Handler(u) \in NeedsDevice
           THEN http' = req /\ answer' = NoAnswer
           ELSE Answers(req, Code[Handler(u)], <<>>)
  /\ UNCHANGED <<mainVars, managerVars, startVars, rpc>>

HttpLookup ==
  /\ http.pc = "lookup" /\ ManagerFree
  /\ http' = [http EXCEPT !.pc = "use",
                !.dev = device_manager_get(get_resource_id(
                          Field(http.url.segs[1]), Field(http.url.segs[2])))]
  /\ UNCHANGED <<mainVars, managerVars, startVars, rpc, answer, sent>>

-----------------------------------------------------------------------------
(* The handlers. They use the device they found without holding a mutex.   *)

Dev == devices[http.dev]

TwinNamed(p) == SelectInSeq(Dev.twins, LAMBDA t : t.prop = p)

HttpReads ==           \* dev_panel_get_twin_result
  /\ http.pc = "use" /\ http.to = "read"
  /\ LET p == Field(http.url.segs[3])
     IN  IF http.dev # 0 /\ TwinNamed(p) # 0
           THEN Answers(http, 200, <<p>>) ELSE Answers(http, 500, <<>>)
  /\ UNCHANGED <<mainVars, managerVars, startVars, rpc, sent>>

devicetwin_set(p) ==   \* the driver only checks that there is a client
  /\ TwinNamed(p) # 0
  /\ Dev.twins[TwinNamed(p)].bound
  /\ Dev.client

HttpWrites ==          \* dev_panel_write_device
  /\ http.pc = "use" /\ http.to = "write"
  /\ LET p == Field(http.url.segs[4])
     IN  IF http.dev # 0 /\ devicetwin_set(p)
           THEN Answers(http, 200, <<p>>) ELSE Answers(http, 500, <<>>)
  /\ UNCHANGED <<mainVars, managerVars, startVars, rpc, sent>>

Listed(ms) ==          \* each method is shown with one parameter: the i-th
  LET all == FlattenSeq(ms)      \* of all methods' properties in a row
  IN  [i \in DOMAIN ms |-> IF i <= Len(all) THEN <<all[i]>> ELSE <<>>]

HttpListsMethods ==    \* an unknown device has an empty list
  /\ http.pc = "use" /\ http.to = "methods"
  /\ Answers(http, 200, IF http.dev = 0 THEN <<>> ELSE Listed(Dev.methods))
  /\ UNCHANGED <<mainVars, managerVars, startVars, rpc, sent>>

HttpFindsDevice ==     \* dev_panel_get_device, first half of MetaGetModel
  /\ http.pc = "use" /\ http.to = "model"
  /\ IF http.dev = 0
       THEN Answers(http, 500, <<>>)
       ELSE http' = [http EXCEPT !.pc = "model"] /\ UNCHANGED answer
  /\ UNCHANGED <<mainVars, managerVars, startVars, rpc, sent>>

ModelIds(d) == {<<ns, "/", d.model>> : ns \in d.modelNs}

ModelFound(id) ==      \* the possible results of the comparison
  {found \in BOOLEAN :
     IF found THEN \E k \in DOMAIN devices : id \in ModelIds(devices[k])
              ELSE \A k \in DOMAIN devices : ModelIds(devices[k]) # {id}}

HttpFindsModel ==      \* dev_panel_get_model, under managerMutex
  /\ http.pc = "model" /\ ManagerFree
  /\ \E found \in ModelFound(get_resource_id(Dev.ns, <<Dev.model>>)) :
       Answers(http, IF found THEN 200 ELSE 500, <<>>)
  /\ UNCHANGED <<mainVars, managerVars, startVars, rpc, sent>>

-----------------------------------------------------------------------------
MainStep ==
  \/ RegisterFails
  \/ \E r \in Replies : Register(r)
  \/ InitSkips \/ InitCreateFails \/ InitAdds \/ InitAddFails \/ InitDone

StartStep == StartAllLocks \/ StartsDevice \/ StartAllUnlocks

HttpStep ==
  \/ HttpLookup \/ HttpReads \/ HttpWrites \/ HttpListsMethods
  \/ HttpFindsDevice \/ HttpFindsModel

RpcStep == RpcFirst \/ RpcSecond \/ RpcDone

Terminated ==          \* the process ended, or serves without a request
  /\ pc \in {"running", "exit"} /\ start \in {"none", "done"}
  /\ http = Idle /\ rpc = Idle /\ (pc = "exit" \/ sent = MaxRequests)
  /\ UNCHANGED vars

Next ==
  \/ MainStep \/ StartStep \/ HttpStep \/ RpcStep
  \/ \E u \in Urls : HttpArrives(u)
  \/ \E t \in Targets : RpcArrives(t)
  \/ Terminated

Spec == Init /\ [][Next]_vars

(* Every thread that can run is run; no request has to arrive.             *)
FairSpec == Spec /\ WF_vars(MainStep) /\ WF_vars(StartStep)
                 /\ WF_vars(HttpStep) /\ WF_vars(RpcStep)

-----------------------------------------------------------------------------
(* Types: indices stay within the arrays they are used on.                 *)
TypeOK ==
  /\ pc \in {"register", "init", "running", "exit"}
  /\ reply \in Replies \cup {[devices |-> <<>>, models |-> <<>>]}
  /\ Len(deviceList) \in {0, Len(reply.devices)}
  /\ at \in 1 .. Len(deviceList) + 1
  /\ capacity \in Nat \ {0} /\ allocated \in 1 .. capacity
  /\ start \in {"none", "ready", "busy", "done"}
  /\ startAt \in 1 .. Len(devices) + 1
  /\ \A k \in DOMAIN devices : devices[k].src \in DOMAIN reply.devices
  /\ http # Idle => http.url \in Urls /\ http.dev \in 0 .. Len(devices)
  /\ rpc # Idle => rpc.target \in Targets
  /\ sent \in 0 .. MaxRequests

(* device_manager_add never writes past the array: as long as capacity is  *)
(* the number of slots there really are, the devices fit into them, and    *)
(* it is that number until a realloc fails.                                *)
SlotsAllocated ==
  /\ capacity = allocated => Len(devices) <= allocated
  /\ capacity # allocated => lost # {}

(* The device manager implements the directory: the first device added     *)
(* under a name keeps it, whatever is added later, and every lookup, that  *)
(* of UpdateDevice in two critical sections too, tells the device of       *)
(* exactly this name at one instant. Names without dots only: see          *)
(* RightDevice.                                                            *)
AskedName(c) == IF c = "http" THEN http.url.segs[2] ELSE rpc.target.name

Told(c, d) == [pc |-> "told", name |-> AskedName(c),
               dev |-> IF d = 0 THEN 0 ELSE devices[d].src]

AbstractAsk ==
  [c \in {"http", "rpc"} |->
     LET q == IF c = "http" THEN http ELSE rpc
     IN  CASE q.pc = "idle" -> [pc |-> "idle"]
           [] q.pc \in {"lookup", "first", "second"} ->
                [pc |-> "asked", name |-> AskedName(c)]
           [] q.pc \in {"use", "model", "told"} -> Told(c, q.dev)]

AbstractDir ==
  [n \in {devices[k].name : k \in DOMAIN devices} |-> devices[Named(n)].src]

AllNames ==
  (UNION {{r.devices[i].name : i \in DOMAIN r.devices} : r \in Replies})
    \cup {t.name : t \in Targets} \cup {u.segs[2] : u \in
           {v \in Urls : Len(v.segs) >= 2}}

Directory == INSTANCE DeviceDirectory WITH
  Names <- AllNames, Clients <- {"http", "rpc"},
  Devices <- UNION {DOMAIN r.devices : r \in Replies},
  dir <- AbstractDir, ask <- AbstractAsk

ImplementsDirectory == Directory!Spec

(* What the answers should be, from the reply alone: a device is served    *)
(* when it and a model of the name it refers to arrived and nothing failed *)
(* on its way; of two with the same name, the first.                       *)
Served(i) ==
  /\ <<"device", i>> \notin lost
  /\ \E j \in DOMAIN reply.models : /\ <<"model", j>> \notin lost
                                    /\ reply.models[j].name = reply.devices[i].ref

Serves(n, i) ==
  /\ i \in DOMAIN reply.devices
  /\ reply.devices[i].name = n /\ Served(i)
  /\ \A k \in 1 .. i - 1 : ~(reply.devices[k].name = n /\ Served(k))

Asks(route, n) ==      \* the answer is to a complete URL of this route
  /\ answer.code # 0
  /\ answer.url.get /\ answer.url.route = route /\ Len(answer.url.segs) = n
  /\ \A j \in 1 .. n : answer.url.segs[j] \notin Overlong \cup {<<>>}

(* GET /device/{namespace}/{name}/{property} answers 200 exactly for the   *)
(* properties of the devices served, and reads that device: nothing is     *)
(* lost, doubled or mixed up between registration, conversion, creation,   *)
(* the array and the lookup, whatever failed in between.                   *)
ReadsAsRegistered ==
  Asks("device", 3) =>
    LET u == answer.url
        hit(i) == Serves(u.segs[2], i)
                    /\ u.segs[3] \in ToSet(reply.devices[i].props)
    IN  IF \E i \in DOMAIN reply.devices : hit(i)
          THEN answer.code = 200 /\ hit(devices[answer.dev].src)
          ELSE answer.code = 500

(* A write to a property of a device with a protocol is accepted once the  *)
(* devices are started, because device_start attaches the properties that  *)
(* RegisterMapper left out; no other write is.                             *)
WritesOnceStarted ==
  Asks("devicemethod", 5) =>
    LET u == answer.url
        hit == \E i \in DOMAIN reply.devices :
                 /\ Serves(u.segs[2], i) /\ reply.devices[i].proto
                 /\ u.segs[4] \in ToSet(reply.devices[i].props)
    IN  /\ answer.to = "write"
        /\ answer.code = 200 => hit
        /\ hit /\ ~answer.early => answer.code = 200

(* The method list of a device with properties is never empty, and when    *)
(* each method has one property the parameter shown is the method's own.   *)
MethodsOfDevice ==
  Asks("devicemethod", 2) =>
    \A i \in DOMAIN reply.devices :
      LET m == reply.devices[i]
      IN  Serves(answer.url.segs[2], i) =>
            /\ m.props # <<>> => answer.body # <<>>
            /\ (\A k \in DOMAIN m.methods : Len(m.methods[k]) = 1)
                 /\ m.methods # <<>> => answer.body = m.methods

(* Every HTTP request is answered and every UpdateDevice finds or misses   *)
(* its device, although both wait while the start thread has the mutex.    *)
LookupsEnd ==
  /\ (http.pc # "idle") ~> (http.pc = "idle")
  /\ (rpc.pc # "idle") ~> (rpc.pc = "idle")

(* A lookup never gives a caller a device of another name: device.c takes  *)
(* the last segment so that "namespace.name" finds the device "name".      *)
RightDevice ==
  /\ http.pc = "use" /\ http.dev # 0 => Dev.name = http.url.segs[2]
  /\ rpc.pc = "told" /\ rpc.dev # 0 =>
       devices[rpc.dev].name = rpc.target.name
=============================================================================
