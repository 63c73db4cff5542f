------------------------------ MODULE TwinSync ------------------------------
(***************************************************************************)
(* How a desired value gets from the cloud into a device's register.       *)
(*                                                                         *)
(* Two kinds of writers work on the twins of one device: its data thread,  *)
(* which polls them one after the other and calls device_deal_twin, and    *)
(* UpdateDevice handlers of the gRPC server, which replace the desired     *)
(* value and call device_deal_twin in a task of their own, then fall back  *)
(* to writing the register directly. A third thread, device_start, builds  *)
(* the twins anew. The handlers never take the device's mutex, so nothing  *)
(* orders the three.                                                       *)
(*                                                                         *)
(* device_deal_twin keeps the pointer it read from observedDesired while   *)
(* mbpoll runs and reads the string behind it again afterwards. A handler  *)
(* that replaces the value frees that string and allocates another one:    *)
(* the pointer may then still show the old text, show the new one (the     *)
(* allocator reuses the block) or anything (Garbage).                      *)
(***************************************************************************)
EXTENDS Naturals, Sequences

CONSTANTS
  NumTwins,    \* twins of the device; twin p serves the property named p
  Names,       \* property names a request may use, the twins' among them
  Values,      \* the strings a desired value can be
  Atoi,        \* atoi: the number each string stands for
  Readings,    \* what a simulated property may show
  Kind,        \* "writable", "simulated" (temperature) or "unknown" offset
  Handlers,    \* concurrent UpdateDevice calls
  Requests,    \* their contents: device, has_spec, properties with a value
  MaxWork,     \* bound on the calls and their properties, added up
  ForceModes,  \* what MAPPER_FORCE_FALLBACK=1 may be: TRUE, FALSE
  MaxFaults,   \* bound on the commands, inserts and publications that fail
  CanTimeout   \* may the work outlast the handler's timers?

Twins == 1 .. NumTwins
Writers == Handlers \cup {"data"}
None == "none"        \* no value: a NULL or empty string
Garbage == "garbage"  \* what a freed string may read as
Texts == Values \cup {None, Garbage}

ASSUME TwinAssumption ==
  /\ NumTwins \in Nat \ {0}
  /\ Twins \subseteq Names
  /\ Kind \in [Names -> {"writable", "simulated", "unknown"}]
  /\ Atoi \in [Values -> Nat]
  /\ Readings \subseteq Values
  /\ "data" \notin Handlers
  /\ None \notin Values /\ Garbage \notin Values
  /\ \A r \in Requests :
       /\ r.dev \in {"absent", "unnamed", "unknown", "known"}
       /\ r.spec \in BOOLEAN
       /\ r.props \in Seq([name : Names, val : Values \cup {None}])
  /\ MaxWork \in Nat /\ MaxFaults \in Nat
  /\ ForceModes \subseteq BOOLEAN /\ CanTimeout \in BOOLEAN

VARIABLES
  desired,    \* twin->observedDesired.value
  reported,   \* twin->reported.value
  register,   \* the holding register behind a property
  recorded,   \* last row of the property in the database
  published,  \* last value sent to the broker
  deal,       \* each writer's run of device_deal_twin
  started,    \* has device_start rebuilt the twins and set the status ok?
  next,       \* the data thread's place in its loop over the twins
  force,      \* MAPPER_FORCE_FALLBACK=1 in this process
  call,       \* each handler's run of UpdateDevice
  sent, faults,   \* work received and failures so far
  disturbed   \* history: on this property writers overlapped, a command
              \* failed or a register was written without its twin

twinVars == <<desired, reported>>
pushVars == <<recorded, published>>
vars == <<twinVars, register, pushVars, deal, started, next, force, call,
          sent, faults, disturbed>>

Off  == [pc |-> "off", twin |-> 0, val |-> None, stale |-> FALSE,
         lost |-> FALSE, rc |-> 0]
Idle == [pc |-> "idle", req |-> [dev |-> "absent", spec |-> FALSE,
         props |-> <<>>], idx |-> 1, ok |-> FALSE, reply |-> "none"]

Init ==        \* device_new copies the desired values of the registration
  /\ desired \in [Twins -> Values \cup {None}]
  /\ reported = [p \in Twins |-> None]
  /\ register = [n \in Names |-> 0]
  /\ recorded = [p \in Twins |-> None]
  /\ published = [p \in Twins |-> None]
  /\ deal = [w \in Writers |-> Off]
  /\ started = FALSE
  /\ next = 1
  /\ force \in ForceModes
  /\ call = [h \in Handlers |-> Idle]
  /\ sent = 0 /\ faults = 0
  /\ disturbed = [n \in Names |-> FALSE]

-----------------------------------------------------------------------------
(* Who is at work on a property: a handler from the arrival of its request *)
(* to the reply, the data thread while it runs mbpoll and reports.         *)

Items(h) == call[h].req.props
Item(h) == Items(h)[call[h].idx]

TwinOf(name, i) ==     \* by name, else by position, else none
  IF name \in Twins THEN name ELSE IF i \in Twins THEN i ELSE 0

Active(w, n) ==
  IF w = "data"
    THEN deal[w].pc \notin {"off", "test", "over"} /\ deal[w].twin = n
    ELSE \E i \in DOMAIN Items(w) : n \in {Items(w)[i].name,
                                           TwinOf(Items(w)[i].name, i)}

Overlap(n) == \E v, w \in Writers : v # w /\ Active(v, n) /\ Active(w, n)

Disturb(P) ==    \* P: the properties this step itself disturbs
  disturbed' = [n \in Names |-> disturbed[n] \/ n \in P \/ Overlap(n)']

Fault == faults < MaxFaults /\ faults' = faults + 1

-----------------------------------------------------------------------------
(* device_deal_twin, run by writer w.                                      *)

DealFrame == UNCHANGED <<desired, started, next, force, call, sent>>

DealSkips(p) ==
  \/ Kind[p] = "simulated"
  \/ desired[p] = None
  \/ reported[p] = desired[p]
  \/ Kind[p] = "unknown"          \* no register offset: also "success"

DealTest(w) ==         \* on a freed twin (lost) it reads anything
  /\ deal[w].pc = "test"
  /\ \E v \in IF deal[w].lost THEN Values \cup {None}
              ELSE {IF DealSkips(deal[w].twin) THEN None
                                               ELSE desired[deal[w].twin]} :
       deal' = [deal EXCEPT ![w].pc = IF v = None THEN "over" ELSE "exec",
                            ![w].val = v]
  /\ UNCHANGED <<reported, register, pushVars, faults>> /\ DealFrame
  /\ Disturb({})

DealWrites(w) ==       \* mbpoll succeeds
  /\ deal[w].pc = "exec"
  /\ register' = [register EXCEPT ![deal[w].twin] = Atoi[deal[w].val]]
  /\ deal' = [deal EXCEPT ![w].pc = "report"]
  /\ UNCHANGED <<reported, pushVars, faults>> /\ DealFrame
  /\ Disturb({})

DealFails(w) ==        \* mbpoll fails or is killed, perhaps after the write
  /\ deal[w].pc = "exec"
  /\ Fault
  /\ register' \in {register,
                    [register EXCEPT ![deal[w].twin] = Atoi[deal[w].val]]}
  /\ deal' = [deal EXCEPT ![w].pc = "over", ![w].rc = 1]
  /\ UNCHANGED <<reported, pushVars>> /\ DealFrame
  /\ Disturb({deal[w].twin})

Shown(w) ==            \* what the pointer kept from observedDesired shows
  {deal[w].val}
    \cup (IF deal[w].stale \/ deal[w].lost THEN {Garbage} ELSE {})
    \cup (IF deal[w].stale /\ ~deal[w].lost THEN {desired[deal[w].twin]} ELSE {})

DealReports(w) ==      \* reported = strdup(desired), through the old pointer
  /\ deal[w].pc = "report"
  /\ \E v \in Shown(w) :
       reported' = IF deal[w].lost THEN reported
                                   ELSE [reported EXCEPT ![deal[w].twin] = v]
  /\ deal' = [deal EXCEPT ![w].pc = "record"]
  /\ UNCHANGED <<register, pushVars, faults>> /\ DealFrame
  /\ Disturb({})

MutDealRecords(w) ==   \* mutant: the value is not recorded
  /\ deal[w].pc = "record"
  /\ deal' = [deal EXCEPT ![w].pc = "publish"]
  /\ UNCHANGED <<reported, register, pushVars, faults>> /\ DealFrame
  /\ Disturb({})

DealRecords(w) ==      \* mysql_recorder_record; its result is ignored
  /\ deal[w].pc = "record"
  /\ \/ /\ \E v \in Shown(w) : recorded' = [recorded EXCEPT ![deal[w].twin] = v]
        /\ UNCHANGED faults
     \/ Fault /\ UNCHANGED recorded
  /\ deal' = [deal EXCEPT ![w].pc = "publish"]
  /\ UNCHANGED <<reported, register, published>> /\ DealFrame
  /\ Disturb(IF faults' = faults THEN {} ELSE {deal[w].twin})

DealPublishes(w) ==    \* publisher_publish_data; its result is only logged
  /\ deal[w].pc = "publish"
  /\ \/ /\ \E v \in Shown(w) : published' = [published EXCEPT ![deal[w].twin] = v]
        /\ UNCHANGED faults
     \/ Fault /\ UNCHANGED published
  /\ deal' = [deal EXCEPT ![w].pc = "over", ![w].rc = 0]
  /\ UNCHANGED <<reported, register, recorded>> /\ DealFrame
  /\ Disturb(IF faults' = faults THEN {} ELSE {deal[w].twin})

DealStep(w) ==
  \/ DealTest(w) \/ DealWrites(w) \/ DealFails(w) \/ DealReports(w)
  \/ DealRecords(w) \/ DealPublishes(w)

-----------------------------------------------------------------------------
(* device_start: device_runtime_rebuild replaces twins that have no        *)
(* property attached. RegisterMapper passes no model to                    *)
(* get_device_from_grpc, so that is every twin of every device. Deals in   *)
(* flight go on with pointers into the old array.                          *)

Rebuild ==
  /\ ~started
  /\ started' = TRUE
  /\ desired' = [p \in Twins |-> None]
  /\ reported' = [p \in Twins |-> None]
  /\ deal' = [w \in Writers |-> [deal[w] EXCEPT !.lost = @ \/ deal[w] # Off]]
  /\ UNCHANGED <<register, pushVars, next, force, call, sent, faults>>
  /\ Disturb({n \in Names : \E h \in Handlers : Active(h, n)})

-----------------------------------------------------------------------------
(* The data thread's loop over the twins of a started device.              *)

DataPolls ==
  /\ started
  /\ deal["data"] = Off
  /\ Kind[next] # "simulated"
  /\ deal' = [deal EXCEPT !["data"] = [Off EXCEPT !.pc = "test", !.twin = next]]
  /\ UNCHANGED <<twinVars, register, pushVars, started, next, force, call, sent>>
  /\ UNCHANGED faults
  /\ Disturb({})

MutAdvance == next' = next + 1       \* mutant: the loop does not start again

MutAdvanceStays == UNCHANGED next    \* mutant: always the first twin

Advance == next' = (next % NumTwins) + 1

DataSimulates ==       \* simulated temperature: reported and recorded only
  /\ started
  /\ deal["data"] = Off
  /\ Kind[next] = "simulated"
  /\ \E v \in Readings : /\ reported' = [reported EXCEPT ![next] = v]
                         /\ recorded' = [recorded EXCEPT ![next] = v]
  /\ Advance
  /\ UNCHANGED <<desired, register, published, deal, started, force, call>>
  /\ UNCHANGED <<sent, faults>>
  /\ Disturb({})

DataNext ==            \* the result code is ignored
  /\ deal["data"].pc = "over"
  /\ deal' = [deal EXCEPT !["data"] = Off]
  /\ Advance
  /\ UNCHANGED <<twinVars, register, pushVars, started, force, call, sent, faults>>
  /\ Disturb({})

DataStep == DataPolls \/ DataSimulates \/ DataNext \/ DealStep("data")

-----------------------------------------------------------------------------
(* UpdateDevice. Three passes over the properties of a request, each item  *)
(* with a value in turn: "force" (register first, then the twin), "apply"  *)
(* (the twin, then device_deal_twin in a task, then "direct" if that did   *)
(* not succeed) and "outer", the last resort.                              *)

CallFrame == UNCHANGED <<pushVars, started, next, force>>
CallOnly == UNCHANGED <<twinVars, register, deal, sent, faults>> /\ CallFrame

More(h) == call[h].idx \in DOMAIN Items(h)
Due(h, passes) == call[h].pc \in passes /\ More(h) /\ Item(h).val # None

Ends(c, r) == [c EXCEPT !.pc = "reply", !.reply = r]
Pass(c, p) == [c EXCEPT !.pc = p, !.idx = 1, !.ok = FALSE]
Done(c, success) ==    \* one item handled; "direct" is part of "apply"
  [c EXCEPT !.pc = IF @ \in {"wait", "direct"} THEN "apply"
                   ELSE IF @ = "sync" THEN "force" ELSE @,
            !.idx = @ + 1, !.ok = @ \/ success]

(* observedDesired of twin t gets value v: its old string is freed.        *)
Stale(h, t) ==
  [w \in Writers |->
     [deal[w] EXCEPT !.stale = @ \/ (w # h /\ deal[w].twin = t
                                     /\ deal[w].pc \notin {"test", "over"})]]

Receive(h, r) ==
  /\ call[h] = Idle
  /\ sent' = sent + 1 + Len(r.props) /\ sent' <= MaxWork
  /\ call' = [call EXCEPT ![h] =
       LET c == [Idle EXCEPT !.req = r] IN
       IF r.dev = "absent" THEN Ends(c, "invalid")
                           ELSE Pass(c, IF force /\ r.spec THEN "force" ELSE "apply")]
  /\ UNCHANGED <<twinVars, register, deal, faults>> /\ CallFrame
  /\ Disturb({})

SkipItem(h) ==         \* no desired value
  /\ call[h].pc \in {"force", "apply", "outer"}
  /\ call[h].pc = "apply" => call[h].req.dev # "unnamed"
  /\ More(h) /\ Item(h).val = None
  /\ call' = [call EXCEPT ![h].idx = @ + 1]
  /\ CallOnly
  /\ Disturb({})

ApplyTwin(h) ==        \* replace the desired value, start device_deal_twin
  LET t == TwinOf(Item(h).name, call[h].idx) IN
  /\ Due(h, {"apply"})
  /\ call[h].req.dev = "known" /\ t # 0
  /\ desired' = [desired EXCEPT ![t] = Item(h).val]
  /\ deal' = [Stale(h, t) EXCEPT ![h] = [Off EXCEPT !.pc = "test", !.twin = t]]
  /\ call' = [call EXCEPT ![h].pc = "wait"]
  /\ UNCHANGED <<reported, register, sent, faults>> /\ CallFrame
  /\ Disturb({})

ApplyNoTwin(h) ==      \* unknown device, or no twin by name or position
  /\ Due(h, {"apply"})
  /\ \/ call[h].req.dev = "unknown"
     \/ call[h].req.dev = "known" /\ TwinOf(Item(h).name, call[h].idx) = 0
  /\ call' = [call EXCEPT ![h].pc = "direct"]
  /\ CallOnly
  /\ Disturb({})

(* A timer decides whether the result counts; the call waits for the task  *)
(* either way, in the destructor of its future.                            *)
Late == {FALSE} \cup (IF CanTimeout THEN {TRUE} ELSE {})

MutWaitEnds(h) ==      \* mutant: no fallback after a failed deal
  /\ call[h].pc = "wait"
  /\ deal[h].pc = "over" /\ deal[h].rc = 0
  /\ call' = [call EXCEPT ![h] = Done(@, TRUE)]
  /\ deal' = [deal EXCEPT ![h] = Off]
  /\ UNCHANGED <<twinVars, register, sent, faults>> /\ CallFrame
  /\ Disturb({})

WaitEnds(h) ==
  /\ call[h].pc = "wait"
  /\ deal[h].pc = "over"
  /\ \E late \in Late :
       call' = [call EXCEPT ![h] = IF deal[h].rc = 0 /\ ~late
                                     THEN Done(@, TRUE)
                                     ELSE [@ EXCEPT !.pc = "direct"]]
  /\ deal' = [deal EXCEPT ![h] = Off]
  /\ UNCHANGED <<twinVars, register, sent, faults>> /\ CallFrame
  /\ Disturb({})

(* Does the twin of this name hold the item's value? Not if the device is  *)
(* another one, nor in the last pass if the twin also served, by position, *)
(* an item of another name.                                                *)
TwinHolds(h) ==
  /\ call[h].req.dev = "known"
  /\ call[h].pc = "outer" => \A i \in DOMAIN Items(h) :
       Items(h)[i].name # Item(h).name
         => TwinOf(Items(h)[i].name, i) # Item(h).name

MutDirectWrites(h) ==  \* mutant: the position in the request, not the name
  /\ Due(h, {"force", "direct", "outer"})
  /\ Kind[Item(h).name] # "unknown"
  /\ register' = [register EXCEPT ![call[h].idx] = Atoi[Item(h).val]]
  /\ call' = [call EXCEPT ![h] = IF @.pc = "force" THEN [@ EXCEPT !.pc = "sync"]
                                                   ELSE Done(@, TRUE)]
  /\ UNCHANGED <<twinVars, deal, sent, faults>> /\ CallFrame
  /\ Disturb(IF TwinHolds(h) THEN {} ELSE {Item(h).name})

DirectWrites(h) ==     \* write_modbus_direct: the register, not the twin
  /\ Due(h, {"force", "direct", "outer"})
  /\ Kind[Item(h).name] # "unknown"
  /\ register' = [register EXCEPT ![Item(h).name] = Atoi[Item(h).val]]
  /\ call' = [call EXCEPT ![h] = IF @.pc = "force" THEN [@ EXCEPT !.pc = "sync"]
                                                   ELSE Done(@, TRUE)]
  /\ UNCHANGED <<twinVars, deal, sent, faults>> /\ CallFrame
  /\ Disturb(IF TwinHolds(h) THEN {} ELSE {Item(h).name})

DirectUnknown(h) ==    \* no offset for this name
  /\ Due(h, {"force", "direct", "outer"})
  /\ Kind[Item(h).name] = "unknown"
  /\ call' = [call EXCEPT ![h] = Done(@, FALSE)]
  /\ CallOnly
  /\ Disturb({})

DirectFails(h) ==      \* mbpoll fails, perhaps after the write
  /\ Due(h, {"force", "direct", "outer"})
  /\ Kind[Item(h).name] # "unknown"
  /\ Fault
  /\ register' \in {register,
                    [register EXCEPT ![Item(h).name] = Atoi[Item(h).val]]}
  /\ call' = [call EXCEPT ![h] = Done(@, FALSE)]
  /\ UNCHANGED <<twinVars, deal, sent>> /\ CallFrame
  /\ Disturb({Item(h).name})

MutForceSync(h) ==     \* mutant: the twin at this position, not of this name
  LET t == call[h].idx IN
  /\ call[h].pc = "sync"
  /\ IF call[h].req.dev = "known" /\ t \in Twins
       THEN /\ desired' = [desired EXCEPT ![t] = Item(h).val]
            /\ reported' = [reported EXCEPT ![t] = Item(h).val]
            /\ deal' = Stale(h, t)
       ELSE UNCHANGED <<twinVars, deal>>
  /\ call' = [call EXCEPT ![h] = Done(@, TRUE)]
  /\ UNCHANGED <<register, sent, faults>> /\ CallFrame
  /\ Disturb({})

ForceSync(h) ==        \* after a forced write: both values of the twin
  LET t == Item(h).name IN
  /\ call[h].pc = "sync"
  /\ IF call[h].req.dev = "known" /\ t \in Twins
       THEN /\ desired' = [desired EXCEPT ![t] = Item(h).val]
            /\ reported' = [reported EXCEPT ![t] = Item(h).val]
            /\ deal' = Stale(h, t)
       ELSE UNCHANGED <<twinVars, deal>>
  /\ call' = [call EXCEPT ![h] = Done(@, TRUE)]
  /\ UNCHANGED <<register, sent, faults>> /\ CallFrame
  /\ Disturb({})

ForceEnds(h) ==        \* nothing written: try the normal path
  /\ call[h].pc = "force" /\ ~More(h)
  /\ call' = [call EXCEPT ![h] = IF @.ok THEN Ends(@, "ok") ELSE Pass(@, "apply")]
  /\ CallOnly
  /\ Disturb({})

ApplyEnds(h) ==        \* one success is enough; too late is a failure
  /\ call[h].pc = "apply"
  /\ ~More(h) \/ call[h].req.dev = "unnamed"
  /\ \E late \in Late :
       call' = [call EXCEPT ![h] = IF (~@.ok \/ late) /\ @.req.spec
                                     THEN Pass(@, "outer") ELSE Ends(@, "ok")]
  /\ CallOnly
  /\ Disturb({})

OuterEnds(h) ==
  /\ call[h].pc = "outer" /\ ~More(h)
  /\ call' = [call EXCEPT ![h] = Ends(@, IF @.ok THEN "ok" ELSE "not_found")]
  /\ CallOnly
  /\ Disturb({})

Reply(h) ==
  /\ call[h].pc = "reply"
  /\ call' = [call EXCEPT ![h] = Idle]
  /\ CallOnly
  /\ Disturb({})

CallStep(h) ==
  \/ SkipItem(h) \/ ApplyTwin(h) \/ ApplyNoTwin(h) \/ WaitEnds(h)
  \/ DirectWrites(h) \/ DirectUnknown(h) \/ DirectFails(h) \/ ForceSync(h)
  \/ ForceEnds(h) \/ ApplyEnds(h) \/ OuterEnds(h) \/ Reply(h)
  \/ DealStep(h)

Next ==
  \/ Rebuild
  \/ DataStep
  \/ \E h \in Handlers : CallStep(h) \/ \E r \in Requests : Receive(h, r)

Spec == Init /\ [][Next]_vars

(* Threads keep running and commands end: device_deal_twin runs mbpoll     *)
(* under "timeout", and mbpoll gives up by itself when nobody answers. No  *)
(* request has to arrive.                                                  *)
FairSpec ==
  /\ Spec
  /\ WF_vars(Rebuild)
  /\ WF_vars(DataStep)
  /\ \A h \in Handlers : WF_vars(CallStep(h))

-----------------------------------------------------------------------------
(* Properties.                                                             *)

(* Every string, register, deal and call keeps its type; in particular a   *)
(* request's index stays in or just past its properties.                   *)
TypeOK ==
  /\ desired \in [Twins -> Values \cup {None}]
  /\ reported \in [Twins -> Texts]
  /\ register \in [Names -> Nat]
  /\ recorded \in [Twins -> Texts] /\ published \in [Twins -> Texts]
  /\ deal \in [Writers -> [pc : {"off", "test", "exec", "report", "record",
                                 "publish", "over"},
                           twin : Twins \cup {0}, val : Values \cup {None},
                           stale : BOOLEAN, lost : BOOLEAN, rc : {0, 1}]]
  /\ {started, force} \subseteq BOOLEAN /\ next \in Twins
  /\ \A h \in Handlers :
       /\ call[h].pc \in {"idle", "force", "sync", "apply", "wait", "direct",
                          "outer", "reply"}
       /\ call[h].req \in Requests \cup {Idle.req}
       /\ call[h].idx \in 1 .. Len(Items(h)) + 1
       /\ call[h].ok \in BOOLEAN
       /\ call[h].reply \in {"none", "ok", "not_found", "invalid"}
  /\ sent \in 0 .. MaxWork /\ faults \in 0 .. MaxFaults
  /\ disturbed \in [Names -> BOOLEAN]

Quiet(p) == \A w \in Writers : ~Active(w, p)
Settled(p) == Quiet(p) /\ Kind[p] = "writable" /\ reported[p] = desired[p]
                       /\ desired[p] # None

(* device_deal_twin takes reported = desired for "already written" and     *)
(* skips the command. Unless writers overlapped, a command failed or a     *)
(* request for another device hit the register, that is right on every     *)
(* path: deal, fallback after a timeout, forced write, match by position.  *)
QuietTwinMatchesRegister ==
  \A p \in Twins : Settled(p) /\ ~disturbed[p] => register[p] = Atoi[reported[p]]

(* Under the same conditions and without MAPPER_FORCE_FALLBACK the         *)
(* database and the broker have seen the reported value last.              *)
QuietTwinIsPublished ==
  \A p \in Twins : Settled(p) /\ ~disturbed[p] /\ ~force =>
    recorded[p] = reported[p] /\ published[p] = reported[p]

(* An OK reply for a known device means that the last value the request    *)
(* gives for a writable twin is in its register, unless the twin was       *)
(* disturbed: also when device_deal_twin skipped the command.              *)
OkMeansReached ==
  \A h \in Handlers : call[h].reply = "ok" /\ call[h].req.dev = "known" =>
    \A i \in DOMAIN Items(h) :
      LET n == Items(h)[i].name IN
        \/ n \notin Twins \/ Kind[n] # "writable" \/ disturbed[n]
        \/ Items(h)[i].val = None
        \/ \E j \in i + 1 .. Len(Items(h)) :
             TwinOf(Items(h)[j].name, j) = n /\ Items(h)[j].val # None
        \/ register[n] = Atoi[Items(h)[i].val]

(* When requests and failures have ended, the data thread brings every     *)
(* writable twin to reported = desired for good, whatever raced before.    *)
TwinsConverge ==
  \A p \in Twins : Kind[p] = "writable" =>
    <>[](desired[p] # None => reported[p] = desired[p])

(* Every call is answered, also when all its commands fail or time out.    *)
RequestsAnswered ==
  \A h \in Handlers : (call[h].pc # "idle") ~> (call[h].pc = "idle")

(* "Twin desired == reported, skip" (device_deal_twin): equal values mean  *)
(* that the value was written. Stated here without excluding overlapping   *)
(* writers: a twin at rest, no failed command, register = desired value.   *)
SettledMeansWritten ==
  \A p \in Twins : Settled(p) /\ faults = 0 => register[p] = Atoi[reported[p]]
=============================================================================
