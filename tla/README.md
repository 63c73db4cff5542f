# TLA+ models of mapper-framework-c

The repository is a KubeEdge mapper in C and C++: one process that registers
with EdgeCore over a Unix socket, keeps a *device* (with its *twins*) for every
device of the registration, polls and writes the devices' Modbus registers, and
serves EdgeCore (gRPC) and local users (HTTP). This directory holds TLA+ modules
of its concurrent core, TLC configurations and proofs for TLAPS.

Run, in this directory:

    tlc -workers 2 -config lifecycle_safety.cfg MCDeviceLifecycle
    tlapm DeviceLifecycleProofs.tla       (also RegistryProofs, RegistryAnswers,
                                           DataSinksProofs, TwinSyncProofs,
                                           TwinSyncTruth, GrpcServerProofs,
                                           StreamProofs)

`PROJECT.json` lists the runs, what each is expected to show, the source lines
behind every definition, the hazards and the findings.

## 1. Inventory

| Component | State | Operations | Hard behaviour |
|---|---|---|---|
| process control (`main.c`) | global handles, `running`, threads | `main`, `signal_handler`, `cleanup_resources`, start thread | a signal at any time; cancellation; order of shutdown |
| device manager (`device/device.c`) | array of devices, `managerMutex`, `stopped` | new, free, add, remove, get, start_all, stop_all | pointers leave the mutex; array growth |
| device (`device/device.c`, `devicestatus.c`) | status string, `dataThreadRunning`, `dataThread`, `mutex`, twins | new, free, start, stop, restart, rebuild, deal_twin, data thread | threads started and cancelled concurrently; twins changed without the mutex |
| gRPC server (`grpcserver/server.cc`, `main.c`) | `g_device_manager`, server object, socket file | UpdateDevice and its three passes, Start, Stop; the other calls only log | timers that expire before the work ends, fallbacks, concurrent calls; a start-up that main can follow only by the socket file; files of killed or other processes |
| HTTP server (`httpserver/httpserver.c`, `device/dev_panel.c`) | one MHD daemon with one select thread | ping, read, write, methods, model | reads twins without a lock |
| twin helpers (`device/devicetwin.c`) | none of its own | get, set, deal, report | `devicetwin_set` ends in driver stubs |
| registration (`grpcclient/register.cc`, `util/parse`) | lists of devices and models | RegisterMapper, conversions | twins are built without their property |
| MySQL recorder and client (`data/dbmethod/mysql`) | one connection, the recorder's pointer to it | init, add, record, close | connection shared by all data threads without a lock |
| other databases (`data/dbmethod/*`) | one connection each | init, add, push threads | none: nothing calls them |
| publishers (`data/publish`) | one client handle | new, publish, free | retry loop (HTTP), asynchronous connect and callbacks (MQTT), handle shared without a lock |
| stream (`data/stream/stream.c`) | FFmpeg contexts, the mapping of streams | `stream_handler`, save frames, save image, save video | some thirty calls that may fail, each with other things allocated; loops that do not count every outcome; streams that appear while they are copied |
| configuration, driver, log, common | little | parse, stubs, print | a log call is a cancellation point |
| `dmi/`, `google/` | | generated | |

Interaction: `main` creates the manager, starts the gRPC server with a pointer
to it, registers, fills the manager, starts the devices from a thread of their
own and then sits in its loop. A gRPC or HTTP handler looks a device up under
`managerMutex` and uses the pointer after unlocking. A data thread holds its
device's mutex while it deals with twins; a gRPC handler does not take it.

What makes the parts correct: no thread dies with a mutex that others need; a
device is freed only when nobody uses it; status and thread flag agree; shutdown
ends; EdgeCore can call back as soon as the mapper has registered; a value that
is reported is in the register; a reply says what happened;
a desired value is delivered in the end; a request reaches the device it names,
with what EdgeCore registered for it; handles of libraries outlive their users,
and a success that is logged
really happened; an error path gives back what was acquired before it.

## 2. Modules

| Module | Content |
|---|---|
| `DeviceLifecycle` | threads, mutexes, cancellation, start, collection, shutdown |
| `MCDeviceLifecycle` | its TLC instances |
| `DeviceLifecycleProofs` | inductive invariant and theorems |
| `TwinSync` | one device's twins and registers between data thread, UpdateDevice calls and device_start |
| `MCTwinSync` | its TLC instances: properties, values, requests |
| `TwinSyncProofs` | types, and where the deals and calls are in the code |
| `TwinSyncTruth` | an undisturbed twin tells the truth about register, database and broker |
| `Registry` | from the registration reply to the devices that HTTP and gRPC requests reach |
| `DeviceDirectory` | abstract: what the device manager promises, a directory by name |
| `MCRegistry` | instances of Registry: replies, URLs, targets |
| `RegistryProofs` | types, the array and its memory, the invariant that relates reply, lists and devices |
| `RegistryAnswers` | for names without separators: the answers are what was registered, and the manager implements DeviceDirectory |
| `DataSinks` | the MySQL connection and the publisher between their users and the shutdown |
| `MCDataSinks` | its TLC instances |
| `DataSinksProofs` | types, no use after free, truth of results while nobody meets |
| `GrpcServer` | start-up and shutdown of the gRPC server in processes that share a socket file |
| `MCGrpcServer` | its TLC instances: socket paths |
| `GrpcServerProofs` | types, no use after free, files removed, reachability for EdgeCore |
| `Stream` | one run of `stream_handler` |
| `MCStream` | its TLC instances: counts, inputs, late streams |
| `StreamProofs` | types, resources of all error paths, the mapping, results |

`DataSinks` is what `TwinSync` sees as `recorded` and `published`; `Registry`
ends where `DeviceLifecycle` begins, with the start thread; `GrpcServer` takes the
devices of both as steps of main, and the calls of `TwinSync` as calls that end.
`Stream` stands alone: nothing but a driver written by a user calls it. The
modules share no variables. `Registry` refines `DeviceDirectory`.

Definitions called `Mut...` are deliberately wrong variants of the definition
that follows them. No specification uses them; putting one in the place of its
original makes a property fail, which shows what the property depends on.

### DeviceLifecycle

Every thread has a program counter; its values are the points between which
another thread can run or a cancellation can act. `dataPc[d]` is the data thread
of device d (`device_data_thread`), `startPc` the start thread
(`device_manager_start_all`, `device_start`), `mainPc` the main thread
(`main` loop, `cleanup_resources`, and inside it `device_manager_stop_all`,
`device_stop`, `device_manager_free`, `device_free`), `clientPc` the request
handlers. `devMutex`, `mgrMutex` name the holder of a mutex. `status`,
`running`, `handle` are `device->status`, `dataThreadRunning` and
`dataThread != 0`.

Cancellation is POSIX deferred cancellation: a cancelled thread ends at its next
cancellation point and keeps its mutexes, as no cleanup handler is installed.
Cancellation points are `usleep`, `system` and every log call (log.c writes to
`stderr`); `pthread_mutex_lock` is none. Abstracted: the twins themselves (one
step "deal"), the text of messages, and InitDevice, a stub that may succeed or,
with `InitCanFail`, fail. A pthread_create that fails leaves the handle alone
("clean") or sets it ("junk"), as POSIX leaves that open. The second signal
calls `_exit`: nothing runs after it.

### TwinSync

`desired` and `reported` are the strings of a twin, `register` the holding
register of a property, `recorded` and `published` the last value given to the
database and to the publisher. `deal[w]` is a run of `device_deal_twin`, by the
data thread or by the task of a handler; `call[h]` a run of `UpdateDevice` with
its passes "force", "apply" (with "wait" and "direct" inside) and "outer".
`Rebuild` is `device_runtime_rebuild`, called by `device_start`.

Memory matters here: `device_deal_twin` keeps the `observedDesired` pointer
across `system()`. When a handler replaces the string meanwhile, the deal is
`stale` and later reads give the old text, the new text or `Garbage`; when the
twins array itself is replaced, the deal is `lost` and writes to freed memory.
Each read or replacement of a string is one step: the race inside a single
`strcmp` or between a `free` and the next `strdup` is not split further.

Timers: `std::async` futures wait for their task when they are destroyed, so an
expired timer changes the result of a call and not the moment it goes on. The
model chooses `late` when the task is over.

Abstracted: a value is a member of `Values` and `Atoi` its number; a request is
the kind of device it names and a sequence of (name, value). Direct writes go to
`MAPPER_MODBUS_ADDR`, deals to the address of the device's protocol
configuration; the model takes both for the same Modbus server. `disturbed` is a
history variable: writers overlapped on this property, a command failed, or a
register was written whose twin does not hold the value (`TwinHolds`): by a
request for another device, or in the last pass of a request that also served
the twin, by position, with the value of another name. `force` is
MAPPER_FORCE_FALLBACK of this process, chosen in `Init` from `ForceModes`.

### Registry

`Register` is `RegisterMapper`: any subset of the entries of the reply may fail to
unpack and then stays a zeroed entry of the array. `InitSkips`,
`InitCreateFails`, `InitAddFails` and `InitAdds` are the outcomes of one round of
main's loop (`device_new` and `device_manager_add`), `StartsDevice` is
`device_start` with `device_runtime_rebuild`. `devices`, `capacity` and
`allocated` are the manager's array, what it takes for its size and its real
size. The gRPC server works from the start (two lookups, by the name and then by
"ns/name", each in its own critical section); the HTTP server starts last, with
one step for the lookup and one for the use of the device. `lost` is a history
variable: the entries that a failure dropped.

Abstracted: a string that the code takes apart is the sequence of its parts, so
`<<"a", ".", "b">>` is the name "a.b"; `Overlong` and `Cut` are segments that
exceed sscanf's width. A namespace that points into the freed protobuf message is
the *set* of texts it may read as. `ReplyAssumption` and `RequestAssumption` say
that lists are lists and that a text of a protobuf message is never NULL (an
absent one is empty). `device_new` puts every device into the
namespace "test" whatever was registered. The device's texts of protocol and
visitors, and status strings, are left out.

`DeviceDirectory` is the promise: the first device of a name keeps it, and a
lookup tells at one instant who has the name. `ImplementsDirectory` checks it
for names without dots; what happens to the others is finding 4.

### DataSinks

`Users` are the data threads and the tasks of UpdateDevice calls. A push goes
through `mysql_recorder_record` (three commands on the connection) and
`publisher_publish_data`; every library call is a step, so two users can meet
inside a handle. `handle` is the publisher: for HTTP and OpenTelemetry it
remembers whose body is set (`post`), for MQTT the `connected` flag, which the
callbacks change inside `mosquitto_loop` only. `link` is the real connection to
the broker. `got`, `row` and `stray` tell what arrived. main creates the handles
before any user exists and destroys them after the last one has ended.

Two threads inside one handle are undefined behaviour. The model lets each see
the other's body, lets MySQL commands succeed or fail with or without effect,
and remembers it in `shared`; a crash of the process is not among the outcomes,
as no property survives it. `WaitLimit` stands for the 50 rounds of waiting for
CONNACK. Abstracted: JSON, topics, table names and values (a push is identified
by its user), the self-test of the connection.

### GrpcServer

`mainPc[p]` is main's way through start-up and cleanup_resources in process p,
`srvPc[p]` the server thread inside `GrpcServer::Start`, `file` the one socket
file: who bound it, and whether it was opened to others (chmod). `server` is the
pointer `server_`, which the thread assigns after BuildAndStart has returned,
while the file exists from "bound" on: main, in `wait_uds_ready`, can see the
file first, and sees the file of anybody. Failures: every step of the start-up
(configuration, `grpcserver_new`, pthread_create, BuildAndStart, registration),
unlink and chmod; a kill at any time, and `_exit` at the second signal, both of
which leave the file. Processes are launched in order, and the next one may be
launched while its predecessor runs, which sets the history variable
`overlapped`.

`conf` holds what decides the two paths: the path of main's configuration file,
whether EDGECORE_SOCK is set, and the path of the `config.yaml` that
`RegisterMapper` reads by itself from another place (`Served`, `Announced`).
`CallbackPossible` is stated for configurations in which the two agree
(`Settled`), for processes that do not overlap and for working unlink and chmod;
section 4 says what happens otherwise. Whether gRPC unlinks the file at
Shutdown is left open.

### Stream

One call of `stream_handler`; a single thread, so what is hard is failure. Each
chain (`FrameChain`, `VideoChain`, `SegmentChain`, `ImageChain`) lists what the
successive calls acquire. A step may succeed (`StepSucceeds`, `ImageStep`,
`SegmentStep`) or fail, and the error path releases either what the pointers
show (`Cleanup`) or what is written at that place (`ImageFrees`,
`SegmentFails`). `live` is what is allocated, `ptr` which local variables are
not NULL: `output_fmt_ctx` is the variable that must become NULL again after
every file.

`Limit` is `5 * frame_count` as an int: it wraps at `IntMax`. The input may have
any streams, and the demuxer may find more of them (`Late`) while packets are
read. `MapStreams` writes the mapping for all streams there are, with room for
those of the beginning only: `Overrun` is the process that is aborted for it.
`faults` bounds exactly the outcomes no loop counts: an image or packet that
could not be saved and a packet that is skipped. `excused` remembers that an
encoder or a read failed, which the code drops without a trace in its result.
Abstracted: FFmpeg, pixel formats, file names and timestamps.

## 3. Runs

| Run | Expected | Bounds | Shows |
|---|---|---|---|
| `lifecycle_safety` | pass | 2 devices, 1 HTTP and 1 gRPC request at a time, InitDevice and pthread_create may fail, fair | mutexes, flags and memory through start, collection and shutdown; once the start thread is over, a signal leads to the end of cleanup |
| `lifecycle_hang` | violation | 1 device | the signal overtakes the start thread: cleanup hangs |
| `lifecycle_rpc` | violation | 1 device, 1 gRPC call | the manager is freed under a gRPC call |
| `twin_safety` | pass | 2 twins (one simulated), 1 handler, calls of 9 contents (one serves a twin by name and by position), at most 5 calls and properties together, with and without MAPPER_FORCE_FALLBACK, 1 failure, timers, fair | reported, register, database and broker agree when writers do not overlap; OK replies are honest; calls are answered; writable twins converge |
| `twin_race` | violation | 1 twin, 1 handler, no failure | a settled twin whose register has the old value |
| `registry_safety` | pass | 3 replies, initial capacity 1, 2 failures of any kind, 2 requests of every route, fair | what answers is what was registered; requests work on devices of their name; refinement of DeviceDirectory; lookups end |
| `registry_names` | violation | names "a.b" and "b" | the request for a.b reaches b |
| `sinks_safety` | pass | 1 data thread, 1 task, 4 methods, retryCount 0 and 2, 2 rounds of waiting, 3 pushes, 2 failures, fair | handles outlive users; results are true unless users met; attempts bounded; publications end |
| `sinks_shared` | violation | 2 data threads, HTTP, 1 attempt, no failure | success is logged for a value that was never sent |
| `server_safety` | pass | 2 processes, 1 call, 3 configurations, 1 kill, 1 failing unlink or chmod, fair | the object outlives its users; EdgeCore can call back; files are removed; a shutdown that finds `server_` set ends |
| `server_hang` | violation | 1 process, no failure but the registration's | a shutdown that does not find it set never ends |
| `stream_safety` | pass | every job, INT_MAX 15, frame counts -1 to 7, up to 2 files, 3 inputs, 2 late streams, 2 uncounted failures, fair | nothing leaks or dangles; packets stay in their stream; results are true; the handler ends |

Two limits of these runs are known and not kept as runs of their own. With
`CreateFaults = {"junk"}` (a failing pthread_create that sets the handle, which
POSIX allows) `StopsOnlyRealThreads` fails: device_stop then joins a thread that
was never created. And UpdateDevice can answer NOT_FOUND for a value that was
written: its timer expires, the task that is waited for all the same succeeds,
and the repetition (`server.cc:146`), which decides the reply, fails.

Why the bounds suffice: two devices are enough for a thread to be at one device
while another thread is at a different one, and the theorems hold for any
number. The hard cases of TwinSync need two values, one call and the data
thread, then a second call that meets what the first left behind; position
matches need a name without twin, and one request names a twin and meets it by
position as well; the other twin is simulated. `MaxWork` (calls and their properties, added up) and
`MaxFaults` make the model finite; liveness is about what happens when requests
and failures have stopped. A simulated property shows one of `Readings`. In `Registry` an
array of initial size 1 must grow with the second device, and two entries of the
same name, one without model and one that fails are in the replies. In
`DataSinks` three pushes let a user find the handle as an earlier push left it
while another is at work; two failures let a connection be lost, and lost again
while it is being opened; retryCount 0 and 2 are below and above the one attempt
the do-while loop always makes. In `GrpcServer` a second process is needed to
meet the file of a first that was killed or still runs; the theorems hold for any
number. In `Stream`, with INT_MAX 15, five times 1 and 2 fit into an int, five
times 4 is negative and five times 7 wraps to a small positive number; two files
show what the first leaves for the second; in one input a data stream comes
before a media stream, so that ranks and indices differ, and one late stream of
each kind appears in or between files.

Deadlock checking is off for the lifecycle, server and stream runs: a process
that has ended, or a handler that has returned, takes no step. In `Registry` and `DataSinks` the end is a step of its own that
changes nothing, so that any other standstill is reported.

Fairness: in `DeviceLifecycle` every thread is weakly fair, as the operating
system runs every runnable thread; `StopLock` is strongly fair, because the data
thread sleeps one to five seconds between two holds of the mutex it competes
for. Nothing obliges a signal or a request to arrive. In `TwinSync` the start
thread, the data thread and each running call are weakly fair. That a command
ends is justified by `timeout` around mbpoll in device_deal_twin and by mbpoll's
own response timeout in direct writes. In `Registry` main, the start thread and
the two servers are weakly fair. In `DataSinks` only the steps of a publication
are: libcurl gets a time limit (10 s by default; a configured timeout of 0 would
remove it) and `mosquitto_loop` 100 ms, while a MySQL command has no limit at all
and may block for ever. In `GrpcServer` both threads of a process and the ends of
calls are weakly fair, the latter because `TwinSync` shows that UpdateDevice is
answered. `Stream` is one sequential thread, so `WF_vars(Next)` says no more than
that every FFmpeg call returns, which the option `stimeout` (10 s) is set for.

## 4. Findings

1. **Shutdown can hang** (`lifecycle_hang`). A start thread cancelled at a log
   call keeps `managerMutex`; `device_manager_free` waits for it. Only a second
   signal ends the process.
2. **gRPC calls reach a freed manager** (`lifecycle_rpc`).
   `cleanup_resources` frees it before it stops the server.
3. **A value can be reported and never written** (`twin_race`): through the
   string pointer kept across mbpoll, or when two writers finish in different
   orders.
4. **A name with a dot leads to another device** (`registry_names`).
5. **A publication succeeds for data that was not sent** (`sinks_shared`): two
   devices' threads use one curl handle.
6. **A failed registration can hang the process** (`server_hang`): if it fails
   after the socket file has appeared and before `server_` is assigned,
   `GrpcServer::Stop` does nothing and main joins a thread that serves for ever.

Seen while modelling, kept in the models and without a run of their own, as
nothing in the repository claims the contrary or a run would show one assignment:

- A request that names a twin and also reaches it by the position of an item of
  another name (`server.cc:402`) leaves both in agreement when it is on time; when
  it is late, the last pass (`server.cc:146`) writes the register of the name once
  more and not the twin, and later requests for the twin's value are skipped as
  already written. `TwinHolds` takes this case out of `QuietTwinMatchesRegister`.
- device_runtime_rebuild (`device.c:579`) replaces the twins of the registration
  and drops the desired values that came with them (`Rebuild`).
- The model route finds no model: `dev_panel.c:144` joins namespace and name with
  a slash, its partner with a dot; and the namespace compared is a copy of freed
  memory (`util/parse/grpc.c:169`).
- With EDGECORE_SOCK set, or with no `config.yaml` where `register.cc` looks for
  it, the announced address (`register.cc:71`, `:79`) may not be the one main
  listens at.
- A process that shuts down or starts unlinks the socket of another one that runs
  (`main.c:117`, `:307`): `CallbackPossible` fails for `overlapped` processes.
- save_frame_to_image returns 0 whether or not a packet was encoded
  (`stream.c:199`), and a file cut short by a failed read counts as complete
  (`stream.c:588`): `ResultIsTrue` has to exclude both (`excused`).
- The stream mapping is written beyond its end when streams have appeared
  (`stream.c:490`).
- A frame that cannot be saved is not counted (`stream.c:379`): with every save
  failing, the loop over frames never ends. `HandlerEnds` holds as long as such
  outcomes are finite.

## 5. Proofs

`DeviceLifecycleProofs` proves, for every number of devices, every set of
requests and every choice of faults, from `NAssumption`, `ClientsAssumption` and
`FaultAssumption`:

| Theorem | States |
|---|---|
| `TypeCorrect` | `Spec => []TypeOK` |
| `CancellationSafe` | `Spec => []DataThreadReleasesMutex` |
| `FlagsAlwaysAgree` | `Spec => []FlagsAgree` |
| `FreeIsSafe` | `Spec => []NoWorkerOnFreedDevice` |
| `StatusReadsAreStable` | `Spec => StatusReadersSafe` |
| `JoinsAreReal` | `Spec => []StopsOnlyRealThreads` when "junk" is no fault |

None of these is inductive by itself. The invariant `IInv` adds to `TypeOK`: who
holds `managerMutex` at which points of the main and start threads (`MgrInv`;
also after a cancellation, when the dead start thread still holds it); who holds
a device's mutex, and that only the device under work can be held by the start
or main thread (`DevInv`); a live data thread has a nonzero handle, a cancelled
one has a clear flag and a status other than ok, so it can never reach the
cancellation point inside the lock (`ThreadInv`); flag and status through the
half-done states of device_start and device_stop (`FlagInv`); the manager is
being freed only after the start thread and the HTTP server ended, and device
d is free exactly when the loop is past d (`FreeInv`); what a request handler
holds (`ClientInv`). `NextInv` shows that each action preserves `IInv`, with one
lemma per thread. `CancellationSafe` is the one to read first: device_stop
cancels a thread asynchronously and is still safe, because it clears flag *and*
status under the mutex before it cancels, and the thread tests the status after
it took the mutex and reaches a cancellation point with the mutex only when the
status is ok.

`RegistryProofs` and `RegistryAnswers` prove, for every reply, URL and request,
every capacity and every set of failures, from `RegistryAssumption`,
`ReplyAssumption` and `RequestAssumption`:

| Theorem | States | Names |
|---|---|---|
| `TypeCorrect` | `Spec => []TypeOK` | any |
| `ArrayFits` | `Spec => []SlotsAllocated` | any |
| `ReadsRight` | `Spec => []ReadsAsRegistered` | `PlainNames` |
| `WritesRight` | `Spec => []WritesOnceStarted` | `PlainNames` |
| `MethodsRight` | `Spec => []MethodsOfDevice` | `PlainNames` |
| `ManagerIsDirectory` | `Spec => ImplementsDirectory` | `PlainNames`, `PlainCalls`, `WholeNames` |
| `OnlyRightDevices` | `Spec => []RightDevice` | `PlainNames`, `PlainCalls`, `WholeNames` |

`PlainNames`: the device names of the replies, and those in URLs that look a
device up, have no dot and no slash in them. `PlainCalls` asks the same of
UpdateDevice requests, and no dots of their namespaces. `WholeNames`: no such URL
has a device name that sscanf cuts. These are the hypotheses under which finding 4
cannot happen, so they cannot go; the instance of `registry_safety` satisfies all
three (overlong names in it are refused before a lookup), that of `registry_names`
does not satisfy `PlainNames`. Nothing is assumed of the names' being different,
of the models or of the failures.

The invariant `RegistryInv` has five parts. `ArrayInv`: the array is a sequence,
its length is at most `capacity`, and `capacity` differs from the memory really
there only after a failed realloc, which dropped an entry; this is what makes
`ArrayFits` inductive, as device_manager_add doubles `capacity` before it calls
realloc. `ListInv`: what main has not dealt with yet in its lists is what the
reply says, except for entries that were lost while unpacking. `DevicesInv`: the
manager has exactly the devices of the entries that can be served (`Served`), in
the order of the reply, and each is `Genuine`, a copy of its entry that differs at
most in whether its twins have their property. `StartInv`: the start thread exists
only when all devices do, and the devices it has passed are rebuilt. `ServerInv`:
the requests the servers work on.

For the answers, `device_manager_get` has to be related to the name in the
request. `ShortIdOfPair`, `GetByPair` and `GetByName` follow the function through
its two passes (the whole id, then what is behind its last dot or, without dots,
its last slash) for "ns/name" and "ns.name", and find that for plain names it returns the first device of that
name. `NamesKept` and `DevicesStay`: a device that is first of its name stays so,
because devices are only appended, which makes what a handler has found
(`HttpFound`, `RpcFound`) survive the steps of main and the start thread between
lookup and use. `ServedByName` says which entry of the reply that device is, and
`ReadAnswer`, `WriteAnswer` and `MethodsAnswer` follow the three handlers.
For the refinement, the array is a function from names to entries (`DirOf`);
`DirAppended` shows that adding a device is an abstract registration or, if the
name is taken, a stutter, and `HttpServes` and `RpcServes` that a request that
has found nothing in its first lookup is still undecided in the abstract
directory, and decided in the critical section of its last.
First and last indices are defined with CHOOSE. That a least one exists
(`LeastExists`) follows from the well-founded order of finite sets, without an
induction theorem. The one recursive function, `FlattenSeq` in the list of methods,
is handled the same way: `FlattenSingles` takes the least length at which the
result would be wrong.

`DataSinksProofs` proves, for any number of threads, calls, retries and failures,
from `SinkAssumption`:

| Theorem | States |
|---|---|
| `SinksTyped` | `Spec => []TypeOK` |
| `NoUseAfterFree` | `Spec => []HandlesOutliveUsers` |
| `SuccessesAreReal` | `Spec => []ResultsAreTrue` |
| `CopiesCounted` | `Spec => []CopiesBounded` |
| `ConnectedIsAccepted` | `Spec => []SendsWhenAccepted` |

The invariant `SinkInv` of the first two adds to `TypeOK`: which users have ended
in which phase of cleanup (`UsersGone`), that a handle is destroyed only in the
phases after that (`DestroyedLast`), and that a user inside a handle finds a
handle of the kind it expects (`InOwnHandle`), since its publication branched on
the kind once and goes on for several steps. The other three need `KindIsMethod`
(the publisher is of the configured method until it is freed) and `TruthInv`: as
long as nobody has met, the body on the handle is that of the user inside, a push
has arrived at most once per attempt made, and the connected flag is set only on a
link that was accepted. A step of one user keeps this for all others just because
none of them is inside the same handle (`OthersTrue`, `StepTruth`); the findings
about shared handles show that this hypothesis cannot go.

`TwinSyncProofs` and `TwinSyncTruth` prove, for any number of twins, handlers,
requests of any length and content, failures and timeouts, from `TwinAssumption`:

| Theorem | States |
|---|---|
| `TwinTypes` | `Spec => []TypeOK` |
| `QuietTwins` | `Spec => []QuietTwinMatchesRegister` |
| `QuietTwinsPublished` | `Spec => []QuietTwinIsPublished` |
| `OkReplies` | `Spec => []OkMeansReached` |

The invariant is `TwinInv`. `TypeInv` and `Place` give types and say which deal a
waiting call waits for, and that the data thread meets only twins that were
rebuilt. `Apart`: on an undisturbed property at most one writer is active.
`CleanInv(p)` is about a writable, undisturbed twin p: a deal at work on it holds
the desired value and a valid pointer (`DealOwn`); the twin reports the value of
the last item of a call, as far as it has been handled, that serves it (`Told`,
with `Latest` and `Upto`: here by name or position, pass by pass); the register
agrees with the twin unless some writer is `Ahead`, between a write and its
report or in the middle of the last pass; and likewise for database and broker.
`Apart` makes the proof modular: since writers that are not active on p say
nothing of it (`Away`), a step of w has to preserve only `Solo(w, p)`, the part
of `CleanInv(p)` about w (`Glue`), and each action has a lemma for that. The case
that fails without `TwinHolds` is the last pass (`DirectWritesSolo`); that lemma
is how the disagreement of section 4 was found.

`GrpcServerProofs` proves, for any number of processes, calls, kills and failures
and every configuration, from `ProcAssumption`, `BoundAssumption` and
`ConfAssumption`, `TypeCorrect`, `NoUseAfterFree`
(`Spec => []ServerOutlivesUsers`), `FilesRemoved`
(`Spec => []NothingLeftBehind`) and `EdgeCoreCanCallBack`
(`Spec => []CallbackPossible`). The invariant of the first three has three parts. `ThreadInv`: the
server thread is inside Start only while the object lives and main is between
spawn and join. `CallInv`: a call is served by a thread inside Start, and none is
left when Shutdown is done, which is what lets Wait return. `FileInv`: the owner
of the file still has its path saved, was killed, or failed to unlink it; that
is what makes the unlink at the end of cleanup enough, wherever start-up failed.
For the fourth, `StartInv` says how far main has come, `AloneInv` that at most one
process runs as long as `overlapped` is false, and `ReadyInv` that the file then
follows the server thread of that process, from bind to serving.

`StreamProofs` proves, for every input, configuration, INT_MAX and sequence of
failures, from `StreamAssumption`:

| Theorem | States |
|---|---|
| `TypeCorrect` | `Spec => []TypeOK`, with the bounds of all loops |
| `NothingDangles` | `Spec => []NothingFreedTwice` |
| `AllReleased` | `Spec => []NothingLeaked` |
| `MappingHolds` | `Spec => []PacketsStayInTheirStream` |
| `ResultsHold` | `Spec => []ResultIsTrue` |

`LoopInv` adds that a counter is below its bound between the test of a loop and
the end of its body. `ResourceInv` says for every place of the code what exactly
is allocated: what the handler holds, what the pointers show, and what belongs to
the image or file under work after `at` steps of its chain (`ImageHeld`,
`SegmentHeld`). The lemmas about the chains then show that each error path
releases exactly the difference. `MappingInv` says that an output stream is the
rank of its input stream among the media streams; `RankInjective` (by counting)
and `RankStable` (a stream that appears comes last) make it inductive. `ResultsHold`
counts: `JobInv` ties places of the code to the job, `FrameInv` relates saved
frames and failures to the request, and `VideoInv` says that after n complete files
`Written(n)` packets are written, plus those of the file under work.

Only model-checked is liveness, as the prover does not handle fairness and
ENABLED: `ShutdownAfterStartup`, `TwinsConverge`, `RequestsAnswered`,
`LookupsEnd`, `PublicationsEnd`, `ShutdownEnds` and `HandlerEnds`. Every safety
property of a passing run, and the refinement, is proved.

## 6. Not modelled, and the plan

Not modelled:

- generated code (`dmi/`, `google/`): about 49000 of the repository's 57000 lines
  of C and C++. The map can therefore cover only a small share of all lines; it
  covers more than 40% of the written ones, and nearly all that the mapper runs;
- the database clients and handlers other than MySQL: the handlers are not part
  of the build, and main creates none of the clients;
- the C device service (`grpcserver/device.c`), `util/parse/type.c`, the value
  converters, most of `devicetwin.c`, `device_manager_remove` and
  `device_restart`: built or not, nothing calls them;
- the configuration: one sequential parse of a YAML file, of which the modules
  take over what matters as choices in `Init` (socket paths, publisher, retries);
- the driver's stubs (InitDevice may fail), log output (only its cancellation
  points matter), texts of JSON and YAML, the libraries themselves.

Next, in this order:

1. `HostPort`: normalize_host_port and the helpers on texts as operators, checked
   against a reference.
2. Recovery of the MQTT publisher after a lost connection.
