----------------------------- MODULE RdmaResources -----------------------------
(***************************************************************************)
(* The native DOCA objects of a process and who owns them: the device and  *)
(* its list, the memory map of each endpoint buffer, the RDMA instance,    *)
(* progress engine, context and buffer inventory of an executor, and the   *)
(* remote map, buffers and task of each request.                           *)
(*                                                                         *)
(* The process is one of the samples: the client, whose thread calls       *)
(* Connect() and makes requests that the executor's worker executes, the   *)
(* server, whose thread calls Serve(), or the device discovery.  Connect() *)
(* and Serve() may be called again, as the library allows.  Every call of  *)
(* DOCA may fail.                                                          *)
(*                                                                         *)
(* What DOCA does when an object that is in use is destroyed is not in the *)
(* repository: it refuses (strict) or destroys it all the same.            *)
(***************************************************************************)
EXTENDS NativeBuilder, FiniteSets

CONSTANTS Buffers,   (* of the endpoints, one for each path                 *)
          Requests   (* bound: so many requests exist at a time             *)

VARIABLES
    strict,    (* what DOCA does with objects in use                       *)
    app,       (* which sample it is                                       *)
    pc,        (* where its main thread is                                 *)
    list,      (* the doca_devinfo list                                    *)
    device,    (* doca_dev                                                 *)
    ranges,    (* the buffers that have their memory range                 *)
    map,       (* the doca_mmap of each buffer                             *)
    exported,  (* the buffers whose descriptor was given to a client       *)
    executor,  (* the member `executor': its native objects                *)
    next,      (* the local `executor' of Serve() and Connect()            *)
    request,   (* the requests, their remote maps, buffers and tasks       *)
    queue,     (* the executor's queue                                     *)
    kept,      (* the maps with a doca_buf that is never returned          *)
    leaked,    (* objects DOCA refused to destroy: nobody owns them        *)
    misused,   (* objects used after they were destroyed                   *)
    stray      (* the context of a destroyed executor still runs           *)

deviceVars  == <<list, device>>
mapVars     == <<ranges, map, exported>>
requestVars == <<request, queue, kept>>
ruinVars    == <<leaked, misused, stray>>
vars == <<strict, app, pc, builder, deviceVars, mapVars, executor, next, requestVars, ruinVars>>

Handles  == {"none", "live", "gone", "refused"}
Kinds    == {"device", "map", "remote map", "rdma", "progress engine", "inventory"}
Sides    == {"local", "remote"}
Stages   == {"none", "mapped", "remote", "queued", "taken", "first", "both", "allocated",
             "submitted", "completed", "freed", "returned", "answered"}

NoExecutor ==
    [rdma |-> "none", pe |-> "none", inventory |-> "none", ctx |-> "none",
     connected |-> FALSE, callbacks |-> FALSE, thread |-> FALSE, lost |-> FALSE]

NoRequest ==
    [stage |-> "none", session |-> FALSE, remote |-> "none", buffers |-> {}, task |-> FALSE,
     reads |-> FALSE, buffer |-> "none"]

(* doca_*_destroy of an object.                                            *)
Destroyed(inUse) == IF inUse /\ strict THEN "refused" ELSE "gone"
Leak(kind, inUse) == leaked' = IF inUse /\ strict THEN leaked \cup {kind} ELSE leaked

Goes(from, to) == pc = from /\ pc' = to

Init ==
    /\ strict \in BOOLEAN
    /\ app \in {"client", "server", "discovery"}
    /\ pc = "begin"
    /\ builder = NoBuilder
    /\ list = "none"
    /\ device = "none"
    /\ ranges = {}
    /\ map = [b \in Buffers |-> "none"]
    /\ exported = {}
    /\ executor = NoExecutor
    /\ next = NoExecutor
    /\ request = [r \in Requests |-> NoRequest]
    /\ queue = << >>
    /\ kept = {}
    /\ leaked = {}
    /\ misused = {}
    /\ stray = FALSE

-----------------------------------------------------------------------------
(* The device: OpenIbDevice, and the device discovery, which keeps its     *)
(* list until the end.                                                     *)

(* The device discovery has no configuration.                              *)
ParseSampleConfigs ==
    /\ pc = "begin"
    /\ pc' \in IF app = "discovery" THEN {"configured"} ELSE {"configured", "over"}
    /\ UNCHANGED <<strict, app, builder, deviceVars, mapVars, executor, next, requestVars,
                   ruinVars>>

CreateList ==
    /\ pc = "configured"
    /\ \/ list' = "live" /\ pc' = "walk"
       \/ UNCHANGED list /\ pc' = "over"
    /\ UNCHANGED <<strict, app, builder, device, mapVars, executor, next, requestVars, ruinVars>>

(* Device::Open.                                                           *)
Open(to, otherwise) ==
    \/ device' = "live" /\ pc' = to
    \/ UNCHANGED device /\ pc' = otherwise

(* The walk over the list ends at the device that has the name, or with an *)
(* error; the list goes with OpenIbDevice.                                 *)
FindIbDevice ==
    /\ pc = "walk"
    /\ app # "discovery"
    /\ \/ pc' = "found" /\ UNCHANGED list
       \/ pc' = "over" /\ list' = "gone"
    /\ UNCHANGED <<strict, app, builder, device, mapVars, executor, next, requestVars, ruinVars>>

OpenIbDevice ==
    /\ pc = "found"
    /\ Open("opened", "over")
    /\ list' = "gone"
    /\ UNCHANGED <<strict, app, builder, mapVars, executor, next, requestVars, ruinVars>>

(* The discovery asks each device for its addresses and names, and goes on *)
(* after the questions that fail; then it opens the first, if there is one.*)
QueryDevices ==
    /\ pc = "walk"
    /\ app = "discovery"
    /\ pc' \in {"queried", "close"}
    /\ UNCHANGED <<strict, app, builder, deviceVars, mapVars, executor, next, requestVars,
                   ruinVars>>

OpenFirstDevice ==
    /\ pc = "queried"
    /\ Open("close", "close")
    /\ UNCHANGED <<strict, app, builder, list, mapVars, executor, next, requestVars, ruinVars>>

DiscoverDevices == QueryDevices \/ OpenFirstDevice

(* The rest of main() up to Serve() or Connect().  What is built there     *)
(* needs the device and nothing else: the server or the client, and the    *)
(* endpoints, those of a path with one buffer; they get their services and *)
(* are registered.                                                         *)
Steps(from, to) ==
    /\ Goes(from, to)
    /\ UNCHANGED <<strict, app, builder, deviceVars, mapVars, executor, next, requestVars,
                   ruinVars>>

Builds(from, to) == Steps(from, IF device = "live" THEN to ELSE "close")

CreateServer == app = "server" /\ Builds("opened", "created")
CreateClient == app = "client" /\ Builds("opened", "created")

RegisterMemoryRange(b) ==
    /\ pc = "created"
    /\ b \notin ranges
    /\ ranges' = ranges \cup {b}
    /\ UNCHANGED <<strict, app, pc, builder, deviceVars, map, exported, executor, next,
                   requestVars, ruinVars>>

CreateEndpoints == ranges = Buffers /\ Builds("created", "endpoints")

RegisterServerServices  == app = "server" /\ Steps("endpoints", "services")
RegisterClientServices  == app = "client" /\ Steps("endpoints", "services")
RegisterServerEndpoints == app = "server" /\ Steps("services", "ready")
RegisterClientEndpoints == app = "client" /\ Steps("services", "ready")

(* The last owner of the device goes, and then the list of the discovery.  *)
CloseDevice ==
    /\ Goes("close", "over")
    /\ IF device = "live"
         THEN /\ device' = Destroyed(leaked # {})
              /\ Leak("device", leaked # {})
         ELSE UNCHANGED <<device, leaked>>
    /\ list' = IF list = "live" THEN "gone" ELSE list
    /\ UNCHANGED <<strict, app, builder, mapVars, executor, next, requestVars, misused, stray>>

-----------------------------------------------------------------------------
(* Serve() and Connect().                                                  *)

NoRequestOpen == \A r \in Requests : ~request[r].session

(* The client's one thread makes no request while it connects.             *)
MayCall == pc \in {"ready", "failed"} \/ (pc = "serving" /\ app = "client")

Calls ==
    /\ MayCall
    /\ NoRequestOpen
    /\ pc' = "mapping"
    /\ UNCHANGED <<strict, app, builder, deviceVars, mapVars, executor, next, requestVars,
                   ruinVars>>

CallServe   == app = "server" /\ Calls
CallConnect == app = "client" /\ Calls

(* MapEndpointsMemory: each buffer that has no map yet gets one, up to the *)
(* first error.  The maps made stay for the next call.                     *)
MapMemory(b) ==
    /\ pc = "mapping"
    /\ b \in ranges
    /\ map[b] = "none"
    /\ \/ (CreateMap \/ ConfigureMap \/ StartMap) /\ UNCHANGED <<map, pc>>
       \/ /\ DropMap
          /\ IF builder.result = "object"
               THEN map' = [map EXCEPT ![b] = "live"] /\ UNCHANGED pc
               ELSE pc' = "failed" /\ UNCHANGED map
    /\ UNCHANGED <<strict, app, deviceVars, ranges, exported, executor, next, requestVars,
                   ruinVars>>

EndpointsMapped ==
    /\ builder = NoBuilder
    /\ \A b \in Buffers : map[b] = "live"
    /\ Steps("mapping", "creating")

(* RdmaExecutor::Create.                                                   *)
CreateExecutor ==
    /\ pc = "creating"
    /\ \/ (CreateRdma \/ ConfigureRdma \/ BuildRdma) /\ UNCHANGED <<next, pc>>
       \/ /\ DropRdma
          /\ IF builder.result = "object"
               THEN next' = [NoExecutor EXCEPT !.rdma = "live"] /\ pc' = "replacing"
               ELSE pc' = "failed" /\ UNCHANGED next
    /\ UNCHANGED <<strict, app, deviceVars, mapVars, executor, requestVars, ruinVars>>

(* `this->executor = executor' destroys the old one first.                 *)
Replace ==
    /\ pc = "replacing"
    /\ IF executor = NoExecutor
         THEN executor' = next /\ next' = NoExecutor /\ pc' = "starting"
         ELSE pc' = "joining" /\ UNCHANGED <<executor, next>>
    /\ UNCHANGED <<strict, app, builder, deviceVars, mapVars, requestVars, ruinVars>>

(* A step of RdmaExecutor::Start(); when it fails, so does the call.       *)
Starts(from, to, result) ==
    /\ pc = from
    /\ \/ executor' = result /\ pc' = to
       \/ UNCHANGED executor /\ pc' = "failed"
    /\ UNCHANGED <<strict, app, builder, deviceVars, mapVars, next, requestVars, ruinVars>>

CreateProgressEngine == Starts("starting", "context", [executor EXCEPT !.pe = "live"])

AsContext == Starts("context", "connecting", [executor EXCEPT !.ctx = "idle"])

ConnectContext == Starts("connecting", "user data", [executor EXCEPT !.connected = TRUE])

SetUserData == Starts("user data", "state callback", executor)

SetContextStateChangedCallback == Starts("state callback", "task callbacks", executor)

(* Receive, send, read and write tasks, in this order.                     *)
SetTaskCompletionCallbacks ==
    Starts("task callbacks", "connection callbacks", executor)

SetConnectionStateChangedCallbacks ==
    Starts("connection callbacks", "inventory", [executor EXCEPT !.callbacks = TRUE])

(* Start() tests the error of the step before: without an inventory it     *)
(* goes on.                                                                *)
MakeInventory ==
    /\ pc = "inventory"
    /\ \/ (CreateInventory \/ StartInventory) /\ UNCHANGED <<executor, pc>>
       \/ /\ DropInventory
          /\ executor' = [executor EXCEPT !.inventory =
                            IF builder.result = "object" THEN "live" ELSE "none"]
          /\ pc' = "start context"
    /\ UNCHANGED <<strict, app, deviceVars, mapVars, next, requestVars, ruinVars>>

StartContext == Starts("start context", "await context", [executor EXCEPT !.ctx = "running"])

WaitForContextState == Starts("await context", "start worker", executor)

StartWorker ==
    /\ Goes("start worker", "network")
    /\ executor' = [executor EXCEPT !.thread = TRUE]
    /\ UNCHANGED <<strict, app, builder, deviceVars, mapVars, next, requestVars, ruinVars>>

ListenToPort == app = "server" /\ Starts("network", "serving", executor)

(* The client's address is a temporary of ConnectToAddress.                *)
CreateAddress                == app = "client" /\ Starts("network", "address", executor)
ConnectToAddress             == Starts("address", "connecting to server", executor)
WaitForEstablishedConnection == Starts("connecting to server", "serving", executor)

(* MemoryMap::ExportRdma.                                                  *)
ExportRdma(b) == device = "live" /\ map[b] = "live"

(* A server's session exports the map of an endpoint's buffer.             *)
ExportMemoryDescriptor(b) ==
    /\ pc = "serving"
    /\ app = "server"
    /\ ExportRdma(b)
    /\ exported' = exported \cup {b}
    /\ UNCHANGED <<strict, app, pc, builder, deviceVars, ranges, map, executor, next, requestVars,
                   ruinVars>>

ServeReturns == app = "server" /\ Steps("serving", "failed")

-----------------------------------------------------------------------------
(* The end of the process.  The server's sample calls std::exit when       *)
(* Serve() fails, which destroys none of main()'s objects; else client or  *)
(* server go, and the endpoints, and last the device.                      *)

Exit == app = "server" /\ Steps("failed", "over")

Leaves(after) ==
    /\ MayCall
    /\ NoRequestOpen
    /\ pc' = IF executor = NoExecutor THEN "unmapping" ELSE after
    /\ UNCHANGED <<strict, app, builder, deviceVars, mapVars, executor, next, requestVars,
                   ruinVars>>

ReturnServer == app = "server" /\ Leaves("stopping")
ReturnClient == app = "client" /\ Leaves("joining")

(* ~RdmaServer stops its executor, which joins the worker if it runs.      *)
DestroyServer == Steps("stopping", "joining")

(* ~RdmaExecutor: the worker first empties the queue.  An executor that    *)
(* was not started has no thread to join, and the process crashes.         *)
JoinWorker ==
    /\ pc = "joining"
    /\ IF executor.thread
         THEN /\ \A r \in Requests : request[r].stage \in {"none", "remote", "answered"}
              /\ pc' = "destroy inventory"
         ELSE pc' = "crashed"
    /\ UNCHANGED <<strict, app, builder, deviceVars, mapVars, executor, next, requestVars,
                   ruinVars>>

(* The members of the executor go, the last one first: the inventory, the  *)
(* progress engine, the context's reference, and the engine.               *)
DestroyInventory ==
    /\ Goes("destroy inventory", "destroy progress engine")
    /\ executor' = [executor EXCEPT !.inventory =
                      IF @ = "live" THEN Destroyed(executor.lost) ELSE @]
    /\ Leak("inventory", executor.inventory = "live" /\ executor.lost)
    /\ UNCHANGED <<strict, app, builder, deviceVars, mapVars, next, requestVars, misused, stray>>

DestroyProgressEngine ==
    /\ Goes("destroy progress engine", "destroy rdma")
    /\ executor' = [executor EXCEPT !.pe = Destroyed(executor.ctx = "running")]
    /\ Leak("progress engine", executor.ctx = "running")
    /\ UNCHANGED <<strict, app, builder, deviceVars, mapVars, next, requestVars, misused, stray>>

(* ~RdmaEngine destroys doca_rdma while its context runs.                  *)
DestroyRdma ==
    /\ Goes("destroy rdma", "stop context")
    /\ executor' = [executor EXCEPT !.rdma = Destroyed(executor.ctx = "running")]
    /\ Leak("rdma", executor.ctx = "running")
    /\ UNCHANGED <<strict, app, builder, deviceVars, mapVars, next, requestVars, misused, stray>>

InFlight == \E r \in Requests : request[r].stage = "submitted"

Torn ==
    /\ executor' = next
    /\ next' = NoExecutor
    /\ pc' = IF next = NoExecutor THEN "unmapping" ELSE "starting"

(* Mutation: the engine keeps its context by CreateReferenceFromNative,    *)
(* which has no deleter.                                                   *)
LeaveContext ==
    /\ pc = "stop context"
    /\ stray' = (stray \/ (executor.rdma = "refused" /\ executor.ctx = "running"))
    /\ Torn
    /\ UNCHANGED <<strict, app, builder, deviceVars, mapVars, requestVars, leaked, misused>>

(* Mutation: the stopped context stays where it is.                        *)
StopContextOnly ==
    /\ pc = "stop context"
    /\ executor' = [executor EXCEPT !.ctx = "stopping"]
    /\ UNCHANGED <<strict, app, pc, builder, deviceVars, mapVars, next, requestVars, ruinVars>>

(* Then the engine's Context goes: its deleter flushes and stops it, and   *)
(* nobody learns whether a context with a task in flight did stop.         *)
StopContext ==
    /\ pc = "stop context"
    /\ misused' = IF executor.rdma = "gone" THEN misused \cup {"context"} ELSE misused
    /\ stray' = (stray \/ (executor.rdma = "refused" /\ InFlight))
    /\ Torn
    /\ UNCHANGED <<strict, app, builder, deviceVars, mapVars, requestVars, leaked>>

(* An endpoint's buffer goes: ~MemoryMap stops and destroys the map, and   *)
(* then the memory range is freed.                                         *)
Unmap(b) ==
    /\ pc = "unmapping"
    /\ map[b] = "live"
    /\ ranges' = ranges \ {b}
    /\ map' = [map EXCEPT ![b] = Destroyed(b \in kept)]
    /\ Leak("map", b \in kept)
    /\ UNCHANGED <<strict, app, pc, builder, deviceVars, exported, executor, next, requestVars,
                   misused, stray>>

EndpointsGone ==
    /\ Goes("unmapping", "close")
    /\ \A b \in Buffers : map[b] # "live"
    /\ ranges' = {}
    /\ UNCHANGED <<strict, app, builder, deviceVars, map, exported, executor, next, requestVars,
                   ruinVars>>

-----------------------------------------------------------------------------
(* The requests of the client: the session makes the remote buffer and     *)
(* submits the operation, and the worker executes it.  The session and the *)
(* request own the remote map together.                                    *)

(* The last owner of the remote map goes: ~RemoteMemoryMap stops and       *)
(* destroys it.                                                            *)
ReleaseRemote(r, inUse) ==
    /\ request' = [request EXCEPT ![r] = NoRequest]
    /\ Leak("remote map", inUse)

(* RemoteMemoryMap::CreateFromExport; when it fails nothing is left.       *)
CreateFromExport(r, b) ==
    /\ pc = "serving"
    /\ app = "client"
    /\ NoRequestOpen
    /\ request[r] = NoRequest
    /\ \E reads \in BOOLEAN :
         request' = [request EXCEPT ![r] =
                       [NoRequest EXCEPT !.stage = "mapped", !.session = TRUE, !.remote = "live",
                                         !.reads = reads, !.buffer = b]]
    /\ UNCHANGED <<strict, app, pc, builder, deviceVars, mapVars, executor, next, queue, kept,
                   ruinVars>>

(* A map whose range is not to be had is destroyed at once.                *)
GetRemoteMemoryRange(r) ==
    /\ request[r].stage = "mapped"
    /\ \/ request' = [request EXCEPT ![r].stage = "remote"] /\ UNCHANGED leaked
       \/ ReleaseRemote(r, FALSE)
    /\ UNCHANGED <<strict, app, pc, builder, deviceVars, mapVars, executor, next, queue, kept,
                   misused, stray>>

FromExportedRemoteDescriptor(r, b) == CreateFromExport(r, b) \/ GetRemoteMemoryRange(r)

SubmitOperation(r) ==
    /\ pc = "serving"
    /\ request[r].stage = "remote"
    /\ request' = [request EXCEPT ![r].stage = "queued"]
    /\ queue' = Append(queue, r)
    /\ UNCHANGED <<strict, app, pc, builder, deviceVars, mapVars, executor, next, kept, ruinVars>>

Busy == \E r \in Requests :
    request[r].stage \notin {"none", "remote", "queued", "answered"}

(* Mutation: the request does not own the remote buffer, and a session     *)
(* that gives up takes it along.                                           *)
LeaveWithRemote(r) ==
    /\ pc = "serving"
    /\ request[r].session
    /\ request[r].stage # "mapped"
    /\ IF request[r].stage \in {"remote", "answered"}
         THEN ReleaseRemote(r, FALSE)
         ELSE /\ request' = [request EXCEPT ![r].session = FALSE, ![r].remote = "gone"]
              /\ UNCHANGED leaked
    /\ UNCHANGED <<strict, app, pc, builder, deviceVars, mapVars, executor, next, queue, kept,
                   misused, stray>>

(* The session leaves: with an error before it submitted, with the answer, *)
(* or at its timeout, and then the request still owns the map.             *)
LeaveSession(r) ==
    /\ pc = "serving"
    /\ request[r].session
    /\ request[r].stage # "mapped"
    /\ IF request[r].stage \in {"remote", "answered"}
         THEN ReleaseRemote(r, "remote" \in request[r].buffers)
         ELSE /\ request' = [request EXCEPT ![r].session = FALSE]
              /\ UNCHANGED leaked
    /\ UNCHANGED <<strict, app, pc, builder, deviceVars, mapVars, executor, next, queue, kept,
                   misused, stray>>

TakeRequest(r) ==
    /\ executor.thread
    /\ pc # "crashed"
    /\ ~Busy
    /\ queue # << >>
    /\ r = Head(queue)
    /\ queue' = Tail(queue)
    /\ request' = [request EXCEPT ![r].stage = "taken"]
    /\ UNCHANGED <<strict, app, pc, builder, deviceVars, mapVars, executor, next, kept, ruinVars>>

(* The worker is at a stage of executeRead or executeWrite.                *)
Works(r, stage) ==
    /\ request[r].stage = stage
    /\ pc # "crashed"
    /\ UNCHANGED <<strict, app, builder, deviceVars, mapVars, next, queue, misused, stray>>

(* ~RdmaReadTask and ~RdmaWriteTask free a task that was not freed.        *)
WithoutTask(q) == [q EXCEPT !.task = FALSE]

(* The Buffer objects of an operation are references without a deleter:    *)
(* what was not returned to the inventory when they go is lost.            *)
LostBuffers(r) == {IF s = "local" THEN request[r].buffer ELSE s : s \in request[r].buffers}

(* The answer is set and the request goes, with what it still owns.        *)
Answer(r) ==
    /\ kept' = kept \cup LostBuffers(r)
    /\ executor' = [executor EXCEPT !.lost = @ \/ LostBuffers(r) # {}]
    /\ IF request[r].session
         THEN /\ request' = [request EXCEPT ![r] = [WithoutTask(@) EXCEPT !.stage = "answered"]]
              /\ UNCHANGED leaked
         ELSE ReleaseRemote(r, "remote" \in request[r].buffers)
    /\ UNCHANGED pc

Advance(r, result) ==
    /\ request' = [request EXCEPT ![r] = result]
    /\ UNCHANGED <<kept, executor, leaked, pc>>

(* No active connection: the answer is an error.                           *)
RefuseOperation(r) == Works(r, "taken") /\ Answer(r)

FirstSide(r) == IF request[r].reads THEN "remote" ELSE "local"
OtherSide(r) == IF request[r].reads THEN "local" ELSE "remote"

(* Without an inventory the call is one on a null pointer.                 *)
GetBuffer(r, stage, to, side) ==
    /\ Works(r, stage)
    /\ IF executor.inventory = "live"
         THEN \/ Advance(r, [request[r] EXCEPT !.stage = to, !.buffers = @ \cup {side}])
              \/ Answer(r)
         ELSE pc' = "crashed" /\ UNCHANGED <<request, kept, executor, leaked>>

GetSourceBuffer(r)      == GetBuffer(r, "taken", "first", FirstSide(r))
GetDestinationBuffer(r) == GetBuffer(r, "first", "both", OtherSide(r))

Allocates(r) ==
    /\ Works(r, "both")
    /\ \/ Advance(r, [request[r] EXCEPT !.stage = "allocated", !.task = TRUE])
       \/ Answer(r)

AllocateReadTask(r)  == request[r].reads /\ Allocates(r)
AllocateWriteTask(r) == ~request[r].reads /\ Allocates(r)

Submits(r) ==
    /\ Works(r, "allocated")
    /\ \/ Advance(r, [request[r] EXCEPT !.stage = "submitted"])
       \/ Answer(r)

SubmitReadTask(r)  == request[r].reads /\ Submits(r)
SubmitWriteTask(r) == ~request[r].reads /\ Submits(r)

(* The device, external: completes the task, or fails it, and the error    *)
(* path ends the operation.                                                *)
CompleteTask(r) ==
    /\ Works(r, "submitted")
    /\ \/ Advance(r, [request[r] EXCEPT !.stage = "completed"])
       \/ Answer(r)

Frees(r) ==
    /\ Works(r, "completed")
    /\ Advance(r, [WithoutTask(request[r]) EXCEPT !.stage = "freed"])

FreeReadTask(r)  == request[r].reads /\ Frees(r)
FreeWriteTask(r) == ~request[r].reads /\ Frees(r)

DecRefcount(r, stage, to, side) ==
    /\ Works(r, stage)
    /\ \/ Advance(r, [request[r] EXCEPT !.stage = to, !.buffers = @ \ {side}])
       \/ Answer(r)

ReturnSource(r)      == DecRefcount(r, "freed", "returned", FirstSide(r))

(* Mutation: the destination is not returned.                              *)
KeepDestination(r) ==
    /\ Works(r, "returned")
    /\ request' = [request EXCEPT ![r] = IF @.session THEN [@ EXCEPT !.stage = "answered"]
                                         ELSE NoRequest]
    /\ Leak("remote map", ~request[r].session /\ ~request[r].reads)
    /\ UNCHANGED <<kept, executor, pc>>

(* A destination that cannot be returned is lost; either way the operation *)
(* ends.                                                                   *)
ReturnDestination(r) ==
    /\ Works(r, "returned")
    /\ \/ Answer(r)
       \/ /\ request' = [request EXCEPT ![r] =
                           IF @.session THEN [@ EXCEPT !.stage = "answered", !.buffers = {}]
                                        ELSE NoRequest]
          /\ UNCHANGED <<kept, executor, leaked, pc>>

-----------------------------------------------------------------------------
OpenDevice ==
    ParseSampleConfigs \/ CreateList \/ FindIbDevice \/ OpenIbDevice \/ DiscoverDevices

CreateAll ==
    \/ CreateServer \/ CreateClient \/ CreateEndpoints
    \/ \E b \in Buffers : RegisterMemoryRange(b)
    \/ RegisterServerServices \/ RegisterClientServices
    \/ RegisterServerEndpoints \/ RegisterClientEndpoints

StartExecutor ==
    \/ CreateProgressEngine \/ AsContext \/ ConnectContext \/ SetUserData
    \/ SetContextStateChangedCallback \/ SetTaskCompletionCallbacks
    \/ SetConnectionStateChangedCallbacks \/ MakeInventory \/ StartContext
    \/ WaitForContextState \/ StartWorker
    \/ ListenToPort \/ CreateAddress \/ ConnectToAddress \/ WaitForEstablishedConnection

DestroyExecutor ==
    JoinWorker \/ DestroyInventory \/ DestroyProgressEngine \/ DestroyRdma \/ StopContext

Work(r) ==
    \/ TakeRequest(r) \/ RefuseOperation(r) \/ GetSourceBuffer(r) \/ GetDestinationBuffer(r)
    \/ AllocateReadTask(r) \/ AllocateWriteTask(r) \/ SubmitReadTask(r) \/ SubmitWriteTask(r)
    \/ CompleteTask(r) \/ FreeReadTask(r) \/ FreeWriteTask(r)
    \/ ReturnSource(r) \/ ReturnDestination(r)

Next ==
    \/ OpenDevice \/ CreateAll
    \/ CallServe \/ CallConnect
    \/ \E b \in Buffers : MapMemory(b)
    \/ EndpointsMapped \/ CreateExecutor \/ Replace
    \/ StartExecutor
    \/ \E b \in Buffers : ExportMemoryDescriptor(b)
    \/ ServeReturns \/ Exit \/ ReturnServer \/ ReturnClient
    \/ DestroyServer \/ DestroyExecutor
    \/ \E b \in Buffers : Unmap(b)
    \/ EndpointsGone \/ CloseDevice
    \/ \E r \in Requests, b \in Buffers : FromExportedRemoteDescriptor(r, b)
    \/ \E r \in Requests : SubmitOperation(r)
    \/ \E r \in Requests : LeaveSession(r)
    \/ \E r \in Requests : Work(r)

Spec == Init /\ [][Next]_vars

-----------------------------------------------------------------------------
(* Properties.                                                             *)

Places ==
    {"begin", "configured", "walk", "found", "queried", "opened", "created", "endpoints",
     "services", "ready", "mapping", "creating", "replacing", "starting", "context",
     "connecting", "user data", "state callback", "task callbacks", "connection callbacks",
     "inventory", "start context", "await context", "start worker", "network", "address",
     "connecting to server", "serving", "failed", "stopping", "joining", "destroy inventory",
     "destroy progress engine", "destroy rdma", "stop context", "crashed", "unmapping", "close",
     "over"}

ExecutorType ==
    [rdma : Handles, pe : Handles, inventory : Handles, ctx : {"none", "idle", "running"},
     connected : BOOLEAN, callbacks : BOOLEAN, thread : BOOLEAN, lost : BOOLEAN]

RequestType ==
    [stage : Stages, session : BOOLEAN, remote : Handles, buffers : SUBSET Sides, task : BOOLEAN,
     reads : BOOLEAN, buffer : Buffers \cup {"none"}]

(* Every variable has its type.                                            *)
TypeOK ==
    /\ strict \in BOOLEAN
    /\ app \in {"client", "server", "discovery"}
    /\ pc \in Places
    /\ BuilderType
    /\ list \in Handles
    /\ device \in Handles
    /\ ranges \in SUBSET Buffers
    /\ map \in [Buffers -> Handles]
    /\ exported \in SUBSET Buffers
    /\ executor \in ExecutorType
    /\ next \in ExecutorType
    /\ request \in [Requests -> RequestType]
    /\ queue \in Seq(Requests)
    /\ kept \in SUBSET (Buffers \cup {"remote"})
    /\ leaked \in SUBSET Kinds
    /\ misused \in SUBSET {"context"}
    /\ stray \in BOOLEAN

(* While the device works on a task, everything the task refers to is      *)
(* there and in order, whoever has left in the meantime: the RDMA instance *)
(* with its running context and callbacks, the inventory and both buffers, *)
(* the map of the endpoint and the remote map.  And a buffer whose         *)
(* descriptor the server gave away stays mapped as long as its context     *)
(* runs, through failures and repetitions of Serve().                      *)
OperationBacked ==
    /\ \A r \in Requests : request[r].stage = "submitted" =>
         /\ executor.rdma = "live"
         /\ executor.ctx = "running"
         /\ executor.pe = "live" /\ executor.connected /\ executor.callbacks
         /\ executor.inventory = "live"
         /\ map[request[r].buffer] = "live" /\ request[r].buffer \in ranges
         /\ request[r].remote = "live"
         /\ request[r].buffers = Sides /\ request[r].task
    /\ executor.ctx = "running" => \A b \in exported :
         map[b] = "live" /\ b \in ranges /\ device = "live"

(* Of all contexts the process ever started only one runs: a Serve() or    *)
(* Connect() that follows another finds the port and the device free.      *)
OneRunning == executor.ctx = "running" => ~stray

(* When the device is closed nothing made from it is left to anybody, and  *)
(* what nobody can destroy any more is explained: the executor's engine    *)
(* and progress engine, which are destroyed before their context is        *)
(* stopped, and maps and inventories of buffers that a failed operation    *)
(* did not return.  If DOCA destroys what is in use, the one object that   *)
(* is used later is that context.                                          *)
NothingLost ==
    /\ device \in {"gone", "refused"} =>
         /\ executor = NoExecutor /\ next = NoExecutor /\ builder = NoBuilder
         /\ \A b \in Buffers : map[b] # "live"
         /\ \A r \in Requests : request[r] = NoRequest
    /\ leaked \cap {"inventory", "map", "remote map"} # {} => kept # {}
    /\ "device" \in leaked => leaked # {"device"}
    /\ strict => misused = {}
    /\ ~strict => leaked = {}
=============================================================================
