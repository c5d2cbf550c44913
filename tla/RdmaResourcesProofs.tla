-------------------------- MODULE RdmaResourcesProofs --------------------------
(***************************************************************************)
(* Proofs about RdmaResources, for any number of buffers and requests.     *)
(*                                                                         *)
(* The invariant IInv says of each place of the main thread what it has    *)
(* made so far (PlaceInv, MappedInv, ExecutorInv), of each stage of a      *)
(* request what it owns, and that while the worker has a request the main  *)
(* thread is at a place where the executor exists (RequestInv).  The steps *)
(* of the main thread leave the requests alone (Apart), and the steps of   *)
(* the requests change one of them and little else (Outcome).              *)
(***************************************************************************)
EXTENDS RdmaResources, TLAPS

-----------------------------------------------------------------------------
(* The places of the main thread: before the device is open, before the    *)
(* first call, in Start() without and with the worker, in ~RdmaExecutor.   *)

NoDevice  == {"begin", "configured", "walk", "found", "queried"}
Before    == NoDevice \cup {"opened", "created", "endpoints", "services", "ready"}
Threadless == {"starting", "context", "connecting", "user data", "state callback",
               "task callbacks", "connection callbacks", "inventory", "start context",
               "await context", "start worker"}
Threaded  == {"network", "address", "connecting to server", "serving"}
Ending    == {"destroy inventory", "destroy progress engine", "destroy rdma", "stop context"}

(* An executor as RdmaExecutor::Create hands it over.                      *)
Fresh == [NoExecutor EXCEPT !.rdma = "live"]

(* Where the main thread may be while the worker has requests.             *)
ActivePlaces ==
    {"serving", "failed", "mapping", "creating", "replacing", "joining", "crashed"}

(* What the worker needs.                                                  *)
Ready(e) ==
    /\ e.rdma = "live" /\ e.pe = "live" /\ e.ctx = "running"
    /\ e.connected /\ e.callbacks

AllMapped == \A b \in Buffers : map[b] = "live" /\ b \in ranges

-----------------------------------------------------------------------------
(* The inductive invariant, in seven parts.                                *)

(* A builder that has no error yet has made each setting it was asked for. *)
BuilderInv ==
    /\ BuilderType
    /\ builder.kind = "none" => builder = NoBuilder
    /\ builder.kind # "none" => builder.calls <= Len(Chain[builder.kind])
    /\ builder.result = "none" => builder.native \in {"none", "held"}
    /\ builder.kind = "inventory" => ~builder.buildErr
    /\ builder.native = "held" /\ ~builder.buildErr =>
         /\ builder.applied = {Chain[builder.kind][i] : i \in 1 .. builder.calls}
         /\ builder.kind = "mmap" /\ builder.calls > 0 => builder.device
    /\ AllOrNothing

(* Where the main thread is says what it has made.                         *)
PlaceInv ==
    /\ pc \in Places
    /\ pc \notin {"mapping", "creating", "inventory", "crashed"} => builder = NoBuilder
    /\ pc \in Before \cup {"unmapping", "close"} => executor = NoExecutor
    /\ next \in {NoExecutor, Fresh}
    /\ next # NoExecutor => pc \in Ending \cup {"replacing", "joining", "crashed"}
    /\ pc = "replacing" => next = Fresh

(* The maps of the buffers are there as long as an executor is.            *)
MappedInv ==
    /\ pc \in Before => \A b \in Buffers : map[b] = "none"
    /\ pc = "close" => \A b \in Buffers : map[b] # "live"
    /\ pc \notin NoDevice \cup {"opened", "created", "unmapping", "close", "over"} =>
         ranges = Buffers
    /\ pc \notin NoDevice \cup {"opened", "close", "over"} => device = "live"
    /\ device \in {"gone", "refused"} => pc = "over" /\ executor = NoExecutor /\ next = NoExecutor
                                         /\ \A b \in Buffers : map[b] # "live"
    /\ pc = "creating" \/ executor # NoExecutor \/ next # NoExecutor => AllMapped
    /\ executor # NoExecutor \/ next # NoExecutor => device = "live"

(* How far Start() and the destructor have come.                           *)
ExecutorInv ==
    /\ pc \in Threadless => executor.rdma = "live" /\ ~executor.thread
    /\ pc \in Threadless \ {"starting"} => executor.pe = "live"
    /\ pc \in Threadless \ {"starting", "context", "connecting"} => executor.connected
    /\ pc \in {"inventory", "start context", "await context", "start worker"} => executor.callbacks
    /\ pc \in {"await context", "start worker"} => executor.ctx = "running"
    /\ pc \in Threaded => executor.thread
    /\ executor.thread /\ pc \notin Ending => Ready(executor)
    /\ pc \in Ending => executor.ctx = "running"
    /\ pc = "stop context" /\ strict => executor.rdma = "refused"

Passive   == {"none", "mapped", "remote", "answered"}
HasBoth   == {"both", "allocated", "submitted", "completed", "freed"}

(* What a request owns at each stage.                                      *)
RequestInvOf(r) ==
    /\ request[r].stage = "none" <=> request[r] = NoRequest
    /\ request[r].stage # "none" => request[r].remote = "live" /\ request[r].buffer \in Buffers
    /\ request[r].stage \in {"mapped", "remote", "answered"} => request[r].session
    /\ request[r].session => app = "client" /\ pc \in {"serving", "crashed"}
    /\ request[r].stage \notin Passive =>
         app = "client" /\ executor.thread /\ pc \in ActivePlaces
    /\ request[r].stage \in {"mapped", "remote", "queued", "taken"} => request[r].buffers = {}
    /\ request[r].stage = "first" => request[r].buffers = {FirstSide(r)}
    /\ request[r].stage \in HasBoth => request[r].buffers = Sides
    /\ request[r].stage \in {"first"} \cup HasBoth => executor.inventory = "live"
    /\ request[r].stage \in {"allocated", "submitted"} => request[r].task

RequestInv == \A r \in Requests : RequestInvOf(r)

(* The queue holds the queued requests, each once.                         *)
QueueInv ==
    /\ \A i \in DOMAIN queue : request[queue[i]].stage = "queued"
    /\ \A i, j \in DOMAIN queue : queue[i] = queue[j] => i = j

(* What went wrong, and why.                                               *)
RuinInv ==
    /\ ~stray
    /\ executor.lost => kept # {}
    /\ \A r \in Requests :
         request[r].stage = "answered" /\ "remote" \in request[r].buffers => kept # {}
    /\ leaked \cap {"inventory", "map", "remote map"} # {} => kept # {}
    /\ device \in {"none", "live"} => "device" \notin leaked
    /\ "device" \in leaked => leaked # {"device"}
    /\ strict => misused = {}
    /\ ~strict => leaked = {}

-----------------------------------------------------------------------------
(* The builders.                                                           *)

(* The settings of each kind of builder.                                   *)
LEMMA ChainFacts ==
  /\ DOMAIN Chain = {"none", "mmap", "rdma", "inventory"}
  /\ Len(Chain["none"]) = 0 /\ Len(Chain["inventory"]) = 0
  /\ Len(Chain["mmap"]) = 3 /\ Len(Chain["rdma"]) = 4
  /\ Chain["mmap"][1] = "AddDevice"
  /\ \A kind \in DOMAIN Chain :
       /\ DOMAIN Chain[kind] = 1 .. Len(Chain[kind])
       /\ \A i \in DOMAIN Chain[kind] : Chain[kind][i] \in AllSettings
  <1>1. DOMAIN Chain = {"none", "mmap", "rdma", "inventory"}
    BY DEF Chain
  <1>2. /\ Len(Chain["none"]) = 0 /\ Len(Chain["inventory"]) = 0
        /\ Len(Chain["mmap"]) = 3 /\ Len(Chain["rdma"]) = 4
        /\ Chain["mmap"][1] = "AddDevice"
    BY DEF Chain
  <1>3. \A kind \in DOMAIN Chain : DOMAIN Chain[kind] = 1 .. Len(Chain[kind])
    <2>1. DOMAIN Chain["none"] = 1 .. 0 /\ DOMAIN Chain["inventory"] = 1 .. 0
      BY DEF Chain
    <2>2. DOMAIN Chain["mmap"] = 1 .. 3
      BY DEF Chain
    <2>3. DOMAIN Chain["rdma"] = 1 .. 4
      BY DEF Chain
    <2> QED
      BY <1>1, <1>2, <2>1, <2>2, <2>3
  <1>4. \A kind \in DOMAIN Chain : \A i \in DOMAIN Chain[kind] : Chain[kind][i] \in AllSettings
    BY DEF AllSettings, Settings
  <1> QED
    BY <1>1, <1>2, <1>3, <1>4

(* One element more in the image of an interval.                           *)
LEMMA ImageStep ==
  ASSUME NEW f, NEW n \in Nat
  PROVE  {f[i] : i \in 1 .. n + 1} = {f[i] : i \in 1 .. n} \cup {f[n + 1]}
  <1>1. 1 .. n + 1 = (1 .. n) \cup {n + 1}
    OBVIOUS
  <1> QED
    BY <1>1

BuilderStep ==
    \/ \E kind \in {"mmap", "rdma", "inventory"} : Creates(kind) \/ Drop(kind)
    \/ ConfigureMap \/ ConfigureRdma
    \/ StartMap \/ BuildRdma \/ StartInventory

(* A step of a builder keeps its part of the invariant.                    *)
LEMMA BuilderKeeps ==
  ASSUME BuilderInv, BuilderStep
  PROVE  BuilderInv'
  <1> DEFINE k == builder.kind
  <1>0. /\ builder.kind \in DOMAIN Chain /\ builder.native \in Natives /\ builder.calls \in 0 .. 4
        /\ builder.applied \in SUBSET AllSettings /\ builder.buildErr \in BOOLEAN
        /\ builder.device \in BOOLEAN /\ builder.result \in {"none", "object", "error"}
    BY DEF BuilderInv, BuilderType
  <1>1. ASSUME NEW kind \in {"mmap", "rdma", "inventory"}, Creates(kind) PROVE BuilderInv'
    <2>1. PICK native \in {"none", "held"} :
            builder' = [kind |-> kind, native |-> native, calls |-> 0, applied |-> {},
                        buildErr |-> FALSE, device |-> FALSE, result |-> "none"]
      BY <1>1 DEF Creates, NoBuilder
    <2>2. {Chain[kind][i] : i \in 1 .. 0} = {}
      OBVIOUS
    <2> QED
      BY <2>1, <2>2, ChainFacts DEF BuilderInv, BuilderType, Natives, AllOrNothing
  <1>2. ASSUME NEW kind \in {"mmap", "rdma", "inventory"}, Drop(kind) PROVE BuilderInv'
    BY <1>2, ChainFacts DEF Drop, NoBuilder, BuilderInv, BuilderType, Natives, AllOrNothing
  <1>3. ASSUME NEW kind \in {"mmap", "rdma"}, Configure(kind) PROVE BuilderInv'
    <2> DEFINE n == builder.calls
               s == Chain[kind][n + 1]
    <2>1. builder.kind = kind /\ builder.result = "none" /\ n \in Nat /\ n + 1 <= Len(Chain[kind])
      BY <1>0, <1>3, ChainFacts DEF Configure, Building, Configured, BuilderInv
    <2>2. s \in AllSettings /\ n + 1 \in 0 .. 4
      <3>1. kind \in DOMAIN Chain /\ n + 1 \in 1 .. Len(Chain[kind])
        BY <2>1, ChainFacts
      <3>2. n + 1 \in DOMAIN Chain[kind]
        BY <3>1, ChainFacts
      <3> QED
        BY <2>1, <3>1, <3>2, ChainFacts
    <2>3. kind = "mmap" /\ n = 0 => s = "AddDevice"
      BY ChainFacts
    <2>4. {Chain[kind][i] : i \in 1 .. n + 1} = {Chain[kind][i] : i \in 1 .. n} \cup {s}
      BY <2>1, ImageStep
    <2>5. Sets(s)
      BY <1>3, <2>1 DEF Configure
    <2>6. CASE builder.native # "held" \/ builder.buildErr
      <3>1. builder' = [builder EXCEPT !.calls = n + 1]
        BY <2>5, <2>6 DEF Sets
      <3> QED
        BY <1>0, <2>1, <2>2, <2>6, <3>1, ChainFacts DEF BuilderInv, BuilderType, AllOrNothing
    <2>7. CASE builder.native = "held" /\ ~builder.buildErr
      <3>1. PICK accepted \in BOOLEAN :
              builder' = [builder EXCEPT
                 !.calls = n + 1,
                 !.buildErr = ~accepted,
                 !.applied = IF accepted THEN builder.applied \cup {s} ELSE builder.applied,
                 !.device = builder.device \/ s = "AddDevice"]
        BY <2>5, <2>7 DEF Sets
      <3>2. builder.applied = {Chain[kind][i] : i \in 1 .. n}
            /\ (kind = "mmap" /\ n > 0 => builder.device)
        BY <2>1, <2>7 DEF BuilderInv
      <3>3. /\ builder'.kind = kind /\ builder'.native = "held" /\ builder'.calls = n + 1
            /\ builder'.buildErr = ~accepted /\ builder'.result = "none"
            /\ builder'.applied = IF accepted THEN builder.applied \cup {s} ELSE builder.applied
            /\ builder'.device = (builder.device \/ s = "AddDevice")
        BY <1>0, <2>1, <2>7, <3>1 DEF BuilderInv, BuilderType
      <3>4. BuilderType'
        BY <1>0, <2>2, <3>1 DEF BuilderInv, BuilderType
      <3>5. accepted => builder'.applied = {Chain[kind][i] : i \in 1 .. n + 1}
        BY <2>4, <3>2, <3>3
      <3>6. kind = "mmap" => builder'.device
        <4>1. CASE n = 0
          BY <2>3, <4>1, <3>3
        <4>2. CASE n > 0
          BY <3>2, <3>3, <4>2
        <4> QED
          BY <2>1, <4>1, <4>2
      <3>7. builder'.buildErr = FALSE => accepted
        BY <3>3
      <3>8. ~builder'.buildErr =>
              /\ builder'.applied = {Chain[builder'.kind][i] : i \in 1 .. builder'.calls}
              /\ builder'.kind = "mmap" => builder'.device
        BY <3>3, <3>5, <3>6, <3>7
      <3>9. AllOrNothing'
        BY <3>3 DEF AllOrNothing
      <3> QED
        BY <2>1, <3>3, <3>4, <3>8, <3>9 DEF BuilderInv
    <2> QED
      BY <2>6, <2>7
  <1>4. ASSUME StartMap \/ BuildRdma \/ StartInventory PROVE BuilderInv'
    <2>1. builder.result = "none" /\ builder.kind \in {"mmap", "rdma", "inventory"}
      BY <1>4 DEF StartMap, BuildRdma, StartInventory, Building
    <2>2. CASE Fails /\ builder.native # "held"
      BY <1>0, <2>1, <2>2, ChainFacts DEF Fails, BuilderInv, BuilderType, AllOrNothing, Natives
    <2>3. CASE Undone
      BY <1>0, <2>1, <2>3, ChainFacts DEF Undone, BuilderInv, BuilderType, AllOrNothing, Natives
    <2>4. CASE Given /\ builder.native = "held" /\ ~builder.buildErr
               /\ builder.calls = Len(Chain[builder.kind])
      <3>1. builder.applied = Settings(builder.kind)
        BY <1>0, <2>4, ChainFacts DEF BuilderInv, Settings
      <3> QED
        BY <1>0, <2>1, <2>4, <3>1, ChainFacts
           DEF Given, BuilderInv, BuilderType, AllOrNothing, Natives
    <2>5. CASE StartMap
      <3>1. Configured /\ builder.kind = "mmap"
        BY <2>5 DEF StartMap, Building
      <3>2. builder.calls = 3
        BY <3>1, ChainFacts DEF Configured
      <3>3. builder.native = "held" /\ ~builder.buildErr => builder.device
        BY <3>1, <3>2 DEF BuilderInv
      <3> QED
        BY <1>0, <2>2, <2>3, <2>4, <2>5, <3>1, <3>3 DEF StartMap, Configured
    <2>6. CASE BuildRdma
      BY <1>0, <2>2, <2>3, <2>4, <2>6 DEF BuildRdma, Configured
    <2>7. CASE StartInventory
      <3>1. builder.kind = "inventory" /\ ~builder.buildErr /\ builder.calls = 0
        BY <1>0, <2>7, ChainFacts DEF StartInventory, Building, BuilderInv
      <3> QED
        BY <1>0, <2>2, <2>3, <2>4, <2>7, <3>1, ChainFacts DEF StartInventory
    <2> QED
      BY <1>4, <2>5, <2>6, <2>7
  <1> QED
    BY <1>1, <1>2, <1>3, <1>4 DEF BuilderStep, ConfigureMap, ConfigureRdma

(* The builder moves only by its own steps.                                *)
LEMMA BuilderMoves ==
  ASSUME [Next]_vars
  PROVE  builder' = builder \/ BuilderStep
  <1>1. CASE OpenDevice
    BY <1>1 DEF OpenDevice, ParseSampleConfigs, CreateList, FindIbDevice, OpenIbDevice,
                DiscoverDevices, QueryDevices, OpenFirstDevice
  <1>2. CASE CreateAll
    BY <1>2 DEF CreateAll, CreateServer, CreateClient, CreateEndpoints, RegisterMemoryRange,
                RegisterServerServices, RegisterClientServices, RegisterServerEndpoints,
                RegisterClientEndpoints, Builds, Steps
  <1>3. CASE CallServe \/ CallConnect
    BY <1>3 DEF CallServe, CallConnect, Calls
  <1>4. ASSUME NEW b \in Buffers, MapMemory(b) PROVE builder' = builder \/ BuilderStep
    BY <1>4 DEF MapMemory, CreateMap, DropMap, BuilderStep
  <1>5. CASE EndpointsMapped \/ ServeReturns \/ Exit
    BY <1>5 DEF EndpointsMapped, ServeReturns, Exit, Steps
  <1>6. CASE CreateExecutor
    BY <1>6 DEF CreateExecutor, CreateRdma, DropRdma, BuilderStep
  <1>7. CASE Replace
    BY <1>7 DEF Replace
  <1>8. CASE StartExecutor
    <2>1. CASE MakeInventory
      BY <2>1 DEF MakeInventory, CreateInventory, DropInventory, BuilderStep
    <2>2. CASE StartWorker
      BY <2>2 DEF StartWorker
    <2> QED
      BY <1>8, <2>1, <2>2
         DEF StartExecutor, CreateProgressEngine, AsContext, ConnectContext, SetUserData,
             SetContextStateChangedCallback, SetTaskCompletionCallbacks,
             SetConnectionStateChangedCallbacks, StartContext, WaitForContextState,
             ListenToPort, CreateAddress, ConnectToAddress, WaitForEstablishedConnection, Starts
  <1>9. CASE \E b \in Buffers : ExportMemoryDescriptor(b)
    BY <1>9 DEF ExportMemoryDescriptor
  <1>10. CASE ReturnServer \/ ReturnClient \/ DestroyServer
    BY <1>10 DEF ReturnServer, ReturnClient, DestroyServer, Leaves, Steps
  <1>11. CASE DestroyExecutor
    BY <1>11 DEF DestroyExecutor, JoinWorker, DestroyInventory, DestroyProgressEngine,
                 DestroyRdma, StopContext
  <1>12. CASE (\E b \in Buffers : Unmap(b)) \/ EndpointsGone \/ CloseDevice
    BY <1>12 DEF Unmap, EndpointsGone, CloseDevice
  <1>13. CASE \E r \in Requests, b \in Buffers : FromExportedRemoteDescriptor(r, b)
    BY <1>13 DEF FromExportedRemoteDescriptor, CreateFromExport, GetRemoteMemoryRange
  <1>14. CASE \E r \in Requests : SubmitOperation(r) \/ LeaveSession(r)
    BY <1>14 DEF SubmitOperation, LeaveSession
  <1>15. ASSUME NEW r \in Requests, Work(r) PROVE builder' = builder
    <2>1. CASE TakeRequest(r)
      BY <2>1 DEF TakeRequest
    <2> QED
      BY <1>15, <2>1
         DEF Work, RefuseOperation, GetSourceBuffer, GetDestinationBuffer, GetBuffer,
             AllocateReadTask, AllocateWriteTask, Allocates, SubmitReadTask, SubmitWriteTask,
             Submits, CompleteTask, FreeReadTask, FreeWriteTask, Frees, ReturnSource,
             DecRefcount, ReturnDestination, Works
  <1>16. CASE UNCHANGED vars
    BY <1>16 DEF vars
  <1> QED
    BY <1>1, <1>2, <1>3, <1>4, <1>5, <1>6, <1>7, <1>8, <1>9, <1>10, <1>11, <1>12, <1>13, <1>14,
       <1>15, <1>16 DEF Next

(* The process begins without a builder.                                   *)
LEMMA BuilderInit == Init => BuilderInv
  <1>1. {Chain["none"][i] : i \in 1 .. 0} = {}
    OBVIOUS
  <1> QED
    BY <1>1, ChainFacts DEF Init, NoBuilder, BuilderInv, BuilderType, Natives, AllOrNothing

(* Every step of the process keeps what is known of the builder.           *)
LEMMA BuilderNext == BuilderInv /\ [Next]_vars => BuilderInv'
  <1> SUFFICES ASSUME BuilderInv, [Next]_vars PROVE BuilderInv'
    OBVIOUS
  <1>1. CASE BuilderStep
    BY <1>1, BuilderKeeps
  <1>2. CASE builder' = builder
    BY <1>2 DEF BuilderInv, BuilderType, AllOrNothing
  <1> QED
    BY <1>1, <1>2, BuilderMoves

(* AllOrNothing, for any buffers and requests: however the calls of DOCA   *)
(* fail, Start() and Build() of the builders hand over an object with every*)
(* setting made, or an error and nothing left behind.                      *)
THEOREM ObjectsWholeOrAbsent == Spec => []AllOrNothing
  <1>1. BuilderInv => AllOrNothing
    BY DEF BuilderInv
  <1> QED
    BY <1>1, BuilderInit, BuilderNext, PTL DEF Spec

-----------------------------------------------------------------------------
(* The rest of the state.                                                  *)

IInv ==
    /\ TypeOK
    /\ BuilderInv /\ PlaceInv /\ MappedInv /\ ExecutorInv /\ RequestInv /\ QueueInv /\ RuinInv

(* What the requests of the client do, and nobody else.                    *)
RequestStep ==
    \/ \E r \in Requests, b \in Buffers : FromExportedRemoteDescriptor(r, b)
    \/ \E r \in Requests : SubmitOperation(r)
    \/ \E r \in Requests : LeaveSession(r)
    \/ \E r \in Requests : Work(r)

(* What the groups of actions consist of is seen wherever a group is.      *)
USE DEF deviceVars, mapVars, requestVars, ruinVars,
        Goes, Steps, Builds, Open, Calls, MayCall, Leaves, Starts, Torn,
        ParseSampleConfigs, CreateList, FindIbDevice, OpenIbDevice, DiscoverDevices,
        QueryDevices, OpenFirstDevice, CreateServer, CreateClient, CreateEndpoints,
        RegisterMemoryRange, RegisterServerServices, RegisterClientServices,
        RegisterServerEndpoints, RegisterClientEndpoints, DropMap, DropRdma, DropInventory,
        Drop, CreateProgressEngine, AsContext, ConnectContext, SetUserData,
        SetContextStateChangedCallback, SetTaskCompletionCallbacks,
        SetConnectionStateChangedCallbacks, MakeInventory, StartContext, WaitForContextState,
        StartWorker, ListenToPort, CreateAddress, ConnectToAddress,
        WaitForEstablishedConnection, JoinWorker, DestroyInventory, DestroyProgressEngine,
        DestroyRdma, StopContext

(* A step of the main thread leaves the requests alone; few spoil anything,*)
(* and few open or close the device.                                       *)
LEMMA Apart ==
  ASSUME [Next]_vars, ~RequestStep
  PROVE  /\ UNCHANGED <<strict, app, request, queue, kept>>
         /\ \/ UNCHANGED <<leaked, misused>>
            \/ DestroyInventory \/ DestroyProgressEngine \/ DestroyRdma \/ StopContext
            \/ (\E b \in Buffers : Unmap(b)) \/ CloseDevice
         /\ device' = device \/ pc \in {"found", "queried"} \/ CloseDevice
  <1>1. CASE OpenDevice
    BY <1>1 DEF OpenDevice
  <1>2. CASE CreateAll
    BY <1>2 DEF CreateAll
  <1>3. CASE CallServe \/ CallConnect
    BY <1>3 DEF CallServe, CallConnect
  <1>4. CASE \E b \in Buffers : MapMemory(b)
    BY <1>4 DEF MapMemory
  <1>5. CASE EndpointsMapped \/ ServeReturns \/ Exit
    BY <1>5 DEF EndpointsMapped, ServeReturns, Exit
  <1>6. CASE CreateExecutor
    BY <1>6 DEF CreateExecutor
  <1>7. CASE Replace
    BY <1>7 DEF Replace
  <1>8. CASE StartExecutor
    BY <1>8 DEF StartExecutor
  <1>9. CASE \E b \in Buffers : ExportMemoryDescriptor(b)
    BY <1>9 DEF ExportMemoryDescriptor
  <1>10. CASE ReturnServer \/ ReturnClient \/ DestroyServer
    BY <1>10 DEF ReturnServer, ReturnClient, DestroyServer
  <1>11. CASE DestroyExecutor
    BY <1>11 DEF DestroyExecutor
  <1>12. CASE (\E b \in Buffers : Unmap(b)) \/ EndpointsGone \/ CloseDevice
    BY <1>12 DEF Unmap, EndpointsGone, CloseDevice
  <1>13. CASE UNCHANGED vars
    BY <1>13 DEF vars
  <1> QED
    BY <1>1, <1>2, <1>3, <1>4, <1>5, <1>6, <1>7, <1>8, <1>9, <1>10, <1>11, <1>12, <1>13
       DEF Next, RequestStep

(* The steps of the main thread keep PlaceInv.                             *)
LEMMA PlaceKept ==
  ASSUME IInv, [Next]_vars, ~RequestStep
  PROVE  PlaceInv'
  <1> USE DEF IInv, PlaceInv, Places, Before, NoDevice, Threadless, Threaded, Ending
  <1>1. CASE OpenDevice
    BY <1>1 DEF OpenDevice
  <1>2. CASE CreateAll
    BY <1>2 DEF CreateAll
  <1>3. CASE CallServe \/ CallConnect
    BY <1>3 DEF CallServe, CallConnect
  <1>4. CASE \E b \in Buffers : MapMemory(b)
    BY <1>4 DEF MapMemory
  <1>5. CASE EndpointsMapped \/ ServeReturns \/ Exit
    BY <1>5 DEF EndpointsMapped, ServeReturns, Exit
  <1>6. CASE CreateExecutor
    BY <1>6 DEF CreateExecutor, Fresh
  <1>7. CASE Replace
    BY <1>7 DEF Replace
  <1>8. CASE StartExecutor
    BY <1>8 DEF StartExecutor
  <1>9. CASE \E b \in Buffers : ExportMemoryDescriptor(b)
    BY <1>9 DEF ExportMemoryDescriptor
  <1>10. CASE ReturnServer \/ ReturnClient \/ DestroyServer
    BY <1>10 DEF ReturnServer, ReturnClient, DestroyServer
  <1>11. CASE DestroyExecutor
    BY <1>11 DEF DestroyExecutor
  <1>12. CASE (\E b \in Buffers : Unmap(b)) \/ EndpointsGone \/ CloseDevice
    BY <1>12 DEF Unmap, EndpointsGone, CloseDevice
  <1>13. CASE UNCHANGED vars
    BY <1>13 DEF vars
  <1> QED
    BY <1>1, <1>2, <1>3, <1>4, <1>5, <1>6, <1>7, <1>8, <1>9, <1>10, <1>11, <1>12, <1>13
       DEF Next, RequestStep

(* What an executor that is not there has.                                 *)
LEMMA NoExecutorFacts == NoExecutor.rdma = "none" /\ NoExecutor.ctx = "none" /\ ~NoExecutor.thread
  BY DEF NoExecutor


(* They keep the maps of the buffers as long as there is an executor.      *)
LEMMA MappedKept ==
  ASSUME IInv, [Next]_vars, ~RequestStep
  PROVE  MappedInv'
  <1> USE DEF IInv, PlaceInv, MappedInv, Places, Before, NoDevice, Threadless, Threaded,
              Ending, AllMapped
  <1>0. map \in [Buffers -> Handles] /\ device \in Handles
    BY DEF TypeOK
  <1>1. CASE OpenDevice
    BY <1>0, <1>1 DEF OpenDevice
  <1>2. CASE CreateAll
    BY <1>0, <1>2 DEF CreateAll
  <1>3. CASE CallServe \/ CallConnect
    BY <1>0, <1>3 DEF CallServe, CallConnect
  <1>4. CASE \E b \in Buffers : MapMemory(b)
    BY <1>0, <1>4 DEF MapMemory
  <1>5. CASE EndpointsMapped \/ ServeReturns \/ Exit
    BY <1>0, <1>5 DEF EndpointsMapped, ServeReturns, Exit
  <1>6. CASE CreateExecutor
    BY <1>0, <1>6 DEF CreateExecutor
  <1>7. CASE Replace
    BY <1>0, <1>7 DEF Replace
  <1>8. CASE StartExecutor
    <2>1. /\ pc \in Threadless \cup {"network", "address", "connecting to server"}
          /\ pc' \in Threadless \cup Threaded \cup {"failed"}
          /\ UNCHANGED <<map, ranges, device, next>>
      BY <1>8 DEF StartExecutor
    <2>2. executor # NoExecutor
      BY <2>1, NoExecutorFacts DEF ExecutorInv
    <2> QED
      BY <2>1, <2>2
  <1>9. CASE \E b \in Buffers : ExportMemoryDescriptor(b)
    BY <1>0, <1>9 DEF ExportMemoryDescriptor
  <1>10. CASE ReturnServer \/ ReturnClient \/ DestroyServer
    BY <1>0, <1>10 DEF ReturnServer, ReturnClient, DestroyServer
  <1>11. CASE DestroyExecutor
    <2>1. /\ pc \in Ending \cup {"joining"}
          /\ pc' \in Ending \cup {"crashed", "unmapping", "starting"}
          /\ pc' = "starting" => next # NoExecutor
          /\ UNCHANGED <<map, ranges, device>>
      BY <1>11 DEF DestroyExecutor
    <2>2. pc \in Ending => executor # NoExecutor
      BY NoExecutorFacts DEF ExecutorInv
    <2>3. executor' # NoExecutor \/ next' # NoExecutor => executor # NoExecutor \/ next # NoExecutor
      BY <2>2, <1>11 DEF DestroyExecutor
    <2> QED
      BY <2>1, <2>2, <2>3
  <1>12. CASE (\E b \in Buffers : Unmap(b)) \/ EndpointsGone \/ CloseDevice
    BY <1>0, <1>12 DEF Unmap, EndpointsGone, CloseDevice, Leak, Destroyed
  <1>13. CASE UNCHANGED vars
    BY <1>0, <1>13 DEF vars
  <1> QED
    BY <1>1, <1>2, <1>3, <1>4, <1>5, <1>6, <1>7, <1>8, <1>9, <1>10, <1>11, <1>12, <1>13
       DEF Next, RequestStep

(* Start() and the destructor go through the executor in their order.      *)
LEMMA ExecutorKept ==
  ASSUME IInv, [Next]_vars, ~RequestStep
  PROVE  ExecutorInv'
  <1> USE DEF IInv, PlaceInv, ExecutorInv, Ready, Fresh, NoExecutor, Places, Before, NoDevice,
              Threadless, Threaded, Ending
  <1>0. executor \in ExecutorType /\ strict \in BOOLEAN
    BY DEF TypeOK
  <1>1. CASE OpenDevice
    BY <1>0, <1>1 DEF OpenDevice
  <1>2. CASE CreateAll
    BY <1>0, <1>2 DEF CreateAll
  <1>3. CASE CallServe \/ CallConnect
    BY <1>0, <1>3 DEF CallServe, CallConnect
  <1>4. CASE \E b \in Buffers : MapMemory(b)
    BY <1>0, <1>4 DEF MapMemory
  <1>5. CASE EndpointsMapped \/ ServeReturns \/ Exit
    BY <1>0, <1>5 DEF EndpointsMapped, ServeReturns, Exit
  <1>6. CASE CreateExecutor
    BY <1>0, <1>6 DEF CreateExecutor
  <1>7. CASE Replace
    BY <1>0, <1>7 DEF Replace
  <1>8. CASE StartExecutor
    <2>1. CASE CreateProgressEngine \/ AsContext
      BY <1>0, <2>1 DEF ExecutorType
    <2>2. CASE ConnectContext \/ StartContext
      BY <1>0, <2>2 DEF ExecutorType
    <2>3. CASE SetConnectionStateChangedCallbacks \/ MakeInventory \/ StartWorker
      BY <1>0, <2>3 DEF ExecutorType
    <2>4. CASE \/ SetUserData \/ SetContextStateChangedCallback \/ SetTaskCompletionCallbacks
               \/ WaitForContextState \/ ListenToPort \/ CreateAddress \/ ConnectToAddress
               \/ WaitForEstablishedConnection
      BY <1>0, <2>4 DEF ExecutorType
    <2> QED
      BY <1>8, <2>1, <2>2, <2>3, <2>4
         DEF StartExecutor
  <1>9. CASE \E b \in Buffers : ExportMemoryDescriptor(b)
    BY <1>0, <1>9 DEF ExportMemoryDescriptor
  <1>10. CASE ReturnServer \/ ReturnClient \/ DestroyServer
    BY <1>0, <1>10 DEF ReturnServer, ReturnClient, DestroyServer
  <1>11. CASE DestroyExecutor
    <2>1. CASE JoinWorker
      BY <1>0, <2>1 DEF ExecutorType, Leak, Destroyed
    <2>2. CASE DestroyInventory
      BY <1>0, <2>2 DEF ExecutorType, Leak, Destroyed
    <2>3. CASE DestroyProgressEngine
      BY <1>0, <2>3 DEF ExecutorType, Leak, Destroyed
    <2>4. CASE DestroyRdma
      BY <1>0, <2>4 DEF ExecutorType, Leak, Destroyed
    <2>5. CASE StopContext
      <3>1. next = Fresh => next.rdma = "live" /\ ~next.thread
        BY DEF Fresh, NoExecutor
      <3>2. ~executor'.thread
        BY <2>5, <3>1, NoExecutorFacts
      <3>3. pc' = "starting" => executor'.rdma = "live"
        BY <2>5, <3>1
      <3>4. pc' \in {"unmapping", "starting"}
        BY <2>5
      <3> QED
        BY <3>2, <3>3, <3>4
    <2> QED
      BY <1>11, <2>1, <2>2, <2>3, <2>4, <2>5
         DEF DestroyExecutor
  <1>12. CASE (\E b \in Buffers : Unmap(b)) \/ EndpointsGone \/ CloseDevice
    BY <1>0, <1>12 DEF Unmap, EndpointsGone, CloseDevice
  <1>13. CASE UNCHANGED vars
    BY <1>0, <1>13 DEF vars
  <1> QED
    BY <1>1, <1>2, <1>3, <1>4, <1>5, <1>6, <1>7, <1>8, <1>9, <1>10, <1>11, <1>12, <1>13
       DEF Next, RequestStep

(* A context is stopped only after the last request is done.               *)
LEMMA NothingStray ==
  ASSUME IInv, [Next]_vars, ~RequestStep
  PROVE  stray' = FALSE
  <1> USE DEF ActivePlaces, IInv, RuinInv, RequestInv, RequestInvOf, Passive, Ending, PlaceInv
  <1>0. stray \in BOOLEAN
    BY DEF TypeOK
  <1>1. CASE OpenDevice
    BY <1>0, <1>1 DEF OpenDevice
  <1>2. CASE CreateAll
    BY <1>0, <1>2 DEF CreateAll
  <1>3. CASE CallServe \/ CallConnect
    BY <1>0, <1>3 DEF CallServe, CallConnect
  <1>4. CASE \E b \in Buffers : MapMemory(b)
    BY <1>0, <1>4 DEF MapMemory
  <1>5. CASE EndpointsMapped \/ ServeReturns \/ Exit
    BY <1>0, <1>5 DEF EndpointsMapped, ServeReturns, Exit
  <1>6. CASE CreateExecutor
    BY <1>0, <1>6 DEF CreateExecutor
  <1>7. CASE Replace
    BY <1>0, <1>7 DEF Replace
  <1>8. CASE StartExecutor
    BY <1>0, <1>8 DEF StartExecutor
  <1>9. CASE \E b \in Buffers : ExportMemoryDescriptor(b)
    BY <1>0, <1>9 DEF ExportMemoryDescriptor
  <1>10. CASE ReturnServer \/ ReturnClient \/ DestroyServer
    BY <1>0, <1>10 DEF ReturnServer, ReturnClient, DestroyServer
  <1>11. CASE DestroyExecutor
    BY <1>0, <1>11 DEF DestroyExecutor, InFlight
  <1>12. CASE (\E b \in Buffers : Unmap(b)) \/ EndpointsGone \/ CloseDevice
    BY <1>0, <1>12 DEF Unmap, EndpointsGone, CloseDevice
  <1>13. CASE UNCHANGED vars
    BY <1>0, <1>13 DEF vars
  <1> QED
    BY <1>1, <1>2, <1>3, <1>4, <1>5, <1>6, <1>7, <1>8, <1>9, <1>10, <1>11, <1>12, <1>13
       DEF Next, RequestStep

(* The main thread loses no buffer.                                        *)
LEMMA LossKept ==
  ASSUME IInv, [Next]_vars, ~RequestStep
  PROVE  executor'.lost => executor.lost
  <1>0. executor \in ExecutorType /\ next \in ExecutorType
    BY DEF IInv, TypeOK
  <1>1. CASE OpenDevice
    BY <1>0, <1>1 DEF OpenDevice
  <1>2. CASE CreateAll
    BY <1>0, <1>2 DEF CreateAll
  <1>3. CASE CallServe \/ CallConnect
    BY <1>0, <1>3 DEF CallServe, CallConnect
  <1>4. CASE \E b \in Buffers : MapMemory(b)
    BY <1>0, <1>4 DEF MapMemory
  <1>5. CASE EndpointsMapped \/ ServeReturns \/ Exit
    BY <1>0, <1>5 DEF EndpointsMapped, ServeReturns, Exit
  <1>6. CASE CreateExecutor
    BY <1>0, <1>6 DEF CreateExecutor, NoExecutor
  <1>7. CASE Replace
    <2>1. ~next.lost
      BY DEF IInv, PlaceInv, Fresh, NoExecutor
    <2> QED
      BY <2>1, <1>7 DEF Replace
  <1>8. CASE StartExecutor
    <2>1. CASE CreateProgressEngine \/ AsContext \/ ConnectContext \/ StartContext
      BY <1>0, <2>1 DEF ExecutorType
    <2>2. CASE SetConnectionStateChangedCallbacks \/ MakeInventory \/ StartWorker
      BY <1>0, <2>2 DEF ExecutorType
    <2>3. CASE \/ SetUserData \/ SetContextStateChangedCallback \/ SetTaskCompletionCallbacks
               \/ WaitForContextState \/ ListenToPort \/ CreateAddress \/ ConnectToAddress
               \/ WaitForEstablishedConnection
      BY <1>0, <2>3 DEF ExecutorType
    <2> QED
      BY <1>8, <2>1, <2>2, <2>3
         DEF StartExecutor
  <1>9. CASE \E b \in Buffers : ExportMemoryDescriptor(b)
    BY <1>0, <1>9 DEF ExportMemoryDescriptor
  <1>10. CASE ReturnServer \/ ReturnClient \/ DestroyServer
    BY <1>0, <1>10 DEF ReturnServer, ReturnClient, DestroyServer
  <1>11. CASE DestroyExecutor
    <2>1. CASE JoinWorker
      BY <1>0, <2>1 DEF ExecutorType
    <2>2. CASE DestroyInventory
      BY <1>0, <2>2 DEF ExecutorType
    <2>3. CASE DestroyProgressEngine
      BY <1>0, <2>3 DEF ExecutorType
    <2>4. CASE DestroyRdma
      BY <1>0, <2>4 DEF ExecutorType
    <2>5. CASE StopContext
      <3>1. ~next.lost
        BY DEF IInv, PlaceInv, Fresh, NoExecutor
      <3> QED
        BY <2>5, <3>1
    <2> QED
      BY <1>11, <2>1, <2>2, <2>3, <2>4, <2>5
         DEF DestroyExecutor
  <1>12. CASE (\E b \in Buffers : Unmap(b)) \/ EndpointsGone \/ CloseDevice
    BY <1>0, <1>12 DEF Unmap, EndpointsGone, CloseDevice
  <1>13. CASE UNCHANGED vars
    BY <1>0, <1>13 DEF vars
  <1> QED
    BY <1>1, <1>2, <1>3, <1>4, <1>5, <1>6, <1>7, <1>8, <1>9, <1>10, <1>11, <1>12, <1>13
       DEF Next, RequestStep

(* What the main thread spoils is explained.                               *)
LEMMA RuinKept ==
  ASSUME IInv, [Next]_vars, ~RequestStep, stray' = FALSE
  PROVE  RuinInv'
  <1>1. UNCHANGED <<strict, request, kept>>
    BY Apart
  <1>2. executor'.lost => kept' # {}
    BY <1>1, LossKept DEF IInv, RuinInv
  <1>3. \A r \in Requests :
          request'[r].stage = "answered" /\ "remote" \in request'[r].buffers => kept' # {}
    BY <1>1 DEF IInv, RuinInv
  <1>4. leaked' \cap {"inventory", "map", "remote map"} # {} => kept' # {}
    BY <1>1, Apart DEF IInv, RuinInv, Unmap, CloseDevice, Leak, Destroyed
  <1>5. device' \in {"none", "live"} => "device" \notin leaked'
    <2>1. CASE UNCHANGED leaked /\ device' \in {"none", "live"} /\ ~CloseDevice
      <3>1. device \in {"none", "live"}
        <4>1. CASE device' = device
          BY <2>1, <4>1
        <4>2. CASE pc \in {"found", "queried"}
          <5>1. device \in Handles /\ device \notin {"gone", "refused"}
            BY <4>2 DEF IInv, TypeOK, MappedInv
          <5> QED
            BY <5>1 DEF Handles
        <4> QED
          BY <2>1, <4>1, <4>2, Apart
      <3> QED
        BY <2>1, <3>1 DEF IInv, RuinInv
    <2>2. CASE CloseDevice
      BY <2>2 DEF CloseDevice, Leak, Destroyed, IInv, RuinInv
    <2>3. CASE DestroyInventory \/ DestroyProgressEngine \/ DestroyRdma
      <3>1. leaked' \subseteq leaked \cup {"inventory", "progress engine", "rdma"}
        BY <2>3 DEF Leak
      <3>2. device' = device
        BY <2>3
      <3> QED
        BY <3>1, <3>2 DEF IInv, RuinInv
    <2>5. CASE \E b \in Buffers : Unmap(b)
      BY <2>5 DEF Unmap, Leak, IInv, RuinInv
    <2>4. CASE StopContext
      BY <2>4 DEF IInv, RuinInv
    <2> QED
      BY <2>1, <2>2, <2>3, <2>4, <2>5, Apart
  <1>6. "device" \in leaked' => leaked' # {"device"}
    BY <1>1, Apart DEF IInv, RuinInv, Unmap, CloseDevice, Leak, Destroyed
  <1>7. strict' => misused' = {}
    <2> SUFFICES ASSUME strict PROVE misused' = {}
      BY <1>1
    <2>1. CASE StopContext
      <3>1. executor.rdma = "refused" /\ misused = {}
        BY <2>1 DEF IInv, RuinInv, ExecutorInv
      <3> QED
        BY <2>1, <3>1
    <2> QED
      BY <2>1, Apart DEF IInv, RuinInv, Unmap, CloseDevice
  <1>8. ~strict' => leaked' = {}
    BY <1>1, Apart DEF IInv, RuinInv, Unmap, CloseDevice, Leak, Destroyed
  <1> QED
    BY <1>2, <1>3, <1>4, <1>5, <1>6, <1>7, <1>8 DEF RuinInv

(* The main thread stays at its place while a session is open.             *)
LEMMA SessionKept ==
  ASSUME IInv, [Next]_vars, ~RequestStep, NEW r \in Requests, request[r].session
  PROVE  pc' \in {"serving", "crashed"}
  <1> USE DEF IInv, RequestInv, RequestInvOf, NoRequestOpen
  <1>1. CASE OpenDevice
    BY <1>1 DEF OpenDevice
  <1>2. CASE CreateAll
    BY <1>2 DEF CreateAll
  <1>3. CASE CallServe \/ CallConnect
    BY <1>3 DEF CallServe, CallConnect
  <1>4. CASE \E b \in Buffers : MapMemory(b)
    BY <1>4 DEF MapMemory
  <1>5. CASE EndpointsMapped \/ ServeReturns \/ Exit
    BY <1>5 DEF EndpointsMapped, ServeReturns, Exit
  <1>6. CASE CreateExecutor
    BY <1>6 DEF CreateExecutor
  <1>7. CASE Replace
    BY <1>7 DEF Replace
  <1>8. CASE StartExecutor
    BY <1>8 DEF StartExecutor
  <1>9. CASE \E b \in Buffers : ExportMemoryDescriptor(b)
    BY <1>9 DEF ExportMemoryDescriptor
  <1>10. CASE ReturnServer \/ ReturnClient \/ DestroyServer
    BY <1>10 DEF ReturnServer, ReturnClient, DestroyServer
  <1>11. CASE DestroyExecutor
    BY <1>11 DEF DestroyExecutor
  <1>12. CASE (\E b \in Buffers : Unmap(b)) \/ EndpointsGone \/ CloseDevice
    BY <1>12 DEF Unmap, EndpointsGone, CloseDevice
  <1>13. CASE UNCHANGED vars
    BY <1>13 DEF vars
  <1> QED
    BY <1>1, <1>2, <1>3, <1>4, <1>5, <1>6, <1>7, <1>8, <1>9, <1>10, <1>11, <1>12, <1>13
       DEF Next, RequestStep

(* The executor stays while a request is worked on: ~RdmaExecutor joins the*)
(* worker first.                                                           *)
LEMMA ActiveKept ==
  ASSUME IInv, [Next]_vars, ~RequestStep, NEW r \in Requests, request[r].stage \notin Passive
  PROVE  /\ pc' \in ActivePlaces
         /\ executor' = executor
  <1> USE DEF ActivePlaces, IInv, RequestInv, RequestInvOf, Passive
  <1>0. /\ app = "client" /\ executor.thread /\ executor # NoExecutor
        /\ pc \in ActivePlaces
    BY NoExecutorFacts
  <1>1. CASE OpenDevice
    BY <1>0, <1>1 DEF OpenDevice
  <1>2. CASE CreateAll
    BY <1>0, <1>2 DEF CreateAll
  <1>3. CASE CallServe \/ CallConnect
    BY <1>0, <1>3 DEF CallServe, CallConnect
  <1>4. CASE \E b \in Buffers : MapMemory(b)
    BY <1>0, <1>4 DEF MapMemory
  <1>5. CASE EndpointsMapped \/ ServeReturns \/ Exit
    BY <1>0, <1>5 DEF EndpointsMapped, ServeReturns, Exit
  <1>6. CASE CreateExecutor
    BY <1>0, <1>6 DEF CreateExecutor
  <1>7. CASE Replace
    BY <1>0, <1>7 DEF Replace
  <1>8. CASE StartExecutor
    BY <1>0, <1>8 DEF StartExecutor
  <1>9. CASE \E b \in Buffers : ExportMemoryDescriptor(b)
    BY <1>0, <1>9 DEF ExportMemoryDescriptor
  <1>10. CASE ReturnServer \/ ReturnClient \/ DestroyServer
    BY <1>0, <1>10 DEF ReturnServer, ReturnClient, DestroyServer
  <1>11. CASE DestroyExecutor
    BY <1>0, <1>11 DEF DestroyExecutor
  <1>12. CASE (\E b \in Buffers : Unmap(b)) \/ EndpointsGone \/ CloseDevice
    BY <1>0, <1>12 DEF Unmap, EndpointsGone, CloseDevice
  <1>13. CASE UNCHANGED vars
    BY <1>0, <1>13 DEF vars
  <1> QED
    BY <1>1, <1>2, <1>3, <1>4, <1>5, <1>6, <1>7, <1>8, <1>9, <1>10, <1>11, <1>12, <1>13
       DEF Next, RequestStep

(* So the steps of the main thread keep what is known of the requests.     *)
LEMMA RequestsKept ==
  ASSUME IInv, [Next]_vars, ~RequestStep
  PROVE  RequestInv' /\ QueueInv'
  <1>1. UNCHANGED <<app, request, queue>>
    BY Apart
  <1>2. ASSUME NEW r \in Requests PROVE RequestInvOf(r)'
    <2>1. RequestInvOf(r)
      BY DEF IInv, RequestInv
    <2>2. request[r].session => pc' \in {"serving", "crashed"}
      BY SessionKept
    <2>3. request[r].stage \notin Passive =>
            /\ executor' = executor
            /\ pc' \in ActivePlaces
      BY ActiveKept
    <2>4. request[r].stage \in {"first"} \cup HasBoth => request[r].stage \notin Passive
      BY DEF HasBoth, Passive
    <2> QED
      BY <1>1, <2>1, <2>2, <2>3, <2>4 DEF RequestInvOf, FirstSide
  <1> QED
    BY <1>1, <1>2 DEF RequestInv, IInv, QueueInv

(* The types of the device and the maps.                                   *)
LEMMA MapsTyped ==
  ASSUME IInv, [Next]_vars, ~RequestStep
  PROVE  /\ list' \in Handles /\ device' \in Handles
         /\ ranges' \in SUBSET Buffers /\ map' \in [Buffers -> Handles]
         /\ exported' \in SUBSET Buffers
  <1> USE DEF Handles
  <1>0. /\ list \in Handles /\ device \in Handles
        /\ ranges \in SUBSET Buffers /\ map \in [Buffers -> Handles]
        /\ exported \in SUBSET Buffers
    BY DEF IInv, TypeOK
  <1>1. CASE OpenDevice
    BY <1>0, <1>1 DEF OpenDevice
  <1>2. CASE CreateAll
    BY <1>0, <1>2 DEF CreateAll
  <1>3. CASE CallServe \/ CallConnect
    BY <1>0, <1>3 DEF CallServe, CallConnect
  <1>4. CASE \E b \in Buffers : MapMemory(b)
    BY <1>0, <1>4 DEF MapMemory
  <1>5. CASE EndpointsMapped \/ ServeReturns \/ Exit
    BY <1>0, <1>5 DEF EndpointsMapped, ServeReturns, Exit
  <1>6. CASE CreateExecutor
    BY <1>0, <1>6 DEF CreateExecutor
  <1>7. CASE Replace
    BY <1>0, <1>7 DEF Replace
  <1>8. CASE StartExecutor
    BY <1>0, <1>8 DEF StartExecutor
  <1>9. CASE \E b \in Buffers : ExportMemoryDescriptor(b)
    BY <1>0, <1>9 DEF ExportMemoryDescriptor
  <1>10. CASE ReturnServer \/ ReturnClient \/ DestroyServer
    BY <1>0, <1>10 DEF ReturnServer, ReturnClient, DestroyServer
  <1>11. CASE DestroyExecutor
    BY <1>0, <1>11 DEF DestroyExecutor
  <1>12. CASE (\E b \in Buffers : Unmap(b)) \/ EndpointsGone \/ CloseDevice
    BY <1>0, <1>12 DEF Unmap, EndpointsGone, CloseDevice, Destroyed
  <1>13. CASE UNCHANGED vars
    BY <1>0, <1>13 DEF vars
  <1> QED
    BY <1>1, <1>2, <1>3, <1>4, <1>5, <1>6, <1>7, <1>8, <1>9, <1>10, <1>11, <1>12, <1>13
       DEF Next, RequestStep

(* Setting a member of an executor.                                        *)
LEMMA ExecutorUpdate ==
  ASSUME NEW e \in ExecutorType, NEW h \in Handles, NEW b \in BOOLEAN,
         NEW c \in {"none", "idle", "running"}
  PROVE  /\ [e EXCEPT !.rdma = h] \in ExecutorType
         /\ [e EXCEPT !.pe = h] \in ExecutorType
         /\ [e EXCEPT !.inventory = h] \in ExecutorType
         /\ [e EXCEPT !.ctx = c] \in ExecutorType
         /\ [e EXCEPT !.connected = b] \in ExecutorType
         /\ [e EXCEPT !.callbacks = b] \in ExecutorType
         /\ [e EXCEPT !.thread = b] \in ExecutorType
         /\ [e EXCEPT !.lost = b] \in ExecutorType
  <1>1. [e EXCEPT !.rdma = h] \in ExecutorType
    BY DEF ExecutorType
  <1>2. [e EXCEPT !.pe = h] \in ExecutorType
    BY DEF ExecutorType
  <1>3. [e EXCEPT !.inventory = h] \in ExecutorType
    BY DEF ExecutorType
  <1>4. [e EXCEPT !.ctx = c] \in ExecutorType
    BY DEF ExecutorType
  <1>5. [e EXCEPT !.connected = b] \in ExecutorType
    BY DEF ExecutorType
  <1>6. [e EXCEPT !.callbacks = b] \in ExecutorType
    BY DEF ExecutorType
  <1>7. [e EXCEPT !.thread = b] \in ExecutorType
    BY DEF ExecutorType
  <1>8. [e EXCEPT !.lost = b] \in ExecutorType
    BY DEF ExecutorType
  <1> QED
    BY <1>1, <1>2, <1>3, <1>4, <1>5, <1>6, <1>7, <1>8

(* The executors that are created.                                         *)
LEMMA NewExecutors == NoExecutor \in ExecutorType /\ Fresh \in ExecutorType
  BY DEF NoExecutor, Fresh, ExecutorType, Handles

(* The types of the executors.                                             *)
LEMMA ExecutorTyped ==
  ASSUME IInv, [Next]_vars, ~RequestStep
  PROVE  executor' \in ExecutorType /\ next' \in ExecutorType
  <1> USE DEF Handles
  <1>0. /\ executor \in ExecutorType /\ next \in ExecutorType
        /\ TRUE \in BOOLEAN /\ "running" \in {"none", "idle", "running"}
    BY DEF IInv, TypeOK
  <1>1. CASE OpenDevice
    BY <1>0, <1>1 DEF OpenDevice
  <1>2. CASE CreateAll
    BY <1>0, <1>2 DEF CreateAll
  <1>3. CASE CallServe \/ CallConnect
    BY <1>0, <1>3 DEF CallServe, CallConnect
  <1>4. CASE \E b \in Buffers : MapMemory(b)
    BY <1>0, <1>4 DEF MapMemory
  <1>5. CASE EndpointsMapped \/ ServeReturns \/ Exit
    BY <1>0, <1>5 DEF EndpointsMapped, ServeReturns, Exit
  <1>6. CASE CreateExecutor
    BY <1>0, <1>6, NewExecutors DEF CreateExecutor, Fresh
  <1>7. CASE Replace
    BY <1>0, <1>7, NewExecutors DEF Replace
  <1>8. CASE StartExecutor
    <2>1. CASE CreateProgressEngine \/ AsContext \/ ConnectContext \/ StartContext
      BY <1>0, <2>1, ExecutorUpdate
    <2>2. CASE SetConnectionStateChangedCallbacks \/ MakeInventory \/ StartWorker
      BY <1>0, <2>2, ExecutorUpdate
    <2>3. CASE \/ SetUserData \/ SetContextStateChangedCallback \/ SetTaskCompletionCallbacks
               \/ WaitForContextState \/ ListenToPort \/ CreateAddress \/ ConnectToAddress
               \/ WaitForEstablishedConnection
      BY <1>0, <2>3, ExecutorUpdate
    <2> QED
      BY <1>8, <2>1, <2>2, <2>3
         DEF StartExecutor
  <1>9. CASE \E b \in Buffers : ExportMemoryDescriptor(b)
    BY <1>0, <1>9 DEF ExportMemoryDescriptor
  <1>10. CASE ReturnServer \/ ReturnClient \/ DestroyServer
    BY <1>0, <1>10 DEF ReturnServer, ReturnClient, DestroyServer
  <1>11. CASE DestroyExecutor
    <2>1. CASE JoinWorker
      BY <1>0, <2>1, ExecutorUpdate, NewExecutors DEF Destroyed
    <2>2. CASE DestroyInventory
      <3> DEFINE h == IF executor.inventory = "live" THEN Destroyed(executor.lost)
                                                     ELSE executor.inventory
      <3>1. h \in Handles
        BY <1>0 DEF Destroyed, ExecutorType
      <3> HIDE DEF h
      <3>2. [executor EXCEPT !.inventory = h] \in ExecutorType
        BY <1>0, <3>1, ExecutorUpdate
      <3> QED
        BY <1>0, <2>2, <3>2 DEF h
    <2>3. CASE DestroyProgressEngine
      BY <1>0, <2>3, ExecutorUpdate, NewExecutors DEF Destroyed
    <2>4. CASE DestroyRdma
      BY <1>0, <2>4, ExecutorUpdate, NewExecutors DEF Destroyed
    <2>5. CASE StopContext
      BY <1>0, <2>5, ExecutorUpdate, NewExecutors DEF Destroyed
    <2> QED
      BY <1>11, <2>1, <2>2, <2>3, <2>4, <2>5
         DEF DestroyExecutor
  <1>12. CASE (\E b \in Buffers : Unmap(b)) \/ EndpointsGone \/ CloseDevice
    BY <1>0, <1>12 DEF Unmap, EndpointsGone, CloseDevice
  <1>13. CASE UNCHANGED vars
    BY <1>0, <1>13 DEF vars
  <1> QED
    BY <1>1, <1>2, <1>3, <1>4, <1>5, <1>6, <1>7, <1>8, <1>9, <1>10, <1>11, <1>12, <1>13
       DEF Next, RequestStep

(* The steps of the main thread keep TypeOK.                               *)
LEMMA TypesKept ==
  ASSUME IInv, [Next]_vars, ~RequestStep, stray' = FALSE, PlaceInv', BuilderInv'
  PROVE  TypeOK'
  <1>1. UNCHANGED <<strict, app, request, queue, kept>>
    BY Apart
  <1>2. pc' \in Places
    BY DEF PlaceInv
  <1>3. leaked \in SUBSET Kinds /\ misused \in SUBSET {"context"}
    BY DEF IInv, TypeOK
  <1>4. leaked' \in SUBSET Kinds /\ misused' \in SUBSET {"context"}
    BY <1>3, Apart DEF Kinds, Leak, Unmap, CloseDevice
  <1> QED
    BY <1>1, <1>2, <1>4, MapsTyped, ExecutorTyped DEF TypeOK, IInv, BuilderInv

-----------------------------------------------------------------------------
(* The steps of the requests.                                              *)

(* What a step leaves that changes request r and no other.                 *)
Outcome(r) ==
    /\ request' = [request EXCEPT ![r] = request'[r]]
    /\ request'[r] \in RequestType
    /\ RequestInvOf(r)'
    /\ UNCHANGED <<strict, app, builder, list, device, ranges, map, exported, next,
                   misused, stray>>
    /\ pc' = pc \/ (pc' = "crashed" /\ pc \in ActivePlaces /\ executor.thread)
    /\ \/ executor' = executor
       \/ executor.thread /\ \E b \in BOOLEAN : executor' = [executor EXCEPT !.lost = b]
    /\ kept \subseteq kept' /\ kept' \subseteq Buffers \cup {"remote"}
    /\ executor'.lost => executor.lost \/ kept' # {}
    /\ request'[r].stage = "answered" /\ "remote" \in request'[r].buffers => kept' # {}
    /\ leaked' = leaked \/ (strict /\ leaked' = leaked \cup {"remote map"} /\ kept' # {})

(* Setting members of a request.                                           *)
LEMMA RequestUpdate ==
  ASSUME NEW q \in RequestType
  PROVE  /\ \A g \in Stages : [q EXCEPT !.stage = g] \in RequestType
         /\ \A b \in BOOLEAN : [q EXCEPT !.session = b] \in RequestType
         /\ \A g \in Stages, b \in BOOLEAN :
              /\ [q EXCEPT !.stage = g, !.task = b] \in RequestType
              /\ [q EXCEPT !.task = b, !.stage = g] \in RequestType
  <1>1. \A g \in Stages : [q EXCEPT !.stage = g] \in RequestType
    BY DEF RequestType
  <1>2. \A b \in BOOLEAN : [q EXCEPT !.session = b] \in RequestType
    BY DEF RequestType
  <1>4. \A g \in Stages, b \in BOOLEAN : [q EXCEPT !.stage = g, !.task = b] \in RequestType
    BY DEF RequestType
  <1>5. \A g \in Stages, b \in BOOLEAN : [q EXCEPT !.task = b, !.stage = g] \in RequestType
    BY DEF RequestType
  <1> QED
    BY <1>1, <1>2, <1>4, <1>5

(* What a request that is not there has.                                   *)
LEMMA NoRequestFacts ==
  /\ NoRequest \in RequestType
  /\ NoRequest.stage = "none" /\ ~NoRequest.session /\ NoRequest.buffers = {}
  BY DEF NoRequest, RequestType, Stages, Handles, Sides

(* A request that is gone satisfies every clause.                          *)
LEMMA GoneOutcome ==
  ASSUME NEW r, request'[r] = NoRequest
  PROVE  RequestInvOf(r)'
  BY NoRequestFacts DEF RequestInvOf, Passive, HasBoth

(* SubmitOperation.                                                        *)
LEMMA SubmitOutcome ==
  ASSUME IInv, NEW r \in Requests, SubmitOperation(r)
  PROVE  Outcome(r)
  <1>1. request[r] \in RequestType /\ request \in [Requests -> RequestType]
        /\ kept \subseteq Buffers \cup {"remote"}
    BY DEF IInv, TypeOK
  <1>2. RequestInvOf(r)
    BY DEF IInv, RequestInv
  <1>3. request'[r] = [request[r] EXCEPT !.stage = "queued"]
    BY <1>1 DEF SubmitOperation
  <1>4. request'[r] \in RequestType
    BY <1>1, <1>3, RequestUpdate DEF Stages
  <1>5. RequestInvOf(r)'
    BY <1>1, <1>2, <1>3, NoRequestFacts
       DEF SubmitOperation, RequestInvOf, Passive, HasBoth, IInv, ExecutorInv, Threaded,
           RequestType, ActivePlaces
  <1> QED
    BY <1>1, <1>3, <1>4, <1>5 DEF SubmitOperation, Outcome

(* FromExportedRemoteDescriptor: whether it fails or not.                  *)
LEMMA RemoteOutcome ==
  ASSUME IInv, NEW r \in Requests, NEW b \in Buffers, FromExportedRemoteDescriptor(r, b)
  PROVE  Outcome(r)
  <1>1. request[r] \in RequestType /\ request \in [Requests -> RequestType]
        /\ kept \subseteq Buffers \cup {"remote"}
    BY DEF IInv, TypeOK
  <1>2. RequestInvOf(r)
    BY DEF IInv, RequestInv
  <1>3. CASE CreateFromExport(r, b)
    <2>1. PICK reads \in BOOLEAN :
            request'[r] = [NoRequest EXCEPT !.stage = "mapped", !.session = TRUE, !.remote = "live",
                                            !.reads = reads, !.buffer = b]
      BY <1>1, <1>3 DEF CreateFromExport
    <2>2. request'[r] \in RequestType
      BY <2>1, NoRequestFacts DEF RequestType, Stages, Handles
    <2>3. RequestInvOf(r)'
      BY <1>3, <2>1, NoRequestFacts
         DEF CreateFromExport, RequestInvOf, Passive, HasBoth, RequestType
    <2> QED
      BY <1>1, <1>3, <2>1, <2>2, <2>3 DEF CreateFromExport, Outcome, NoRequest
  <1>4. CASE GetRemoteMemoryRange(r) /\ request'[r] = NoRequest
    <2>1. leaked' = leaked
      BY <1>2, <1>4 DEF GetRemoteMemoryRange, ReleaseRemote, Leak
    <2>2. request' = [request EXCEPT ![r] = request'[r]]
      BY <1>1, <1>4 DEF GetRemoteMemoryRange, ReleaseRemote
    <2> QED
      BY <1>1, <1>4, <2>1, <2>2, NoRequestFacts, GoneOutcome DEF GetRemoteMemoryRange, Outcome
  <1>5. CASE GetRemoteMemoryRange(r) /\ request'[r] # NoRequest
    <2>1. request'[r] = [request[r] EXCEPT !.stage = "remote"] /\ leaked' = leaked
      BY <1>1, <1>5 DEF GetRemoteMemoryRange, ReleaseRemote
    <2>2. request'[r] \in RequestType
      BY <1>1, <2>1, RequestUpdate DEF Stages
    <2>3. RequestInvOf(r)'
      BY <1>1, <1>2, <1>5, <2>1, NoRequestFacts
         DEF GetRemoteMemoryRange, RequestInvOf, Passive, HasBoth, RequestType
    <2>4. request' = [request EXCEPT ![r] = request'[r]]
      BY <1>1, <1>5, <2>1 DEF GetRemoteMemoryRange, ReleaseRemote
    <2> QED
      BY <1>1, <1>5, <2>1, <2>2, <2>3, <2>4 DEF GetRemoteMemoryRange, Outcome, RequestType
  <1> QED
    BY <1>3, <1>4, <1>5 DEF FromExportedRemoteDescriptor

(* LeaveSession: the map goes with the last of its owners.                 *)
LEMMA LeaveOutcome ==
  ASSUME IInv, NEW r \in Requests, LeaveSession(r)
  PROVE  Outcome(r)
  <1>1. request[r] \in RequestType /\ request \in [Requests -> RequestType]
        /\ kept \subseteq Buffers \cup {"remote"}
        /\ strict \in BOOLEAN
    BY DEF IInv, TypeOK
  <1>2. RequestInvOf(r)
    BY DEF IInv, RequestInv
  <1>3. CASE request[r].stage \in {"remote", "answered"}
    <2>1. request'[r] = NoRequest /\ request' = [request EXCEPT ![r] = request'[r]]
      BY <1>1, <1>3 DEF LeaveSession, ReleaseRemote
    <2>2. "remote" \in request[r].buffers => kept # {}
      BY <1>2, <1>3 DEF IInv, RuinInv, RequestInvOf
    <2>3. leaked' = leaked \/ (strict /\ leaked' = leaked \cup {"remote map"} /\ kept # {})
      BY <1>3, <2>2 DEF LeaveSession, ReleaseRemote, Leak
    <2> QED
      BY <1>1, <2>1, <2>3, NoRequestFacts, GoneOutcome DEF LeaveSession, Outcome
  <1>4. CASE request[r].stage \notin {"remote", "answered"}
    <2>1. request'[r] = [request[r] EXCEPT !.session = FALSE] /\ leaked' = leaked
      BY <1>1, <1>4 DEF LeaveSession
    <2>2. request'[r] \in RequestType
      BY <1>1, <2>1, RequestUpdate
    <2>3. RequestInvOf(r)'
      BY <1>1, <1>2, <1>4, <2>1, NoRequestFacts
         DEF LeaveSession, RequestInvOf, Passive, HasBoth, RequestType, FirstSide
    <2>4. request' = [request EXCEPT ![r] = request'[r]]
      BY <1>1, <1>4, <2>1 DEF LeaveSession
    <2> QED
      BY <1>1, <1>4, <2>1, <2>2, <2>3, <2>4 DEF LeaveSession, Outcome, RequestType
  <1> QED
    BY <1>3, <1>4

(* Answer: an operation that ends early says what it lost.                 *)
LEMMA AnswerOutcome ==
  ASSUME IInv, NEW r \in Requests, Answer(r), request[r].stage \notin Passive,
         UNCHANGED <<strict, app, builder, deviceVars, mapVars, next, queue, misused, stray>>
  PROVE  Outcome(r)
  <1>1. request[r] \in RequestType /\ request \in [Requests -> RequestType]
        /\ kept \subseteq Buffers \cup {"remote"}
        /\ strict \in BOOLEAN
    BY DEF IInv, TypeOK
  <1>2. RequestInvOf(r)
    BY DEF IInv, RequestInv
  <1>3. /\ kept' = kept \cup LostBuffers(r)
        /\ executor' = [executor EXCEPT !.lost = @ \/ LostBuffers(r) # {}]
        /\ pc' = pc
    BY DEF Answer
  <1>4. LostBuffers(r) \subseteq Buffers \cup {"remote"}
    BY <1>1, <1>2 DEF LostBuffers, RequestInvOf, Passive, RequestType, Sides
  <1>5. executor'.lost => executor.lost \/ kept' # {}
    <2>1. executor \in ExecutorType
      BY DEF IInv, TypeOK
    <2>2. CASE LostBuffers(r) # {}
      BY <1>3, <2>2
    <2>3. CASE LostBuffers(r) = {}
      BY <1>3, <2>1, <2>3 DEF ExecutorType
    <2> QED
      BY <2>2, <2>3
  <1>6. executor.thread /\ \E b \in BOOLEAN : executor' = [executor EXCEPT !.lost = b]
    <2>1. (executor.lost \/ LostBuffers(r) # {}) \in BOOLEAN
      OBVIOUS
    <2> QED
      BY <1>2, <1>3, <2>1 DEF RequestInvOf
  <1>7. "remote" \in request[r].buffers => kept' # {}
    BY <1>3 DEF LostBuffers
  <1>8. CASE request[r].session
    <2>1. request'[r] = [request[r] EXCEPT !.task = FALSE, !.stage = "answered"] /\ leaked' = leaked
      BY <1>1, <1>8 DEF Answer, WithoutTask
    <2>2. request' = [request EXCEPT ![r] = request'[r]]
      BY <1>1, <1>8, <2>1 DEF Answer, WithoutTask
    <2>3. request'[r] \in RequestType
      BY <1>1, <2>1 DEF RequestType, Stages
    <2>4. RequestInvOf(r)'
      BY <1>1, <1>2, <1>3, <1>8, <2>1, NoRequestFacts
         DEF RequestInvOf, Passive, HasBoth, RequestType
    <2>5. request'[r].buffers = request[r].buffers
      BY <1>1, <2>1 DEF RequestType
    <2> QED
      BY <1>1, <1>3, <1>4, <1>5, <1>6, <1>7, <2>1, <2>2, <2>3, <2>4, <2>5 DEF Outcome
  <1>9. CASE ~request[r].session
    <2>1. request'[r] = NoRequest /\ request' = [request EXCEPT ![r] = request'[r]]
      BY <1>1, <1>9 DEF Answer, ReleaseRemote
    <2>2. leaked' = leaked \/ (strict /\ leaked' = leaked \cup {"remote map"} /\ kept' # {})
      BY <1>7, <1>9 DEF Answer, ReleaseRemote, Leak
    <2> QED
      BY <1>1, <1>3, <1>4, <1>5, <1>6, <1>7, <2>1, <2>2, NoRequestFacts, GoneOutcome DEF Outcome
  <1> QED
    BY <1>8, <1>9

(* else.                                                                   *)
LEMMA Working ==
  ASSUME IInv, NEW r \in Requests, Work(r)
  PROVE  /\ request[r].stage \notin Passive
         /\ UNCHANGED <<strict, app, builder, deviceVars, mapVars, next, misused, stray>>
         /\ pc # "crashed"
  <1>1. CASE TakeRequest(r)
    <2>1. request[r].stage = "queued"
      BY <1>1 DEF TakeRequest, IInv, QueueInv, TypeOK
    <2> QED
      BY <1>1, <2>1 DEF TakeRequest, Passive
  <1>2. CASE ~TakeRequest(r)
    <2>1. \E stage \in Stages \ Passive : Works(r, stage)
      BY <1>2 DEF Work, RefuseOperation, GetSourceBuffer, GetDestinationBuffer, GetBuffer,
             AllocateReadTask, AllocateWriteTask, Allocates, SubmitReadTask, SubmitWriteTask,
             Submits, CompleteTask, FreeReadTask, FreeWriteTask, Frees, ReturnSource,
             DecRefcount, ReturnDestination, Stages, Passive
    <2> QED
      BY <2>1 DEF Works
  <1> QED
    BY <1>1, <1>2

(* A step of the worker that neither answers nor crashes.                  *)
LEMMA AdvanceOutcome ==
  ASSUME IInv, NEW r \in Requests, Work(r), UNCHANGED <<kept, executor, leaked, pc>>,
         request' = [request EXCEPT ![r] = request'[r]],
         request'[r] \in RequestType, RequestInvOf(r)',
         request'[r].stage = "answered" => request'[r].buffers = {}
  PROVE  Outcome(r)
  <1>1. kept \subseteq Buffers \cup {"remote"}
    BY DEF IInv, TypeOK
  <1> QED
    BY <1>1, Working DEF Outcome

(* Each step of the worker.                                                *)
LEMMA WorkOutcome ==
  ASSUME IInv, NEW r \in Requests, Work(r)
  PROVE  Outcome(r)
  <1>1. request[r] \in RequestType /\ request \in [Requests -> RequestType]
        /\ kept \subseteq Buffers \cup {"remote"}
        /\ queue \in Seq(Requests)
    BY DEF IInv, TypeOK
  <1>2. RequestInvOf(r)
    BY DEF IInv, RequestInv
  <1>3. /\ request[r].stage \notin Passive
        /\ UNCHANGED <<strict, app, builder, deviceVars, mapVars, next, misused, stray>>
        /\ app = "client" /\ executor.thread /\ pc \in ActivePlaces
    BY <1>2, Working DEF RequestInvOf, ActivePlaces
  <1>4. CASE TakeRequest(r)
    <2>1. request'[r] = [request[r] EXCEPT !.stage = "taken"]
      BY <1>1, <1>4 DEF TakeRequest
    <2>2. request'[r] \in RequestType
      BY <1>1, <2>1, RequestUpdate DEF Stages
    <2>3. request[r].stage = "queued"
      BY <1>4 DEF TakeRequest, IInv, QueueInv, TypeOK
    <2>4. RequestInvOf(r)'
      BY <1>1, <1>2, <1>4, <2>1, <2>3, NoRequestFacts
         DEF TakeRequest, RequestInvOf, Passive, HasBoth, RequestType
    <2>5. request'[r].stage # "answered"
      BY <1>1, <2>1 DEF RequestType
    <2> QED
      BY <1>1, <1>4, <2>1, <2>2, <2>4, <2>5, AdvanceOutcome DEF TakeRequest
  <1>5. CASE Answer(r) /\ UNCHANGED queue
    BY <1>3, <1>5, AnswerOutcome
  <1>6. ASSUME NEW stage, NEW to, NEW side, GetBuffer(r, stage, to, side), ~Answer(r),
               \/ stage = "taken" /\ to = "first" /\ side = FirstSide(r)
               \/ stage = "first" /\ to = "both" /\ side = OtherSide(r)
        PROVE  Outcome(r)
    <2>1. CASE executor.inventory = "live"
      <3>1. /\ request'[r] = [request[r] EXCEPT !.stage = to,
                                            !.buffers = request[r].buffers \cup {side}]
            /\ request' = [request EXCEPT ![r] = request'[r]]
            /\ UNCHANGED <<kept, executor, leaked, pc>>
        BY <1>1, <1>6, <2>1 DEF GetBuffer, Advance
      <3>2. request[r].buffers \cup {side} \in SUBSET Sides /\ to \in Stages
        BY <1>1, <1>6 DEF RequestType, Sides, FirstSide, OtherSide, Stages
      <3>3. request'[r] \in RequestType
        BY <1>1, <3>1, <3>2 DEF RequestType
      <3>4. /\ request'[r].stage = to /\ request'[r].buffers = request[r].buffers \cup {side}
            /\ request'[r].remote = request[r].remote /\ request'[r].buffer = request[r].buffer
            /\ request'[r].session => request[r].session
        BY <1>1, <3>1 DEF RequestType
      <3>5. request[r].stage = stage
        BY <1>6 DEF GetBuffer, Works
      <3>6. request'[r] # NoRequest /\ to # "none"
        BY <1>6, <3>4, NoRequestFacts
      <3>7. ASSUME stage = "taken" PROVE RequestInvOf(r)'
        <4>1. request[r].buffers = {}
          BY <1>2, <3>5, <3>7 DEF RequestInvOf
        <4>2. to = "first" /\ request'[r].buffers = {FirstSide(r)'}
          BY <1>1, <1>6, <3>1, <3>4, <3>7, <4>1 DEF FirstSide, RequestType
        <4>3. request'[r].stage \notin Passive \cup HasBoth \cup {"queued", "taken"}
          BY <3>4, <4>2 DEF HasBoth, Passive
        <4> QED
          BY <1>2, <1>3, <2>1, <3>1, <3>4, <3>5, <3>6, <3>7, <4>2, <4>3
             DEF RequestInvOf, Passive, HasBoth
      <3>8. ASSUME stage = "first" PROVE RequestInvOf(r)'
        <4>1. to = "both" /\ request'[r].buffers = Sides
          BY <1>2, <1>6, <3>4, <3>5, <3>8 DEF RequestInvOf, FirstSide, OtherSide, Sides
        <4> QED
          BY <1>2, <1>3, <2>1, <3>1, <3>4, <3>5, <3>6, <3>8, <4>1
             DEF RequestInvOf, Passive, HasBoth
      <3>9. RequestInvOf(r)'
        BY <1>6, <3>7, <3>8
      <3> QED
        BY <1>6, <3>1, <3>3, <3>4, <3>9, AdvanceOutcome
    <2>2. CASE executor.inventory # "live"
      <3>1. pc' = "crashed" /\ UNCHANGED <<request, kept, executor, leaked>>
        BY <1>6, <2>2 DEF GetBuffer
      <3>2. RequestInvOf(r)'
        BY <1>2, <1>3, <3>1 DEF RequestInvOf, FirstSide, ActivePlaces
      <3>3. request[r].stage # "answered"
        BY <1>3 DEF Passive
      <3> QED
        BY <1>1, <1>3, <3>1, <3>2, <3>3 DEF Outcome
    <2> QED
      BY <2>1, <2>2
  <1>7. ASSUME NEW stage, NEW to, Works(r, stage), Advance(r, [request[r] EXCEPT !.stage = to]),
               \/ stage = "allocated" /\ to = "submitted"
               \/ stage = "submitted" /\ to = "completed"
        PROVE  Outcome(r)
    <2>1. /\ request'[r] = [request[r] EXCEPT !.stage = to]
          /\ request' = [request EXCEPT ![r] = request'[r]]
      BY <1>1, <1>7 DEF Advance
    <2>2. request'[r] \in RequestType
      <3>1. to \in Stages
        BY <1>7 DEF Stages
      <3> QED
        BY <1>1, <2>1, <3>1 DEF RequestType
    <2>3. RequestInvOf(r)'
      BY <1>1, <1>2, <1>3, <1>7, <2>1, NoRequestFacts
         DEF Works, Advance, RequestInvOf, Passive, HasBoth, RequestType
    <2>4. request'[r].stage # "answered"
      BY <1>1, <1>7, <2>1 DEF RequestType
    <2> QED
      BY <1>7, <2>1, <2>2, <2>3, <2>4, AdvanceOutcome DEF Advance
  <1>8. CASE (AllocateReadTask(r) \/ AllocateWriteTask(r)) /\ ~Answer(r)
    <2>1. /\ request[r].stage = "both" /\ UNCHANGED <<kept, executor, leaked, pc>>
          /\ request'[r] = [request[r] EXCEPT !.stage = "allocated", !.task = TRUE]
          /\ request' = [request EXCEPT ![r] = request'[r]]
      BY <1>1, <1>8 DEF AllocateReadTask, AllocateWriteTask, Allocates, Works, Advance
    <2>2. request'[r] \in RequestType
      BY <1>1, <2>1, RequestUpdate DEF Stages
    <2>3. RequestInvOf(r)'
      BY <1>1, <1>2, <1>3, <2>1, NoRequestFacts
         DEF RequestInvOf, Passive, HasBoth, RequestType
    <2>4. request'[r].stage # "answered"
      BY <1>1, <2>1 DEF RequestType
    <2> QED
      BY <2>1, <2>2, <2>3, <2>4, AdvanceOutcome
  <1>9. CASE FreeReadTask(r) \/ FreeWriteTask(r)
    <2>1. /\ request[r].stage = "completed" /\ UNCHANGED <<kept, executor, leaked, pc>>
          /\ request'[r] = [request[r] EXCEPT !.task = FALSE, !.stage = "freed"]
          /\ request' = [request EXCEPT ![r] = request'[r]]
      BY <1>1, <1>9 DEF FreeReadTask, FreeWriteTask, Frees, Works, Advance, WithoutTask
    <2>2. request'[r] \in RequestType
      BY <1>1, <2>1, RequestUpdate DEF Stages
    <2>3. RequestInvOf(r)'
      BY <1>1, <1>2, <1>3, <2>1, NoRequestFacts
         DEF RequestInvOf, Passive, HasBoth, RequestType
    <2>4. request'[r].stage # "answered"
      BY <1>1, <2>1 DEF RequestType
    <2> QED
      BY <2>1, <2>2, <2>3, <2>4, AdvanceOutcome
  <1>10. CASE ReturnSource(r) /\ ~Answer(r)
    <2> DEFINE p == request[r].buffers \ {FirstSide(r)}
    <2>1. /\ request[r].stage = "freed" /\ UNCHANGED <<kept, executor, leaked, pc>>
          /\ request'[r] = [request[r] EXCEPT !.stage = "returned", !.buffers = p]
          /\ request' = [request EXCEPT ![r] = request'[r]]
      BY <1>1, <1>10 DEF ReturnSource, DecRefcount, Works, Advance
    <2>2. p \in SUBSET Sides
      BY <1>1 DEF RequestType
    <2>3. request'[r] \in RequestType
      <3> HIDE DEF p
      <3>1. "returned" \in Stages
        BY DEF Stages
      <3> QED
        BY <1>1, <2>1, <2>2, <3>1 DEF RequestType
    <2>4. RequestInvOf(r)'
      BY <1>1, <1>2, <1>3, <2>1, NoRequestFacts
         DEF RequestInvOf, Passive, HasBoth, RequestType
    <2>5. request'[r].stage # "answered"
      BY <1>1, <2>1 DEF RequestType
    <2> QED
      BY <2>1, <2>3, <2>4, <2>5, AdvanceOutcome
  <1>11. CASE ReturnDestination(r) /\ ~Answer(r) /\ request[r].session
    <2>1. /\ request[r].stage = "returned" /\ UNCHANGED <<kept, executor, leaked, pc>>
          /\ request'[r] = [request[r] EXCEPT !.stage = "answered", !.buffers = {}]
          /\ request' = [request EXCEPT ![r] = request'[r]]
      BY <1>1, <1>11 DEF ReturnDestination, Works
    <2>2. request'[r] \in RequestType
      <3>1. "answered" \in Stages /\ {} \in SUBSET Sides
        BY DEF Stages
      <3> QED
        BY <1>1, <2>1, <3>1 DEF RequestType
    <2>3. RequestInvOf(r)'
      BY <1>1, <1>2, <1>3, <1>11, <2>1, NoRequestFacts
         DEF RequestInvOf, Passive, HasBoth, RequestType
    <2>4. request'[r].buffers = {}
      BY <1>1, <2>1 DEF RequestType
    <2> QED
      BY <2>1, <2>2, <2>3, <2>4, AdvanceOutcome
  <1>12. CASE ReturnDestination(r) /\ ~Answer(r) /\ ~request[r].session
    <2>1. /\ UNCHANGED <<kept, executor, leaked, pc>>
          /\ request'[r] = NoRequest
          /\ request' = [request EXCEPT ![r] = request'[r]]
      BY <1>1, <1>12 DEF ReturnDestination, Works
    <2> QED
      BY <2>1, NoRequestFacts, GoneOutcome, AdvanceOutcome
  <1>13. CASE CompleteTask(r) \/ SubmitReadTask(r) \/ SubmitWriteTask(r)
    <2>1. UNCHANGED queue
      BY <1>13 DEF CompleteTask, SubmitReadTask, SubmitWriteTask, Submits, Works
    <2>2. \/ Answer(r)
          \/ /\ Works(r, "allocated")
             /\ Advance(r, [request[r] EXCEPT !.stage = "submitted"])
          \/ /\ Works(r, "submitted")
             /\ Advance(r, [request[r] EXCEPT !.stage = "completed"])
      BY <1>13 DEF CompleteTask, SubmitReadTask, SubmitWriteTask, Submits
    <2>3. CASE Works(r, "allocated") /\ Advance(r, [request[r] EXCEPT !.stage = "submitted"])
      <3>1. \/ "allocated" = "allocated" /\ "submitted" = "submitted"
            \/ "allocated" = "submitted" /\ "submitted" = "completed"
        OBVIOUS
      <3> QED
        BY <1>7, <2>3, <3>1, Zenon
    <2>4. CASE Works(r, "submitted") /\ Advance(r, [request[r] EXCEPT !.stage = "completed"])
      BY <1>7, <2>4
    <2> QED
      BY <1>5, <2>1, <2>2, <2>3, <2>4
  <1>14. CASE GetSourceBuffer(r) \/ GetDestinationBuffer(r)
    <2>1. UNCHANGED queue
      BY <1>14 DEF GetSourceBuffer, GetDestinationBuffer, GetBuffer, Works
    <2> QED
      BY <1>5, <1>6, <1>14, <2>1 DEF GetSourceBuffer, GetDestinationBuffer
  <1>15. TakeRequest(r) \/ UNCHANGED queue
    BY DEF Work, RefuseOperation, GetSourceBuffer, GetDestinationBuffer, GetBuffer,
             AllocateReadTask, AllocateWriteTask, Allocates, SubmitReadTask, SubmitWriteTask,
             Submits, CompleteTask, FreeReadTask, FreeWriteTask, Frees, ReturnSource,
             DecRefcount, ReturnDestination, Works
  <1> QED
    BY <1>4, <1>5, <1>8, <1>9, <1>10, <1>11, <1>12, <1>13, <1>14, <1>15
       DEF Work, RefuseOperation

(* The queue holds the requests that are queued, each once.                *)
LEMMA QueueKept ==
  ASSUME IInv, RequestStep
  PROVE  QueueInv' /\ queue' \in Seq(Requests)
  <1>1. queue \in Seq(Requests) /\ request \in [Requests -> RequestType]
    BY DEF IInv, TypeOK
  <1>2. /\ \A i \in DOMAIN queue : request[queue[i]].stage = "queued"
        /\ \A i, j \in DOMAIN queue : queue[i] = queue[j] => i = j
    BY DEF IInv, QueueInv
  <1>3. \A i \in DOMAIN queue : queue[i] \in Requests
    BY <1>1
  <1>4. ASSUME NEW r \in Requests, UNCHANGED queue, Outcome(r),
               request[r].stage # "queued" \/ request'[r].stage = "queued"
        PROVE  QueueInv' /\ queue' \in Seq(Requests)
    BY <1>1, <1>2, <1>3, <1>4 DEF QueueInv, Outcome
  <1>5. CASE \E r \in Requests, b \in Buffers : FromExportedRemoteDescriptor(r, b)
    <2>1. PICK r \in Requests, b \in Buffers : FromExportedRemoteDescriptor(r, b)
      BY <1>5
    <2>2. request[r].stage # "queued" /\ UNCHANGED queue
      BY <2>1, NoRequestFacts
         DEF FromExportedRemoteDescriptor, CreateFromExport, GetRemoteMemoryRange
    <2> QED
      BY <1>4, <2>1, <2>2, RemoteOutcome
  <1>6. CASE \E r \in Requests : SubmitOperation(r)
    <2>1. PICK r \in Requests : SubmitOperation(r)
      BY <1>6
    <2>2. /\ request[r].stage = "remote" /\ queue' = Append(queue, r)
          /\ request' = [request EXCEPT ![r].stage = "queued"]
      BY <2>1 DEF SubmitOperation
    <2>3. /\ queue' \in Seq(Requests) /\ DOMAIN queue' = 1 .. Len(queue) + 1
          /\ DOMAIN queue = 1 .. Len(queue) /\ Len(queue) \in Nat
          /\ \A i \in 1 .. Len(queue) : queue'[i] = queue[i]
          /\ queue'[Len(queue) + 1] = r
      BY <1>1, <2>2
    <2>4. \A i \in 1 .. Len(queue) : queue[i] # r
      BY <1>2, <2>2, <2>3
    <2>5. \A i \in DOMAIN queue' : request'[queue'[i]].stage = "queued"
      BY <1>1, <1>2, <1>3, <2>2, <2>3, <2>4 DEF RequestType
    <2>6. \A i, j \in DOMAIN queue' : queue'[i] = queue'[j] => i = j
      BY <1>2, <2>3, <2>4
    <2> QED
      BY <2>3, <2>5, <2>6 DEF QueueInv
  <1>7. CASE \E r \in Requests : LeaveSession(r)
    <2>1. PICK r \in Requests : LeaveSession(r)
      BY <1>7
    <2>2. UNCHANGED queue
      BY <2>1 DEF LeaveSession
    <2>3. request[r].stage = "queued" => request'[r].stage = "queued"
      BY <1>1, <2>1 DEF LeaveSession, RequestType
    <2> QED
      BY <1>4, <2>1, <2>2, <2>3, LeaveOutcome
  <1>8. ASSUME NEW r \in Requests, Work(r) PROVE QueueInv' /\ queue' \in Seq(Requests)
    <2>1. CASE TakeRequest(r)
      <3>1. /\ queue # << >> /\ r = queue[1] /\ queue' = Tail(queue)
            /\ request' = [request EXCEPT ![r].stage = "taken"]
        BY <1>1, <2>1 DEF TakeRequest
      <3>2. /\ queue' \in Seq(Requests) /\ DOMAIN queue' = 1 .. Len(queue) - 1
            /\ DOMAIN queue = 1 .. Len(queue) /\ Len(queue) \in Nat \ {0}
            /\ \A i \in 1 .. Len(queue) - 1 : queue'[i] = queue[i + 1]
        BY <1>1, <3>1
      <3>3. \A i \in DOMAIN queue' : i + 1 \in DOMAIN queue /\ queue'[i] # r
        BY <1>2, <3>1, <3>2
      <3>4. \A i \in DOMAIN queue' : request'[queue'[i]].stage = "queued"
        BY <1>1, <1>2, <1>3, <3>1, <3>2, <3>3
      <3>5. \A i, j \in DOMAIN queue' : queue'[i] = queue'[j] => i = j
        BY <1>2, <3>2, <3>3
      <3> QED
        BY <3>2, <3>4, <3>5 DEF QueueInv
    <2>2. CASE ~TakeRequest(r)
      <3>1. UNCHANGED queue /\ request[r].stage # "queued"
        BY <1>8, <2>2
           DEF Work, RefuseOperation, GetSourceBuffer, GetDestinationBuffer, GetBuffer,
             AllocateReadTask, AllocateWriteTask, Allocates, SubmitReadTask, SubmitWriteTask,
             Submits, CompleteTask, FreeReadTask, FreeWriteTask, Frees, ReturnSource,
             DecRefcount, ReturnDestination, Works
      <3> QED
        BY <1>4, <1>8, <3>1, WorkOutcome
    <2> QED
      BY <2>1, <2>2
  <1> QED
    BY <1>5, <1>6, <1>7, <1>8 DEF RequestStep

(* So every step of the requests changes one of them, as Outcome says.     *)
LEMMA SomeOutcome ==
  ASSUME IInv, RequestStep
  PROVE  \E r \in Requests : Outcome(r)
  BY RemoteOutcome, SubmitOutcome, LeaveOutcome, WorkOutcome DEF RequestStep

(* Everything but the requests and what they spoil is as it was.           *)
LEMMA OutcomeKeeps ==
  ASSUME IInv, RequestStep
  PROVE  IInv'
  <1>1. PICK r \in Requests : Outcome(r)
    BY SomeOutcome
  <1>2. QueueInv' /\ queue' \in Seq(Requests)
    BY QueueKept
  <1>3. /\ executor \in ExecutorType /\ request \in [Requests -> RequestType] /\ strict \in BOOLEAN
        /\ stray \in BOOLEAN
    BY DEF IInv, TypeOK
  <1>4. /\ UNCHANGED <<strict, app, builder, list, device, ranges, map, exported, next,
                       misused, stray>>
        /\ pc' = pc \/ (pc' = "crashed" /\ pc \in ActivePlaces /\ executor.thread)
        /\ \/ executor' = executor
           \/ executor.thread /\ \E b \in BOOLEAN : executor' = [executor EXCEPT !.lost = b]
    BY <1>1 DEF Outcome
  <1>5. executor' = executor \/ executor # NoExecutor
    BY <1>4, NoExecutorFacts
  <1>6. /\ executor' \in ExecutorType
        /\ \A f \in {"rdma", "pe", "inventory", "ctx", "connected", "callbacks", "thread"} :
             executor'[f] = executor[f]
    BY <1>3, <1>4 DEF ExecutorType
  <1>7. TypeOK'
    <2>1. pc' \in Places
      BY <1>4 DEF IInv, TypeOK, Places
    <2>2. request' \in [Requests -> RequestType]
      BY <1>1, <1>3 DEF Outcome
    <2>3. leaked' \in SUBSET Kinds /\ kept' \in SUBSET (Buffers \cup {"remote"})
      BY <1>1 DEF Outcome, IInv, TypeOK, Kinds
    <2> QED
      BY <1>2, <1>4, <1>6, <2>1, <2>2, <2>3 DEF IInv, TypeOK, BuilderType
  <1>8. BuilderInv'
    BY <1>4 DEF IInv, BuilderInv, BuilderType, AllOrNothing
  <1>9. PlaceInv'
    BY <1>4, <1>5, <1>6
       DEF IInv, PlaceInv, ActivePlaces, Before, NoDevice, Threadless, Threaded, Ending, Places
  <1>10. MappedInv'
    BY <1>4, <1>5, <1>6 DEF IInv, MappedInv, ActivePlaces, Before, NoDevice, AllMapped
  <1>11. ExecutorInv'
    BY <1>4, <1>6 DEF IInv, ExecutorInv, Ready, ActivePlaces, Threadless, Threaded, Ending
  <1>12. ASSUME NEW s \in Requests PROVE RequestInvOf(s)'
    <2>1. CASE s = r
      BY <1>1, <2>1 DEF Outcome
    <2>2. CASE s # r
      <3>1. request'[s] = request[s]
        BY <1>1, <1>3, <2>2 DEF Outcome
      <3>2. RequestInvOf(s)
        BY DEF IInv, RequestInv
      <3> QED
        BY <1>4, <1>6, <3>1, <3>2 DEF RequestInvOf, FirstSide, ActivePlaces
    <2> QED
      BY <2>1, <2>2
  <1>13. RuinInv'
    <2>1. /\ kept \subseteq kept'
          /\ executor'.lost => executor.lost \/ kept' # {}
          /\ request'[r].stage = "answered" /\ "remote" \in request'[r].buffers => kept' # {}
          /\ leaked' = leaked \/ (strict /\ leaked' = leaked \cup {"remote map"} /\ kept' # {})
          /\ request' = [request EXCEPT ![r] = request'[r]]
      BY <1>1 DEF Outcome
    <2>2. executor'.lost => kept' # {}
      BY <2>1 DEF IInv, RuinInv
    <2>3. ASSUME NEW s \in Requests, request'[s].stage = "answered",
                 "remote" \in request'[s].buffers
          PROVE  kept' # {}
      <3>1. CASE s = r
        BY <2>1, <2>3, <3>1
      <3>2. CASE s # r
        BY <1>3, <2>1, <2>3, <3>2 DEF IInv, RuinInv
      <3> QED
        BY <3>1, <3>2
    <2>4. leaked' \cap {"inventory", "map", "remote map"} # {} => kept' # {}
      BY <2>1 DEF IInv, RuinInv
    <2>5. device' \in {"none", "live"} => "device" \notin leaked'
      <3>1. device' = device /\ leaked' \subseteq leaked \cup {"remote map"}
        BY <1>4, <2>1
      <3> QED
        BY <3>1 DEF IInv, RuinInv
    <2>6. "device" \in leaked' => leaked' # {"device"}
      BY <2>1 DEF IInv, RuinInv
    <2>7. strict' => misused' = {}
      BY <1>4 DEF IInv, RuinInv
    <2>8. ~strict' => leaked' = {}
      BY <1>4, <2>1 DEF IInv, RuinInv
    <2>9. ~stray'
      BY <1>4 DEF IInv, RuinInv
    <2> QED
      BY <2>2, <2>3, <2>4, <2>5, <2>6, <2>7, <2>8, <2>9 DEF RuinInv
  <1> QED
    BY <1>2, <1>7, <1>8, <1>9, <1>10, <1>11, <1>12, <1>13 DEF IInv, RequestInv

(* The invariant holds for any buffers and requests.                       *)
THEOREM ResourcesCorrect == Spec => []IInv
  <1>1. Init => IInv
    <2> SUFFICES ASSUME Init PROVE IInv
      OBVIOUS
    <2>1. BuilderInv
      BY BuilderInit
    <2>2. TypeOK
      <3>1. pc \in Places /\ device \in Handles /\ list \in Handles
        BY DEF Init, Places, Handles
      <3>2. map \in [Buffers -> Handles]
        BY DEF Init, Handles
      <3>3. request \in [Requests -> RequestType]
        BY NoRequestFacts DEF Init
      <3>4. executor \in ExecutorType /\ next \in ExecutorType
        BY NewExecutors DEF Init
      <3>5. /\ ranges \in SUBSET Buffers /\ exported \in SUBSET Buffers /\ queue \in Seq(Requests)
            /\ kept \in SUBSET (Buffers \cup {"remote"})
            /\ leaked \in SUBSET Kinds /\ misused \in SUBSET {"context"}
        BY DEF Init
      <3>6. /\ strict \in BOOLEAN /\ stray \in BOOLEAN
            /\ app \in {"client", "server", "discovery"}
        BY DEF Init
      <3> QED
        BY <2>1, <3>1, <3>2, <3>3, <3>4, <3>5, <3>6 DEF TypeOK, BuilderInv
    <2>3. PlaceInv
      BY <2>2 DEF Init, PlaceInv, TypeOK, Before, NoDevice, Threadless, Threaded, Ending
    <2>4. MappedInv
      BY DEF Init, MappedInv, Before, NoDevice
    <2>5. ExecutorInv
      BY NoExecutorFacts DEF Init, ExecutorInv, Threadless, Threaded, Ending
    <2>6. RequestInv
      BY NoRequestFacts DEF Init, RequestInv, RequestInvOf, Passive, HasBoth
    <2>7. QueueInv
      BY DEF Init, QueueInv
    <2>8. RuinInv
      BY NoRequestFacts DEF Init, RuinInv, NoExecutor
    <2> QED
      BY <2>1, <2>2, <2>3, <2>4, <2>5, <2>6, <2>7, <2>8 DEF IInv
  <1>2. IInv /\ [Next]_vars => IInv'
    <2> SUFFICES ASSUME IInv, [Next]_vars PROVE IInv'
      OBVIOUS
    <2>1. CASE RequestStep
      BY <2>1, OutcomeKeeps
    <2>2. CASE ~RequestStep
      <3>1. BuilderInv'
        BY BuilderNext DEF IInv
      <3>2. PlaceInv'
        BY <2>2, PlaceKept
      <3>3. stray' = FALSE
        BY <2>2, NothingStray
      <3> QED
        BY <2>2, <3>1, <3>2, <3>3, TypesKept, MappedKept, ExecutorKept, RequestsKept, RuinKept
           DEF IInv
    <2> QED
      BY <2>1, <2>2
  <1> QED
    BY <1>1, <1>2, PTL DEF Spec

(* TypeOK: every variable has its type.                                    *)
THEOREM ResourcesTypeCorrect == Spec => []TypeOK
  <1>1. IInv => TypeOK
    BY DEF IInv
  <1> QED
    BY <1>1, ResourcesCorrect, PTL

(* OneRunning: of all contexts that Serve() and Connect() ever started only*)
(* one runs.                                                               *)
THEOREM OneContextRuns == Spec => []OneRunning
  <1>1. IInv => OneRunning
    BY DEF IInv, RuinInv, OneRunning
  <1> QED
    BY <1>1, ResourcesCorrect, PTL

(* OperationBacked: what the device works with is there until it is done,  *)
(* and the exported maps as long as the context runs.                      *)
THEOREM OperationsAreBacked == Spec => []OperationBacked
  <1>1. IInv => OperationBacked
    <2> SUFFICES ASSUME IInv PROVE OperationBacked
      OBVIOUS
    <2>1. ASSUME NEW r \in Requests, request[r].stage = "submitted"
          PROVE  /\ executor.rdma = "live" /\ executor.ctx = "running"
                 /\ executor.pe = "live" /\ executor.connected /\ executor.callbacks
                 /\ executor.inventory = "live"
                 /\ map[request[r].buffer] = "live" /\ request[r].buffer \in ranges
                 /\ request[r].remote = "live"
                 /\ request[r].buffers = Sides /\ request[r].task
      <3>1. /\ executor.thread /\ pc \notin Ending /\ executor.inventory = "live"
            /\ request[r].remote = "live" /\ request[r].buffer \in Buffers
            /\ request[r].buffers = Sides /\ request[r].task
        BY <2>1 DEF IInv, RequestInv, RequestInvOf, Passive, HasBoth, ActivePlaces, Ending
      <3>2. Ready(executor)
        BY <3>1 DEF IInv, ExecutorInv
      <3>3. AllMapped
        BY <3>1, NoExecutorFacts DEF IInv, MappedInv
      <3> QED
        BY <3>1, <3>2, <3>3 DEF Ready, AllMapped
    <2>2. ASSUME executor.ctx = "running", NEW b \in exported
          PROVE  map[b] = "live" /\ b \in ranges /\ device = "live"
      BY <2>2, NoExecutorFacts DEF IInv, MappedInv, AllMapped, TypeOK
    <2> QED
      BY <2>1, <2>2 DEF OperationBacked
  <1> QED
    BY <1>1, ResourcesCorrect, PTL

(* NothingLost: when the device is closed nothing is left, and what nobody *)
(* can destroy is explained.                                               *)
THEOREM NothingIsLost == Spec => []NothingLost
  <1>1. IInv => NothingLost
    <2> SUFFICES ASSUME IInv PROVE NothingLost
      OBVIOUS
    <2>1. ASSUME device \in {"gone", "refused"}
          PROVE  /\ executor = NoExecutor /\ next = NoExecutor /\ builder = NoBuilder
                 /\ \A b \in Buffers : map[b] # "live"
                 /\ \A r \in Requests : request[r] = NoRequest
      <3>1. /\ pc = "over" /\ executor = NoExecutor /\ next = NoExecutor
            /\ \A b \in Buffers : map[b] # "live"
        BY <2>1 DEF IInv, MappedInv
      <3>2. builder = NoBuilder
        BY <3>1 DEF IInv, PlaceInv
      <3>3. ASSUME NEW r \in Requests PROVE request[r] = NoRequest
        BY <3>1 DEF IInv, RequestInv, RequestInvOf, Passive, ActivePlaces
      <3> QED
        BY <3>1, <3>2, <3>3
    <2> QED
      BY <2>1 DEF NothingLost, IInv, RuinInv
  <1> QED
    BY <1>1, ResourcesCorrect, PTL
=============================================================================
