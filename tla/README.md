# A TLA+ model of doca-cpp

doca-cpp wraps NVIDIA DOCA in C++. Its own logic is in the RDMA part: a server
that owns named buffers ("endpoints"), clients that ask over TCP for permission
to read or write one, and executors that perform the RDMA operations. This
directory models that logic, checks it with TLC and proves its safety properties with
TLAPS. Paths below are relative to `src/doca-cpp/`.

## 1. Inventory

| component | state | operations | hard behaviour | what makes it correct |
|---|---|---|---|---|
| Endpoint storage (`src/rdma/rdma_endpoint.cpp`) | map from "type:path" to an endpoint with a mutex and a locked flag | RegisterEndpoint, TryLockEndpointsByPath, UnlockEndpointsByPath, GetEndpoint, MapEndpointsMemory | the flags of a path are taken one by one, each under its own mutex | a path is granted to one session at a time, a set flag has an owner |
| Executor (`src/rdma/internal/rdma_executor.cpp`, `rdma_awaitable.cpp`) | operation queue, worker thread, promises, buffer inventory, requested and active connection, task state | Start, SubmitOperation, the worker's loop and executeRead/executeWrite, Progress, Stop, destructor, ConnectToAddress, ListenToPort, connection callbacks | condition variable, callbacks on whichever thread polls, closing while submissions are under way, unbounded waits | each accepted operation is answered once, in order; callers and Stop() return; buffers come back |
| Session protocol (`src/rdma/internal/rdma_session.cpp`) | one coroutine per TCP connection on each side | HandleServerSession, HandleClientSession, request, response, acknowledge | timeouts against late messages, hang-ups, an error of one session ends Serve() for all | the buffer belongs to one request from grant to acknowledge; requests end; the path is given back |
| Server (`src/rdma/rdma_server.cpp`) | continueServing, isServing, shutdownForced, a mutex, a condition variable, the io_context, serverInternalError | RegisterEndpoints, Serve, Shutdown | Shutdown() against Serve() on another thread, notification without the mutex | one Serve() at a time, Shutdown() returns and tells the truth, Serve() ends |
| Client (`src/rdma/rdma_client.cpp`) | executor, endpoints | Connect, RegisterEndpoints, RequestEndpointProcessing | two event loops polled by one thread, an executor shared with the worker | a request returns |
| Communication (`src/rdma/internal/rdma_communication.cpp`) | none | serialise and parse requests, responses, acknowledges | no bounds are checked | what one side serialises the other parses, inside its buffer |
| Connection (`src/rdma/internal/rdma_connection.cpp`, callbacks in `rdma_executor.cpp` 394-432) | requested and active slot | requested, established, failed, closed; accept, reject | events of one connection change the slot of another | a slot names the connection the device has |
| Engine, task, RDMA buffer (`rdma_engine.cpp`, `rdma_task.cpp`, `rdma_buffer.cpp`) | `doca_rdma`, tasks, the memory range and map of a buffer | build, callbacks, allocate, submit, free, map, export | the order of teardown, the engine before its context | what the device works on is alive; nothing is lost without a reason |
| Core (`src/core/`) | context, progress engine, buffers, inventory, memory maps, device list and device | builders, start, stop, reference counts, destructors | builders that carry an error along; objects that DOCA refuses to destroy | an object is handed over configured in full or not at all; one context runs |
| Samples (`../samples/`) | - | the mains that make, use and drop all of it | each step may fail | the device goes last |
| Flow, logging, types and errors, research | - | - | - | - |

How they meet. A client's thread calls RequestEndpointProcessing, which connects
a socket, runs HandleClientSession in an io_context of its own, and between
polls runs the executor's Progress(). HandleClientSession submits the RDMA
operation to the client's executor and blocks on its future for at most 5 s; the
worker executes it and polls the device too. On the server all sessions run on
the thread that called Serve(), which alternates between the executor's
Progress() and `ioContext.poll()`; they share the endpoint storage and the error
variable that ends Serve(). Shutdown() comes from another thread.

`PROJECT.json` lists every component with its status, and every hazard with its
line and the properties aimed at it.

## 2. Modules

    EndpointLock      <---- implements ---- EndpointStorage      EndpointStorageProofs
         ^                                   MCEndpointStorage
         | assumed by
    RdmaSession                              MCRdmaSession        RdmaSessionProofs
    MessageExchange   <---- implements ---- RdmaMessages         RdmaMessagesProofs
                                             MCRdmaMessages
    OperationService  <---- implements ---- RdmaExecutor         RdmaExecutorProofs
                                             MCRdmaExecutor
    RdmaServer                               MCRdmaServer         RdmaServerProofs
    RdmaConnections                          MCRdmaConnections    RdmaConnectionsProofs
    NativeBuilder     <---- extends ------- RdmaResources        RdmaResourcesProofs
                                             MCRdmaResources

### EndpointStorage, EndpointLock

`EndpointStorage` is the storage at the grain of the code: a call walks the
endpoints of its path in the order of the map (`todo`, `IsNext`), and each visit
is one step under that endpoint's mutex. `locked` is
`StoredEndpoint::endpointLocked`, `wasLocked` the local variable that
TryLockEndpointsByPath returns, `pc` where a caller is. `SingleLoop` says whether
all calls come from one thread, as RdmaServer makes them: neither operation
suspends, so one call is over before the next begins. `RegistersFirst` says whether
all endpoints are registered before Serve(), as its error text demands
(rdma_server.cpp:99); RegisterEndpoint does not test it, so this is an assumption about
the caller. Without it `Exclusive` does not hold: an endpoint registered under a path
that is held brings a clear flag, and one clear flag is enough for the next session to
be granted the path. With `SingleLoop` FALSE,
that is if the storage were shared by threads (rdma_endpoint.hpp:204 calls it
thread-safe), `Exclusive` does not hold: two threads can each be first at a
different endpoint of a path and both be told that it is theirs. `NoOrphanLock` is
proved without either assumption.

`EndpointLock` is what the sessions rely on: an atomic lock per path, granted to
one, refused only while somebody has it. The refinement mapping shows a caller
as the holder from the moment its call returned true until its unlocking call
begins.

### RdmaExecutor, OperationService

`RdmaExecutor` has three kinds of threads: the worker (`worker` is its place in
workerLoop and executeRead/executeWrite), one caller per operation, and whoever
runs Stop() or drops the last reference (`closing`, `closer`). What a thread does
under `queueMutex` is one step; notifications are steps of their own, as they
come after the mutex is released. The device completes or fails a submitted task
and makes connections come and go; its callbacks run only while somebody is in
Progress() (`Polled`). executeRead and executeWrite have the same control and are
modelled once. `free` counts the elements of the buffer inventory. A null
dereference (no inventory because Start() looks at `err` where it means `invErr`,
a connection that went away between its check and its use, the join of a worker
that was never started) is a state in which the process takes no further step.

`OperationService` is the promise to the submitters: accepted operations are
answered one by one, in order, each exactly once, none is forgotten when the
service is closed, and a closed service refuses with an error. The mapping makes
`pending` the request in the worker's hand followed by the queue.

### RdmaSession

Each client makes one request over a connection of its own; the session that
serves it has the client's name. A step of a session is what its coroutine does
between two `co_await`s, and only one coroutine runs at a time. `toServer` and
`toClient` are the bytes on their way. `rdma` is the operation in the client's
executor, which goes on when the client no longer waits for it. `buffer` says who
wrote a path's buffer last, `processed` what the server's service was given, `got`
what a read fetched. `holders` and `verdict` are the variables of EndpointLock.

`RdmaSession` assumes the storage's atomic lock, which the theorem
`ImplementsLock` justifies. EndpointLock lets only a holder give a path back; the
storage itself does not know who holds what, and UnlockEndpointsByPath clears the flags
for anybody (`Unlock`). That the sessions do not clear each other's flags is a property
of their protocol, `LockKept`. `ServeReturns` models the end of Serve() by
serverInternalError, `Shutdown` the one by continueServing: the io_context takes
all coroutines with it, where they are, and the locked flags stay in the storage.
`ServeAgain` is the next call of Serve() on the same server. `Spinning` is the
session of a client that has closed its socket: ReceiveRequest fails at once and
is called again, so poll() does not return.

`timersExpire` is chosen at the start and says whether the 5 s timers of request,
operation and acknowledge may strike. An operation given up after 5 s stays with
the executor and is executed later, when the server has unlocked the path and
another session may have it (rdma_awaitable.cpp:20): `OperationUnderLock`,
`ReadsPrepared` and `WritesProcessed` fail as soon as one timer strikes, and are
therefore stated for the behaviours in which none does. They say that nothing else
breaks the exclusive use. The 3 s wait for an RDMA connection may always fail.

### RdmaMessages, MessageExchange

The codecs as functions on sequences of bytes, and the framing: a length and a
payload, written and read by one operation of asio each, over a stream that
delivers any part of the bytes at a time (`arrived`). `client` and `server` are the
places in the coroutines. The parsers do not look at the size of their buffer;
`outside` notes a read beyond its end. The timer of ReceiveAcknowledge may cancel a
read anywhere, what had arrived being lost (`StrikeTimer`, `struck`); from then on
the server reads the rest of the acknowledge as a request. `ParsesBack` says that
this is the only way for the two sides to get out of step.

`MessageExchange` is what the two sides take the connection for: a channel of whole
messages in each direction, from which each reads the next message of the kind it
waits for, and a read fails only when the peer has left and nothing is unread. The
mapping counts a message as put into the channel by the second write, and as taken by
the parser; the writes and reads of lengths, and the delivery of bytes, are no steps of
the exchange. Once the timer has struck, nothing is said of what the server reads any
more (`ReadAstray`), but the client's side still is a channel. That the bytes implement
this is why RdmaSession may treat a message as one thing.

### RdmaServer

The flags and the condition variable between Serve(), called by several threads,
and Shutdown(). The test of the predicate and the sleep in `wait_for` are two
steps between which `serveMutex` is held (`MutexFree`); the deferred action of
Serve() needs no mutex and can fall between them. `accepting` is the accept loop,
which ends for good when async_accept or set_option throws (`AcceptThrows`). The
sessions appear as what they do to the loop: set or reset serverInternalError, and
keep poll() from returning once a client has hung up.

### RdmaConnections

A server's executor has room for one RDMA connection: `requested` and `active` are
its two slots, the actions OnConnectionRequested, OnConnectionEstablished and
OnConnectionClosed the callbacks that fill and clear them. Each connection is one
call of RdmaClient::Connect(). The device moves `link` and queues `serverEvents`,
in order for each connection; a callback is delivered by the loop of Serve(). Once a
client has closed the TCP connection of a request (`HangUp`, `stuck`) its session keeps
poll() from returning, as in RdmaServer, and the loop calls Progress() no more: then only
the session of another client delivers callbacks, while it waits in
WaitForEstablishedConnection, that is while nothing is active. `ServerLearns` and
`ServerLetsGo` are stated up to that point, the safety properties beyond it. A
client may leave at any time, also before the server has answered it, and the wait
of Connect() may be over before the connection is up. ServeAgain replaces the
executor and so empties both slots.

OnConnectionClosed clears the active slot whosever end it is told. What DOCA
reports about a connection that was never accepted is not in the repository, so
`tellsAll` leaves it open: chosen at the start, it says whether the end of a
rejected or unanswered connection is reported to the server. If it is, the active
connection can be dropped from its slot while it is up, and a second client gets
in; `OneClient`, `ActiveKept` and `ServerLearns` are therefore stated for the other
case, and the remaining properties for both.

### RdmaResources, NativeBuilder

The native DOCA objects of one process and who owns them. `app` is the program: the
client or the server of the samples, or the device discovery; `pc` is where its main
thread is, from the parsing of the configuration to the end of main(). `executor` is
the member of the server or client, `next` the one that Serve() or Connect() is
making while the old one still exists; each is a record of native objects, whose
creation and destruction follow RdmaExecutor::Start() and the order of its members.
`request` holds the remote map, the buffers and the task of each operation while the
worker and the device use them and the session may have left. Every call of DOCA may
fail, and Serve() and Connect() may be called again after any failure.

What DOCA does when an object that is in use is destroyed is not in the repository:
`strict`, chosen at the start, says whether it refuses, so that the object is
`leaked`, or destroys it, so that a later use is `misused`. Both happen here: the
destructor of the executor destroys the engine's doca_rdma and the progress engine
before the context that runs on them is stopped (rdma_engine.cpp:109), and the error
returns of executeRead and executeWrite keep the buffers they took, so that the maps
of these buffers are in use for ever (`kept`). `NothingLost` says that nothing else is
lost, and `OneRunning` that in spite of it no context is left running.

`NativeBuilder` is the part about builders: the chains of calls that make a memory
map, an RDMA engine and a buffer inventory, carry the first error along and return it
at their end.

### Simplifications

- The clients of RdmaSession may be threads of one RdmaClient or successive ones: at
  most one executor is connected to the server at a time (RdmaConnections), but every
  request has a TCP connection of its own. That operations of one executor are queued
  is not used: they may run side by side.
- In RdmaSession a message is written and read whole (see MessageExchange), and a path is
  a model value.
  What follows when the server parses a late acknowledge as a request is a choice
  there: an unknown path, an exception, a crash. The bytes are in RdmaMessages.
- Buffers of RdmaResources have one endpoint each; a path's read and write endpoint
  share theirs. The configuration and the names of devices are not looked into.
- Services supplied by the user return errors and do not throw. The read and the
  write endpoint of a path are taken to share their buffer.
- A client leaves by destroying its io_context at the end of
  RequestEndpointProcessing, whatever the result.
- `RdmaSessionClient::Connect` ends without `co_return` on success; the caller may
  see an error or none. `errors::Wrap` of a null error may or may not be an error:
  the errors library is external.
- In RdmaSession Serve() is called again only after it returned an error; after a
  Shutdown() continueServing stays false and Serve() returns at once (in RdmaServer).

## 3. Runs

| run | instance | shows |
|---|---|---|
| `endpoints_loop` | 3 sessions, 2 paths, one thread, registration first | types, `Exclusive`, `NoOrphanLock`, and that the flag by flag locking implements EndpointLock |
| `executor` | 2 operations, 3 inventory elements | types, implementation of OperationService, no promise left when closed, loss of buffers bounded by failures, and that operations, callers and closing end |
| `executor_connection` | the same | **violated**: `ConnectionChecked`. The connection goes away between its check and its use |
| `session` | 2 clients, 1 path, timers striking or not | nobody but the session that was granted a path gives it back, nothing is held between requests, no service runs without an acknowledge, requests end, a session that waits for an acknowledge gives its path back in the end; and where no timer strikes, operations run only under the path's lock, successful reads fetch what was prepared for them, services get what a successful writer wrote |
| `session_ack` | 2 clients | **violated**: `OnlyCompletedProcessed`. The server does not look at the acknowledge's code |
| `session_leak` | 2 clients | **violated**: `RefusedForAnother`. A session ends with an error, its path stays locked, and the next one to ask for it is refused although no session has it; the flags outlast Serve() too |
| `connections` | 3 connections, both kinds of device | an established connection finds its slot free, one client at a time is let in and kept; as long as no client has hung up, a dead active connection is let go and one that is up is learned of |
| `connections_stuck` | 2 connections | **violated**: `RejectedForAnother`. A requested connection that is never established keeps its slot, and every later one is rejected for it |
| `server` | 2 threads in Serve(), 1 in Shutdown() | one serves at a time, Shutdown() returns and its answer is true; a session's error ends Serve() unless another session overwrites it, a Shutdown() does while no client has hung up |
| `server_hangup` | the same | **violated**: `ShutdownStops`. After a hang-up neither Shutdown() nor its forced stop ends Serve() |
| `resources` | 2 buffers, 2 requests, both kinds of DOCA | what the device works on is alive, also when the session has left; builders hand over all or nothing; one context runs; what is lost is explained |
| `messages` | 3 paths, 2 descriptors, cuts up to 6 bytes | each side parses what the other serialised, message for message, inside its buffer, until a timer strikes; the bytes implement MessageExchange |

Each violated run states what a comment or a document of the repository says;
`PROJECT.json` ("findings") quotes the line.

**Bounds.** Two types times two paths give the storage the smallest maps in which
calls overlap on some endpoints and not on others; three sessions leave one to be
refused while two interfere. In the executor two operations suffice for one in the
worker's hand with one queued behind it, and three inventory elements for one
failing operation to leave too few for the next. One path is where sessions
contend, and two clients reach every violation listed; what holds of them is proved for
any number. No module but RdmaMessages has a counter that needs a cap: requests,
operations and messages are limited by the number of clients. Three connections let
one be active while another is turned away and a third takes its chance when the
first one's slot is cleared. In RdmaServer the calls of Serve() and Shutdown() repeat
without a bound. Two requests are enough for one to use the worker and the device
while the other waits in the queue or is torn down, and two buffers for one map to be
lost while another is not; the process may go through Serve() or Connect() any
number of times. The paths are empty, of two bytes that could be taken for codes, and
of 256 bytes, the descriptors of five and 257, so that lengths cross a byte;
`MaxCut` = 6 cuts the stream anywhere within a length (4 bytes) and after the first
byte of a payload, longer pieces being delivered whole.

**Symmetry** is used in runs without liveness only (`endpoints_loop` over sessions and
paths, `resources` over buffers and requests); neither specification distinguishes their
members.

**Fairness.** Threads of the process that can run do run: the worker, a caller
inside the executor, whoever closes it (RdmaExecutor); each client's thread and
each step of a session, because poll() runs the handlers in turn, and Serve()'s
return (RdmaSession); the loop of Serve() that delivers the callbacks, until a client has
hung up (`LoopCallback`: from then on the loop stays inside poll(), and nothing is
assumed of the sessions that may still wait for a connection, RdmaConnections);
each thread inside Serve() or Shutdown() (RdmaServer).
`TimeOut` in RdmaServer is strongly fair: `wait_for` computes its deadline once, so
spurious wakeups do not put it off. Nothing is assumed of the users' calls, of
spurious wakeups, or of the device; where something depends on the device it says
so (`HardwareAnswers`), and `NeverCrashes` sets the null dereferences aside.
Timeouts are part of the client's and the session's fair steps: a timer that may
expire does, unless what it waits for comes first. `RequestReturns` and
`PathReleased` are about the behaviours with `timersExpire`. NativeBuilder,
RdmaResources and RdmaMessages have safety properties only and no fairness.

**Deadlock** is checked in the storage's and the server's runs, which never stop.
Executor, session, connections, resources and messages come to their natural end
(closed or crashed; every client done; main() over), so their runs do not check it; that nobody
is left waiting is a liveness property there.

## 4. Proofs

TLAPS checks the following for every value of the constants.

- **EndpointStorageProofs.** `TypeCorrect`, `NoOrphan` (any threads),
  `ExclusiveOnOneThread` and `ImplementsLock` (`SingleLoop`, `RegistersFirst`).
  `NoOrphanLock` needs that a call visits only endpoints of its path and that only registered endpoints
  are locked (`Base`). `Exclusive` is not inductive: `LoopInv` adds that one call
  runs at a time, that a holder's endpoints are all locked, that a locking loop
  leaves locked whatever it passed and has found a free flag only if nobody has the
  path, and that nobody has a path while its flags are cleared. Without these,
  "found any of them free" would not imply that the path was free.
- **RdmaExecutorProofs.** `ExecutorTypeCorrect`, `AllAnsweredWhenClosed`,
  `ImplementsService`, `LossIsBounded` and `WakeupsNotLost`. The invariant `Inv`: the worker has a request
  in hand exactly while it executes one; it exits only with the flag down and the queue
  empty, and neither changes afterwards; a pending request is unanswered and queued
  once; a submitted operation without an answer is pending. `StepKinds` reduces every
  action to accepting, refusing, answering, or none of these, so that the induction
  over the queue is done once for each. `LossInv` carries the inventory's books through
  an operation: what is missing is held by the worker (`Held`) or was lost by an
  operation that failed, and `FailedGrows` that no failure is ever forgotten, because
  an answer is given once.
  `WakeupsNotLost` is the safety core of `AcceptedAnswered` and `ClosingEnds`: a
  sleeping worker is never joined, and no caller waits for one unless some caller has
  yet to notify it. `WakeInv` names the waker (the caller that queued, the closer that
  lowered the flag), `DownInv` says the flag stays down from then on, and `Inv` adds
  that what an asleep worker owes is in the queue. No run lists `NoLostWakeup`: the
  `executor` run checks the two liveness properties that it serves.
- **RdmaServerProofs.** `ServerTypeCorrect`, `OneServesAtATime` and
  `AnswersAreTrue`. `OneServes` is inductive together with the types, since it ties
  the flag to the thread that raised it; the action property follows from it.

- **RdmaConnectionsProofs.** `ConnectionsTypeCorrect`, `ActiveIsAlwaysLive`,
  `SlotIsFreeWhenEstablished`, `OneClientAtATime` and `ActiveIsKept`, for any number of
  connections. The invariant adds what the server has yet to be told of a connection in
  each state of its link (`Shape`), that one slot is filled at a time (`OneSlot`), that a
  connection that is accepted, or established without the server knowing it, is the
  requested one and the other slot is free (`GrantedRequested`), that the active one is
  up with nothing left to tell, or down with its disconnect on the way (`ActiveKnown`),
  and, unless the device tells of all ends, that an end on the way belongs to a
  connection in a slot (`EndsOfOwn`) and a connection that is up and announced is the
  active one (`UpIsActive`). The five properties are not inductive without them: that the
  slot is free, for instance, rests on who was accepted before.
- **RdmaSessionProofs.** `SessionTypeCorrect`, `NothingIsHeldBetweenRequests`,
  `ServiceIsAfterAcknowledge`, `OperationIsUnderLock`, `ReadsFetchPrepared`,
  `WritesReachService` and `PathStaysWithHolder`, for any number of clients and paths. The
  invariant says who may hold a path at which place of his coroutine (`Locks`), what can
  be on the way in each direction at each pair of places (`Network`), what an operation,
  its answer and its acknowledge say of each other (`Operation`), and, for behaviours in
  which no timer strikes, that a client that has been permitted is still waited for by
  a session that holds its path, with the buffer as the service or the client left it
  (`Timely`). `PathStaysWithHolder` rests on `Locks`: a session that comes to an unlock
  holds its path alone, so that whoever's flags it clears are its own.

- **RdmaResourcesProofs.** `ResourcesTypeCorrect`, `ObjectsWholeOrAbsent`,
  `OperationsAreBacked`, `OneContextRuns` and `NothingIsLost`, for any number of buffers
  and requests and both kinds of DOCA. The invariant has seven parts: what a builder has
  set so far (`BuilderInv`); what the main thread has made, mapped and started at each of
  its places (`PlaceInv`, `MappedInv`, `ExecutorInv`); what a request owns at each stage,
  and that the main thread is not past joining the worker while one is worked on
  (`RequestInv`); that the queue holds the queued requests, each once (`QueueInv`); and
  why something was lost (`RuinInv`). `OperationBacked` needs all of them: that the
  inventory, the context and the maps are there follows from the main thread's place, and
  the main thread's place from the request. A step of the main thread leaves the requests
  alone, and a step of a request changes that request and little else, so that the two
  halves are proved apart.

- **RdmaMessagesProofs.** `CodecsInvert`, `MessagesTypeCorrect`, `MessagesParseBack`
  and `ImplementsExchange`, for any paths and descriptors and any way of cutting the
  stream. The codecs come first: four bytes and the number they are read back as
  (`ValueBack`), and the layout of type, length and payload (`LongFormBack`). `ParsesBack`
  is not inductive: `ServerInv` says at each place of the client what is before the
  server, namely nothing (`Quiet`), the length of one message (`HalfSent`) or all of it
  (`Whole`), with the server before the length or before the payload, and that it is of
  the kind the server reads it as; for this the client's place must fit the answer it
  was given (`Answered`). It holds until the timer strikes. `ClientInv` says of the
  other stream that the first response comes first, whatever follows, and holds with the
  timer too. For the refinement, each write or read of a payload changes the channel of
  one reader by one message (`WriteToServer`, `ReadByServer`, `WriteToClient`,
  `ReadByClient`), and a read that fails has lost none (`RestLost`).

Assumptions of the proofs: `SingleLoop` and `RegistersFirst` are Booleans, `Capacity` and
`MaxCut` are natural numbers, `None` is no connection, `Unserved` no served path and `Nobody` no client; paths
and descriptors are sequences of bytes, none so long that its message has 2^32 bytes
(`LengthAssumption`): the code casts each length to a `uint32_t` without a test
(rdma_communication.cpp:43). The two theorems about one thread assume
`SingleLoop` and `RegistersFirst` in their statement.

Only model-checked: the liveness properties, since fairness and ENABLED are beyond the
prover.

## 5. Not modelled

- Flow (`src/flow/`): unfinished and not called by the RDMA part. The destructors and
  move constructors of its builders are declared and defined nowhere, and
  FlowPort::Builder copies a configuration that can only be moved, so that no program can
  use it: there is no behaviour to model.
- Send and receive tasks (`rdma_task.cpp`), FlushTasks, GetNumInflightTasks, the PCI
  export of a memory map, the accessors of Buffer, and GetBuffer and SetBuffer of
  the tasks: called by nobody in the repository. (RdmaReadTask::GetBuffer,
  rdma_task.cpp:282-287, returns the destination for both types: an `else` is missing.)
- Value types, error conversion and logging: no state.
- Research (`../research/`): a draft that is not part of the build.
- What errors::Wrap makes of a null error: the library is not in the repository, and
  ConnectToAddress wraps one when its wait fails (rdma_executor.cpp:369). In
  RdmaConnections that is one way for Connect() to return.

What could still be added: the composition of RdmaSession with RdmaExecutor in one state
space, which would replace the independent operations of the sessions by the executor's
queue.
