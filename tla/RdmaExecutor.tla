---------------------------- MODULE RdmaExecutor ----------------------------
(***************************************************************************)
(* RdmaExecutor (rdma_executor.cpp): the operation queue with its mutex    *)
(* and condition variable, the one worker thread that executes operations, *)
(* the promise each request carries, the buffer inventory, and Stop() and  *)
(* the destructor.                                                         *)
(*                                                                         *)
(* The threads are the worker, one caller per operation (a client thread   *)
(* in RequestEndpointProcessing: it polls the progress engine, submits,    *)
(* waits with a timeout) and the thread that closes the executor.  What a  *)
(* thread does under queueMutex is one step.  The RDMA device, external,   *)
(* completes or fails the submitted task and reports connection changes.   *)
(***************************************************************************)
EXTENDS Naturals, Sequences, FiniteSets

CONSTANTS Ops,     (* the operations, each submitted by a caller of its own*)
          Capacity (* initialBufferInventorySize: elements in the inventory*)

ASSUME CapacityAssumption == Capacity \in Nat

VARIABLES
    workerRunning, (* the atomic flag                                      *)
    worker,        (* what the worker thread does next                     *)
    queue,         (* operationQueue                                       *)
    inHand,        (* the request the worker has popped: none or one       *)
    outcome,       (* the response it is going to put in the promise       *)
    task,          (* taskState of the operation in hand                   *)
    promise,       (* responcePromise of each operation                    *)
    caller,        (* what each caller does next                           *)
    result,        (* what each caller was told                            *)
    connected,     (* activeConnection # nullptr                           *)
    inventory,     (* bufferInventory # nullptr                            *)
    free,          (* elements left in the inventory                       *)
    closing,       (* progress of Stop() or of the destructor              *)
    closer         (* which of the two runs                                *)

workerVars == <<worker, inHand, outcome, task>>
callerVars == <<caller, result>>
closeVars  == <<closing, closer>>
vars == <<workerRunning, workerVars, queue, promise, callerVars, connected,
          inventory, free, closeVars>>

WorkerStates == {"notStarted", "test", "asleep", "check", "getSource", "getDestination",
                 "allocate", "submit", "await", "release", "reply", "exited",
                 "noInventory", "noConnection"}

(* A null pointer was dereferenced: the process is gone, and no thread of  *)
(* it takes another step.                                                  *)
Crashed == worker \in {"noInventory", "noConnection"} \/ closing = "noThread"

Init ==
    /\ workerRunning = FALSE
    /\ worker = "notStarted"
    /\ queue = << >>
    /\ inHand = << >>
    /\ outcome = "error"
    /\ task = "none"
    /\ promise = [op \in Ops |-> "none"]
    /\ caller = [op \in Ops |-> "polling"]
    /\ result = [op \in Ops |-> "none"]
    /\ connected = FALSE
    /\ inventory = FALSE
    /\ free = 0
    /\ closing = "no"
    /\ closer = "none"

(* queueCondVar.notify_one(): the worker is the only thread that waits.    *)
WakeWorker == worker' = IF worker = "asleep" THEN "test" ELSE worker

-----------------------------------------------------------------------------
(* Start().  A failed step returns with nothing started, except that the   *)
(* error of the inventory is never looked at (the check reads err, not     *)
(* invErr) and leaves bufferInventory null.                                *)

Start ==
    /\ ~workerRunning
    /\ worker = "notStarted"
    /\ closing = "no"
    /\ workerRunning' = TRUE
    /\ worker' = "test"
    /\ inventory' \in BOOLEAN
    /\ free' = IF inventory' THEN Capacity ELSE 0
    /\ UNCHANGED <<queue, inHand, outcome, task, promise, callerVars, connected, closeVars>>

-----------------------------------------------------------------------------
(* The callers.                                                            *)

(* SubmitOperation up to the end of the critical section.                  *)
SubmitOperation(op) ==
    /\ ~Crashed
    /\ caller[op] = "polling"
    /\ closer # "destructor"
    /\ IF workerRunning
         THEN /\ queue' = Append(queue, op)
              /\ caller' = [caller EXCEPT ![op] = "notify"]
              /\ UNCHANGED <<promise, result>>
         ELSE /\ promise' = [promise EXCEPT ![op] = "error"]
              /\ caller' = [caller EXCEPT ![op] = "done"]
              /\ result' = [result EXCEPT ![op] = "error"]
              /\ UNCHANGED queue
    /\ UNCHANGED <<workerRunning, workerVars, connected, inventory, free, closeVars>>

(* Mutation: SubmitOperation forgets to notify.                            *)
NotifyNobody(op) ==
    /\ ~Crashed
    /\ caller[op] = "notify"
    /\ caller' = [caller EXCEPT ![op] = "awaiting"]
    /\ UNCHANGED <<workerRunning, workerVars, queue, promise, result, connected,
                   inventory, free, closeVars>>

(* The notification, after the mutex was released.                         *)
NotifyWorker(op) ==
    /\ ~Crashed
    /\ caller[op] = "notify"
    /\ WakeWorker
    /\ caller' = [caller EXCEPT ![op] = "awaiting"]
    /\ UNCHANGED <<workerRunning, inHand, outcome, task, queue, promise, result,
                   connected, inventory, free, closeVars>>

(* Mutation: Await() instead of AwaitWithTimeout().                        *)
AwaitWithoutTimeout(op) ==
    /\ ~Crashed
    /\ caller[op] = "awaiting"
    /\ promise[op] # "none"
    /\ caller' = [caller EXCEPT ![op] = "done"]
    /\ result' = [result EXCEPT ![op] = promise[op]]
    /\ UNCHANGED <<workerRunning, workerVars, queue, promise, connected, inventory,
                   free, closeVars>>

(* AwaitWithTimeout: the future became ready, or the time was over.  The   *)
(* operation itself stays where it is.                                     *)
AwaitWithTimeout(op) ==
    /\ ~Crashed
    /\ caller[op] = "awaiting"
    /\ caller' = [caller EXCEPT ![op] = "done"]
    /\ result' = [result EXCEPT ![op] =
                    IF promise[op] = "none" THEN "timedOut" ELSE promise[op]]
    /\ UNCHANGED <<workerRunning, workerVars, queue, promise, connected, inventory,
                   free, closeVars>>

-----------------------------------------------------------------------------
(* The worker.                                                             *)

(* Mutation: the worker leaves when the flag is down, before it drained.   *)
TestFlagFirst ==
    /\ worker = "test"
    /\ \/ /\ workerRunning
          /\ queue # << >>
          /\ inHand' = <<Head(queue)>>
          /\ queue' = Tail(queue)
          /\ worker' = "check"
       \/ /\ ~workerRunning \/ queue = << >>
          /\ worker' = IF workerRunning THEN "asleep" ELSE "exited"
          /\ UNCHANGED <<queue, inHand>>
    /\ UNCHANGED <<workerRunning, outcome, task, promise, callerVars, connected,
                   inventory, free, closeVars>>

(* Under the mutex: leave, take the oldest request, or wait for a signal.  *)
TestQueue ==
    /\ worker = "test"
    /\ \/ /\ queue # << >>
          /\ inHand' = <<Head(queue)>>
          /\ queue' = Tail(queue)
          /\ worker' = "check"
       \/ /\ queue = << >>
          /\ worker' = IF workerRunning THEN "asleep" ELSE "exited"
          /\ UNCHANGED <<queue, inHand>>
    /\ UNCHANGED <<workerRunning, outcome, task, promise, callerVars, connected,
                   inventory, free, closeVars>>

(* A condition variable may wake up without a signal.                      *)
SpuriousWakeup ==
    /\ worker = "asleep"
    /\ worker' = "test"
    /\ UNCHANGED <<workerRunning, inHand, outcome, task, queue, promise, callerVars,
                   connected, inventory, free, closeVars>>

(* A step of executeRead or executeWrite that only the worker takes part in.*)
WorkerStep(from) ==
    /\ worker = from
    /\ UNCHANGED <<workerRunning, queue, inHand, promise, callerVars, connected,
                   inventory, closeVars>>

GoOn(to) == worker' = to /\ UNCHANGED outcome

(* Every error return leaves the buffers it holds in the inventory's books.*)
GiveUp == worker' = "reply" /\ outcome' = "error" /\ UNCHANGED free

(* The request's buffers and the active connection are checked first.      *)
CheckConnection ==
    /\ WorkerStep("check")
    /\ UNCHANGED task
    /\ \/ connected /\ GoOn("getSource") /\ UNCHANGED free
       \/ GiveUp

(* Without an inventory the allocation dereferences a null pointer.        *)
GetSourceBuffer ==
    /\ WorkerStep("getSource")
    /\ UNCHANGED task
    /\ \/ inventory /\ free > 0 /\ GoOn("getDestination") /\ free' = free - 1
       \/ ~inventory /\ GoOn("noInventory") /\ UNCHANGED free
       \/ GiveUp

GetDestinationBuffer ==
    /\ WorkerStep("getDestination")
    /\ UNCHANGED task
    /\ \/ free > 0 /\ GoOn("allocate") /\ free' = free - 1
       \/ GiveUp

(* activeConnection is read again, and may have become null.               *)
AllocateTask ==
    /\ WorkerStep("allocate")
    /\ UNCHANGED task
    /\ \/ connected /\ GoOn("submit") /\ UNCHANGED free
       \/ ~connected /\ GoOn("noConnection") /\ UNCHANGED free
       \/ connected /\ GiveUp

SubmitTask ==
    /\ WorkerStep("submit")
    /\ \/ GoOn("await") /\ task' = "submitted" /\ UNCHANGED free
       \/ GiveUp /\ UNCHANGED task

(* waitForTaskState without a timeout.                                     *)
AwaitTask ==
    /\ WorkerStep("await")
    /\ task \in {"completed", "error"}
    /\ task' = "none"
    /\ \/ task = "completed" /\ GoOn("release") /\ UNCHANGED free
       \/ task = "error" /\ GiveUp

(* Mutation: the destination buffer's count is not decremented.            *)
ReleaseSourceOnly ==
    /\ WorkerStep("release")
    /\ UNCHANGED task
    /\ worker' = "reply"
    /\ outcome' = "ok" /\ free' = free + 1

(* Mutation: the task's state is returned as the response.                 *)
ReleaseWithTaskState ==
    /\ WorkerStep("release")
    /\ UNCHANGED task
    /\ worker' = "reply"
    /\ outcome' = "completed" /\ free' = free + 2

(* Both reference counts go down; either DecRefcount may fail, and then    *)
(* the rest is left undone.                                                *)
ReleaseBuffers ==
    /\ WorkerStep("release")
    /\ UNCHANGED task
    /\ worker' = "reply"
    /\ \/ outcome' = "ok" /\ free' = free + 2
       \/ outcome' = "error" /\ free' \in {free, free + 1}

(* responcePromise->set_value().                                           *)
SetPromise ==
    /\ worker = "reply"
    /\ promise' = [promise EXCEPT ![Head(inHand)] = outcome]
    /\ inHand' = << >>
    /\ worker' = "test"
    /\ UNCHANGED <<workerRunning, outcome, task, queue, callerVars, connected,
                   inventory, free, closeVars>>

Execute ==
    \/ CheckConnection
    \/ GetSourceBuffer
    \/ GetDestinationBuffer
    \/ AllocateTask
    \/ SubmitTask
    \/ AwaitTask
    \/ ReleaseBuffers

-----------------------------------------------------------------------------
(* The device, whose callbacks run inside ProgressEngine::Progress().      *)

(* The task callbacks; the worker polls while it waits.                    *)
TaskCallback ==
    /\ task = "submitted"
    /\ task' \in {"completed", "error"}
    /\ UNCHANGED <<workerRunning, worker, inHand, outcome, queue, promise, callerVars,
                   connected, inventory, free, closeVars>>

(* Somebody is in Progress(): the waiting worker, or a caller in the loop  *)
(* of RequestEndpointProcessing before its submission or after its end.    *)
Polled ==
    \/ worker = "await"
    \/ closer # "destructor" /\ \E op \in Ops : caller[op] \in {"polling", "done"}

ConnectionCallback ==
    /\ ~Crashed
    /\ worker # "notStarted"
    /\ Polled
    /\ connected' = ~connected
    /\ UNCHANGED <<workerRunning, workerVars, queue, promise, callerVars, inventory,
                   free, closeVars>>

-----------------------------------------------------------------------------
(* Stop() and ~RdmaExecutor().                                             *)

(* Stop() returns at once when the flag is already down.                   *)
BeginStop ==
    /\ ~Crashed
    /\ closing = "no"
    /\ workerRunning
    /\ closing' = "clearFlag"
    /\ closer' = "Stop"
    /\ UNCHANGED <<workerRunning, workerVars, queue, promise, callerVars, connected,
                   inventory, free>>

(* The last reference is dropped: no caller is inside the executor.        *)
BeginDestroy ==
    /\ ~Crashed
    /\ closing \in {"no", "closed"}
    /\ closer # "destructor"
    /\ \A op \in Ops : caller[op] \in {"polling", "done"}
    /\ closing' = "clearFlag"
    /\ closer' = "destructor"
    /\ UNCHANGED <<workerRunning, workerVars, queue, promise, callerVars, connected,
                   inventory, free>>

ClearFlag ==
    /\ ~Crashed
    /\ closing = "clearFlag"
    /\ workerRunning' = FALSE
    /\ closing' = "notify"
    /\ UNCHANGED <<workerVars, queue, promise, callerVars, connected, inventory, free,
                   closer>>

(* Mutation: Stop() lowers the flag and does not wake the worker.          *)
CloseSilently ==
    /\ ~Crashed
    /\ closing = "notify"
    /\ closing' = "join"
    /\ UNCHANGED <<workerRunning, workerVars, queue, promise, callerVars, connected,
                   inventory, free, closer>>

NotifyClosing ==
    /\ ~Crashed
    /\ closing = "notify"
    /\ WakeWorker
    /\ closing' = "join"
    /\ UNCHANGED <<workerRunning, inHand, outcome, task, queue, promise, callerVars,
                   connected, inventory, free, closer>>

(* Mutation: the queue is flushed without waiting for the worker.          *)
CloseWithoutJoin ==
    /\ ~Crashed
    /\ closing = "join"
    /\ closing' = "flush"
    /\ UNCHANGED <<workerRunning, workerVars, queue, promise, callerVars, connected,
                   inventory, free, closer>>

(* workerThread->joinable() dereferences a null pointer when the worker    *)
(* was never started; the destructor does not look.                        *)
JoinWorker ==
    /\ ~Crashed
    /\ closing = "join"
    /\ \/ worker = "notStarted" /\ closing' = "noThread"
       \/ worker = "exited" /\ closing' = IF closer = "Stop" THEN "flush" ELSE "closed"
    /\ UNCHANGED <<workerRunning, workerVars, queue, promise, callerVars, connected,
                   inventory, free, closer>>

FlushQueue ==
    /\ ~Crashed
    /\ closing = "flush"
    /\ queue' = << >>
    /\ closing' = "closed"
    /\ UNCHANGED <<workerRunning, workerVars, promise, callerVars, connected, inventory,
                   free, closer>>

-----------------------------------------------------------------------------
WorkerThread == TestQueue \/ Execute \/ SetPromise

CloserThread == ClearFlag \/ NotifyClosing \/ JoinWorker \/ FlushQueue

Next ==
    \/ Start
    \/ \E op \in Ops : SubmitOperation(op)
    \/ \E op \in Ops : NotifyWorker(op)
    \/ \E op \in Ops : AwaitWithTimeout(op)
    \/ WorkerThread
    \/ SpuriousWakeup
    \/ TaskCallback
    \/ ConnectionCallback
    \/ BeginStop
    \/ BeginDestroy
    \/ CloserThread

Spec == Init /\ [][Next]_vars

(* Running threads run: the worker, a caller inside the executor (its wait *)
(* has a timeout) and the closing thread.  Nobody has to submit, close or  *)
(* start, the device owes nothing, and no wakeup comes by itself.          *)
FairSpec ==
    /\ Spec
    /\ WF_vars(WorkerThread)
    /\ \A op \in Ops : WF_vars(NotifyWorker(op) \/ AwaitWithTimeout(op))
    /\ WF_vars(CloserThread)

-----------------------------------------------------------------------------
(* Properties.                                                             *)

(* Every variable has its type; at most one request is in hand.            *)
TypeOK ==
    /\ workerRunning \in BOOLEAN
    /\ worker \in WorkerStates
    /\ queue \in Seq(Ops)
    /\ inHand \in Seq(Ops)
    /\ outcome \in {"ok", "error"}
    /\ task \in {"none", "submitted", "completed", "error"}
    /\ promise \in [Ops -> {"none", "ok", "error"}]
    /\ caller \in [Ops -> {"polling", "notify", "awaiting", "done"}]
    /\ result \in [Ops -> {"none", "ok", "error", "timedOut"}]
    /\ connected \in BOOLEAN
    /\ inventory \in BOOLEAN
    /\ free \in Nat
    /\ closing \in {"no", "clearFlag", "notify", "join", "flush", "closed", "noThread"}
    /\ closer \in {"none", "Stop", "destructor"}

(* The executor implements OperationService: whatever the interleaving of  *)
(* SubmitOperation, the worker, Stop and the destructor, an accepted       *)
(* request is answered exactly once, in order, and the flush at the end of *)
(* Stop() never throws one away with its promise unset.                    *)
Service == INSTANCE OperationService WITH
               open    <- workerRunning,
               pending <- inHand \o queue,
               answer  <- promise

ServiceSpec == Service!Spec

(* Once Stop() or the destructor has joined the worker, no promise of a    *)
(* submitted operation is left unset (its future would wait for ever).     *)
ClosedMeansAnswered ==
    worker = "exited" /\ closing \in {"flush", "closed"} =>
        \A op \in Ops : caller[op] # "polling" => promise[op] # "none"

Idle == worker \in {"test", "asleep", "exited"}

(* Between operations, each operation that failed has cost the inventory   *)
(* at most its two elements, and a successful one nothing.  It does cost   *)
(* them: the error paths give nothing back.                                *)
LossBoundedByFailures ==
    Idle /\ inventory =>
        Capacity - free <= 2 * Cardinality({op \in Ops : promise[op] = "error"})

(* An operation whose connection went away ends with the error that the    *)
(* check of activeConnection prepares, not with a null dereference.        *)
ConnectionChecked == worker # "noConnection"

(* The device answers what was submitted to it, and no pointer was null.   *)
HardwareAnswers == []<>(task # "submitted")
NeverCrashes == []~Crashed

(* Every accepted request's promise is set in the end, whether or not      *)
(* Stop() comes in between, as long as the device answers.                 *)
AcceptedAnswered ==
    HardwareAnswers /\ NeverCrashes =>
        \A op \in Ops : caller[op] = "awaiting" ~> promise[op] # "none"

(* A caller gets out of AwaitWithTimeout even when the device never        *)
(* answers and the worker is stuck.                                        *)
CallerReturns ==
    NeverCrashes => \A op \in Ops : caller[op] = "notify" ~> caller[op] = "done"

(* Stop() and the destructor come back once the device answers: the        *)
(* sleeping worker is woken and drains the queue first.                    *)
ClosingEnds ==
    HardwareAnswers /\ NeverCrashes => closing = "clearFlag" ~> closing = "closed"

=============================================================================
