-------------------------- MODULE RdmaExecutorProofs --------------------------
(***************************************************************************)
(* For any set of operations and any inventory: the executor implements    *)
(* OperationService, whoever submitted an operation has its answer when    *)
(* Stop() or the destructor has joined the worker, the worker never sleeps *)
(* while somebody waits for it and nobody is about to wake it, and the     *)
(* inventory has lost at most two elements for each operation that failed. *)
(***************************************************************************)
EXTENDS RdmaExecutor, SequenceTheorems, FiniteSetTheorems, TLAPS

(* The accepted requests without an answer, oldest first.                  *)
Pending == inHand \o queue

BusyStates == WorkerStates \ {"notStarted", "test", "asleep", "exited"}

(* The worker has a request in hand exactly while it executes.             *)
HandInv == IF worker \in BusyStates
             THEN \E op \in Ops : inHand = <<op>>
             ELSE inHand = << >>

(* The worker leaves only when the flag is down and the queue is empty, so *)
(* nothing can be queued afterwards, and the closer waits for it.          *)
ExitInv ==
    /\ worker = "notStarted" => ~workerRunning /\ queue = << >>
    /\ worker = "exited" => ~workerRunning /\ queue = << >>
    /\ closing = "flush" => worker = "exited"

(* A caller that has not submitted has no promise and no request.          *)
FreshInv ==
    \A op \in Ops : caller[op] = "polling" =>
        promise[op] = "none" /\ \A i \in DOMAIN Pending : Pending[i] # op

(* A pending request is unanswered and queued once.                        *)
PendingInv ==
    /\ \A i \in DOMAIN Pending : promise[Pending[i]] = "none"
    /\ \A i, j \in DOMAIN Pending : Pending[i] = Pending[j] => i = j

(* A submitted operation without an answer is pending.                     *)
AccountedInv ==
    \A op \in Ops : caller[op] # "polling" /\ promise[op] = "none" =>
        \E i \in DOMAIN Pending : Pending[i] = op

Inv == TypeOK /\ HandInv /\ ExitInv /\ FreshInv /\ PendingInv /\ AccountedInv

-----------------------------------------------------------------------------
(* Sequences: what the steps do to Pending.                                *)

LEMMA PendingIsSeq == TypeOK => Pending \in Seq(Ops)
  BY ConcatProperties DEF TypeOK, Pending

LEMMA ConcatAppend ==
  ASSUME NEW S, NEW p \in Seq(S), NEW q \in Seq(S), NEW x \in S
  PROVE  p \o Append(q, x) = Append(p \o q, x)
  <1>1. <<x>> \in Seq(S) /\ p \o q \in Seq(S)
    BY ConcatProperties
  <1>2. p \o (q \o <<x>>) = (p \o q) \o <<x>>
    BY <1>1, ConcatAssociative
  <1>3. Append(q, x) = q \o <<x>> /\ Append(p \o q, x) = (p \o q) \o <<x>>
    BY <1>1, AppendIsConcat
  <1> QED
    BY <1>2, <1>3

(* Moving the head of the queue into an empty hand.                        *)
LEMMA ConcatHead ==
  ASSUME NEW S, NEW q \in Seq(S), q # << >>
  PROVE  <<Head(q)>> \o Tail(q) = << >> \o q
  <1>1. Head(q) \in S /\ Tail(q) \in Seq(S) /\ Len(Tail(q)) = Len(q) - 1
        /\ \A i \in 1 .. Len(Tail(q)) : Tail(q)[i] = q[i + 1]
    BY HeadTailProperties
  <1>2. <<Head(q)>> \in Seq(S) /\ Len(<<Head(q)>>) = 1 /\ <<Head(q)>>[1] = q[1]
    BY <1>1
  <1>3. << >> \o q = q
    BY ConcatEmptySeq
  <1>4. <<Head(q)>> \o Tail(q) \in Seq(S) /\ Len(<<Head(q)>> \o Tail(q)) = Len(q)
    BY <1>1, <1>2, ConcatProperties, LenProperties, EmptySeq
  <1>5. \A i \in 1 .. Len(q) : (<<Head(q)>> \o Tail(q))[i] = q[i]
    BY <1>1, <1>2, ConcatProperties, LenProperties
  <1> QED
    BY <1>3, <1>4, <1>5, SeqEqual

(* Answering the request in hand leaves the queue.                         *)
LEMMA ConcatTail ==
  ASSUME NEW S, NEW x \in S, NEW q \in Seq(S)
  PROVE  /\ <<x>> \o q # << >>
         /\ Head(<<x>> \o q) = x
         /\ Tail(<<x>> \o q) = << >> \o q
  <1>1. <<x>> \in Seq(S) /\ Len(<<x>>) = 1 /\ <<x>>[1] = x
    OBVIOUS
  <1>2. <<x>> \o q \in Seq(S) /\ Len(<<x>> \o q) = 1 + Len(q)
        /\ \A i \in 1 .. 1 + Len(q) : (<<x>> \o q)[i] = IF i = 1 THEN x ELSE q[i - 1]
    BY <1>1, ConcatProperties, LenProperties
  <1>3. <<x>> \o q # << >>
    BY <1>2, LenProperties
  <1>4. Head(<<x>> \o q) = x
    BY <1>2, <1>3, HeadTailProperties, LenProperties
  <1>5. Tail(<<x>> \o q) \in Seq(S) /\ Len(Tail(<<x>> \o q)) = Len(q)
        /\ \A i \in 1 .. Len(q) : Tail(<<x>> \o q)[i] = q[i]
    BY <1>2, <1>3, HeadTailProperties, LenProperties
  <1>6. Tail(<<x>> \o q) = q
    BY <1>5, SeqEqual
  <1>7. << >> \o q = q
    BY ConcatEmptySeq
  <1> QED
    BY <1>3, <1>4, <1>6, <1>7

-----------------------------------------------------------------------------
(* Types.                                                                  *)

LEMMA TypeStep == TypeOK /\ [Next]_vars => TypeOK'
  <1> SUFFICES ASSUME TypeOK, [Next]_vars
               PROVE  TypeOK'
    OBVIOUS
  <1> USE CapacityAssumption DEF TypeOK
  <1>1. CASE Start
    BY <1>1 DEF Start, WorkerStates, callerVars, closeVars
  <1>2. ASSUME NEW op \in Ops, SubmitOperation(op) PROVE TypeOK'
    <2>1. Append(queue, op) \in Seq(Ops)
      BY AppendProperties
    <2> QED
      BY <1>2, <2>1 DEF SubmitOperation, workerVars, closeVars
  <1>3. ASSUME NEW op \in Ops, NotifyWorker(op) PROVE TypeOK'
    BY <1>3 DEF NotifyWorker, WakeWorker, WorkerStates, closeVars
  <1>4. ASSUME NEW op \in Ops, AwaitWithTimeout(op) PROVE TypeOK'
    BY <1>4 DEF AwaitWithTimeout, workerVars, closeVars
  <1>5. CASE TestQueue
    <2>1. queue # << >> => Head(queue) \in Ops /\ Tail(queue) \in Seq(Ops)
      BY HeadTailProperties
    <2>2. queue # << >> => <<Head(queue)>> \in Seq(Ops)
      BY <2>1
    <2> QED
      BY <1>5, <2>1, <2>2 DEF TestQueue, WorkerStates, callerVars, closeVars
  <1>6. CASE Execute
    BY <1>6 DEF Execute, CheckConnection, GetSourceBuffer, GetDestinationBuffer, AllocateTask,
                SubmitTask, AwaitTask, ReleaseBuffers, WorkerStep, GoOn, GiveUp, WorkerStates,
                callerVars, closeVars
  <1>7. CASE SetPromise
    BY <1>7, EmptySeq DEF SetPromise, WorkerStates, callerVars, closeVars
  <1>8. CASE SpuriousWakeup
    BY <1>8 DEF SpuriousWakeup, WorkerStates, callerVars, closeVars
  <1>9. CASE TaskCallback
    BY <1>9 DEF TaskCallback, callerVars, closeVars
  <1>10. CASE ConnectionCallback
    BY <1>10 DEF ConnectionCallback, workerVars, callerVars, closeVars
  <1>11. CASE BeginStop
    BY <1>11 DEF BeginStop, workerVars, callerVars
  <1>12. CASE BeginDestroy
    BY <1>12 DEF BeginDestroy, workerVars, callerVars
  <1>13. CASE ClearFlag
    BY <1>13 DEF ClearFlag, workerVars, callerVars
  <1>14. CASE NotifyClosing
    BY <1>14 DEF NotifyClosing, WakeWorker, WorkerStates, callerVars
  <1>15. CASE JoinWorker
    BY <1>15 DEF JoinWorker, workerVars, callerVars
  <1>16. CASE FlushQueue
    BY <1>16, EmptySeq DEF FlushQueue, workerVars, callerVars
  <1>17. CASE UNCHANGED vars
    BY <1>17 DEF vars, workerVars, callerVars, closeVars
  <1> QED
    BY <1>1, <1>2, <1>3, <1>4, <1>5, <1>6, <1>7, <1>8, <1>9, <1>10, <1>11, <1>12, <1>13,
       <1>14, <1>15, <1>16, <1>17 DEF Next, WorkerThread, CloserThread

-----------------------------------------------------------------------------
(* The worker's and the closer's control state.                            *)

Control == TypeOK /\ HandInv /\ ExitInv

LEMMA ControlStep == Control /\ [Next]_vars => Control'
  <1> SUFFICES ASSUME Control, [Next]_vars
               PROVE  HandInv' /\ ExitInv'
    BY TypeStep DEF Control
  <1> USE DEF Control, TypeOK, HandInv, ExitInv, WorkerStates, BusyStates
  <1>1. CASE Start
    BY <1>1 DEF Start, callerVars, closeVars
  <1>2. ASSUME NEW op \in Ops, SubmitOperation(op) PROVE HandInv' /\ ExitInv'
    BY <1>2 DEF SubmitOperation, workerVars, closeVars
  <1>3. ASSUME NEW op \in Ops, NotifyWorker(op) PROVE HandInv' /\ ExitInv'
    BY <1>3 DEF NotifyWorker, WakeWorker, closeVars
  <1>4. ASSUME NEW op \in Ops, AwaitWithTimeout(op) PROVE HandInv' /\ ExitInv'
    BY <1>4 DEF AwaitWithTimeout, workerVars, closeVars
  <1>5. CASE TestQueue
    <2>1. queue # << >> => Head(queue) \in Ops
      BY HeadTailProperties
    <2> QED
      BY <1>5, <2>1 DEF TestQueue, callerVars, closeVars
  <1>6. CASE Execute
    BY <1>6 DEF Execute, CheckConnection, GetSourceBuffer, GetDestinationBuffer, AllocateTask,
                SubmitTask, AwaitTask, ReleaseBuffers, WorkerStep, GoOn, GiveUp,
                callerVars, closeVars
  <1>7. CASE SetPromise
    BY <1>7 DEF SetPromise, callerVars, closeVars
  <1>8. CASE SpuriousWakeup
    BY <1>8 DEF SpuriousWakeup, callerVars, closeVars
  <1>9. CASE TaskCallback
    BY <1>9 DEF TaskCallback, callerVars, closeVars
  <1>10. CASE ConnectionCallback
    BY <1>10 DEF ConnectionCallback, workerVars, callerVars, closeVars
  <1>11. CASE BeginStop
    BY <1>11 DEF BeginStop, workerVars, callerVars
  <1>12. CASE BeginDestroy
    BY <1>12 DEF BeginDestroy, workerVars, callerVars
  <1>13. CASE ClearFlag
    BY <1>13 DEF ClearFlag, workerVars, callerVars
  <1>14. CASE NotifyClosing
    BY <1>14 DEF NotifyClosing, WakeWorker, callerVars
  <1>15. CASE JoinWorker
    BY <1>15 DEF JoinWorker, workerVars, callerVars
  <1>16. CASE FlushQueue
    BY <1>16 DEF FlushQueue, workerVars, callerVars
  <1>17. CASE UNCHANGED vars
    BY <1>17 DEF vars, workerVars, callerVars, closeVars
  <1> QED
    BY <1>1, <1>2, <1>3, <1>4, <1>5, <1>6, <1>7, <1>8, <1>9, <1>10, <1>11, <1>12, <1>13,
       <1>14, <1>15, <1>16, <1>17 DEF Next, WorkerThread, CloserThread

-----------------------------------------------------------------------------
(* What a step does to the requests and the promises: it accepts one,      *)
(* refuses one, answers the oldest, or changes neither.                    *)

Accepts(op) ==
    /\ caller[op] = "polling"
    /\ workerRunning
    /\ Pending' = Append(Pending, op)
    /\ caller' = [caller EXCEPT ![op] = "notify"]
    /\ UNCHANGED <<promise, workerRunning>>

Refuses(op) ==
    /\ caller[op] = "polling"
    /\ ~workerRunning
    /\ promise' = [promise EXCEPT ![op] = "error"]
    /\ caller' = [caller EXCEPT ![op] = "done"]
    /\ Pending' = Pending
    /\ UNCHANGED workerRunning

Replies(a) ==
    /\ Pending # << >>
    /\ Pending' = Tail(Pending)
    /\ promise' = [promise EXCEPT ![Head(Pending)] = a]
    /\ UNCHANGED <<caller, workerRunning>>

Neither ==
    /\ Pending' = Pending
    /\ UNCHANGED promise
    /\ \A op \in Ops : caller'[op] = "polling" <=> caller[op] = "polling"

LEMMA StepKinds ==
  ASSUME Control, [Next]_vars
  PROVE  \/ \E op \in Ops : Accepts(op) \/ Refuses(op)
         \/ \E a \in {"ok", "error"} : Replies(a)
         \/ Neither
  <1> USE DEF Control, TypeOK, Neither
  <1>1. CASE Start
    BY <1>1 DEF Start, Pending, callerVars
  <1>2. ASSUME NEW op \in Ops, SubmitOperation(op) PROVE Accepts(op) \/ Refuses(op)
    <2>1. inHand \o Append(queue, op) = Append(inHand \o queue, op)
      BY ConcatAppend
    <2> QED
      BY <1>2, <2>1 DEF SubmitOperation, Pending, Accepts, Refuses, workerVars
  <1>3. ASSUME NEW op \in Ops, NotifyWorker(op) PROVE Neither
    BY <1>3 DEF NotifyWorker, Pending
  <1>4. ASSUME NEW op \in Ops, AwaitWithTimeout(op) PROVE Neither
    BY <1>4 DEF AwaitWithTimeout, Pending, workerVars
  <1>5. CASE TestQueue
    <2>1. inHand = << >>
      BY <1>5 DEF TestQueue, HandInv, BusyStates, WorkerStates
    <2>2. Pending' = Pending
      BY <1>5, <2>1, ConcatHead DEF TestQueue, Pending
    <2> QED
      BY <1>5, <2>2 DEF TestQueue, callerVars
  <1>6. CASE Execute
    BY <1>6 DEF Execute, CheckConnection, GetSourceBuffer, GetDestinationBuffer, AllocateTask,
                SubmitTask, AwaitTask, ReleaseBuffers, WorkerStep, Pending, callerVars
  <1>7. CASE SetPromise
    <2>1. PICK op \in Ops : inHand = <<op>>
      BY <1>7 DEF SetPromise, HandInv, BusyStates, WorkerStates
    <2>2. /\ Pending # << >>
          /\ Head(Pending) = op
          /\ Tail(Pending) = << >> \o queue
      BY <2>1, ConcatTail DEF Pending
    <2>3. Head(inHand) = op
      BY <2>1
    <2>4. Pending' = Tail(Pending)
      BY <1>7, <2>2 DEF SetPromise, Pending
    <2>5. Replies(outcome)
      BY <1>7, <2>2, <2>3, <2>4 DEF SetPromise, Replies, callerVars
    <2> QED
      BY <2>5
  <1>8. CASE SpuriousWakeup
    BY <1>8 DEF SpuriousWakeup, Pending, callerVars
  <1>9. CASE TaskCallback
    BY <1>9 DEF TaskCallback, Pending, callerVars
  <1>10. CASE ConnectionCallback
    BY <1>10 DEF ConnectionCallback, Pending, workerVars, callerVars
  <1>11. CASE BeginStop
    BY <1>11 DEF BeginStop, Pending, workerVars, callerVars
  <1>12. CASE BeginDestroy
    BY <1>12 DEF BeginDestroy, Pending, workerVars, callerVars
  <1>13. CASE ClearFlag
    BY <1>13 DEF ClearFlag, Pending, workerVars, callerVars
  <1>14. CASE NotifyClosing
    BY <1>14 DEF NotifyClosing, Pending, callerVars
  <1>15. CASE JoinWorker
    BY <1>15 DEF JoinWorker, Pending, workerVars, callerVars
  <1>16. CASE FlushQueue
    <2>1. queue = << >>
      BY <1>16 DEF FlushQueue, ExitInv
    <2> QED
      BY <1>16, <2>1 DEF FlushQueue, Pending, workerVars, callerVars
  <1>17. CASE UNCHANGED vars
    BY <1>17 DEF vars, Pending, workerVars, callerVars
  <1> QED
    BY <1>1, <1>2, <1>3, <1>4, <1>5, <1>6, <1>7, <1>8, <1>9, <1>10, <1>11, <1>12, <1>13,
       <1>14, <1>15, <1>16, <1>17 DEF Next, WorkerThread, CloserThread

-----------------------------------------------------------------------------
(* The inductive invariant.                                                *)

LEMMA InitInv == Init => Inv
  <1> SUFFICES ASSUME Init PROVE Inv
    OBVIOUS
  <1>1. Pending = << >>
    BY ConcatEmptySeq, EmptySeq DEF Init, Pending
  <1>2. DOMAIN Pending = {}
    BY <1>1
  <1>3. TypeOK
    BY EmptySeq DEF Init, TypeOK, WorkerStates
  <1> QED
    BY <1>2, <1>3 DEF Init, Inv, HandInv, ExitInv, FreshInv, PendingInv, AccountedInv,
                      BusyStates, WorkerStates

LEMMA InvStep == Inv /\ [Next]_vars => Inv'
  <1> SUFFICES ASSUME Inv, [Next]_vars
               PROVE  (FreshInv /\ PendingInv /\ AccountedInv)'
    BY ControlStep DEF Inv, Control
  <1>0. Control /\ TypeOK /\ TypeOK' /\ Pending \in Seq(Ops)
    BY TypeStep, PendingIsSeq DEF Inv, Control
  <1>1. ASSUME NEW op \in Ops, Accepts(op)
        PROVE  (FreshInv /\ PendingInv /\ AccountedInv)'
    <2>1. /\ DOMAIN Pending = 1 .. Len(Pending) /\ Len(Pending) \in Nat
          /\ DOMAIN Pending' = 1 .. Len(Pending) + 1
          /\ \A i \in 1 .. Len(Pending) : Pending'[i] = Pending[i]
          /\ Pending'[Len(Pending) + 1] = op
      BY <1>0, <1>1, AppendProperties, LenProperties DEF Accepts
    <2>2. promise[op] = "none" /\ \A i \in DOMAIN Pending : Pending[i] # op
      BY <1>1 DEF Accepts, Inv, FreshInv
    <2>3. FreshInv'
      BY <1>0, <1>1, <2>1 DEF Accepts, Inv, FreshInv, TypeOK
    <2>4. PendingInv'
      BY <1>1, <2>1, <2>2 DEF Accepts, Inv, PendingInv
    <2>5. AccountedInv'
      <3> SUFFICES ASSUME NEW o \in Ops, caller'[o] # "polling", promise'[o] = "none"
                   PROVE  \E i \in DOMAIN Pending' : Pending'[i] = o
        BY DEF AccountedInv
      <3>1. CASE o = op
        BY <2>1, <3>1
      <3>2. CASE o # op
        <4>1. caller[o] # "polling" /\ promise[o] = "none"
          BY <1>0, <1>1, <3>2 DEF Accepts, TypeOK
        <4>2. PICK i \in DOMAIN Pending : Pending[i] = o
          BY <4>1 DEF Inv, AccountedInv
        <4>3. i \in DOMAIN Pending' /\ Pending'[i] = o
          BY <2>1, <4>2
        <4> QED
          BY <4>3
      <3> QED
        BY <3>1, <3>2
    <2> QED
      BY <2>3, <2>4, <2>5
  <1>2. ASSUME NEW op \in Ops, Refuses(op)
        PROVE  (FreshInv /\ PendingInv /\ AccountedInv)'
    <2>1. \A i \in DOMAIN Pending : Pending[i] # op
      BY <1>2 DEF Refuses, Inv, FreshInv
    <2>2. \A i \in DOMAIN Pending : Pending[i] \in Ops
      BY <1>0, LenProperties
    <2> QED
      BY <1>0, <1>2, <2>1, <2>2 DEF Refuses, Inv, FreshInv, PendingInv, AccountedInv, TypeOK
  <1>3. ASSUME NEW a \in {"ok", "error"}, Replies(a)
        PROVE  (FreshInv /\ PendingInv /\ AccountedInv)'
    <2> DEFINE n == Len(Pending)
    <2>1. /\ DOMAIN Pending = 1 .. n /\ n \in Nat /\ n > 0
          /\ DOMAIN Pending' = 1 .. n - 1
          /\ \A i \in 1 .. n - 1 : Pending'[i] = Pending[i + 1]
          /\ \A i \in 1 .. n : Pending[i] \in Ops
      BY <1>0, <1>3, HeadTailProperties, LenProperties, EmptySeq DEF Replies
    <2>2. Head(Pending) = Pending[1]
      BY <1>0
    <2>3. promise' = [promise EXCEPT ![Pending[1]] = a] /\ Pending[1] \in Ops
      BY <1>3, <2>1, <2>2 DEF Replies
    <2>4. FreshInv'
      BY <1>0, <1>3, <2>1, <2>3 DEF Replies, Inv, FreshInv, TypeOK
    <2>5. PendingInv'
      <3>1. \A i \in 1 .. n - 1 : promise'[Pending'[i]] = promise[Pending[i + 1]]
        <4> SUFFICES ASSUME NEW i \in 1 .. n - 1
                     PROVE  promise'[Pending'[i]] = promise[Pending[i + 1]]
          OBVIOUS
        <4>1. i + 1 \in 1 .. n /\ i + 1 # 1 /\ 1 \in 1 .. n
          BY <2>1
        <4>2. Pending'[i] = Pending[i + 1]
          BY <2>1
        <4>3. Pending[i + 1] # Pending[1] /\ Pending[i + 1] \in Ops
          BY <2>1, <4>1 DEF Inv, PendingInv
        <4> QED
          BY <1>0, <2>3, <4>2, <4>3 DEF TypeOK
      <3>2. \A i \in 1 .. n - 1 : promise'[Pending'[i]] = "none"
        BY <2>1, <3>1 DEF Inv, PendingInv
      <3>3. \A i, j \in 1 .. n - 1 : Pending'[i] = Pending'[j] => i = j
        BY <2>1 DEF Inv, PendingInv
      <3> QED
        BY <2>1, <3>2, <3>3 DEF PendingInv
    <2>6. AccountedInv'
      <3> SUFFICES ASSUME NEW op \in Ops, caller'[op] # "polling", promise'[op] = "none"
                   PROVE  \E i \in DOMAIN Pending' : Pending'[i] = op
        BY DEF AccountedInv
      <3>1. op # Pending[1] /\ promise[op] = "none"
        BY <1>0, <2>3 DEF TypeOK
      <3>2. PICK i \in 1 .. n : Pending[i] = op
        BY <1>3, <2>1, <3>1 DEF Replies, Inv, AccountedInv
      <3>3. i - 1 \in 1 .. n - 1 /\ Pending'[i - 1] = op
        BY <2>1, <3>1, <3>2
      <3> QED
        BY <2>1, <3>3
    <2> QED
      BY <2>4, <2>5, <2>6
  <1>4. CASE Neither
    BY <1>4 DEF Neither, Inv, FreshInv, PendingInv, AccountedInv
  <1> QED
    BY <1>0, <1>1, <1>2, <1>3, <1>4, StepKinds

LEMMA InvCorrect == Spec => []Inv
  BY InitInv, InvStep, PTL DEF Spec

-----------------------------------------------------------------------------
(* The inventory's books.                                                  *)

Failed == {op \in Ops : promise[op] = "error"}

(* Elements the operation in hand has taken and not given back, or is      *)
(* about to lose with its error.                                           *)
Held == IF worker = "getDestination" THEN 1
        ELSE IF \/ worker \in {"allocate", "submit", "await", "release", "noConnection"}
                \/ worker = "reply" /\ outcome = "error" THEN 2
        ELSE 0

(* What is missing is held or was lost by an operation that failed.        *)
LossInv ==
    /\ IsFiniteSet(Failed)
    /\ inventory => Capacity <= free + 2 * Cardinality(Failed) + Held

(* A step lets no failure be forgotten, and adds at most one.              *)
LEMMA FailedGrows ==
  ASSUME Inv, [Next]_vars, IsFiniteSet(Failed)
  PROVE  /\ IsFiniteSet(Failed')
         /\ Cardinality(Failed) \in Nat
         /\ Cardinality(Failed') \in Nat
         /\ Cardinality(Failed) <= Cardinality(Failed')
  <1>0. Control /\ TypeOK /\ Pending \in Seq(Ops)
    BY PendingIsSeq DEF Inv, Control
  <1>1. (\E x \in Ops : Failed' = Failed \cup {x}) \/ Failed' = Failed
    <2>1. ASSUME NEW op \in Ops, Refuses(op) PROVE Failed' = Failed \cup {op}
      BY <1>0, <2>1 DEF Refuses, TypeOK, Failed
    <2>2. ASSUME NEW a \in {"ok", "error"}, Replies(a)
          PROVE  (\E x \in Ops : Failed' = Failed \cup {x}) \/ Failed' = Failed
      <3>1. 1 \in DOMAIN Pending /\ Head(Pending) = Pending[1] /\ Pending[1] \in Ops
        BY <1>0, <2>2, LenProperties, EmptySeq DEF Replies
      <3>2. promise[Pending[1]] = "none"
        BY <3>1 DEF Inv, PendingInv
      <3>3. /\ promise' = [promise EXCEPT ![Pending[1]] = a]
            /\ promise \in [Ops -> {"none", "ok", "error"}]
        BY <1>0, <2>2, <3>1 DEF Replies, TypeOK
      <3>4. CASE a = "error"
        <4>1. Failed' = Failed \cup {Pending[1]}
          BY <3>1, <3>3, <3>4 DEF Failed
        <4> QED
          BY <3>1, <4>1
      <3>5. CASE a = "ok"
        BY <3>1, <3>2, <3>3, <3>5 DEF Failed
      <3> QED
        BY <3>4, <3>5
    <2>3. ASSUME NEW op \in Ops, Accepts(op) PROVE Failed' = Failed
      BY <2>3 DEF Accepts, Failed
    <2>4. Neither => Failed' = Failed
      BY DEF Neither, Failed
    <2> QED
      BY <1>0, <2>1, <2>2, <2>3, <2>4, StepKinds
  <1>2. Cardinality(Failed) \in Nat
    BY FS_CardinalityType
  <1>3. ASSUME NEW x \in Ops, Failed' = Failed \cup {x}
        PROVE  IsFiniteSet(Failed') /\ Cardinality(Failed') \in Nat
               /\ Cardinality(Failed) <= Cardinality(Failed')
    <2>1. /\ IsFiniteSet(Failed \cup {x})
          /\ Cardinality(Failed \cup {x}) \in {Cardinality(Failed), Cardinality(Failed) + 1}
      BY FS_AddElement
    <2> QED
      BY <1>2, <1>3, <2>1
  <1> QED
    BY <1>1, <1>2, <1>3

(* The answer of an operation that failed is one failure more.             *)
LEMMA FailedReply ==
  ASSUME Inv, SetPromise, outcome = "error", IsFiniteSet(Failed)
  PROVE  Cardinality(Failed') = Cardinality(Failed) + 1
  <1>1. PICK op \in Ops : inHand = <<op>>
    BY DEF Inv, SetPromise, HandInv, BusyStates, WorkerStates
  <1>2. Head(inHand) = op
    BY <1>1
  <1>3. queue \in Seq(Ops) /\ promise \in [Ops -> {"none", "ok", "error"}]
    BY DEF Inv, TypeOK
  <1>4. Pending # << >> /\ Head(Pending) = op
    BY <1>1, <1>3, ConcatTail DEF Pending
  <1>5. 1 \in DOMAIN Pending /\ Head(Pending) = Pending[1]
    BY <1>4, PendingIsSeq, LenProperties, EmptySeq DEF Inv
  <1>6. promise[op] = "none"
    BY <1>4, <1>5 DEF Inv, PendingInv
  <1>7. promise' = [promise EXCEPT ![op] = "error"]
    BY <1>2 DEF SetPromise
  <1>8. Failed' = Failed \cup {op} /\ op \notin Failed
    BY <1>3, <1>6, <1>7 DEF Failed
  <1> QED
    BY <1>8, FS_AddElement

(* Free and held together do not shrink, so the bound is kept.             *)
LEMMA BooksBalance ==
  ASSUME NEW c \in Nat, NEW a \in Nat, NEW b \in Nat, NEW f \in Nat, NEW g \in Nat,
         NEW h \in Nat, NEW k \in Nat, f <= g, c <= a + 2 * f + h, a + h <= b + k
  PROVE  c <= b + 2 * g + k
  OBVIOUS

(* Each step keeps the bound.                                              *)
LEMMA LossStep == Inv /\ LossInv /\ [Next]_vars => LossInv'
  <1> SUFFICES ASSUME Inv, LossInv, [Next]_vars
               PROVE  LossInv'
    OBVIOUS
  <1> DEFINE f == Cardinality(Failed)
             g == Cardinality(Failed')
  <1>1. IsFiniteSet(Failed') /\ f \in Nat /\ g \in Nat /\ f <= g
    BY FailedGrows DEF LossInv
  <1>2. free \in Nat /\ Capacity \in Nat /\ inventory \in BOOLEAN
    BY CapacityAssumption DEF Inv, TypeOK
  <1>3. inventory => Capacity <= free + 2 * f + Held
    BY DEF LossInv
  <1>4. SUFFICES ASSUME inventory'
                 PROVE  Capacity <= free' + 2 * g + Held'
    BY <1>1 DEF LossInv
  <1>5. Held \in Nat /\ Held' \in Nat
    BY DEF Held
  <1> HIDE DEF f, g
  <1>6. CASE Start
    <2>1. free' = Capacity
      BY <1>4, <1>6 DEF Start
    <2>2. 2 * g \in Nat
      BY <1>1
    <2> QED
      BY <1>2, <1>5, <2>1, <2>2
  <1>7. CASE Execute
    <2>1. inventory
      BY <1>4, <1>7 DEF Execute, CheckConnection, GetSourceBuffer, GetDestinationBuffer,
                        AllocateTask, SubmitTask, AwaitTask, ReleaseBuffers, WorkerStep
    <2>2. free + Held <= free' + Held'
      <3>1. CASE CheckConnection
        BY <1>2, <2>1, <3>1 DEF CheckConnection, WorkerStep, GoOn, GiveUp, Held
      <3>2. CASE GetSourceBuffer
        BY <1>2, <2>1, <3>2 DEF GetSourceBuffer, WorkerStep, GoOn, GiveUp, Held
      <3>3. CASE GetDestinationBuffer
        BY <1>2, <2>1, <3>3 DEF GetDestinationBuffer, WorkerStep, GoOn, GiveUp, Held
      <3>4. CASE AllocateTask
        BY <1>2, <2>1, <3>4 DEF AllocateTask, WorkerStep, GoOn, GiveUp, Held
      <3>5. CASE SubmitTask
        BY <1>2, <2>1, <3>5 DEF SubmitTask, WorkerStep, GoOn, GiveUp, Held
      <3>6. CASE AwaitTask
        BY <1>2, <2>1, <3>6 DEF AwaitTask, WorkerStep, GoOn, GiveUp, Held
      <3>7. CASE ReleaseBuffers
        BY <1>2, <2>1, <3>7 DEF ReleaseBuffers, WorkerStep, Held
      <3> QED
        BY <1>7, <3>1, <3>2, <3>3, <3>4, <3>5, <3>6, <3>7 DEF Execute
    <2>3. free' \in Nat
      BY TypeStep DEF Inv, TypeOK
    <2> QED
      BY <1>1, <1>2, <1>3, <1>5, <2>1, <2>2, <2>3, BooksBalance
  <1>8. CASE SetPromise
    <2>1. inventory /\ free' = free /\ Held' = 0
      BY <1>4, <1>8 DEF SetPromise, Held
    <2>2. CASE outcome = "error"
      <3>1. g = f + 1 /\ Held = 2
        BY <1>8, <2>2, FailedReply DEF LossInv, SetPromise, Held, f, g
      <3> QED
        BY <1>1, <1>2, <1>3, <2>1, <3>1
    <2>3. CASE outcome # "error"
      <3>1. Held = 0
        BY <1>8, <2>3 DEF SetPromise, Held
      <3> QED
        BY <1>1, <1>2, <1>3, <2>1, <3>1
    <2> QED
      BY <2>2, <2>3
  <1>9. CASE UNCHANGED <<inventory, free>> /\ Held' = Held
    BY <1>1, <1>2, <1>3, <1>4, <1>5, <1>9
  <1>10. \/ Start \/ Execute \/ SetPromise
         \/ UNCHANGED <<inventory, free>> /\ Held' = Held
    <2>1. ASSUME NEW op \in Ops, SubmitOperation(op) \/ NotifyWorker(op) \/ AwaitWithTimeout(op)
          PROVE  UNCHANGED <<inventory, free>> /\ Held' = Held
      BY <2>1 DEF SubmitOperation, NotifyWorker, AwaitWithTimeout, WakeWorker, workerVars, Held
    <2>2. CASE TestQueue \/ SpuriousWakeup
      BY <2>2 DEF TestQueue, SpuriousWakeup, Held
    <2>3. CASE TaskCallback \/ ConnectionCallback
      BY <2>3 DEF TaskCallback, ConnectionCallback, workerVars, Held
    <2>4. CASE BeginStop \/ BeginDestroy
      BY <2>4 DEF BeginStop, BeginDestroy, workerVars, Held
    <2>5. CASE CloserThread
      BY <2>5 DEF CloserThread, ClearFlag, NotifyClosing, JoinWorker, FlushQueue, WakeWorker,
                  workerVars, Held
    <2>6. CASE UNCHANGED vars
      BY <2>6 DEF vars, workerVars, Held
    <2> QED
      BY <2>1, <2>2, <2>3, <2>4, <2>5, <2>6 DEF Next, WorkerThread
  <1> QED
    BY <1>6, <1>7, <1>8, <1>9, <1>10

(* And so does every behaviour.                                            *)
LEMMA LossCorrect == Spec => []LossInv
  <1>1. Init => LossInv
    <2> SUFFICES ASSUME Init PROVE LossInv
      OBVIOUS
    <2>1. Failed = {}
      BY DEF Init, Failed
    <2> QED
      BY <2>1, FS_EmptySet DEF Init, LossInv
  <1> QED
    BY <1>1, LossStep, InvCorrect, PTL DEF Spec

-----------------------------------------------------------------------------
(* The condition variable: who sleeps is woken.                            *)

(* A worker asleep over a request, or over a flag that is down, has its    *)
(* notification still to come from the thread that queued or lowered it.   *)
WakeInv ==
    worker = "asleep" =>
        /\ queue # << >> => \E op \in Ops : caller[op] = "notify"
        /\ ~workerRunning => closing = "notify"

(* Past the lowering of the flag nobody raises it again.                   *)
DownInv == closing \in {"notify", "join", "flush", "closed"} => ~workerRunning

(* The worker is never asleep while the closer joins it, nor while a       *)
(* caller waits for a promise, unless some caller has yet to notify: each  *)
(* notification comes after the mutex was released (rdma_executor.cpp:480, *)
(* 320), and other threads move in between.                                *)
NoLostWakeup ==
    worker = "asleep" =>
        /\ closing # "join"
        /\ \A op \in Ops : caller[op] = "awaiting" /\ promise[op] = "none" =>
               \E other \in Ops : caller[other] = "notify"

(* No step puts the worker to sleep over work, or takes its waker away.    *)
LEMMA WakeStep == Control /\ WakeInv /\ DownInv /\ [Next]_vars => WakeInv' /\ DownInv'
  <1> SUFFICES ASSUME Control, WakeInv, DownInv, [Next]_vars
               PROVE  WakeInv' /\ DownInv'
    OBVIOUS
  <1> USE DEF Control, TypeOK, WakeInv, DownInv
  <1>1. CASE Start
    BY <1>1 DEF Start, callerVars, closeVars
  <1>2. ASSUME NEW op \in Ops, SubmitOperation(op) PROVE WakeInv' /\ DownInv'
    <2>1. CASE workerRunning
      <3>1. caller'[op] = "notify"
        BY <1>2, <2>1 DEF SubmitOperation
      <3> QED
        BY <1>2, <2>1, <3>1 DEF SubmitOperation, workerVars, closeVars
    <2>2. CASE ~workerRunning
      <3>1. \A other \in Ops : caller[other] = "notify" => caller'[other] = "notify"
        BY <1>2, <2>2 DEF SubmitOperation
      <3> QED
        BY <1>2, <2>2, <3>1 DEF SubmitOperation, workerVars, closeVars
    <2> QED
      BY <2>1, <2>2
  <1>3. ASSUME NEW op \in Ops, NotifyWorker(op) PROVE WakeInv' /\ DownInv'
    BY <1>3 DEF NotifyWorker, WakeWorker, closeVars
  <1>4. ASSUME NEW op \in Ops, AwaitWithTimeout(op) PROVE WakeInv' /\ DownInv'
    <2>1. \A other \in Ops : caller[other] = "notify" => caller'[other] = "notify"
      BY <1>4 DEF AwaitWithTimeout
    <2> QED
      BY <1>4, <2>1 DEF AwaitWithTimeout, workerVars, closeVars
  <1>5. CASE TestQueue
    BY <1>5 DEF TestQueue, callerVars, closeVars
  <1>6. CASE Execute
    BY <1>6 DEF Execute, CheckConnection, GetSourceBuffer, GetDestinationBuffer, AllocateTask,
                SubmitTask, AwaitTask, ReleaseBuffers, WorkerStep, GoOn, GiveUp,
                callerVars, closeVars
  <1>7. CASE SetPromise
    BY <1>7 DEF SetPromise, callerVars, closeVars
  <1>8. CASE SpuriousWakeup
    BY <1>8 DEF SpuriousWakeup, callerVars, closeVars
  <1>9. CASE TaskCallback
    BY <1>9 DEF TaskCallback, callerVars, closeVars
  <1>10. CASE ConnectionCallback
    BY <1>10 DEF ConnectionCallback, workerVars, callerVars, closeVars
  <1>11. CASE BeginStop
    BY <1>11 DEF BeginStop, workerVars, callerVars
  <1>12. CASE BeginDestroy
    BY <1>12 DEF BeginDestroy, ExitInv, workerVars, callerVars
  <1>13. CASE ClearFlag
    BY <1>13 DEF ClearFlag, workerVars, callerVars
  <1>14. CASE NotifyClosing
    BY <1>14 DEF NotifyClosing, WakeWorker, callerVars
  <1>15. CASE JoinWorker
    BY <1>15 DEF JoinWorker, workerVars, callerVars
  <1>16. CASE FlushQueue
    BY <1>16 DEF FlushQueue, workerVars, callerVars
  <1>17. CASE UNCHANGED vars
    BY <1>17 DEF vars, workerVars, callerVars, closeVars
  <1> QED
    BY <1>1, <1>2, <1>3, <1>4, <1>5, <1>6, <1>7, <1>8, <1>9, <1>10, <1>11, <1>12, <1>13,
       <1>14, <1>15, <1>16, <1>17 DEF Next, WorkerThread, CloserThread

(* Every behaviour keeps the waker.                                        *)
LEMMA WakeCorrect == Spec => [](WakeInv /\ DownInv)
  <1>1. Init => WakeInv /\ DownInv
    BY DEF Init, WakeInv, DownInv
  <1>2. Inv => Control
    BY DEF Inv, Control
  <1> QED
    BY <1>1, <1>2, WakeStep, InvCorrect, PTL DEF Spec

-----------------------------------------------------------------------------
(* The results.                                                            *)

(* Every behaviour keeps the types.                                        *)
THEOREM ExecutorTypeCorrect == Spec => []TypeOK
  <1>1. Inv => TypeOK
    BY DEF Inv
  <1> QED
    BY <1>1, InvCorrect, PTL

(* Nobody's promise is left unset when Stop() or the destructor has joined *)
(* the worker: what it has not answered is queued, and it leaves an empty  *)
(* queue that no later submission can enter.                               *)
THEOREM AllAnsweredWhenClosed == Spec => []ClosedMeansAnswered
  <1>1. Inv => ClosedMeansAnswered
    <2> SUFFICES ASSUME Inv, worker = "exited", NEW op \in Ops, caller[op] # "polling"
                 PROVE  promise[op] # "none"
      BY DEF ClosedMeansAnswered
    <2>1. inHand = << >> /\ queue = << >>
      BY DEF Inv, HandInv, ExitInv, BusyStates
    <2>2. DOMAIN Pending = {}
      BY <2>1, ConcatEmptySeq, EmptySeq DEF Pending
    <2> QED
      BY <2>2 DEF Inv, AccountedInv
  <1> QED
    BY <1>1, InvCorrect, PTL

(* Between operations at most two elements are missing for each operation  *)
(* that failed, however many operations there were.                        *)
THEOREM LossIsBounded == Spec => []LossBoundedByFailures
  <1>1. Inv /\ LossInv => LossBoundedByFailures
    <2> SUFFICES ASSUME Inv, LossInv, Idle, inventory
                 PROVE  Capacity - free <= 2 * Cardinality(Failed)
      BY DEF LossBoundedByFailures, Failed
    <2>1. free \in Nat /\ Capacity \in Nat /\ Cardinality(Failed) \in Nat
      BY CapacityAssumption, FS_CardinalityType DEF Inv, TypeOK, LossInv
    <2>2. Held = 0
      BY DEF Idle, Held
    <2> QED
      BY <2>1, <2>2 DEF LossInv
  <1> QED
    BY <1>1, InvCorrect, LossCorrect, PTL

(* The worker never sleeps through the join, nor through a request whose   *)
(* caller waits: an unanswered request is queued when nothing is in hand,  *)
(* and what is queued in front of a sleeping worker is about to be         *)
(* notified.                                                               *)
THEOREM WakeupsNotLost == Spec => []NoLostWakeup
  <1>1. Inv /\ WakeInv /\ DownInv => NoLostWakeup
    <2> SUFFICES ASSUME Inv, WakeInv, DownInv, worker = "asleep"
                 PROVE  NoLostWakeup
      BY DEF NoLostWakeup
    <2>1. closing # "join"
      BY DEF WakeInv, DownInv
    <2>2. ASSUME NEW op \in Ops, caller[op] = "awaiting", promise[op] = "none"
          PROVE  \E other \in Ops : caller[other] = "notify"
      <3>1. PICK i \in DOMAIN Pending : Pending[i] = op
        BY <2>2 DEF Inv, AccountedInv
      <3>2. inHand = << >>
        BY DEF Inv, HandInv, BusyStates
      <3>3. queue # << >>
        BY <3>1, <3>2, ConcatEmptySeq, EmptySeq DEF Pending
      <3> QED
        BY <3>3 DEF WakeInv
    <2> QED
      BY <2>1, <2>2 DEF NoLostWakeup
  <1> QED
    BY <1>1, InvCorrect, WakeCorrect, PTL

(* The executor implements OperationService.                               *)
THEOREM ImplementsService == Spec => ServiceSpec
  <1>1. Init => Service!Init
    <2> SUFFICES ASSUME Init PROVE inHand \o queue = << >>
      BY DEF Init, Service!Init
    <2> QED
      BY ConcatEmptySeq, EmptySeq DEF Init
  <1>2. Inv /\ [Next]_vars => [Service!Next]_Service!vars
    <2> SUFFICES ASSUME Inv, [Next]_vars
                 PROVE  Service!Next \/ UNCHANGED Service!vars
      OBVIOUS
    <2>0. Control /\ TypeOK /\ TypeOK' /\ Pending \in Seq(Ops)
      BY TypeStep, PendingIsSeq DEF Inv, Control
    <2>1. ASSUME NEW op \in Ops, Accepts(op) PROVE Service!Accept(op)
      <3>1. Service!Fresh(op)
        BY <2>1 DEF Accepts, Service!Fresh, Inv, FreshInv, Pending
      <3> QED
        BY <2>1, <3>1 DEF Accepts, Service!Accept, Pending
    <2>2. ASSUME NEW op \in Ops, Refuses(op) PROVE Service!Refuse(op)
      <3>1. Service!Fresh(op)
        BY <2>2 DEF Refuses, Service!Fresh, Inv, FreshInv, Pending
      <3> QED
        BY <2>2, <3>1 DEF Refuses, Service!Refuse, Pending
    <2>3. ASSUME NEW a \in {"ok", "error"}, Replies(a) PROVE Service!Reply(a)
      <3>1. 1 \in DOMAIN Pending /\ Head(Pending) = Pending[1]
        BY <2>0, <2>3, LenProperties, EmptySeq DEF Replies
      <3>2. promise[Head(Pending)] = "none"
        BY <3>1 DEF Inv, PendingInv
      <3> QED
        BY <2>3, <3>2 DEF Replies, Service!Reply, Pending
    <2>4. CASE Neither
      <3>1. CASE workerRunning' = workerRunning
        BY <2>4, <3>1 DEF Neither, Pending, Service!vars
      <3>2. CASE ~workerRunning /\ workerRunning'
        BY <2>0, <2>4, <3>2 DEF Neither, Pending, TypeOK, Service!Next, Service!Open
      <3>3. CASE workerRunning /\ ~workerRunning'
        BY <2>0, <2>4, <3>3 DEF Neither, Pending, TypeOK, Service!Next, Service!Close
      <3> QED
        BY <2>0, <3>1, <3>2, <3>3 DEF TypeOK
    <2> QED
      BY <2>0, <2>1, <2>2, <2>3, <2>4, StepKinds DEF Service!Next, Service!Answers
  <1> QED
    BY <1>1, <1>2, InvCorrect, PTL DEF Spec, ServiceSpec, Service!Spec

=============================================================================
