------------------------------ MODULE RdmaServer ------------------------------
(***************************************************************************)
(* RdmaServer::Serve() and Shutdown() (rdma_server.cpp): the flags and the *)
(* condition variable they meet over, and the loop that runs the sessions. *)
(*                                                                         *)
(* Serve() may be called by several threads, Shutdown() by one more.  The  *)
(* accept loop may end by an exception, which nobody sees.  The sessions   *)
(* (RdmaSession) are here what they do to the loop: they fail, or their    *)
(* client hangs up, and then poll() never returns.                         *)
(***************************************************************************)
EXTENDS Naturals

CONSTANT Servers       (* the threads that call Serve()                    *)

VARIABLES
    continueServing,   (* the atomic flags                                 *)
    isServing,
    shutdownForced,
    serve,             (* where each thread is in Serve()                  *)
    returned,          (* what its last Serve() returned                   *)
    internalError,     (* serverInternalError of its call                  *)
    accepting,         (* is the accept loop of its call there?           *)
    sessions,          (* has its call accepted a session?                *)
    hungUp,            (* has a client of its call hung up?                *)
    stopped,           (* ioContext.stopped()                              *)
    shutdown,          (* where Shutdown() is                              *)
    answer             (* what it returned                                 *)

flags      == <<continueServing, isServing, shutdownForced>>
acceptVars == <<accepting, sessions>>
locals     == <<internalError, acceptVars, hungUp, stopped>>
serveVars  == <<serve, returned, locals>>
vars == <<flags, serveVars, shutdown, answer>>

Init ==
    /\ continueServing = TRUE
    /\ isServing = FALSE
    /\ shutdownForced = FALSE
    /\ serve = [s \in Servers |-> "out"]
    /\ returned = [s \in Servers |-> "none"]
    /\ internalError = [s \in Servers |-> FALSE]
    /\ accepting = [s \in Servers |-> FALSE]
    /\ sessions = [s \in Servers |-> FALSE]
    /\ hungUp = [s \in Servers |-> FALSE]
    /\ stopped = [s \in Servers |-> FALSE]
    /\ shutdown = "out"
    /\ answer = "none"

(* serveMutex is held between the test of the predicate and the sleep.     *)
MutexFree == shutdown # "falling"

-----------------------------------------------------------------------------
(* Serve().                                                                *)

GoTo(s, place) == serve' = [serve EXCEPT ![s] = place]

Leave(s, result) ==
    /\ GoTo(s, "leave")
    /\ returned' = [returned EXCEPT ![s] = result]

(* Mutation: nobody looks whether somebody else is serving.                *)
EnterUnchecked(s) ==
    /\ serve[s] = "out"
    /\ MutexFree
    /\ isServing' = TRUE
    /\ GoTo(s, "prepare")
    /\ internalError' = [internalError EXCEPT ![s] = FALSE]
    /\ hungUp' = [hungUp EXCEPT ![s] = FALSE]
    /\ stopped' = [stopped EXCEPT ![s] = FALSE]
    /\ UNCHANGED <<continueServing, shutdownForced, returned, acceptVars, shutdown, answer>>

(* Mutation: the refused thread does not get out of Serve().               *)
EnterAndStay(s) ==
    /\ serve[s] = "out"
    /\ MutexFree
    /\ GoTo(s, IF isServing THEN "refused" ELSE "prepare")
    /\ isServing' = TRUE
    /\ UNCHANGED <<continueServing, shutdownForced, returned, locals, shutdown, answer>>

(* The second Serve() is refused; its deferred action is not yet there.    *)
Enter(s) ==
    /\ serve[s] = "out"
    /\ MutexFree
    /\ \/ /\ isServing
          /\ returned' = [returned EXCEPT ![s] = "alreadyServing"]
          /\ UNCHANGED <<isServing, serve, locals>>
       \/ /\ ~isServing
          /\ isServing' = TRUE
          /\ GoTo(s, "prepare")
          /\ internalError' = [internalError EXCEPT ![s] = FALSE]
          /\ accepting' = [accepting EXCEPT ![s] = FALSE]
          /\ sessions' = [sessions EXCEPT ![s] = FALSE]
          /\ hungUp' = [hungUp EXCEPT ![s] = FALSE]
          /\ stopped' = [stopped EXCEPT ![s] = FALSE]
          /\ UNCHANGED returned
    /\ UNCHANGED <<continueServing, shutdownForced, shutdown, answer>>

(* Endpoints, their memory, the executor and the acceptor.                 *)
Prepare(s) ==
    /\ serve[s] = "prepare"
    /\ \/ /\ GoTo(s, "test")
          /\ accepting' = [accepting EXCEPT ![s] = TRUE]
          /\ UNCHANGED returned
       \/ Leave(s, "error") /\ UNCHANGED accepting
    /\ UNCHANGED <<flags, internalError, sessions, hungUp, stopped, shutdown, answer>>

(* Mutation: the loop does not look at the flag again.                     *)
TestErrorOnly(s) ==
    /\ serve[s] = "test"
    /\ IF internalError[s]
         THEN Leave(s, "error") /\ stopped' = [stopped EXCEPT ![s] = TRUE]
         ELSE GoTo(s, "poll") /\ UNCHANGED <<returned, stopped>>
    /\ UNCHANGED <<flags, internalError, acceptVars, hungUp, shutdown, answer>>

(* Mutation: the loop does not look at serverInternalError.                *)
TestFlagOnly(s) ==
    /\ serve[s] = "test"
    /\ GoTo(s, IF continueServing THEN "poll" ELSE "close")
    /\ UNCHANGED <<flags, returned, locals, shutdown, answer>>

(* The head of the loop, and its look at serverInternalError.              *)
Test(s) ==
    /\ serve[s] = "test"
    /\ \/ ~continueServing /\ GoTo(s, "close") /\ UNCHANGED <<returned, stopped>>
       \/ /\ continueServing
          /\ internalError[s]
          /\ Leave(s, "error")
          /\ stopped' = [stopped EXCEPT ![s] = TRUE]
       \/ /\ continueServing
          /\ ~internalError[s]
          /\ GoTo(s, "poll")
          /\ UNCHANGED <<returned, stopped>>
    /\ UNCHANGED <<flags, internalError, acceptVars, hungUp, shutdown, answer>>

(* Handlers run by poll(): the accept loop, which ends with the flag or by *)
(* an exception of async_accept or of set_option; the end of a session,    *)
(* with an error or with an exception that resets it; and the end of a     *)
(* connection.                                                             *)
AcceptSession(s) ==
    /\ serve[s] = "poll"
    /\ accepting[s]
    /\ sessions' = [sessions EXCEPT ![s] = TRUE]
    /\ accepting' = [accepting EXCEPT ![s] = continueServing]
    /\ UNCHANGED <<flags, serve, returned, internalError, hungUp, stopped, shutdown, answer>>

AcceptThrows(s) ==
    /\ serve[s] = "poll"
    /\ accepting[s]
    /\ accepting' = [accepting EXCEPT ![s] = FALSE]
    /\ UNCHANGED <<flags, serve, returned, internalError, sessions, hungUp, stopped, shutdown,
                   answer>>

EndSession(s) ==
    /\ serve[s] = "poll"
    /\ sessions[s]
    /\ \E e \in BOOLEAN : internalError' = [internalError EXCEPT ![s] = e]
    /\ UNCHANGED <<flags, serve, returned, acceptVars, hungUp, stopped, shutdown, answer>>

HangUp(s) ==
    /\ serve[s] = "poll"
    /\ sessions[s]
    /\ hungUp' = [hungUp EXCEPT ![s] = TRUE]
    /\ UNCHANGED <<flags, serve, returned, internalError, acceptVars, stopped, shutdown, answer>>

(* No handler is ready.  The session of a client that hung up always has   *)
(* one: ReceiveRequest fails at once and is called again.                  *)
PollReturns(s) ==
    /\ serve[s] = "poll"
    /\ ~hungUp[s]
    /\ GoTo(s, "test")
    /\ UNCHANGED <<flags, returned, locals, shutdown, answer>>

CloseAndStop(s) ==
    /\ serve[s] = "close"
    /\ stopped' = [stopped EXCEPT ![s] = TRUE]
    /\ GoTo(s, "drain")
    /\ UNCHANGED <<flags, returned, internalError, acceptVars, hungUp, shutdown, answer>>

Drain(s) ==
    /\ serve[s] = "drain"
    /\ shutdownForced \/ stopped[s]
    /\ Leave(s, "ok")
    /\ UNCHANGED <<flags, locals, shutdown, answer>>

(* The deferred action, without the mutex.                                 *)
ClearServing(s) ==
    /\ serve[s] = "leave"
    /\ isServing' = FALSE
    /\ GoTo(s, "notify")
    /\ UNCHANGED <<continueServing, shutdownForced, returned, locals, shutdown, answer>>

NotifyShutdown(s) ==
    /\ serve[s] = "notify"
    /\ shutdown' = IF shutdown = "asleep" THEN "check" ELSE shutdown
    /\ GoTo(s, "out")
    /\ UNCHANGED <<flags, returned, locals, answer>>

-----------------------------------------------------------------------------
(* Shutdown().                                                             *)

StopServing ==
    /\ shutdown = "out"
    /\ continueServing' = FALSE
    /\ shutdown' = "begin"
    /\ answer' = "none"
    /\ UNCHANGED <<isServing, shutdownForced, serveVars>>

ResetForced ==
    /\ shutdown = "begin"
    /\ shutdownForced' = FALSE
    /\ shutdown' = "check"
    /\ UNCHANGED <<continueServing, isServing, serveVars, answer>>

(* The predicate of wait_for, under the mutex.                             *)
CheckServing ==
    /\ shutdown = "check"
    /\ \/ ~isServing /\ shutdown' = "out" /\ answer' = "ok"
       \/ isServing /\ shutdown' = "falling" /\ UNCHANGED answer
    /\ UNCHANGED <<flags, serveVars>>

FallAsleep ==
    /\ shutdown = "falling"
    /\ shutdown' = "asleep"
    /\ UNCHANGED <<flags, serveVars, answer>>

WakeSpuriously ==
    /\ shutdown = "asleep"
    /\ shutdown' = "check"
    /\ UNCHANGED <<flags, serveVars, answer>>

(* Mutation: wait() in place of wait_for(): only wakeups end the sleep.    *)
WaitUntimed ==
    /\ shutdown = "asleep"
    /\ shutdown' = "check"
    /\ UNCHANGED <<flags, serveVars, answer>>

(* Mutation: the predicate is not asked again when the time is over.       *)
TimeOutUnasked ==
    /\ shutdown = "asleep"
    /\ shutdown' = "out"
    /\ answer' = "ok"
    /\ UNCHANGED <<flags, serveVars>>

(* The time is over; the predicate decides.                                *)
TimeOut ==
    /\ shutdown = "asleep"
    /\ shutdown' = "out"
    /\ answer' = IF isServing THEN "timeout" ELSE "ok"
    /\ shutdownForced' = isServing
    /\ UNCHANGED <<continueServing, isServing, serveVars>>

-----------------------------------------------------------------------------
ServeStep(s) ==
    \/ Prepare(s)
    \/ Test(s)
    \/ PollReturns(s)
    \/ CloseAndStop(s)
    \/ Drain(s)
    \/ ClearServing(s)
    \/ NotifyShutdown(s)

ShutdownStep == ResetForced \/ CheckServing \/ FallAsleep \/ TimeOut

Next ==
    \/ \E s \in Servers : Enter(s)
    \/ \E s \in Servers : ServeStep(s)
    \/ \E s \in Servers : AcceptSession(s)
    \/ \E s \in Servers : AcceptThrows(s)
    \/ \E s \in Servers : EndSession(s)
    \/ \E s \in Servers : HangUp(s)
    \/ StopServing
    \/ ShutdownStep
    \/ WakeSpuriously

Spec == Init /\ [][Next]_vars

(* A thread inside Serve() or Shutdown() runs, and poll() returns when it  *)
(* can: sessions keep it busy with nothing but the end of a connection.    *)
(* The deadline of wait_for is fixed, so that no number of wakeups puts it *)
(* off for ever.                                                           *)
FairSpec ==
    /\ Spec
    /\ \A s \in Servers : WF_vars(ServeStep(s))
    /\ WF_vars(ShutdownStep)
    /\ SF_vars(TimeOut)

-----------------------------------------------------------------------------
(* Properties.                                                             *)

(* Every variable has its type.                                            *)
TypeOK ==
    /\ continueServing \in BOOLEAN
    /\ isServing \in BOOLEAN
    /\ shutdownForced \in BOOLEAN
    /\ serve \in [Servers -> {"out", "prepare", "test", "poll", "close", "drain", "leave",
                              "notify"}]
    /\ returned \in [Servers -> {"none", "ok", "error", "alreadyServing"}]
    /\ internalError \in [Servers -> BOOLEAN]
    /\ accepting \in [Servers -> BOOLEAN]
    /\ sessions \in [Servers -> BOOLEAN]
    /\ hungUp \in [Servers -> BOOLEAN]
    /\ stopped \in [Servers -> BOOLEAN]
    /\ shutdown \in {"out", "begin", "check", "falling", "asleep"}
    /\ answer \in {"none", "ok", "timeout"}

Inside(s) == serve[s] \notin {"out", "notify"}

(* One thread serves at a time, also when another one's Serve() is on its  *)
(* way out, and the flag says whether one does (rdma_server.hpp, "Mutex to *)
(* ensure only one Serve() call").                                         *)
OneServes ==
    /\ \A s, t \in Servers : Inside(s) /\ Inside(t) => s = t
    /\ isServing <=> \E s \in Servers : Inside(s)

(* Shutdown() reports success only when no thread serves, and a timeout    *)
(* only when one does, even if the notification got lost.                  *)
AnswerIsTrue ==
    [][answer' # answer =>
         /\ answer' = "ok" => \A s \in Servers : ~Inside(s)
         /\ answer' = "timeout" => \E s \in Servers : Inside(s)]_vars

(* The error of a session ends Serve(), which has no other way to say it,  *)
(* unless another session ends before the loop has seen it, or poll() does *)
(* not return for a client that hung up.                                   *)
ErrorEndsServe ==
    \A s \in Servers :
        internalError[s] /\ Inside(s) ~> ~Inside(s) \/ ~internalError[s] \/ hungUp[s]

(* Shutdown() returns, whatever Serve() does.                              *)
ShutdownReturns == shutdown = "begin" ~> shutdown = "out"

(* Shutdown() gets Serve() to return (rdma_server.hpp:49, "Shuts down      *)
(* server gracefully with timeout ... then forces stop").                  *)
ShutdownStops ==
    \A s \in Servers : ~continueServing /\ Inside(s) ~> ~Inside(s)

(* It does so while no client has hung up.                                 *)
ShutdownStopsPeers == [](\A s \in Servers : ~hungUp[s]) => ShutdownStops
=============================================================================
