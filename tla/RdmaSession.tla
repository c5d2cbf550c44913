----------------------------- MODULE RdmaSession -----------------------------
(***************************************************************************)
(* The session protocol (rdma_session.cpp): each request of a client runs  *)
(* HandleClientSession over a TCP connection of its own, served by a       *)
(* HandleServerSession coroutine; the RDMA operation itself is executed by *)
(* the client's executor on the server's buffer.                           *)
(*                                                                         *)
(* The actors are the clients (a thread each), the sessions of the server, *)
(* which share the one thread of Serve()'s loop and hand over only where   *)
(* they co_await, that loop, and the RDMA devices.  A step of a session is *)
(* what it does from one co_await to the next.  A message is written and   *)
(* read whole.  Locking a path, and unlocking it, is one step, as in       *)
(* EndpointLock, which EndpointStorage implements when its callers share a *)
(* thread.                                                                 *)
(***************************************************************************)
EXTENDS Naturals, Sequences, FiniteSets

CONSTANTS Clients,      (* each makes one request; its session has its name*)
          Paths,        (* the paths the server has endpoints for          *)
          Unserved,     (* a path it has none for                          *)
          Nobody        (* not a client                                    *)

ASSUME SessionAssumption ==
    /\ Unserved \notin Paths
    /\ Nobody \notin Clients

VARIABLES
    timersExpire, (* do the 5 s timeouts strike?  In a behaviour, or never.*)
    server,       (* Serve(): running, returned, or its process crashed    *)
    serverError,  (* serverInternalError # nullptr                         *)
    session,      (* where each session's coroutine is                     *)
    reply,        (* the code of the response it is sending                *)
    holders,      (* the sessions each path's endpoints are locked for     *)
    verdict,      (* what its TryLockEndpointsByPath returned              *)
    client,       (* where each client is                                  *)
    asks,         (* its request                                           *)
    ack,          (* the code of its acknowledge                           *)
    result,       (* what RequestEndpointProcessing returned               *)
    toServer,     (* bytes on their way, a message each                    *)
    toClient,
    rdma,         (* the client's operation in its executor                *)
    buffer,       (* who wrote the buffer of each path last                *)
    got,          (* what a read fetched                                   *)
    processed     (* what the server's service was given after a write     *)

lockVars    == <<holders, verdict>>
inputVars   == <<timersExpire, asks>>
networkVars == <<toServer, toClient>>
serveVars   == <<server, serverError>>
clientVars  == <<client, inputVars, ack, result>>
dataVars    == <<buffer, got, processed>>
vars == <<serveVars, session, reply, lockVars, clientVars, networkVars, rdma, dataVars>>

Types    == {"read", "write"}
Requests == [type : Types, path : Paths \cup {Unserved}]
AckCodes == {"canceled", "failed", "completed"}
Codes    == {"permitted", "notFound", "locked", "internalError", "serviceError"}
Messages == AckCodes \cup {"request"}
Sessions == {"none", "backlog", "request", "reply", "ack", "over"}
Places   == {"idle", "connected", "response", "rdma", "acking", "over"}
Statuses == {"none", "active", "ok", "error"}
Contents == [by : {"nobody", "service", "client", "torn"}, of : Clients \cup {Nobody}]

Path(c) == asks[c].path
Writes(c) == asks[c].type = "write"

(* The buffer's contents after the service, or the operation, of c.        *)
Prepared(c) == [by |-> "service", of |-> c]
Written(c)  == [by |-> "client", of |-> c]
Torn(c)     == [by |-> "torn", of |-> c]

Left(c)   == client[c] = "over"

(* The sessions when their io_context is gone.                             *)
AllClosed == [c \in Clients |-> IF session[c] = "none" THEN "none" ELSE "over"]

Init ==
    /\ timersExpire \in BOOLEAN
    /\ server = "serving"
    /\ serverError = FALSE
    /\ session = [c \in Clients |-> "none"]
    /\ reply = [c \in Clients |-> "none"]
    /\ holders = [p \in Paths |-> {}]
    /\ verdict = [c \in Clients |-> "none"]
    /\ client = [c \in Clients |-> "idle"]
    /\ asks \in [Clients -> Requests]
    /\ ack = [c \in Clients |-> "none"]
    /\ result = [c \in Clients |-> "none"]
    /\ toServer = [c \in Clients |-> << >>]
    /\ toClient = [c \in Clients |-> << >>]
    /\ rdma = [c \in Clients |-> "none"]
    /\ buffer = [p \in Paths |-> [by |-> "nobody", of |-> Nobody]]
    /\ got = [c \in Clients |-> [by |-> "nobody", of |-> Nobody]]
    /\ processed = [c \in Clients |-> [by |-> "nobody", of |-> Nobody]]

-----------------------------------------------------------------------------
(* The client: RequestEndpointProcessing and HandleClientSession.  A       *)
(* request that ends destroys its io_context and with it the socket.       *)

Ends(c, r) ==
    /\ client' = [client EXCEPT ![c] = "over"]
    /\ result' = [result EXCEPT ![c] = r]

(* Connect() succeeds without a co_return: what it returns then is not     *)
(* defined, and may be no error, or one.                                   *)
Connect(c) ==
    /\ client[c] = "idle"
    /\ \/ /\ server = "serving"
          /\ session' = [session EXCEPT ![c] = "backlog"]
          /\ \/ client' = [client EXCEPT ![c] = "connected"] /\ UNCHANGED result
             \/ Ends(c, "error")
       \/ Ends(c, "error") /\ UNCHANGED session
    /\ UNCHANGED <<serveVars, reply, lockVars, inputVars, ack, networkVars, rdma, dataVars>>

(* A peer that has closed is noticed by the write or by the read after it. *)
SendRequest(c) ==
    /\ client[c] = "connected"
    /\ \/ /\ session[c] # "over"
          /\ toServer' = [toServer EXCEPT ![c] = Append(@, "request")]
          /\ client' = [client EXCEPT ![c] = "response"]
          /\ UNCHANGED result
       \/ session[c] = "over" /\ Ends(c, "error") /\ UNCHANGED toServer
    /\ UNCHANGED <<serveVars, session, reply, lockVars, inputVars, ack, toClient, rdma, dataVars>>

(* No response: a reset or closed connection, or the timeout.              *)
LoseResponse(c) ==
    /\ client[c] = "response"
    /\ session[c] = "over" \/ timersExpire
    /\ Ends(c, "error")
    /\ UNCHANGED <<serveVars, session, reply, lockVars, inputVars, ack, networkVars, rdma, dataVars>>

(* With the permission: make the remote buffer, let a writer's service     *)
(* fill the local one, and submit the operation.                           *)
ReceiveResponse(c) ==
    /\ client[c] = "response"
    /\ toClient[c] # << >>
    /\ toClient' = [toClient EXCEPT ![c] = Tail(@)]
    /\ \/ Ends(c, "error") /\ UNCHANGED <<ack, rdma>>
       \/ /\ Head(toClient[c]) = "permitted"
          /\ client' = [client EXCEPT ![c] = "acking"]
          /\ \/ Writes(c) /\ ack' = [ack EXCEPT ![c] = "canceled"]
             \/ ack' = [ack EXCEPT ![c] = "failed"]
          /\ UNCHANGED <<result, rdma>>
       \/ /\ Head(toClient[c]) = "permitted"
          /\ client' = [client EXCEPT ![c] = "rdma"]
          /\ rdma' = [rdma EXCEPT ![c] = "active"]
          /\ UNCHANGED <<ack, result>>
    /\ UNCHANGED <<serveVars, session, reply, lockVars, inputVars, toServer, dataVars>>

(* Mutation: the acknowledge is sent when the operation is submitted.      *)
AcknowledgeSubmission(c) ==
    /\ client[c] = "rdma"
    /\ ack' = [ack EXCEPT ![c] = "completed"]
    /\ client' = [client EXCEPT ![c] = "acking"]
    /\ UNCHANGED <<serveVars, session, reply, lockVars, inputVars, result, networkVars, rdma,
                   dataVars>>

(* Mutation: Await() instead of AwaitWithTimeout().                        *)
AwaitForever(c) ==
    /\ client[c] = "rdma"
    /\ \/ rdma[c] = "ok" /\ ack' = [ack EXCEPT ![c] = "completed"]
       \/ rdma[c] = "error" /\ ack' = [ack EXCEPT ![c] = "failed"]
    /\ client' = [client EXCEPT ![c] = "acking"]
    /\ UNCHANGED <<serveVars, session, reply, lockVars, inputVars, result, networkVars, rdma,
                   dataVars>>

(* AwaitWithTimeout on the operation: its end, or the timeout, which does  *)
(* not take the operation back from the executor.                          *)
AwaitOperation(c) ==
    /\ client[c] = "rdma"
    /\ \/ rdma[c] = "ok" /\ ack' = [ack EXCEPT ![c] = "completed"]
       \/ rdma[c] = "error" /\ ack' = [ack EXCEPT ![c] = "failed"]
       \/ rdma[c] = "active" /\ timersExpire /\ ack' = [ack EXCEPT ![c] = "failed"]
    /\ client' = [client EXCEPT ![c] = "acking"]
    /\ UNCHANGED <<serveVars, session, reply, lockVars, inputVars, result, networkVars, rdma,
                   dataVars>>

(* The request succeeds when the operation was completed, the acknowledge  *)
(* was sent and a reader's service did not fail.                           *)
SendAcknowledge(c) ==
    /\ client[c] = "acking"
    /\ \/ /\ session[c] # "over"
          /\ toServer' = [toServer EXCEPT ![c] = Append(@, ack[c])]
          /\ \/ ack[c] = "completed" /\ Ends(c, "ok")
             \/ ack[c] # "completed" /\ Ends(c, "error")
             \/ ~Writes(c) /\ Ends(c, "error")
       \/ session[c] = "over" /\ Ends(c, "error") /\ UNCHANGED toServer
    /\ UNCHANGED <<serveVars, session, reply, lockVars, inputVars, ack, toClient, rdma, dataVars>>

-----------------------------------------------------------------------------
(* The device, external: executes the operation, or fails it.              *)

RdmaSucceeds(c) ==
    /\ rdma[c] = "active"
    /\ server # "crashed"
    /\ rdma' = [rdma EXCEPT ![c] = "ok"]
    /\ IF Writes(c)
         THEN buffer' = [buffer EXCEPT ![Path(c)] = Written(c)] /\ UNCHANGED got
         ELSE got' = [got EXCEPT ![c] = buffer[Path(c)]] /\ UNCHANGED buffer
    /\ UNCHANGED <<serveVars, session, reply, lockVars, clientVars, networkVars, processed>>

(* A failed write may have written a part.                                 *)
RdmaFails(c) ==
    /\ rdma[c] = "active"
    /\ rdma' = [rdma EXCEPT ![c] = "error"]
    /\ \/ UNCHANGED buffer
       \/ Writes(c) /\ buffer' = [buffer EXCEPT ![Path(c)] = Torn(c)]
    /\ UNCHANGED <<serveVars, session, reply, lockVars, clientVars, networkVars, got, processed>>

-----------------------------------------------------------------------------
(* The server's sessions.                                                  *)

(* Async_accept, and the session's coroutine is spawned.                   *)
Accept(c) ==
    /\ server = "serving"
    /\ session[c] = "backlog"
    /\ session' = [session EXCEPT ![c] = "request"]
    /\ UNCHANGED <<serveVars, reply, lockVars, clientVars, networkVars, rdma, dataVars>>

Receives(c) ==
    /\ server = "serving"
    /\ session[c] = "request"
    /\ toServer[c] # << >>
    /\ toServer' = [toServer EXCEPT ![c] = Tail(@)]

(* Mutation: the code keeps its default, operationRejected.                *)
RepliesRejected(c, code) ==
    /\ session' = [session EXCEPT ![c] = "reply"]
    /\ reply' = [reply EXCEPT ![c] = "rejected"]

Replies(c, code) ==
    /\ session' = [session EXCEPT ![c] = "reply"]
    /\ reply' = [reply EXCEPT ![c] = code]

(* The coroutine is over, with the error that ends Serve().                *)
Fails(c) ==
    /\ session' = [session EXCEPT ![c] = "over"]
    /\ serverError' = TRUE

(* UnlockEndpointsByPath clears the flags whoever set them.                *)
Unlock(p) == holders' = [holders EXCEPT ![p] = {}] /\ UNCHANGED verdict

(* No client has an RDMA connection within 3 s of a message, which is read *)
(* as a request whatever it is.                                            *)
ReceiveWithoutConnection(c) ==
    /\ Receives(c)
    /\ Fails(c)
    /\ UNCHANGED <<server, reply, lockVars, clientVars, toClient, rdma, dataVars>>

(* The endpoint is not there, or its descriptor cannot be exported.        *)
ReceiveUnusableRequest(c) ==
    /\ Receives(c)
    /\ Head(toServer[c]) = "request"
    /\ Replies(c, IF Path(c) \in Paths THEN "internalError" ELSE "notFound")
    /\ UNCHANGED <<serveVars, lockVars, clientVars, toClient, rdma, dataVars>>

(* An acknowledge that came too late is parsed as a request, beyond the    *)
(* end of its buffer: a path nobody knows, an exception, which ends the    *)
(* session and resets serverInternalError, or a crash.                     *)
ReceiveStrayAcknowledge(c) ==
    /\ Receives(c)
    /\ Head(toServer[c]) # "request"
    /\ \/ Replies(c, "notFound") /\ UNCHANGED serveVars
       \/ /\ session' = [session EXCEPT ![c] = "over"]
          /\ serverError' = FALSE
          /\ UNCHANGED <<server, reply>>
       \/ /\ server' = "crashed"
          /\ session' = AllClosed
          /\ UNCHANGED <<serverError, reply>>
    /\ UNCHANGED <<lockVars, clientVars, toClient, rdma, dataVars>>

(* Mutation: the flags are not looked at.                                  *)
NeverLocked(p) == FALSE

Locked(p) == holders[p] # {}

ReceiveRefusedRequest(c) ==
    /\ Receives(c)
    /\ Head(toServer[c]) = "request"
    /\ Path(c) \in Paths
    /\ Locked(Path(c))
    /\ verdict' = [verdict EXCEPT ![c] = "refused"]
    /\ Replies(c, "locked")
    /\ UNCHANGED <<serveVars, holders, clientVars, toClient, rdma, dataVars>>

(* The endpoints are locked, and a read endpoint's service fills the       *)
(* buffer before the permission is sent.                                   *)
ReceiveGrantedRequest(c) ==
    /\ Receives(c)
    /\ Head(toServer[c]) = "request"
    /\ Path(c) \in Paths
    /\ ~Locked(Path(c))
    /\ holders' = [holders EXCEPT ![Path(c)] = {c}]
    /\ verdict' = [verdict EXCEPT ![c] = "granted"]
    /\ \/ Writes(c) /\ Replies(c, "permitted") /\ UNCHANGED buffer
       \/ /\ ~Writes(c)
          /\ Replies(c, "permitted")
          /\ buffer' = [buffer EXCEPT ![Path(c)] = Prepared(c)]
       \/ ~Writes(c) /\ Replies(c, "serviceError") /\ UNCHANGED buffer
    /\ UNCHANGED <<serveVars, clientVars, toClient, rdma, got, processed>>

(* Mutation: the endpoints are unlocked as soon as the response is out.    *)
UnlockAfterResponse(c) ==
    /\ server = "serving"
    /\ session[c] = "reply"
    /\ toClient' = [toClient EXCEPT ![c] = Append(@, reply[c])]
    /\ session' = [session EXCEPT ![c] = IF reply[c] = "permitted" THEN "ack" ELSE "request"]
    /\ IF reply[c] \in {"permitted", "serviceError"} THEN Unlock(Path(c)) ELSE UNCHANGED lockVars
    /\ UNCHANGED <<serveVars, reply, clientVars, toServer, rdma, dataVars>>

(* Mutation: the refusal unlocks the path like the other early ends do.    *)
RefusalUnlocks(c) ==
    /\ server = "serving"
    /\ session[c] = "reply"
    /\ reply[c] # "internalError"
    /\ toClient' = [toClient EXCEPT ![c] = Append(@, reply[c])]
    /\ session' = [session EXCEPT ![c] = IF reply[c] = "permitted" THEN "ack" ELSE "request"]
    /\ IF reply[c] \in {"locked", "serviceError"} THEN Unlock(Path(c)) ELSE UNCHANGED lockVars
    /\ UNCHANGED <<serveVars, reply, clientVars, toServer, rdma, dataVars>>

(* The response is out.  After an internal error the session returns a     *)
(* wrapped null error, which may or may not be an error.                   *)
SendResponse(c) ==
    /\ server = "serving"
    /\ session[c] = "reply"
    /\ toClient' = [toClient EXCEPT ![c] = Append(@, reply[c])]
    /\ \/ /\ reply[c] = "permitted"
          /\ session' = [session EXCEPT ![c] = "ack"]
          /\ UNCHANGED <<lockVars, serverError>>
       \/ /\ reply[c] = "serviceError"
          /\ session' = [session EXCEPT ![c] = "request"]
          /\ Unlock(Path(c))
          /\ UNCHANGED serverError
       \/ /\ reply[c] \in {"notFound", "locked"}
          /\ session' = [session EXCEPT ![c] = "request"]
          /\ UNCHANGED <<lockVars, serverError>>
       \/ /\ reply[c] = "internalError"
          /\ session' = [session EXCEPT ![c] = "over"]
          /\ serverError' \in BOOLEAN
          /\ UNCHANGED lockVars
    /\ UNCHANGED <<server, reply, clientVars, toServer, rdma, dataVars>>

(* The client has left and the write fails: the session returns the error  *)
(* and, when it had locked the endpoints, leaves them locked.              *)
LoseClient(c) ==
    /\ server = "serving"
    /\ session[c] = "reply"
    /\ Left(c)
    /\ Fails(c)
    /\ UNCHANGED <<server, reply, lockVars, clientVars, networkVars, rdma, dataVars>>

(* An acknowledge, whatever its code: a write endpoint's service is given  *)
(* the buffer, and the endpoints are unlocked whether it fails or not.     *)
ReceiveAcknowledge(c) ==
    /\ server = "serving"
    /\ session[c] = "ack"
    /\ toServer[c] # << >>
    /\ toServer' = [toServer EXCEPT ![c] = Tail(@)]
    /\ processed' = IF Writes(c) THEN [processed EXCEPT ![c] = buffer[Path(c)]] ELSE processed
    /\ Unlock(Path(c))
    /\ session' = [session EXCEPT ![c] = "request"]
    /\ UNCHANGED <<serveVars, reply, clientVars, toClient, rdma, buffer, got>>

(* Mutation: the error path does not unlock.                               *)
KeepLock(c) ==
    /\ server = "serving"
    /\ session[c] = "ack"
    /\ Left(c) \/ timersExpire
    /\ session' = [session EXCEPT ![c] = "request"]
    /\ UNCHANGED <<serveVars, reply, lockVars, clientVars, networkVars, rdma, dataVars>>

(* Mutation: the error of ReceiveAcknowledge is ignored.                   *)
ProcessAnyway(c) ==
    /\ server = "serving"
    /\ session[c] = "ack"
    /\ Left(c) \/ timersExpire
    /\ processed' = IF Writes(c) THEN [processed EXCEPT ![c] = buffer[Path(c)]] ELSE processed
    /\ Unlock(Path(c))
    /\ session' = [session EXCEPT ![c] = "request"]
    /\ UNCHANGED <<serveVars, reply, clientVars, networkVars, rdma, buffer, got>>

(* Mutation: a closed connection or a silent client is waited for.         *)
DropOnly(c) ==
    /\ server = "serving"
    /\ session[c] = "ack"
    /\ toServer[c] # << >>
    /\ toServer' = [toServer EXCEPT ![c] = Tail(@)]
    /\ Unlock(Path(c))
    /\ session' = [session EXCEPT ![c] = "request"]
    /\ UNCHANGED <<serveVars, reply, clientVars, toClient, rdma, dataVars>>

(* No acknowledge: the connection is closed, or the time is over, and then *)
(* one that arrived with the timer is dropped.                             *)
LoseAcknowledge(c) ==
    /\ server = "serving"
    /\ session[c] = "ack"
    /\ \/ toServer[c] = << >> /\ Left(c) /\ UNCHANGED toServer
       \/ timersExpire /\ UNCHANGED toServer
       \/ /\ timersExpire
          /\ toServer[c] # << >>
          /\ toServer' = [toServer EXCEPT ![c] = Tail(@)]
    /\ Unlock(Path(c))
    /\ session' = [session EXCEPT ![c] = "request"]
    /\ UNCHANGED <<serveVars, reply, clientVars, toClient, rdma, dataVars>>

-----------------------------------------------------------------------------
(* Serve().                                                                *)

(* At the end of the connection ReceiveRequest fails and is called again,  *)
(* for ever; poll() does not return while a session does that.             *)
Spinning(c) == session[c] = "request" /\ toServer[c] = << >> /\ Left(c)

(* Serve() returns the error; its io_context takes the sessions with it,   *)
(* where they are, and the endpoint storage stays as it is.                *)
ServeReturns ==
    /\ server = "serving"
    /\ serverError
    /\ \A c \in Clients : ~Spinning(c)
    /\ server' = "returned"
    /\ serverError' = FALSE
    /\ session' = AllClosed
    /\ UNCHANGED <<reply, lockVars, clientVars, networkVars, rdma, dataVars>>

(* Shutdown() ends Serve() likewise: the io_context is stopped before the  *)
(* handlers that are ready have run.  A later Serve() returns at once.     *)
Shutdown ==
    /\ server = "serving"
    /\ \A c \in Clients : ~Spinning(c)
    /\ server' = "shut down"
    /\ session' = AllClosed
    /\ UNCHANGED <<serverError, reply, lockVars, clientVars, networkVars, rdma, dataVars>>

ServeAgain ==
    /\ server = "returned"
    /\ server' = "serving"
    /\ UNCHANGED <<serverError, session, reply, lockVars, clientVars, networkVars, rdma, dataVars>>

-----------------------------------------------------------------------------
ClientStep(c) ==
    \/ SendRequest(c)
    \/ ReceiveResponse(c)
    \/ LoseResponse(c)
    \/ AwaitOperation(c)
    \/ SendAcknowledge(c)

ReceiveRequest(c) ==
    \/ ReceiveWithoutConnection(c)
    \/ ReceiveUnusableRequest(c)
    \/ ReceiveStrayAcknowledge(c)
    \/ ReceiveRefusedRequest(c)
    \/ ReceiveGrantedRequest(c)

SessionStep(c) ==
    \/ Accept(c)
    \/ ReceiveRequest(c)
    \/ SendResponse(c)
    \/ LoseClient(c)
    \/ ReceiveAcknowledge(c)
    \/ LoseAcknowledge(c)

Next ==
    \/ \E c \in Clients : Connect(c)
    \/ \E c \in Clients : ClientStep(c)
    \/ \E c \in Clients : RdmaSucceeds(c)
    \/ \E c \in Clients : RdmaFails(c)
    \/ \E c \in Clients : SessionStep(c)
    \/ ServeReturns
    \/ Shutdown
    \/ ServeAgain

Spec == Init /\ [][Next]_vars

(* A client's thread and the server's loop run, and a timer that may expire*)
(* does.  Nobody has to make a request or to serve again, and the devices  *)
(* owe nothing.                                                            *)
FairSpec ==
    /\ Spec
    /\ \A c \in Clients : WF_vars(ClientStep(c)) /\ WF_vars(SessionStep(c))
    /\ WF_vars(ServeReturns)

-----------------------------------------------------------------------------
(* Properties.                                                             *)

(* Every variable has its type.                                            *)
TypeOK ==
    /\ timersExpire \in BOOLEAN
    /\ server \in {"serving", "returned", "shut down", "crashed"}
    /\ serverError \in BOOLEAN
    /\ session \in [Clients -> Sessions]
    /\ reply \in [Clients -> Codes \cup {"none"}]
    /\ holders \in [Paths -> SUBSET Clients]
    /\ verdict \in [Clients -> {"none", "granted", "refused"}]
    /\ client \in [Clients -> Places]
    /\ asks \in [Clients -> Requests]
    /\ ack \in [Clients -> AckCodes \cup {"none"}]
    /\ result \in [Clients -> {"none", "ok", "error"}]
    /\ toServer \in [Clients -> Seq(Messages)]
    /\ toClient \in [Clients -> Seq(Codes)]
    /\ rdma \in [Clients -> Statuses]
    /\ buffer \in [Paths -> Contents]
    /\ got \in [Clients -> Contents]
    /\ processed \in [Clients -> Contents]

(* The flags have no owner: UnlockEndpointsByPath clears them whoever asks *)
(* (rdma_endpoint.cpp:238-250).  All the same a path that a session was    *)
(* granted is taken from it by nobody else: it is given back only when its *)
(* session goes on to the next request, and one that ended keeps it.       *)
LockKept ==
    [][\A c \in Clients, p \in Paths :
         c \in holders[p] /\ c \notin holders'[p] =>
             session[c] \in {"reply", "ack"} /\ session'[c] = "request"]_vars

(* A session that waits for a request holds nothing: every way round the   *)
(* loop of HandleServerSession unlocks.                                    *)
NothingHeldBetweenRequests ==
    \A c \in Clients, p \in Paths : session[c] = "request" => c \notin holders[p]

(* The server's service gets the buffer of a write only after the client   *)
(* sent an acknowledge (rdma_communication.hpp:61, "If no acknowledge is   *)
(* sent, server won't perform processing endpoint's buffer data").         *)
ServiceAfterAcknowledge ==
    \A c \in Clients : processed[c].by # "nobody" => ack[c] # "none" /\ Left(c)

(* As long as no timeout strikes, an operation runs on a buffer only while *)
(* its session has the path.                                               *)
OperationUnderLock ==
    ~timersExpire => \A c \in Clients : rdma[c] = "active" => holders[Path(c)] = {c}

(* As long as no timeout strikes, what a successful read fetched is what   *)
(* the server's service prepared for that very request.                    *)
ReadsPrepared ==
    ~timersExpire =>
        \A c \in Clients : result[c] = "ok" /\ ~Writes(c) => got[c] = Prepared(c)

(* As long as no timeout strikes, what the server's service is given after *)
(* a successful write is what that client wrote.                           *)
WritesProcessed ==
    ~timersExpire =>
        \A c \in Clients :
            result[c] = "ok" /\ processed[c].by # "nobody" => processed[c] = Written(c)

(* The service of a write endpoint is only given what its client wrote,    *)
(* complete: the acknowledge says with which status the operation ended.   *)
(* The server does not look at that status.                                *)
OnlyCompletedProcessed ==
    \A c \in Clients : processed[c].by # "nobody" => processed[c] = Written(c)

(* A session is refused a path because another session has it              *)
(* (rdma_session.cpp:130, "Endpoint is already locked by other session").  *)
RefusedForAnother ==
    [][\A c \in Clients :
         verdict'[c] = "refused" /\ verdict[c] # "refused" =>
             \E d \in holders[Path(c)] : session[d] \in {"reply", "ack"}]_vars

(* Whoever asks for the processing of an endpoint gets an answer, whatever *)
(* happens to the server, to the connection and to the device: timeouts    *)
(* see to it.                                                              *)
RequestReturns ==
    \A c \in Clients : timersExpire /\ client[c] = "connected" ~> client[c] = "over"

(* A session that waits for an acknowledge does not do so for ever: by a   *)
(* message, the end of the connection or the timer it comes to give the    *)
(* path back, unless it ends with Serve().                                 *)
PathReleased ==
    \A c \in Clients :
        timersExpire /\ session[c] = "ack" ~>
            session[c] = "over" \/ \A p \in Paths : c \notin holders[p]
=============================================================================
