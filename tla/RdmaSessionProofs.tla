------------------------- MODULE RdmaSessionProofs -------------------------
(***************************************************************************)
(* Proofs about RdmaSession, for any number of clients and paths.  A       *)
(* session that has been granted its path holds it, and nobody else does   *)
(* (Locks); at most one message of a client is on its way, and where the   *)
(* client and its session are says which (Network, Operation).  As long   *)
(* as no timer expires the client that has the permission and the session  *)
(* that waits for its acknowledge are in step (Timely), from which follows *)
(* what reads fetch and what the service of a write is given.              *)
(***************************************************************************)
EXTENDS RdmaSession, TLAPS

Granted(c) ==
    \/ session[c] = "ack"
    \/ session[c] = "reply" /\ reply[c] \in {"permitted", "serviceError"}

LocksOf(c) ==
    /\ Granted(c) => Path(c) \in Paths /\ holders[Path(c)] = {c}
    /\ \A p \in Paths : c \in holders[p] => p = Path(c) /\ (Granted(c) \/ session[c] = "over")

Locks == \A c \in Clients : LocksOf(c)

NetworkOf(c) ==
    /\ toServer[c] = <<"request">> =>
           /\ client[c] \in {"response", "over"} /\ session[c] \notin {"reply", "ack"}
           /\ ack[c] = "none" /\ rdma[c] = "none"
           /\ ~Left(c) => toClient[c] = << >>
    /\ toServer[c] \notin {<< >>, <<"request">>} =>
           Left(c) /\ ack[c] # "none" /\ toServer[c] = <<ack[c]>>
    /\ session[c] \in {"none", "backlog", "reply"} /\ ~Left(c) => toClient[c] = << >>
    /\ client[c] \in {"idle", "connected"} => toClient[c] = << >>
    /\ ~Left(c) /\ toClient[c] # << >> => \E code \in Codes : toClient[c] = <<code>>
    /\ ~Left(c) /\ toClient[c] = <<"permitted">> => Path(c) \in Paths
    /\ client[c] = "idle" => session[c] = "none"
    /\ client[c] = "connected" => session[c] \notin {"reply", "ack"}
    /\ session[c] = "reply" /\ reply[c] = "permitted" => rdma[c] = "none"

Network == \A c \in Clients : NetworkOf(c)

OperationOf(c) ==
    /\ client[c] \in {"idle", "connected", "response"} => rdma[c] = "none"
    /\ client[c] = "rdma" => rdma[c] # "none"
    /\ rdma[c] # "none" => Path(c) \in Paths
    /\ client[c] \notin {"acking", "over"} => ack[c] = "none"
    /\ client[c] = "acking" => ack[c] # "none"
    /\ ack[c] = "completed" => rdma[c] = "ok"
    /\ result[c] = "ok" => Left(c) /\ ack[c] = "completed"
    /\ processed[c].by # "nobody" => Left(c) /\ ack[c] # "none"

Operation == \A c \in Clients : OperationOf(c)

(* The client has, or is about to see, the permission, and has not sent an *)
(* acknowledge.                                                            *)
Permitted(c) ==
    \/ client[c] \in {"rdma", "acking"}
    \/ client[c] = "response" /\ toClient[c] = <<"permitted">>

TimelyOf(c) ==
    /\ Permitted(c) =>
           Path(c) \in Paths /\ holders[Path(c)] = {c} /\ session[c] \in {"ack", "over"}
    /\ rdma[c] = "active" => client[c] = "rdma"
    /\ ~Writes(c) /\ (Permitted(c) \/ (session[c] = "reply" /\ reply[c] = "permitted"))
           => buffer[Path(c)] = Prepared(c)
    /\ ~Writes(c) /\ rdma[c] = "ok" => got[c] = Prepared(c)
    /\ Writes(c) /\ rdma[c] = "ok" /\ session[c] = "ack" => buffer[Path(c)] = Written(c)
    /\ result[c] = "ok" /\ processed[c].by # "nobody" => processed[c] = Written(c)

Timely == ~timersExpire => \A c \in Clients : TimelyOf(c)

Inv == TypeOK /\ Locks /\ Network /\ Operation /\ Timely
-----------------------------------------------------------------------------
(* A message alone on its way.                                             *)
LEMMA OneMessage ==
  ASSUME NEW m
  PROVE  /\ Append(<< >>, m) = <<m>>
         /\ Head(<<m>>) = m
         /\ Tail(<<m>>) = << >>
         /\ <<m>> # << >>
         /\ \A k : <<m>> = <<k>> => m = k
  OBVIOUS

LEMMA PathTyped ==
  ASSUME TypeOK, NEW c \in Clients
  PROVE  Path(c) \in Paths \cup {Unserved} /\ asks[c].type \in Types
  BY DEF TypeOK, Path, Requests

LEMMA ContentsTyped ==
  ASSUME NEW c \in Clients
  PROVE  /\ Prepared(c) \in Contents
         /\ Written(c) \in Contents
         /\ Torn(c) \in Contents
  BY DEF Prepared, Written, Torn, Contents

-----------------------------------------------------------------------------
(* Types.  An operation, and a service that processes a write, find the    *)
(* buffer of a path that is served.                                        *)

LEMMA ClientTypes ==
  ASSUME TypeOK, Operation, NEW c \in Clients, Connect(c) \/ ClientStep(c)
  PROVE  TypeOK'
  <1>1. client \in [Clients -> Places] /\ result \in [Clients -> {"none", "ok", "error"}]
    BY DEF TypeOK
  <1>2. session \in [Clients -> Sessions] /\ toServer \in [Clients -> Seq(Messages)]
    BY DEF TypeOK
  <1>3. ack \in [Clients -> AckCodes \cup {"none"}] /\ rdma \in [Clients -> Statuses]
    BY DEF TypeOK
  <1>4. toClient \in [Clients -> Seq(Codes)]
    BY DEF TypeOK
  <1>5. client' \in [Clients -> Places] /\ result' \in [Clients -> {"none", "ok", "error"}]
    BY <1>1 DEF Connect, ClientStep, SendRequest, LoseResponse, ReceiveResponse,
                AwaitOperation, SendAcknowledge, Ends, Places
  <1>6. session' \in [Clients -> Sessions]
    BY <1>2 DEF Connect, ClientStep, SendRequest, LoseResponse, ReceiveResponse,
                AwaitOperation, SendAcknowledge, Sessions
  <1>7. toServer' \in [Clients -> Seq(Messages)]
    <2>1. client[c] = "acking" => ack[c] \in Messages
      BY <1>3 DEF Operation, OperationOf, Messages
    <2>2. \/ UNCHANGED toServer
          \/ \E m \in Messages : toServer' = [toServer EXCEPT ![c] = Append(@, m)]
      BY <2>1 DEF Connect, ClientStep, SendRequest, LoseResponse, ReceiveResponse,
                  AwaitOperation, SendAcknowledge, Messages, networkVars
    <2>3. \A m \in Messages : Append(toServer[c], m) \in Seq(Messages)
      BY <1>2
    <2> QED
      BY <1>2, <2>2, <2>3
  <1>8. toClient' \in [Clients -> Seq(Codes)]
    BY <1>4 DEF Connect, ClientStep, SendRequest, LoseResponse, ReceiveResponse,
                AwaitOperation, SendAcknowledge, networkVars
  <1>9. ack' \in [Clients -> AckCodes \cup {"none"}] /\ rdma' \in [Clients -> Statuses]
    BY <1>3 DEF Connect, ClientStep, SendRequest, LoseResponse, ReceiveResponse,
                AwaitOperation, SendAcknowledge, AckCodes, Statuses
  <1>10. UNCHANGED <<serveVars, reply, lockVars, inputVars, dataVars>>
    BY DEF Connect, ClientStep, SendRequest, LoseResponse, ReceiveResponse, AwaitOperation,
           SendAcknowledge
  <1> QED
    BY <1>5, <1>6, <1>7, <1>8, <1>9, <1>10
    DEF TypeOK, serveVars, lockVars, inputVars, dataVars
LEMMA DeviceTypes ==
  ASSUME TypeOK, Operation, NEW c \in Clients, RdmaSucceeds(c) \/ RdmaFails(c)
  PROVE  TypeOK'
  <1>1. rdma \in [Clients -> Statuses] /\ got \in [Clients -> Contents]
    BY DEF TypeOK
  <1>2. buffer \in [Paths -> Contents]
    BY DEF TypeOK
  <1>3. rdma' \in [Clients -> Statuses]
    BY <1>1 DEF RdmaSucceeds, RdmaFails, Statuses
  <1>4. buffer' \in [Paths -> Contents]
    BY <1>2, ContentsTyped DEF RdmaSucceeds, RdmaFails
  <1>5. got' \in [Clients -> Contents]
    <2>1. Path(c) \in Paths
      BY DEF RdmaSucceeds, RdmaFails, Operation, OperationOf
    <2> QED
      BY <1>1, <1>2, <2>1 DEF RdmaSucceeds, RdmaFails
  <1>6. UNCHANGED <<serveVars, session, reply, lockVars, clientVars, networkVars, processed>>
    BY DEF RdmaSucceeds, RdmaFails
  <1> QED
    BY <1>3, <1>4, <1>5, <1>6
    DEF TypeOK, serveVars, lockVars, clientVars, inputVars, networkVars

LEMMA SessionTypes ==
  ASSUME TypeOK, Locks, NEW c \in Clients, SessionStep(c)
  PROVE  TypeOK'
  <1> USE DEF SessionStep, Accept, ReceiveRequest, ReceiveWithoutConnection,
              ReceiveUnusableRequest, ReceiveStrayAcknowledge, ReceiveRefusedRequest,
              ReceiveGrantedRequest, SendResponse, LoseClient, ReceiveAcknowledge,
              LoseAcknowledge
  <1>1. session \in [Clients -> Sessions] /\ reply \in [Clients -> Codes \cup {"none"}]
    BY DEF TypeOK
  <1>2. toServer \in [Clients -> Seq(Messages)] /\ toClient \in [Clients -> Seq(Codes)]
    BY DEF TypeOK
  <1>3. /\ holders \in [Paths -> SUBSET Clients]
        /\ verdict \in [Clients -> {"none", "granted", "refused"}]
    BY DEF TypeOK
  <1>4. /\ buffer \in [Paths -> Contents]
        /\ processed \in [Clients -> Contents]
    BY DEF TypeOK
  <1>5. /\ server \in {"serving", "returned", "shut down", "crashed"}
        /\ serverError \in BOOLEAN
    BY DEF TypeOK
  <1>6. session' \in [Clients -> Sessions]
    BY <1>1 DEF Fails, Replies, AllClosed, Sessions
  <1>7. reply' \in [Clients -> Codes \cup {"none"}]
    BY <1>1 DEF Fails, Replies, Codes
  <1>8. toServer' \in [Clients -> Seq(Messages)]
    <2>1. \/ UNCHANGED toServer
          \/ toServer[c] # << >> /\ toServer' = [toServer EXCEPT ![c] = Tail(@)]
      BY DEF Receives, networkVars
    <2>2. toServer[c] # << >> => Tail(toServer[c]) \in Seq(Messages)
      BY <1>2
    <2> QED
      BY <1>2, <2>1, <2>2
  <1>9. toClient' \in [Clients -> Seq(Codes)]
    <2>1. \/ UNCHANGED toClient
          \/ \E m \in Codes : toClient' = [toClient EXCEPT ![c] = Append(@, m)]
      <3>1. CASE SendResponse(c)
        BY <3>1 DEF Codes
      <3>2. CASE ~SendResponse(c)
        BY <3>2 DEF networkVars
      <3> QED
        BY <3>1, <3>2
    <2>2. \A m \in Codes : Append(toClient[c], m) \in Seq(Codes)
      BY <1>2
    <2> QED
      BY <1>2, <2>1, <2>2
  <1>10. /\ holders' \in [Paths -> SUBSET Clients]
         /\ verdict' \in [Clients -> {"none", "granted", "refused"}]
    BY <1>3 DEF Unlock, lockVars
  <1>11. buffer' \in [Paths -> Contents]
    BY <1>4, ContentsTyped DEF dataVars
  <1>12. processed' \in [Clients -> Contents]
    <2>1. session[c] = "ack" => Path(c) \in Paths
      BY DEF Locks, LocksOf, Granted
    <2> QED
      BY <1>4, <2>1 DEF dataVars
  <1>13. /\ server' \in {"serving", "returned", "shut down", "crashed"}
         /\ serverError' \in BOOLEAN
    BY <1>5 DEF Fails, serveVars
  <1>14. UNCHANGED <<clientVars, rdma, got>>
    BY DEF dataVars
  <1> QED
    BY <1>6, <1>7, <1>8, <1>9, <1>10, <1>11, <1>12, <1>13, <1>14
    DEF TypeOK, clientVars, inputVars

LEMMA ServeTypes ==
  ASSUME TypeOK, ServeReturns \/ Shutdown \/ ServeAgain
  PROVE  TypeOK'
  <1>1. session \in [Clients -> Sessions]
    BY DEF TypeOK
  <1>2. session' \in [Clients -> Sessions]
    BY <1>1 DEF ServeReturns, Shutdown, ServeAgain, AllClosed, Sessions
  <1>3. /\ UNCHANGED <<reply, lockVars, clientVars, networkVars, rdma, dataVars>>
        /\ server' \in {"serving", "returned", "shut down", "crashed"}
        /\ serverError' \in {serverError, FALSE}
    BY DEF ServeReturns, Shutdown, ServeAgain
  <1> QED
    BY <1>2, <1>3 DEF TypeOK, lockVars, clientVars, inputVars, networkVars, dataVars

LEMMA TypeStep ==
  ASSUME Inv, [Next]_vars
  PROVE  TypeOK'
  <1>1. UNCHANGED vars => TypeOK'
    BY DEF Inv, TypeOK, vars, serveVars, lockVars, clientVars, inputVars, networkVars, dataVars
  <1> QED
    BY <1>1, ClientTypes, DeviceTypes, SessionTypes, ServeTypes DEF Inv, Next
-----------------------------------------------------------------------------
(* The locks.                                                              *)

(* A step of one session that neither takes its path nor gives it back.    *)
LEMMA LocksKept ==
  ASSUME Locks, NEW c \in Clients,
         UNCHANGED <<holders, asks>>,
         \A d \in Clients \ {c} : session'[d] = session[d] /\ reply'[d] = reply[d],
         Granted(c)' => Granted(c),
         Granted(c) \/ session[c] = "over" => Granted(c)' \/ session'[c] = "over"
  PROVE  Locks'
  BY DEF Locks, LocksOf, Granted, Path

(* A session that had its path gives it back.                              *)
LEMMA LocksReturned ==
  ASSUME TypeOK, Locks, NEW c \in Clients,
         Granted(c), ~Granted(c)', Unlock(Path(c)), UNCHANGED <<asks, reply>>,
         \A d \in Clients \ {c} : session'[d] = session[d]
  PROVE  Locks'
  <1>1. holders \in [Paths -> SUBSET Clients]
    BY DEF TypeOK
  <1>2. Path(c) \in Paths /\ holders[Path(c)] = {c} /\ holders' = [holders EXCEPT ![Path(c)] = {}]
    BY DEF Locks, LocksOf, Unlock
  <1>3. LocksOf(c)'
    BY <1>1, <1>2 DEF Locks, LocksOf, Path
  <1>4. ASSUME NEW d \in Clients \ {c} PROVE LocksOf(d)'
    <2>1. Granted(d) => Path(d) # Path(c)
      BY <1>2 DEF Locks, LocksOf
    <2> QED
      BY <1>1, <1>2, <2>1 DEF Locks, LocksOf, Granted, Path
  <1> QED
    BY <1>3, <1>4 DEF Locks

LEMMA SessionLocks ==
  ASSUME TypeOK, Locks, NEW c \in Clients, SessionStep(c)
  PROVE  Locks'
  <1>1. session \in [Clients -> Sessions] /\ reply \in [Clients -> Codes \cup {"none"}]
    BY DEF TypeOK
  <1>2. holders \in [Paths -> SUBSET Clients]
    BY DEF TypeOK
  <1>3. CASE Accept(c) \/ LoseClient(c)
    BY <1>1, <1>3, LocksKept DEF Accept, LoseClient, Fails, lockVars, clientVars, inputVars, Granted
  <1>4. CASE ReceiveWithoutConnection(c) \/ ReceiveUnusableRequest(c) \/ ReceiveRefusedRequest(c)
    BY <1>1, <1>4, LocksKept
    DEF ReceiveWithoutConnection, ReceiveUnusableRequest, ReceiveRefusedRequest, Receives,
        Replies, Fails, lockVars, clientVars, inputVars, Granted
  <1>5. CASE ReceiveStrayAcknowledge(c)
    <2>1. CASE session' = AllClosed
      BY <1>1, <1>5, <2>1
      DEF ReceiveStrayAcknowledge, AllClosed, lockVars, clientVars, inputVars, Locks, LocksOf,
          Granted, Path
    <2>2. CASE session' # AllClosed
      BY <1>1, <1>5, <2>2, LocksKept
      DEF ReceiveStrayAcknowledge, Receives, Replies, serveVars, lockVars, clientVars,
          inputVars, Granted
    <2> QED
      BY <2>1, <2>2
  <1>6. CASE ReceiveGrantedRequest(c)
    <2>1. /\ Path(c) \in Paths /\ holders[Path(c)] = {} /\ session[c] = "request"
          /\ holders' = [holders EXCEPT ![Path(c)] = {c}]
          /\ asks' = asks
      BY <1>6 DEF ReceiveGrantedRequest, Locked, Receives, clientVars, inputVars
    <2>2. /\ Granted(c)'
          /\ \A d \in Clients \ {c} : session'[d] = session[d] /\ reply'[d] = reply[d]
      <3>1. \E code \in {"permitted", "serviceError"} : Replies(c, code)
        BY <1>6 DEF ReceiveGrantedRequest
      <3> QED
        BY <1>1, <3>1 DEF Replies, Granted
    <2>3. LocksOf(c)'
      BY <1>2, <2>1, <2>2 DEF Locks, LocksOf, Path, Granted
    <2>4. ASSUME NEW d \in Clients \ {c} PROVE LocksOf(d)'
      BY <1>2, <2>1, <2>2 DEF Locks, LocksOf, Path, Granted
    <2> QED
      BY <2>3, <2>4 DEF Locks
  <1>7. CASE SendResponse(c)
    <2>1. CASE reply[c] = "serviceError"
      BY <1>1, <1>7, <2>1, LocksReturned
      DEF SendResponse, Granted, clientVars, inputVars
    <2>2. CASE reply[c] # "serviceError"
      BY <1>1, <1>7, <2>2, LocksKept
      DEF SendResponse, Granted, lockVars, clientVars, inputVars
    <2> QED
      BY <2>1, <2>2
  <1>8. CASE ReceiveAcknowledge(c) \/ LoseAcknowledge(c)
    BY <1>1, <1>8, LocksReturned
    DEF ReceiveAcknowledge, LoseAcknowledge, Granted, clientVars, inputVars
  <1> QED
    BY <1>3, <1>4, <1>5, <1>6, <1>7, <1>8 DEF SessionStep, ReceiveRequest

LEMMA LocksStep ==
  ASSUME Inv, [Next]_vars
  PROVE  Locks'
  <1>1. session \in [Clients -> Sessions]
    BY DEF Inv, TypeOK
  <1>2. ASSUME NEW c \in Clients, Connect(c) PROVE Locks'
    <2>1. session[c] = "none"
      BY <1>2 DEF Connect, Inv, Network, NetworkOf
    <2> QED
      BY <1>1, <1>2, <2>1, LocksKept DEF Connect, Inv, lockVars, inputVars, Granted
  <1>3. ASSUME NEW c \in Clients, ClientStep(c) \/ RdmaSucceeds(c) \/ RdmaFails(c) PROVE Locks'
    BY <1>3, LocksKept
    DEF ClientStep, SendRequest, LoseResponse, ReceiveResponse, AwaitOperation, SendAcknowledge,
        RdmaSucceeds, RdmaFails, Inv, lockVars, clientVars, inputVars, Granted
  <1>4. CASE ServeReturns \/ Shutdown
    <2>1. /\ UNCHANGED <<reply, holders, asks>>
          /\ \A c \in Clients : session'[c] = IF session[c] = "none" THEN "none" ELSE "over"
      BY <1>4 DEF ServeReturns, Shutdown, AllClosed, lockVars, clientVars, inputVars
    <2> QED
      BY <2>1 DEF Inv, Locks, LocksOf, Granted, Path
  <1>5. CASE ServeAgain \/ UNCHANGED vars
    BY <1>5 DEF ServeAgain, vars, lockVars, clientVars, inputVars, Inv, Locks, LocksOf, Granted,
                Path
  <1> QED
    BY <1>2, <1>3, <1>4, <1>5, SessionLocks DEF Next, Inv
-----------------------------------------------------------------------------
(* The messages and the operation.                                         *)

OwnVars(c) ==
    <<client[c], session[c], reply[c], ack[c], result[c], rdma[c], toServer[c], toClient[c]>>

(* What concerns the other clients stays as it is.                         *)
LEMMA OthersKept ==
  ASSUME Network, Operation, NEW c \in Clients, UNCHANGED asks,
         \A d \in Clients \ {c} : UNCHANGED <<OwnVars(d), processed[d]>>,
         NetworkOf(c)', OperationOf(c)'
  PROVE  Network' /\ Operation'
  BY DEF Network, NetworkOf, Operation, OperationOf, OwnVars, Left, Path

(* Before it has answered the permission a client has nothing on its way   *)
(* but its request.                                                        *)
LEMMA NothingSent ==
  ASSUME Network, NEW c \in Clients, ~Left(c), client[c] # "response" \/ toClient[c] # << >>
  PROVE  toServer[c] = << >>
  BY DEF Network, NetworkOf, Left

LEMMA ClientPhases ==
  ASSUME TypeOK, Network, Operation, NEW c \in Clients, Connect(c) \/ ClientStep(c)
  PROVE  Network' /\ Operation'
  <1> USE DEF Left
  <1>1. client \in [Clients -> Places] /\ result \in [Clients -> {"none", "ok", "error"}]
    BY DEF TypeOK
  <1>2. session \in [Clients -> Sessions] /\ toServer \in [Clients -> Seq(Messages)]
    BY DEF TypeOK
  <1>3. ack \in [Clients -> AckCodes \cup {"none"}] /\ rdma \in [Clients -> Statuses]
    BY DEF TypeOK
  <1>4. toClient \in [Clients -> Seq(Codes)]
    BY DEF TypeOK
  <1>5. NetworkOf(c) /\ OperationOf(c)
    BY DEF Network, Operation
  <1>6. /\ UNCHANGED <<asks, reply, processed>>
        /\ \A d \in Clients \ {c} : UNCHANGED <<OwnVars(d), processed[d]>>
    BY <1>1, <1>2, <1>3, <1>4
    DEF Connect, ClientStep, SendRequest, LoseResponse, ReceiveResponse, AwaitOperation,
        SendAcknowledge, Ends, OwnVars, inputVars, networkVars, dataVars
  <1>7. CASE Connect(c)
    <2>1. /\ client[c] = "idle" /\ client'[c] \in {"connected", "over"}
          /\ session'[c] \in {"backlog", session[c]}
          /\ result'[c] \in {"error", result[c]}
          /\ UNCHANGED <<ack[c], rdma[c], toServer[c], toClient[c]>>
      BY <1>1, <1>2, <1>7 DEF Connect, Ends, networkVars
    <2>2. toServer[c] = << >>
      BY <2>1, NothingSent
    <2> QED
      BY <1>5, <1>6, <2>1, <2>2, OneMessage, OthersKept DEF NetworkOf, OperationOf, Path
  <1>8. CASE SendRequest(c)
    <2>1. /\ client[c] = "connected" /\ UNCHANGED <<session[c], ack[c], rdma[c], toClient[c]>>
          /\ \/ client'[c] = "response" /\ toServer'[c] = Append(toServer[c], "request")
                /\ result'[c] = result[c]
             \/ client'[c] = "over" /\ toServer'[c] = toServer[c] /\ result'[c] = "error"
      BY <1>1, <1>2, <1>8 DEF SendRequest, Ends
    <2>2. toServer[c] = << >>
      BY <2>1, NothingSent
    <2>3. toServer'[c] \in {<< >>, <<"request">>}
      BY <2>1, <2>2, OneMessage
    <2> QED
      BY <1>5, <1>6, <2>1, <2>2, <2>3, OneMessage, OthersKept DEF NetworkOf, OperationOf, Path
  <1>9. CASE LoseResponse(c)
    <2>1. /\ client[c] = "response" /\ client'[c] = "over" /\ result'[c] = "error"
          /\ UNCHANGED <<session[c], ack[c], rdma[c], toServer[c], toClient[c]>>
      BY <1>1, <1>9 DEF LoseResponse, Ends, networkVars
    <2> QED
      BY <1>5, <1>6, <2>1, OthersKept DEF NetworkOf, OperationOf, Path
  <1>10. CASE ReceiveResponse(c)
    <2>1. /\ client[c] = "response" /\ UNCHANGED <<session[c], toServer[c]>>
          /\ toClient[c] # << >> /\ toClient'[c] = Tail(toClient[c])
          /\ \/ /\ client'[c] = "over" /\ result'[c] = "error"
                /\ UNCHANGED <<ack[c], rdma[c]>>
             \/ /\ Head(toClient[c]) = "permitted" /\ client'[c] = "acking"
                /\ ack'[c] \in {"canceled", "failed"} /\ UNCHANGED <<result[c], rdma[c]>>
             \/ /\ Head(toClient[c]) = "permitted" /\ client'[c] = "rdma"
                /\ rdma'[c] = "active" /\ UNCHANGED <<ack[c], result[c]>>
      BY <1>1, <1>3, <1>4, <1>10 DEF ReceiveResponse, Ends
    <2>2. toServer[c] = << >> /\ session[c] # "reply"
      BY <1>5, <2>1, NothingSent DEF NetworkOf
    <2>3. PICK code \in Codes : toClient[c] = <<code>>
      BY <1>5, <2>1 DEF NetworkOf
    <2>4. Head(toClient[c]) = code /\ toClient'[c] = << >>
      BY <2>1, <2>3, OneMessage
    <2>5. Head(toClient[c]) = "permitted" => Path(c) \in Paths
      BY <1>5, <2>1, <2>3, <2>4 DEF NetworkOf
    <2> QED
      BY <1>5, <1>6, <2>1, <2>2, <2>4, <2>5, OneMessage, OthersKept
      DEF NetworkOf, OperationOf, Path
  <1>11. CASE AwaitOperation(c)
    <2>1. /\ client[c] = "rdma" /\ client'[c] = "acking"
          /\ ack'[c] \in {"completed", "failed"}
          /\ ack'[c] = "completed" => rdma[c] = "ok"
          /\ UNCHANGED <<session[c], result[c], rdma[c], toServer[c], toClient[c]>>
      BY <1>1, <1>3, <1>11 DEF AwaitOperation, networkVars
    <2>2. toServer[c] = << >>
      BY <2>1, NothingSent
    <2> QED
      BY <1>5, <1>6, <2>1, <2>2, OneMessage, OthersKept DEF NetworkOf, OperationOf, Path
  <1>12. CASE SendAcknowledge(c)
    <2>1. /\ client[c] = "acking" /\ client'[c] = "over"
          /\ result'[c] = "ok" => ack[c] = "completed"
          /\ toServer'[c] \in {toServer[c], Append(toServer[c], ack[c])}
          /\ UNCHANGED <<session[c], ack[c], rdma[c], toClient[c]>>
      BY <1>1, <1>2, <1>12 DEF SendAcknowledge, Ends
    <2>2. toServer[c] = << >>
      BY <2>1, NothingSent
    <2>3. ack[c] # "none" /\ ack[c] # "request"
      BY <1>3, <1>5, <2>1 DEF OperationOf, AckCodes
    <2>4. toServer'[c] \in {<< >>, <<ack[c]>>} /\ toServer'[c] # <<"request">>
      <3>1. Append(<< >>, ack[c]) = <<ack[c]>>
        BY OneMessage
      <3>2. << >> # <<"request">> /\ <<ack[c]>> # <<"request">>
        BY <2>3
      <3> QED
        BY <2>1, <2>2, <3>1, <3>2
    <2> QED
      BY <1>5, <1>6, <2>1, <2>3, <2>4, OthersKept DEF NetworkOf, OperationOf, Path
  <1> QED
    BY <1>7, <1>8, <1>9, <1>10, <1>11, <1>12 DEF ClientStep
LEMMA DevicePhases ==
  ASSUME TypeOK, Network, Operation, NEW c \in Clients, RdmaSucceeds(c) \/ RdmaFails(c)
  PROVE  Network' /\ Operation'
  <1>1. rdma \in [Clients -> Statuses]
    BY DEF TypeOK
  <1>2. NetworkOf(c) /\ OperationOf(c)
    BY DEF Network, Operation
  <1>3. /\ rdma[c] = "active" /\ rdma'[c] \in {"ok", "error"}
        /\ \A d \in Clients \ {c} : rdma'[d] = rdma[d]
        /\ UNCHANGED <<session, reply, clientVars, networkVars, processed>>
    BY <1>1 DEF RdmaSucceeds, RdmaFails
  <1> QED
    BY <1>2, <1>3, OthersKept
    DEF NetworkOf, OperationOf, OwnVars, Path, Left, clientVars, inputVars, networkVars

(* What the session finds when it reads: the request, or the acknowledge.  *)
LEMMA Received ==
  ASSUME TypeOK, Network, NEW c \in Clients, Receives(c)
  PROVE  /\ session[c] = "request" /\ toServer'[c] = << >>
         /\ \A d \in Clients \ {c} : toServer'[d] = toServer[d]
         /\ Head(toServer[c]) = "request" => toServer[c] = <<"request">>
         /\ Head(toServer[c]) # "request" => Left(c)
  <1>1. toServer \in [Clients -> Seq(Messages)] /\ ack \in [Clients -> AckCodes \cup {"none"}]
    BY DEF TypeOK
  <1>2. /\ session[c] = "request" /\ toServer[c] # << >> /\ toServer'[c] = Tail(toServer[c])
        /\ \A d \in Clients \ {c} : toServer'[d] = toServer[d]
    BY <1>1 DEF Receives
  <1>3. \/ toServer[c] = <<"request">>
        \/ Left(c) /\ ack[c] # "none" /\ toServer[c] = <<ack[c]>>
    BY <1>2 DEF Network, NetworkOf
  <1>4. ack[c] # "request"
    BY <1>1 DEF AckCodes
  <1> QED
    BY <1>2, <1>3, <1>4, OneMessage

LEMMA ReceivePhases ==
  ASSUME TypeOK, Network, Operation, NEW c \in Clients, ReceiveRequest(c)
  PROVE  Network' /\ Operation'
  <1> USE DEF Left
  <1>1. session \in [Clients -> Sessions] /\ reply \in [Clients -> Codes \cup {"none"}]
    BY DEF TypeOK
  <1>2. NetworkOf(c) /\ OperationOf(c)
    BY DEF Network, Operation
  <1>3. /\ Receives(c)
        /\ UNCHANGED <<clientVars, toClient, rdma, processed>>
    BY DEF ReceiveRequest, ReceiveWithoutConnection, ReceiveUnusableRequest,
           ReceiveStrayAcknowledge, ReceiveRefusedRequest, ReceiveGrantedRequest, dataVars
  <1>4. /\ session[c] = "request" /\ toServer'[c] = << >>
        /\ \A d \in Clients \ {c} : toServer'[d] = toServer[d]
        /\ Head(toServer[c]) = "request" => toServer[c] = <<"request">>
        /\ Head(toServer[c]) # "request" => client[c] = "over"
    BY <1>3, Received
  <1>5. UNCHANGED <<asks, client[c], ack[c], result[c], rdma[c], toClient[c], processed[c]>>
    BY <1>3 DEF clientVars, inputVars
  <1>6. CASE session' = AllClosed
    <2>1. \A d \in Clients : session'[d] = IF session[d] = "none" THEN "none" ELSE "over"
      BY <1>6 DEF AllClosed
    <2>2. UNCHANGED <<client, asks, ack, result, rdma, toClient, processed>>
      BY <1>3 DEF clientVars, inputVars
    <2>3. \A d \in Clients : NetworkOf(d)'
      BY <1>4, <2>1, <2>2, OneMessage DEF Network, NetworkOf, Path
    <2>4. \A d \in Clients : OperationOf(d)'
      BY <2>2 DEF Operation, OperationOf, Path
    <2> QED
      BY <2>3, <2>4 DEF Network, Operation
  <1>7. CASE session' # AllClosed
    <2>1. /\ \A d \in Clients \ {c} : session'[d] = session[d] /\ reply'[d] = reply[d]
          /\ session'[c] \in {"over", "reply"}
          /\ session'[c] = "reply" /\ reply'[c] = "permitted" => Head(toServer[c]) = "request"
      <3>1. \/ Fails(c) /\ UNCHANGED reply
            \/ session' = [session EXCEPT ![c] = "over"] /\ UNCHANGED reply
            \/ Replies(c, "notFound")
            \/ \E code \in Codes : Replies(c, code) /\ Head(toServer[c]) = "request"
        BY <1>7 DEF ReceiveRequest, ReceiveWithoutConnection, ReceiveUnusableRequest,
                    ReceiveStrayAcknowledge, ReceiveRefusedRequest, ReceiveGrantedRequest, Codes
      <3> QED
        BY <1>1, <3>1 DEF Fails, Replies
    <2>2. \A d \in Clients \ {c} : UNCHANGED <<OwnVars(d), processed[d]>>
      BY <1>3, <1>4, <2>1 DEF OwnVars, clientVars, inputVars
    <2>3. NetworkOf(c)'
      BY <1>2, <1>4, <1>5, <2>1, OneMessage DEF NetworkOf, Path
    <2>4. OperationOf(c)'
      BY <1>2, <1>5 DEF OperationOf, Path
    <2> QED
      BY <1>5, <2>2, <2>3, <2>4, OthersKept
  <1> QED
    BY <1>6, <1>7

LEMMA SessionPhases ==
  ASSUME TypeOK, Locks, Network, Operation, NEW c \in Clients, SessionStep(c)
  PROVE  Network' /\ Operation'
  <1> USE DEF Left
  <1>1. session \in [Clients -> Sessions] /\ toServer \in [Clients -> Seq(Messages)]
    BY DEF TypeOK
  <1>2. toClient \in [Clients -> Seq(Codes)] /\ processed \in [Clients -> Contents]
    BY DEF TypeOK
  <1>3. NetworkOf(c) /\ OperationOf(c) /\ LocksOf(c)
    BY DEF Network, Operation, Locks
  <1>4. CASE ReceiveRequest(c)
    BY <1>4, ReceivePhases
  <1>5. CASE ~ReceiveRequest(c)
    <2>1. /\ UNCHANGED <<clientVars, rdma, reply>>
          /\ \A d \in Clients \ {c} : UNCHANGED <<OwnVars(d), processed[d]>>
      BY <1>1, <1>2, <1>5
      DEF SessionStep, Accept, SendResponse, LoseClient, ReceiveAcknowledge, LoseAcknowledge,
          Fails, OwnVars, clientVars, inputVars, networkVars, dataVars
    <2>2. UNCHANGED <<asks, client[c], ack[c], result[c], rdma[c], reply[c]>>
      BY <2>1 DEF clientVars, inputVars
    <2>3. CASE Accept(c) \/ LoseClient(c)
      <3>1. /\ \/ session[c] = "backlog" /\ session'[c] = "request"
               \/ session[c] = "reply" /\ session'[c] = "over"
            /\ UNCHANGED <<toServer[c], toClient[c], processed[c]>>
        BY <1>1, <2>3 DEF Accept, LoseClient, Fails, networkVars, dataVars
      <3> QED
        BY <1>3, <2>1, <2>2, <3>1, OthersKept DEF NetworkOf, OperationOf, Path
    <2>4. CASE SendResponse(c)
      <3>1. /\ session[c] = "reply" /\ session'[c] \in {"ack", "request", "over"}
            /\ toClient'[c] = Append(toClient[c], reply[c]) /\ reply[c] \in Codes
            /\ UNCHANGED <<toServer[c], processed[c]>>
        BY <1>1, <1>2, <2>4 DEF SendResponse, Codes, dataVars
      <3>2. ~Left(c) => toClient'[c] = <<reply[c]>>
        BY <1>3, <3>1, OneMessage DEF NetworkOf
      <3>3. <<reply[c]>> = <<"permitted">> => Path(c) \in Paths
        BY <1>3, <3>1, OneMessage DEF LocksOf, Granted
      <3> QED
        BY <1>3, <2>1, <2>2, <3>1, <3>2, <3>3, OneMessage, OthersKept
        DEF NetworkOf, OperationOf, Path
    <2>5. CASE ReceiveAcknowledge(c) \/ LoseAcknowledge(c)
      <3>1. /\ session[c] = "ack" /\ session'[c] = "request" /\ UNCHANGED toClient[c]
            /\ toServer'[c] \in {toServer[c], Tail(toServer[c])}
            /\ toServer[c] = << >> => UNCHANGED <<toServer[c], processed[c]>>
        BY <1>1, <1>2, <2>5 DEF ReceiveAcknowledge, LoseAcknowledge, dataVars
      <3>2. toServer[c] # << >> => Left(c) /\ ack[c] # "none" /\ toServer[c] = <<ack[c]>>
        BY <1>3, <3>1 DEF NetworkOf
      <3>3. toServer'[c] \in {toServer[c], << >>}
        BY <3>1, <3>2, OneMessage
      <3>4. toServer'[c] # <<"request">>
        BY <1>3, <3>1, <3>3, OneMessage DEF NetworkOf
      <3> QED
        BY <1>3, <2>1, <2>2, <3>1, <3>2, <3>3, <3>4, OthersKept DEF NetworkOf, OperationOf, Path
    <2> QED
      BY <1>5, <2>3, <2>4, <2>5 DEF SessionStep
  <1> QED
    BY <1>4, <1>5

LEMMA PhasesStep ==
  ASSUME Inv, [Next]_vars
  PROVE  Network' /\ Operation'
  <1>1. CASE ServeReturns \/ Shutdown \/ ServeAgain \/ UNCHANGED vars
    <2>1. UNCHANGED <<client, asks, reply, ack, result, rdma, toServer, toClient, processed>>
      BY <1>1 DEF ServeReturns, Shutdown, ServeAgain, vars, clientVars, inputVars, networkVars,
                  dataVars
    <2>2. session' \in {session, AllClosed}
      BY <1>1 DEF ServeReturns, Shutdown, ServeAgain, vars
    <2>3. \A d \in Clients : session'[d] # session[d] => session'[d] = "over" /\ session[d] # "none"
      BY <2>2 DEF AllClosed
    <2>4. Network'
      BY <2>1, <2>3 DEF Inv, Network, NetworkOf, Path, Left
    <2> QED
      BY <2>1, <2>4 DEF Inv, Operation, OperationOf, Path, Left
  <1> QED
    BY <1>1, ClientPhases, DevicePhases, SessionPhases DEF Inv, Next
-----------------------------------------------------------------------------
(* Without timeouts.                                                       *)

Has(c) == Path(c) \in Paths /\ holders[Path(c)] = {c}

(* Of the other clients, those that have a path keep it and its buffer.    *)
LEMMA TimelyKept ==
  ASSUME Locks, Timely, ~timersExpire, NEW c \in Clients, UNCHANGED asks,
         \A d \in Clients \ {c} :
             /\ UNCHANGED <<OwnVars(d), got[d], processed[d]>>
             /\ Has(d) => UNCHANGED <<holders[Path(d)], buffer[Path(d)]>>,
         TimelyOf(c)'
  PROVE  Timely'
  <1>1. ASSUME NEW d \in Clients \ {c} PROVE TimelyOf(d)'
    <2>1. TimelyOf(d) /\ LocksOf(d)
      BY DEF Timely, Locks
    <2>2. UNCHANGED <<client[d], session[d], reply[d], result[d], rdma[d], toClient[d],
                      Path(d), Writes(d), got[d], processed[d]>>
      BY DEF OwnVars, Path, Writes
    <2>3. CASE Has(d)
      BY <2>1, <2>2, <2>3 DEF TimelyOf, Permitted, Prepared, Written, Has
    <2>4. CASE ~Has(d)
      <3>1. ~Permitted(d) /\ ~Granted(d)
        BY <2>1, <2>4 DEF TimelyOf, LocksOf, Has
      <3> QED
        BY <2>1, <2>2, <3>1 DEF TimelyOf, Permitted, Granted, Prepared, Written
    <2> QED
      BY <2>3, <2>4
  <1> QED
    BY <1>1 DEF Timely

(* Two sessions do not have the same path.                                 *)
LEMMA HasAlone ==
  ASSUME NEW c \in Clients, NEW d \in Clients \ {c}, holders[Path(c)] \in {{}, {c}}, Has(d)
  PROVE  Path(d) # Path(c)
  BY DEF Has

LEMMA ClientTimely ==
  ASSUME Inv, ~timersExpire, NEW c \in Clients, Connect(c) \/ ClientStep(c)
  PROVE  Timely'
  <1> USE DEF Left
  <1>1. client \in [Clients -> Places] /\ result \in [Clients -> {"none", "ok", "error"}]
    BY DEF Inv, TypeOK
  <1>2. session \in [Clients -> Sessions] /\ toServer \in [Clients -> Seq(Messages)]
    BY DEF Inv, TypeOK
  <1>3. ack \in [Clients -> AckCodes \cup {"none"}] /\ rdma \in [Clients -> Statuses]
    BY DEF Inv, TypeOK
  <1>4. toClient \in [Clients -> Seq(Codes)]
    BY DEF Inv, TypeOK
  <1>5. NetworkOf(c) /\ OperationOf(c) /\ TimelyOf(c)
    BY DEF Inv, Network, Operation, Timely
  <1>6. /\ UNCHANGED <<asks, reply, processed, got, buffer, holders>>
        /\ \A d \in Clients \ {c} : UNCHANGED OwnVars(d)
    BY <1>1, <1>2, <1>3, <1>4
    DEF Connect, ClientStep, SendRequest, LoseResponse, ReceiveResponse, AwaitOperation,
        SendAcknowledge, Ends, OwnVars, inputVars, networkVars, lockVars, dataVars
  <1>7. UNCHANGED <<Path(c), Writes(c), Prepared(c), Written(c)>>
    BY <1>6 DEF Path, Writes, Prepared, Written
  <1>8. \A d \in Clients \ {c} :
             /\ UNCHANGED <<OwnVars(d), got[d], processed[d]>>
             /\ Has(d) => UNCHANGED <<holders[Path(d)], buffer[Path(d)]>>
    BY <1>6 DEF Path
  <1>9. CASE Connect(c)
    <2>1. /\ client[c] = "idle" /\ client'[c] \in {"connected", "over"}
          /\ session'[c] \in {"backlog", session[c]}
          /\ result'[c] \in {"error", result[c]}
          /\ UNCHANGED <<rdma[c], toClient[c]>>
      BY <1>1, <1>2, <1>9 DEF Connect, Ends, networkVars
    <2>2. TimelyOf(c)'
      BY <1>5, <1>6, <1>7, <2>1 DEF NetworkOf, OperationOf, TimelyOf, Permitted
    <2> QED
      BY <1>6, <1>8, <2>2, TimelyKept DEF Inv
  <1>10. CASE SendRequest(c)
    <2>1. /\ client[c] = "connected" /\ client'[c] \in {"response", "over"}
          /\ result'[c] \in {"error", result[c]}
          /\ UNCHANGED <<session[c], rdma[c], toClient[c]>>
      BY <1>1, <1>10 DEF SendRequest, Ends
    <2>2. toClient'[c] # <<"permitted">>
      BY <1>5, <2>1, OneMessage DEF NetworkOf
    <2>3. TimelyOf(c)'
      BY <1>5, <1>6, <1>7, <2>1, <2>2 DEF NetworkOf, OperationOf, TimelyOf, Permitted
    <2> QED
      BY <1>6, <1>8, <2>3, TimelyKept DEF Inv
  <1>11. CASE LoseResponse(c)
    <2>1. /\ client[c] = "response" /\ client'[c] = "over" /\ result'[c] = "error"
          /\ session[c] = "over" /\ UNCHANGED <<session[c], rdma[c], toClient[c]>>
      BY <1>1, <1>11 DEF LoseResponse, Ends, networkVars
    <2>2. TimelyOf(c)'
      BY <1>5, <1>6, <1>7, <2>1 DEF OperationOf, TimelyOf, Permitted
    <2> QED
      BY <1>6, <1>8, <2>2, TimelyKept DEF Inv
  <1>12. CASE ReceiveResponse(c)
    <2>1. /\ client[c] = "response" /\ toClient[c] # << >> /\ UNCHANGED session[c]
          /\ \/ /\ client'[c] = "over" /\ result'[c] = "error" /\ UNCHANGED rdma[c]
             \/ /\ Head(toClient[c]) = "permitted" /\ client'[c] = "acking"
                /\ UNCHANGED <<result[c], rdma[c]>>
             \/ /\ Head(toClient[c]) = "permitted" /\ client'[c] = "rdma"
                /\ rdma'[c] = "active" /\ UNCHANGED result[c]
      BY <1>1, <1>3, <1>12 DEF ReceiveResponse, Ends
    <2>2. PICK code \in Codes : toClient[c] = <<code>>
      BY <1>5, <2>1 DEF NetworkOf
    <2>3. client'[c] # "over" => Permitted(c)
      BY <2>1, <2>2, OneMessage DEF Permitted
    <2>4. session[c] # "reply"
      BY <1>5, <2>1 DEF NetworkOf
    <2>5. TimelyOf(c)'
      BY <1>5, <1>6, <1>7, <2>1, <2>3, <2>4 DEF OperationOf, TimelyOf, Permitted
    <2> QED
      BY <1>6, <1>8, <2>5, TimelyKept DEF Inv
  <1>13. CASE AwaitOperation(c)
    <2>1. /\ client[c] = "rdma" /\ client'[c] = "acking" /\ rdma[c] # "active"
          /\ UNCHANGED <<session[c], result[c], rdma[c], toClient[c]>>
      BY <1>1, <1>13 DEF AwaitOperation, networkVars
    <2>2. TimelyOf(c)'
      BY <1>5, <1>6, <1>7, <2>1 DEF OperationOf, TimelyOf, Permitted
    <2> QED
      BY <1>6, <1>8, <2>2, TimelyKept DEF Inv
  <1>14. CASE SendAcknowledge(c)
    <2>1. /\ client[c] = "acking" /\ client'[c] = "over"
          /\ UNCHANGED <<session[c], rdma[c], toClient[c]>>
      BY <1>1, <1>14 DEF SendAcknowledge, Ends
    <2>2. TimelyOf(c)'
      BY <1>5, <1>6, <1>7, <2>1 DEF OperationOf, TimelyOf, Permitted
    <2> QED
      BY <1>6, <1>8, <2>2, TimelyKept DEF Inv
  <1> QED
    BY <1>9, <1>10, <1>11, <1>12, <1>13, <1>14 DEF ClientStep

LEMMA DeviceTimely ==
  ASSUME Inv, ~timersExpire, NEW c \in Clients, RdmaSucceeds(c) \/ RdmaFails(c)
  PROVE  Timely'
  <1>1. rdma \in [Clients -> Statuses] /\ got \in [Clients -> Contents]
    BY DEF Inv, TypeOK
  <1>2. buffer \in [Paths -> Contents]
    BY DEF Inv, TypeOK
  <1>3. OperationOf(c) /\ TimelyOf(c)
    BY DEF Inv, Operation, Timely
  <1>4. /\ rdma[c] = "active" /\ rdma'[c] \in {"ok", "error"}
        /\ \A d \in Clients \ {c} : rdma'[d] = rdma[d] /\ got'[d] = got[d]
        /\ UNCHANGED <<session, reply, lockVars, clientVars, networkVars, processed>>
    BY <1>1 DEF RdmaSucceeds, RdmaFails
  <1>5. client[c] = "rdma" /\ Permitted(c) /\ Has(c)
    BY <1>3, <1>4 DEF TimelyOf, Permitted, Has
  <1>6. \A p \in Paths : p # Path(c) \/ ~Writes(c) => buffer'[p] = buffer[p]
    BY <1>2 DEF RdmaSucceeds, RdmaFails
  <1>7. rdma'[c] = "ok" => IF Writes(c) THEN buffer'[Path(c)] = Written(c)
                                        ELSE got'[c] = buffer[Path(c)]
    BY <1>1, <1>2, <1>5 DEF RdmaSucceeds, RdmaFails, Has
  <1>8. /\ UNCHANGED <<asks, holders, client, result, session, reply, toClient, processed,
                       Path(c), Writes(c), Prepared(c), Written(c)>>
        /\ rdma'[c] = "error" => UNCHANGED got
    BY <1>1, <1>4 DEF lockVars, clientVars, inputVars, networkVars, Path, Writes, Prepared, Written,
                      RdmaSucceeds, RdmaFails
  <1>9. TimelyOf(c)'
    <2>1. result[c] # "ok"
      BY <1>3, <1>5 DEF OperationOf, Left
    <2>2. ~Writes(c) => buffer[Path(c)] = Prepared(c) /\ buffer'[Path(c)] = buffer[Path(c)]
      BY <1>3, <1>5, <1>6 DEF TimelyOf, Has
    <2> QED
      BY <1>3, <1>4, <1>5, <1>7, <1>8, <2>1, <2>2 DEF TimelyOf, Permitted
  <1>10. \A d \in Clients \ {c} : Has(d) => Path(d) # Path(c)
    BY <1>5, HasAlone DEF Has
  <1>11. \A d \in Clients \ {c} :
             /\ UNCHANGED <<OwnVars(d), got[d], processed[d]>>
             /\ Has(d) => UNCHANGED <<holders[Path(d)], buffer[Path(d)]>>
    <2>1. \A d \in Clients \ {c} : UNCHANGED <<OwnVars(d), got[d], processed[d], Path(d)>>
      BY <1>4, <1>8 DEF OwnVars, clientVars, networkVars, Path
    <2> QED
      BY <1>6, <1>8, <1>10, <2>1 DEF Has
  <1> QED
    BY <1>8, <1>9, <1>11, TimelyKept DEF Inv
(* A session that has nothing to do with a permission.                     *)
LEMMA IdleTimely ==
  ASSUME NEW c \in Clients, TimelyOf(c), ~Permitted(c),
         UNCHANGED <<asks, client[c], rdma[c], got[c], result[c], processed[c], toClient[c]>>,
         session'[c] # "ack", session'[c] = "reply" => reply'[c] # "permitted"
  PROVE  TimelyOf(c)'
  BY DEF TimelyOf, Permitted, Writes, Prepared, Written, Path

LEMMA ReceiveTimely ==
  ASSUME Inv, ~timersExpire, NEW c \in Clients, ReceiveRequest(c)
  PROVE  Timely'
  <1>1. session \in [Clients -> Sessions] /\ reply \in [Clients -> Codes \cup {"none"}]
    BY DEF Inv, TypeOK
  <1>2. holders \in [Paths -> SUBSET Clients] /\ buffer \in [Paths -> Contents]
    BY DEF Inv, TypeOK
  <1>3. /\ Receives(c)
        /\ UNCHANGED <<clientVars, toClient, rdma, got, processed>>
    BY DEF ReceiveRequest, ReceiveWithoutConnection, ReceiveUnusableRequest,
           ReceiveStrayAcknowledge, ReceiveRefusedRequest, ReceiveGrantedRequest, dataVars
  <1>4. /\ session[c] = "request"
        /\ \A d \in Clients \ {c} : toServer'[d] = toServer[d]
    BY <1>3, Received DEF Inv
  <1>5. UNCHANGED <<asks, client, ack, result, rdma, toClient, got, processed>>
    BY <1>3 DEF clientVars, inputVars
  <1>6. TimelyOf(c) /\ ~Permitted(c)
    BY <1>4 DEF Inv, Timely, TimelyOf
  <1>7. CASE session' = AllClosed
    <2>1. UNCHANGED <<holders, buffer>>
      BY <1>7 DEF ReceiveRequest, ReceiveWithoutConnection, ReceiveUnusableRequest,
                  ReceiveStrayAcknowledge, ReceiveRefusedRequest, ReceiveGrantedRequest, Replies,
                  AllClosed, lockVars, dataVars, Fails
    <2>2. \A d \in Clients : session'[d] = IF session[d] = "none" THEN "none" ELSE "over"
      BY <1>7 DEF AllClosed
    <2>3. \A d \in Clients : TimelyOf(d)'
      BY <1>5, <2>1, <2>2
      DEF Inv, Timely, TimelyOf, Permitted, Writes, Path, Prepared, Written
    <2> QED
      BY <2>3 DEF Timely
  <1>8. CASE ReceiveGrantedRequest(c)
    <2>1. /\ Path(c) \in Paths /\ holders[Path(c)] = {}
          /\ holders' = [holders EXCEPT ![Path(c)] = {c}]
          /\ \A p \in Paths \ {Path(c)} : buffer'[p] = buffer[p]
          /\ \E code \in {"permitted", "serviceError"} :
                /\ Replies(c, code)
                /\ ~Writes(c) /\ code = "permitted" => buffer'[Path(c)] = Prepared(c)
      BY <1>2, <1>8 DEF ReceiveGrantedRequest, Locked
    <2>2. /\ \A d \in Clients \ {c} : session'[d] = session[d] /\ reply'[d] = reply[d]
          /\ session'[c] = "reply"
          /\ ~Writes(c) /\ reply'[c] = "permitted" => buffer'[Path(c)] = Prepared(c)
      BY <1>1, <2>1 DEF Replies
    <2>3. UNCHANGED <<Permitted(c), Writes(c), Path(c), Prepared(c), Written(c)>>
      BY <1>5 DEF Permitted, Writes, Path, Prepared, Written
    <2>4. TimelyOf(c)'
      BY <1>5, <1>6, <2>2, <2>3 DEF TimelyOf
    <2>5. \A d \in Clients \ {c} :
              /\ UNCHANGED <<OwnVars(d), got[d], processed[d]>>
              /\ Has(d) => UNCHANGED <<holders[Path(d)], buffer[Path(d)]>>
      <3>1. \A d \in Clients \ {c} : UNCHANGED <<OwnVars(d), got[d], processed[d], Path(d)>>
        BY <1>4, <1>5, <2>2 DEF OwnVars, Path
      <3>2. \A d \in Clients \ {c} : Has(d) => Path(d) # Path(c)
        BY <2>1, HasAlone
      <3> QED
        BY <1>2, <2>1, <3>1, <3>2 DEF Has
    <2> QED
      BY <1>5, <2>4, <2>5, TimelyKept DEF Inv
  <1>9. CASE session' # AllClosed /\ ~ReceiveGrantedRequest(c)
    <2>1. UNCHANGED <<holders, buffer>>
      BY <1>9 DEF ReceiveRequest, ReceiveWithoutConnection, ReceiveUnusableRequest,
                  ReceiveStrayAcknowledge, ReceiveRefusedRequest, lockVars, dataVars
    <2>2. /\ \A d \in Clients \ {c} : session'[d] = session[d] /\ reply'[d] = reply[d]
          /\ session'[c] \in {"over", "reply"}
          /\ session'[c] = "reply" => reply'[c] # "permitted"
      <3>1. \/ session' = [session EXCEPT ![c] = "over"] /\ UNCHANGED reply
            \/ \E code \in {"notFound", "internalError", "locked"} : Replies(c, code)
        BY <1>9 DEF ReceiveRequest, ReceiveWithoutConnection, ReceiveUnusableRequest,
                    ReceiveStrayAcknowledge, ReceiveRefusedRequest, Fails
      <3> QED
        BY <1>1, <3>1 DEF Replies
    <2>3. TimelyOf(c)'
      BY <1>5, <1>6, <2>2, IdleTimely
    <2>4. \A d \in Clients \ {c} :
              /\ UNCHANGED <<OwnVars(d), got[d], processed[d]>>
              /\ Has(d) => UNCHANGED <<holders[Path(d)], buffer[Path(d)]>>
      BY <1>4, <1>5, <2>1, <2>2 DEF OwnVars, Path
    <2> QED
      BY <1>5, <2>3, <2>4, TimelyKept DEF Inv
  <1> QED
    BY <1>7, <1>8, <1>9

LEMMA SessionTimely ==
  ASSUME Inv, ~timersExpire, NEW c \in Clients, SessionStep(c), ~ReceiveRequest(c)
  PROVE  Timely'
  <1>1. session \in [Clients -> Sessions] /\ toServer \in [Clients -> Seq(Messages)]
    BY DEF Inv, TypeOK
  <1>2. toClient \in [Clients -> Seq(Codes)] /\ processed \in [Clients -> Contents]
    BY DEF Inv, TypeOK
  <1>3. holders \in [Paths -> SUBSET Clients]
    BY DEF Inv, TypeOK
  <1>4. NetworkOf(c) /\ OperationOf(c) /\ LocksOf(c) /\ TimelyOf(c)
    BY DEF Inv, Network, Operation, Locks, Timely
  <1>5. /\ UNCHANGED <<clientVars, rdma, reply, got, buffer>>
        /\ \A d \in Clients \ {c} : UNCHANGED <<OwnVars(d), processed[d]>>
    BY <1>1, <1>2
    DEF SessionStep, Accept, SendResponse, LoseClient, ReceiveAcknowledge, LoseAcknowledge,
        Fails, OwnVars, clientVars, inputVars, networkVars, dataVars
  <1>6. UNCHANGED <<asks, client, ack, result, rdma, reply, got, buffer,
                    Writes(c), Path(c), Prepared(c), Written(c)>>
    BY <1>5 DEF clientVars, inputVars, Writes, Path, Prepared, Written
  <1>7. \/ UNCHANGED holders
        \/ Granted(c) /\ holders' = [holders EXCEPT ![Path(c)] = {}]
    BY DEF SessionStep, Accept, SendResponse, LoseClient, ReceiveAcknowledge, LoseAcknowledge,
           Unlock, lockVars, Granted
  <1>8. \A d \in Clients \ {c} :
            /\ UNCHANGED <<OwnVars(d), got[d], processed[d]>>
            /\ Has(d) => UNCHANGED <<holders[Path(d)], buffer[Path(d)]>>
    <2>1. \A d \in Clients \ {c} : UNCHANGED <<OwnVars(d), got[d], processed[d], Path(d)>>
      BY <1>5, <1>6 DEF Path
    <2>2. ASSUME NEW d \in Clients \ {c}, Has(d) PROVE holders'[Path(d)] = holders[Path(d)]
      <3>1. Granted(c) => Path(d) # Path(c)
        BY <1>4, <2>2, HasAlone DEF LocksOf
      <3> QED
        BY <1>3, <1>7, <2>2, <3>1 DEF Has
    <2> QED
      BY <1>6, <2>1, <2>2
  <1>9. TimelyOf(c)'
    <2>1. CASE Accept(c) \/ LoseClient(c)
      <3>1. /\ \/ session[c] = "backlog" /\ session'[c] = "request"
               \/ session[c] = "reply" /\ session'[c] = "over"
            /\ UNCHANGED <<toClient[c], processed[c]>>
        BY <1>1, <2>1 DEF Accept, LoseClient, Fails, networkVars, dataVars
      <3>2. ~Permitted(c)
        BY <1>4, <3>1 DEF TimelyOf
      <3> QED
        BY <1>4, <1>6, <3>1, <3>2, IdleTimely
    <2>2. CASE SendResponse(c)
      <3>1. /\ session[c] = "reply" /\ toClient'[c] = Append(toClient[c], reply[c])
            /\ session'[c] \in {"ack", "request", "over"} /\ UNCHANGED processed[c]
            /\ session'[c] = "ack" <=> reply[c] = "permitted"
            /\ reply[c] = "permitted" => UNCHANGED holders
        BY <1>1, <1>2, <2>2 DEF SendResponse, lockVars, dataVars
      <3>2. ~Permitted(c)
        BY <1>4, <3>1 DEF TimelyOf
      <3>3. Permitted(c)' => reply[c] = "permitted"
        <4>1. ASSUME ~Left(c) PROVE toClient'[c] = <<reply[c]>>
          BY <1>4, <3>1, <4>1, OneMessage DEF NetworkOf
        <4> QED
          BY <1>6, <3>2, <4>1, OneMessage DEF Permitted, Left
      <3>4. CASE reply[c] = "permitted"
        <4>1. Has(c)
          BY <1>4, <3>1, <3>4 DEF LocksOf, Granted, Has
        <4>2. rdma[c] = "none"
          BY <1>4, <3>1, <3>4 DEF NetworkOf
        <4> QED
          BY <1>4, <1>6, <3>1, <3>4, <4>1, <4>2 DEF TimelyOf, Has
      <3>5. CASE reply[c] # "permitted"
        BY <1>4, <1>6, <3>1, <3>3, <3>5 DEF TimelyOf
      <3> QED
        BY <3>4, <3>5
    <2>3. CASE ReceiveAcknowledge(c) \/ LoseAcknowledge(c)
      <3>1. /\ session[c] = "ack" /\ session'[c] = "request" /\ UNCHANGED toClient[c]
            /\ toServer[c] # << >> \/ Left(c)
            /\ \/ UNCHANGED processed[c]
               \/ Writes(c) /\ processed'[c] = buffer[Path(c)]
        BY <1>1, <1>2, <1>6, <2>3
        DEF ReceiveAcknowledge, LoseAcknowledge, networkVars, dataVars
      <3>2. Left(c)
        BY <1>4, <3>1 DEF NetworkOf
      <3>3. ~Permitted(c)'
        BY <1>6, <3>2 DEF Permitted, Left
      <3>4. result[c] = "ok" /\ Writes(c) => buffer[Path(c)] = Written(c)
        BY <1>4, <3>1 DEF OperationOf, TimelyOf
      <3> QED
        BY <1>4, <1>6, <3>1, <3>3, <3>4 DEF TimelyOf
    <2> QED
      BY <2>1, <2>2, <2>3 DEF SessionStep
  <1> QED
    BY <1>6, <1>8, <1>9, TimelyKept DEF Inv

LEMMA TimelyStep ==
  ASSUME Inv, [Next]_vars
  PROVE  Timely'
  <1> SUFFICES ASSUME ~timersExpire
               PROVE  Timely'
    <2>1. ASSUME NEW c \in Clients, Connect(c) \/ ClientStep(c) PROVE UNCHANGED timersExpire
      BY <2>1 DEF Connect, ClientStep, SendRequest, LoseResponse, ReceiveResponse,
                  AwaitOperation, SendAcknowledge, inputVars
    <2>2. ASSUME NEW c \in Clients, RdmaSucceeds(c) \/ RdmaFails(c)
          PROVE  UNCHANGED timersExpire
      BY <2>2 DEF RdmaSucceeds, RdmaFails, clientVars, inputVars
    <2>3. ASSUME NEW c \in Clients, SessionStep(c) PROVE UNCHANGED timersExpire
      <3>1. UNCHANGED clientVars
        BY <2>3 DEF SessionStep, Accept, ReceiveRequest, ReceiveWithoutConnection,
                    ReceiveUnusableRequest, ReceiveStrayAcknowledge, ReceiveRefusedRequest,
                    ReceiveGrantedRequest, SendResponse, LoseClient, ReceiveAcknowledge,
                    LoseAcknowledge
      <3> QED
        BY <3>1 DEF clientVars, inputVars
    <2>4. ASSUME ServeReturns \/ Shutdown \/ ServeAgain \/ UNCHANGED vars
          PROVE  UNCHANGED timersExpire
      <3>1. UNCHANGED clientVars
        BY <2>4 DEF ServeReturns, Shutdown, ServeAgain, vars
      <3> QED
        BY <3>1 DEF clientVars, inputVars
    <2>5. UNCHANGED timersExpire
      BY <2>1, <2>2, <2>3, <2>4 DEF Next
    <2> QED
      BY <2>5 DEF Timely
  <1>1. CASE ServeReturns \/ Shutdown \/ ServeAgain \/ UNCHANGED vars
    <2>1. UNCHANGED <<client, asks, reply, result, rdma, toClient, holders, buffer, got, processed>>
      BY <1>1 DEF ServeReturns, Shutdown, ServeAgain, vars, lockVars, clientVars, inputVars,
                  networkVars, dataVars
    <2>2. session' \in {session, AllClosed}
      BY <1>1 DEF ServeReturns, Shutdown, ServeAgain, vars
    <2>3. \A d \in Clients : session'[d] # session[d] => session'[d] = "over"
      BY <2>2 DEF AllClosed
    <2>4. \A d \in Clients : TimelyOf(d)
      BY DEF Inv, Timely
    <2>5. ASSUME NEW d \in Clients PROVE TimelyOf(d)'
      BY <2>1, <2>3, <2>4 DEF TimelyOf, Permitted, Writes, Path, Prepared, Written
    <2> QED
      BY <2>5 DEF Timely
  <1> QED
    BY <1>1, ClientTimely, DeviceTimely, ReceiveTimely, SessionTimely DEF Next
LEMMA InvCorrect == Spec => []Inv
  <1>1. ASSUME Init PROVE Inv
    <2>1. TypeOK
      <3>1. /\ << >> \in Seq(Messages) /\ << >> \in Seq(Codes)
            /\ [by |-> "nobody", of |-> Nobody] \in Contents
        BY DEF Contents
      <3> QED
        BY <1>1, <3>1 DEF Init, TypeOK, Sessions, Places, Statuses
    <2>2. Locks /\ Network /\ Operation
      BY <1>1, OneMessage
      DEF Init, Locks, LocksOf, Granted, Network, NetworkOf, Operation, OperationOf
    <2>3. Timely
      BY <1>1 DEF Init, Timely, TimelyOf, Permitted
    <2> QED
      BY <2>1, <2>2, <2>3 DEF Inv
  <1>2. Inv /\ [Next]_vars => Inv'
    BY TypeStep, LocksStep, PhasesStep, TimelyStep DEF Inv
  <1> QED
    BY <1>1, <1>2, PTL DEF Spec

-----------------------------------------------------------------------------
(* The results.                                                            *)

(* Every variable of the protocol keeps its type, for any number of        *)
(* clients and paths.                                                      *)
THEOREM SessionTypeCorrect == Spec => []TypeOK
  <1>1. Inv => TypeOK
    BY DEF Inv
  <1> QED
    BY <1>1, InvCorrect, PTL

(* The loop of HandleServerSession never waits for a request with a path   *)
(* locked, whichever way round it came.                                    *)
THEOREM NothingIsHeldBetweenRequests == Spec => []NothingHeldBetweenRequests
  <1>1. Inv => NothingHeldBetweenRequests
    BY DEF Inv, Locks, LocksOf, Granted, NothingHeldBetweenRequests
  <1> QED
    BY <1>1, InvCorrect, PTL

(* The service of a write endpoint runs only after its client's            *)
(* acknowledge, with which that client's request is over.                  *)
THEOREM ServiceIsAfterAcknowledge == Spec => []ServiceAfterAcknowledge
  <1>1. Inv => ServiceAfterAcknowledge
    BY DEF Inv, Operation, OperationOf, ServiceAfterAcknowledge
  <1> QED
    BY <1>1, InvCorrect, PTL

(* Without timeouts, every RDMA operation runs under the lock of its own   *)
(* session.                                                                *)
THEOREM OperationIsUnderLock == Spec => []OperationUnderLock
  <1>1. Inv => OperationUnderLock
    BY DEF Inv, Timely, TimelyOf, Permitted, OperationUnderLock
  <1> QED
    BY <1>1, InvCorrect, PTL

(* Without timeouts, a read that is reported as a success fetched what the *)
(* service prepared for it, however many clients share the path.           *)
THEOREM ReadsFetchPrepared == Spec => []ReadsPrepared
  <1>1. Inv => ReadsPrepared
    BY DEF Inv, Timely, TimelyOf, Operation, OperationOf, ReadsPrepared
  <1> QED
    BY <1>1, InvCorrect, PTL

(* Without timeouts, the service is given what the client wrote whose      *)
(* write is reported as a success.                                         *)
THEOREM WritesReachService == Spec => []WritesProcessed
  <1>1. Inv => WritesProcessed
    BY DEF Inv, Timely, TimelyOf, WritesProcessed
  <1> QED
    BY <1>1, InvCorrect, PTL

(* What becomes of the holders of a path when a session that was granted   *)
(* its own gives it back: nobody else had it.                              *)
LEMMA OwnReturned ==
  ASSUME Inv, NEW c \in Clients, Granted(c), Unlock(Path(c)),
         NEW d \in Clients, NEW p \in Paths, d \in holders[p], d \notin holders'[p]
  PROVE  d = c
  <1>1. holders[Path(c)] = {c} /\ Path(c) \in Paths
    BY DEF Inv, Locks, LocksOf
  <1>2. p = Path(c)
    BY <1>1 DEF Unlock, Inv, TypeOK
  <1> QED
    BY <1>1, <1>2

(* Only the step with which the holder itself goes on takes a path away.   *)
LEMMA HolderGoesOn ==
  ASSUME Inv, [Next]_vars,
         NEW d \in Clients, NEW p \in Paths, d \in holders[p], d \notin holders'[p]
  PROVE  session[d] \in {"reply", "ack"} /\ session'[d] = "request"
  <1> USE DEF lockVars
  <1>1. session \in [Clients -> Sessions]
    BY DEF Inv, TypeOK
  <1>2. ASSUME NEW c \in Clients, SessionStep(c)
        PROVE  session[d] \in {"reply", "ack"} /\ session'[d] = "request"
    <2>1. CASE ReceiveGrantedRequest(c)
      <3>1. /\ Path(c) \in Paths /\ holders[Path(c)] = {}
            /\ holders' = [holders EXCEPT ![Path(c)] = {c}]
        BY <2>1 DEF ReceiveGrantedRequest, Locked
      <3>2. d \in holders'[p]
        BY <3>1 DEF Inv, TypeOK
      <3> QED
        BY <3>2
    <2>2. CASE SendResponse(c)
      <3>1. /\ Granted(c) /\ Unlock(Path(c))
            /\ session[c] = "reply" /\ session' = [session EXCEPT ![c] = "request"]
        BY <2>2 DEF SendResponse, Granted
      <3>2. d = c
        BY <3>1, OwnReturned
      <3> QED
        BY <1>1, <3>1, <3>2
    <2>3. CASE ReceiveAcknowledge(c) \/ LoseAcknowledge(c)
      <3>1. /\ Granted(c) /\ Unlock(Path(c))
            /\ session[c] = "ack" /\ session' = [session EXCEPT ![c] = "request"]
        BY <2>3 DEF ReceiveAcknowledge, LoseAcknowledge, Granted
      <3>2. d = c
        BY <3>1, OwnReturned
      <3> QED
        BY <1>1, <3>1, <3>2
    <2>4. CASE \/ Accept(c) \/ LoseClient(c) \/ ReceiveWithoutConnection(c)
               \/ ReceiveUnusableRequest(c) \/ ReceiveStrayAcknowledge(c)
               \/ ReceiveRefusedRequest(c)
      BY <2>4 DEF Accept, LoseClient, ReceiveWithoutConnection, ReceiveUnusableRequest,
                  ReceiveStrayAcknowledge, ReceiveRefusedRequest
    <2> QED
      BY <1>2, <2>1, <2>2, <2>3, <2>4 DEF SessionStep, ReceiveRequest
  <1>3. ASSUME NEW c \in Clients,
               Connect(c) \/ ClientStep(c) \/ RdmaSucceeds(c) \/ RdmaFails(c)
        PROVE  UNCHANGED holders
    BY <1>3 DEF Connect, ClientStep, SendRequest, LoseResponse, ReceiveResponse, AwaitOperation,
                SendAcknowledge, RdmaSucceeds, RdmaFails
  <1>4. CASE ServeReturns \/ Shutdown \/ ServeAgain \/ UNCHANGED vars
    BY <1>4 DEF ServeReturns, Shutdown, ServeAgain, vars
  <1> QED
    BY <1>2, <1>3, <1>4 DEF Next

(* For any number of sessions and paths, with the timers and without, no   *)
(* step of another session, client or device takes a path from the session *)
(* that was granted it, although the flags do not say whose they are.      *)
THEOREM PathStaysWithHolder == Spec => LockKept
  <1>1. Inv /\ [Next]_vars =>
           \A c \in Clients, p \in Paths :
               c \in holders[p] /\ c \notin holders'[p] =>
                   session[c] \in {"reply", "ack"} /\ session'[c] = "request"
    BY HolderGoesOn
  <1> QED
    BY <1>1, InvCorrect, PTL DEF Spec, LockKept
=============================================================================
