--------------------------- MODULE RdmaConnections ---------------------------
(***************************************************************************)
(* The RDMA connections of a server's executor and of its clients: the two *)
(* slots of RdmaExecutor (requestedConnection, activeConnection), the      *)
(* callbacks that fill and clear them, and ConnectToAddress() on the other *)
(* side (rdma_executor.cpp, rdma_connection.cpp, rdma_client.cpp).         *)
(*                                                                         *)
(* A connection is one call of RdmaClient::Connect(), each of which makes  *)
(* an executor of its own.  The device, external, moves the links and      *)
(* queues events for the server, in order for each connection; a callback  *)
(* runs when the loop of Serve() calls Progress(), or a session's wait for *)
(* a connection does.                                                      *)
(***************************************************************************)
EXTENDS Naturals, Sequences, FiniteSets

CONSTANTS Conns,  (* the connections that are attempted                    *)
          None    (* nullptr                                               *)

ASSUME NoneAssumption == None \notin Conns

VARIABLES
    serving,      (* is Serve() running?                                   *)
    stuck,        (* has a client closed its TCP connection, so that the   *)
                  (* loop of Serve() does not come out of poll() again?    *)
    requested,    (* requestedConnection                                   *)
    active,       (* activeConnection                                      *)
    link,         (* the state of each connection in the device            *)
    serverEvents, (* what the server's executor has yet to be told         *)
    client,       (* where each client's Connect() is                      *)
    tellsAll      (* does the device report the end of connections that    *)
                  (* were not accepted?                                    *)

serverVars == <<serving, stuck, requested, active>>
deviceVars == <<link, serverEvents>>
vars == <<serverVars, deviceVars, client, tellsAll>>

Links  == {"none", "connecting", "offered", "accepted", "rejected", "up", "down"}
Events == {"requested", "established", "failed", "disconnected"}

Init ==
    /\ serving = TRUE
    /\ stuck = FALSE
    /\ requested = None
    /\ active = None
    /\ link = [c \in Conns |-> "none"]
    /\ serverEvents = [c \in Conns |-> << >>]
    /\ client = [c \in Conns |-> "idle"]
    /\ tellsAll \in BOOLEAN

SetLink(c, state) == link' = [link EXCEPT ![c] = state]
TellServer(c, event) == serverEvents' = [serverEvents EXCEPT ![c] = Append(@, event)]

(* What the server is told when the connection ends now.  Whether it hears *)
(* of one that it rejected, or has yet to answer, is up to the device.     *)
ServerHearsEnd(c) ==
    \/ link[c] = "up" /\ TellServer(c, "disconnected")
    \/ link[c] = "accepted" /\ TellServer(c, "failed")
    \/ link[c] \in {"offered", "rejected"} /\ tellsAll /\ TellServer(c, "failed")
    \/ link[c] \in {"offered", "rejected"} /\ ~tellsAll /\ UNCHANGED serverEvents
    \/ link[c] \in {"none", "connecting", "down"} /\ UNCHANGED serverEvents

-----------------------------------------------------------------------------
(* The client.                                                             *)

Connect(c) ==
    /\ client[c] = "idle"
    /\ \/ client' = [client EXCEPT ![c] = "waiting"] /\ SetLink(c, "connecting")
       \/ client' = [client EXCEPT ![c] = "returned"] /\ UNCHANGED link
    /\ UNCHANGED <<serverVars, serverEvents, tellsAll>>

(* Mutation: a timeout is an end of its own.                               *)
WaitTimesOut(c) ==
    /\ client[c] = "waiting"
    /\ client' = [client EXCEPT ![c] = IF link[c] = "up" THEN "returned" ELSE "timedOut"]
    /\ UNCHANGED <<serverVars, deviceVars, tellsAll>>

(* WaitForEstablishedConnection finds the connection, or 5 s are over;     *)
(* the connection itself goes on.                                          *)
WaitForEstablishedConnection(c) ==
    /\ client[c] = "waiting"
    /\ client' = [client EXCEPT ![c] = "returned"]
    /\ UNCHANGED <<serverVars, deviceVars, tellsAll>>

(* The client is destroyed, or connects again with a new executor: the old *)
(* one takes its connection with it.                                       *)
ClientLeaves(c) ==
    /\ client[c] = "returned"
    /\ client' = [client EXCEPT ![c] = "gone"]
    /\ ServerHearsEnd(c)
    /\ SetLink(c, "down")
    /\ UNCHANGED <<serverVars, tellsAll>>

-----------------------------------------------------------------------------
(* The device.                                                             *)

DeviceOffers(c) ==
    /\ link[c] = "connecting"
    /\ SetLink(c, "offered")
    /\ TellServer(c, "requested")
    /\ UNCHANGED <<serverVars, client, tellsAll>>

DeviceEstablishes(c) ==
    /\ link[c] = "accepted"
    /\ SetLink(c, "up")
    /\ TellServer(c, "established")
    /\ UNCHANGED <<serverVars, client, tellsAll>>

(* A connection is not established, or breaks.                             *)
DeviceFails(c) ==
    /\ link[c] \in {"connecting", "offered", "accepted", "rejected", "up"}
    /\ ServerHearsEnd(c)
    /\ SetLink(c, "down")
    /\ UNCHANGED <<serverVars, client, tellsAll>>

-----------------------------------------------------------------------------
(* The callbacks in the server's executor, run by the loop of Serve().     *)

(* The request of a client is over and its TCP connection is closed: from  *)
(* then on its session calls ReceiveRequest for ever, inside poll(), and   *)
(* the loop of Serve() calls Progress() no more.                           *)
HangUp(c) ==
    /\ serving
    /\ ~stuck
    /\ client[c] \in {"returned", "gone"}
    /\ stuck' = TRUE
    /\ UNCHANGED <<serving, requested, active, deviceVars, client, tellsAll>>

(* Inside poll() a session of another client may still run the callbacks:  *)
(* it does so while it waits for an active connection.                     *)
Delivered(c, events) ==
    /\ serving
    /\ stuck => active = None
    /\ serverEvents[c] # << >>
    /\ Head(serverEvents[c]) \in events
    /\ serverEvents' = [serverEvents EXCEPT ![c] = Tail(@)]

(* A connection that is gone by now can be neither rejected nor accepted;  *)
(* nobody looks at the error.                                              *)
Reject(c) == SetLink(c, IF link[c] = "offered" THEN "rejected" ELSE link[c])
Accept(c) == SetLink(c, IF link[c] = "offered" THEN "accepted" ELSE link[c])

(* Mutation: only an established connection is in the way of another.      *)
RequestedUnguarded(c) ==
    /\ Delivered(c, {"requested"})
    /\ \/ active # None /\ Reject(c) /\ UNCHANGED requested
       \/ active = None /\ requested' = c /\ Accept(c)
    /\ UNCHANGED <<serving, stuck, active, client, tellsAll>>

(* Mutation: only a requested connection is in the way of another.         *)
ActiveUnguarded(c) ==
    /\ Delivered(c, {"requested"})
    /\ \/ requested # None /\ Reject(c) /\ UNCHANGED requested
       \/ requested = None /\ requested' = c /\ Accept(c)
    /\ UNCHANGED <<serving, stuck, active, client, tellsAll>>

OnConnectionRequested(c) ==
    /\ Delivered(c, {"requested"})
    /\ \/ active # None /\ Reject(c) /\ UNCHANGED requested
       \/ active = None /\ requested # None /\ Reject(c) /\ UNCHANGED requested
       \/ active = None /\ requested = None /\ requested' = c /\ Accept(c)
    /\ UNCHANGED <<serving, stuck, active, client, tellsAll>>

(* Mutation: the connection is looked for in the wrong slot.               *)
EstablishedIgnored(c) ==
    /\ Delivered(c, {"established"})
    /\ active' = IF requested = None THEN c ELSE active
    /\ requested' = None
    /\ UNCHANGED <<serving, stuck, link, client, tellsAll>>

(* A second one would be disconnected.                                     *)
Disconnected(c) == [link EXCEPT ![c] = "down"]

OnConnectionEstablished(c) ==
    /\ Delivered(c, {"established"})
    /\ active' = IF active = None THEN c ELSE active
    /\ requested' = IF active = None THEN None ELSE requested
    /\ link' = IF active = None THEN link ELSE Disconnected(c)
    /\ UNCHANGED <<serving, stuck, client, tellsAll>>

(* Mutation: only a failure clears the slot.                               *)
ClosedOnFailure(c) ==
    /\ Delivered(c, {"failed", "disconnected"})
    /\ active' = IF Head(serverEvents[c]) = "failed" THEN None ELSE active
    /\ UNCHANGED <<serving, stuck, requested, link, client, tellsAll>>

(* Whichever connection it was, and with no look at the other slot.        *)
OnConnectionClosed(c) ==
    /\ Delivered(c, {"failed", "disconnected"})
    /\ active' = None
    /\ UNCHANGED <<serving, stuck, requested, link, client, tellsAll>>

ServeReturns ==
    /\ serving
    /\ ~stuck
    /\ serving' = FALSE
    /\ UNCHANGED <<stuck, requested, active, deviceVars, client, tellsAll>>

(* A new executor takes the place of the old one, whose connections end.   *)
ServeAgain ==
    /\ ~serving
    /\ serving' = TRUE
    /\ requested' = None
    /\ active' = None
    /\ serverEvents' = [c \in Conns |-> << >>]
    /\ link' = [c \in Conns |-> IF link[c] \in {"offered", "accepted", "rejected", "up"}
                                  THEN "down" ELSE link[c]]
    /\ UNCHANGED <<stuck, client, tellsAll>>

-----------------------------------------------------------------------------
ServerCallback(c) ==
    \/ OnConnectionRequested(c)
    \/ OnConnectionEstablished(c)
    \/ OnConnectionClosed(c)

LoopCallback(c) == ~stuck /\ ServerCallback(c)

Next ==
    \/ \E c \in Conns :
          \/ Connect(c)
          \/ WaitForEstablishedConnection(c)
          \/ ClientLeaves(c)
          \/ DeviceOffers(c)
          \/ DeviceEstablishes(c)
          \/ DeviceFails(c)
          \/ HangUp(c)
          \/ ServerCallback(c)
    \/ ServeReturns
    \/ ServeAgain

Spec == Init /\ [][Next]_vars

(* Serve()'s loop calls Progress() as long as poll() returns.  A session   *)
(* may never wait for a connection, and the device and the users of the    *)
(* library owe nothing.                                                    *)
FairSpec == Spec /\ \A c \in Conns : WF_vars(LoopCallback(c))

-----------------------------------------------------------------------------
(* Properties.                                                             *)

(* Every variable has its type.                                            *)
TypeOK ==
    /\ serving \in BOOLEAN
    /\ stuck \in BOOLEAN
    /\ requested \in Conns \cup {None}
    /\ active \in Conns \cup {None}
    /\ link \in [Conns -> Links]
    /\ serverEvents \in [Conns -> Seq(Events)]
    /\ client \in [Conns -> {"idle", "waiting", "returned", "gone"}]
    /\ tellsAll \in BOOLEAN

(* The active connection is up, or the server is about to be told that it  *)
(* is not: nothing clears the wrong slot and leaves a dead one behind.     *)
ActiveIsLive ==
    active # None => link[active] = "up" \/ serverEvents[active] # << >>

(* When a connection is established the slot is free, so that the case in  *)
(* which OnConnectionEstablished disconnects it never arises, whatever     *)
(* requests, ends and restarts of Serve() came before.                     *)
EstablishedFindsFree ==
    \A c \in Conns :
        serverEvents[c] # << >> /\ Head(serverEvents[c]) = "established" => active = None

(* The server has one client at a time (README.md:81, "multiple            *)
(* simultaneous connections have been deprecated"), unless the device      *)
(* tells it of ends that do not concern it.                                *)
OneClient ==
    ~tellsAll => Cardinality({c \in Conns : link[c] \in {"accepted", "up"}}) <= 1

(* As long as Serve() runs, the active connection is given up only when it *)
(* is over, under the same condition: OnConnectionClosed does not look     *)
(* whose end it is told.                                                   *)
ActiveKept ==
    [][~tellsAll /\ serving /\ active # None /\ active' = None => link[active] # "up"]_vars

(* A connection that is up is, or becomes, the active one of the server,   *)
(* under the same condition, unless a client closes its TCP connection     *)
(* first: then the server may never learn of it.                           *)
ServerLearns ==
    \A c \in Conns :
        ~tellsAll /\ link[c] = "up" ~> active = c \/ link[c] = "down" \/ ~serving \/ stuck

(* A client whose connection is down does not stay the active one, unless  *)
(* a client closes its TCP connection first.                               *)
ServerLetsGo ==
    \A c \in Conns : active = c /\ link[c] = "down" ~> active # c \/ ~serving \/ stuck

(* A connection is rejected because of another one (rdma_executor.cpp,     *)
(* "Reject if already established", "Reject if already requested"): one    *)
(* that is being established, or up, or whose end is yet to be told.       *)
RejectedForAnother ==
    [][\A c \in Conns :
         link[c] # "rejected" /\ link'[c] = "rejected" =>
             \E d \in Conns \ {c} : link[d] \in {"accepted", "up"} \/ serverEvents[d] # << >>]_vars
=============================================================================
