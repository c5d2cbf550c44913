---------------------------- MODULE MessageExchange ----------------------------
(***************************************************************************)
(* What a session takes its connection for (RdmaSession): each side reads  *)
(* the other's messages whole, one after the other, in the order in which  *)
(* they were sent.  It holds for the server until the timer of             *)
(* ReceiveAcknowledge strikes, and for the client always.                  *)
(***************************************************************************)
EXTENDS Sequences

CONSTANTS Request, Responce, Acknowledge    (* the messages                *)

VARIABLES client,    (* what the client does next                          *)
          server,    (* what the server does next                          *)
          channel,   (* the messages each reader has yet to read           *)
          received,  (* the messages each reader has read                  *)
          struck     (* the timer has struck                               *)

vars == <<client, server, channel, received, struck>>

Init ==
    /\ client = "ask"
    /\ server = "request"
    /\ channel = [e \in {"client", "server"} |-> << >>]
    /\ received = [e \in {"client", "server"} |-> << >>]
    /\ struck = FALSE

Put(e, m) ==
    /\ channel' = [channel EXCEPT ![e] = Append(@, m)]
    /\ UNCHANGED received

Take(e) ==
    /\ channel[e] # << >>
    /\ channel' = [channel EXCEPT ![e] = Tail(@)]
    /\ received' = [received EXCEPT ![e] = Append(@, Head(channel[e]))]

(* A server that has lost its place finds no messages any more.            *)
PutToServer(m) == IF struck THEN UNCHANGED <<channel, received>> ELSE Put("server", m)

SendRequest ==
    /\ client = "ask"
    /\ client' = "response"
    /\ \E m \in Request : PutToServer(m)
    /\ UNCHANGED <<server, struck>>

ReceiveResponse ==
    /\ client = "response"
    /\ Take("client")
    /\ \/ client' = "acknowledge" /\ Head(channel["client"]).code = 2
       \/ client' = "over"
    /\ UNCHANGED <<server, struck>>

SendAcknowledge ==
    /\ client = "acknowledge"
    /\ client' = "over"
    /\ \E m \in Acknowledge : PutToServer(m)
    /\ UNCHANGED <<server, struck>>

ClientLeaves ==
    /\ client # "over"
    /\ client' = "over"
    /\ UNCHANGED <<server, channel, received, struck>>

ReceiveRequest ==
    /\ server = "request"
    /\ Take("server") /\ Head(channel["server"]) \in Request
    /\ server' \in {"respond", "over"}
    /\ UNCHANGED <<client, struck>>

SendResponse ==
    /\ server = "respond"
    /\ \E m \in Responce :
         /\ Put("client", m)
         /\ server' = CASE m.code = 2 -> "ack"
                        [] m.code = 5 -> "over"
                        [] OTHER -> "request"
    /\ UNCHANGED <<client, struck>>

LoseClient ==
    /\ server = "respond" /\ client = "over"
    /\ server' = "over"
    /\ UNCHANGED <<client, channel, received, struck>>

ReceiveAcknowledge ==
    /\ server = "ack"
    /\ Take("server") /\ Head(channel["server"]) \in Acknowledge
    /\ server' = "request"
    /\ UNCHANGED <<client, struck>>

(* A read fails only when the client has left and every message was read.  *)
LoseRest ==
    /\ server \in {"request", "ack"}
    /\ client = "over" /\ channel["server"] = << >>
    /\ server' = "request"
    /\ UNCHANGED <<client, channel, received, struck>>

StrikeTimer ==
    /\ server = "ack"
    /\ server' = "request"
    /\ channel' = [channel EXCEPT !["server"] = << >>]
    /\ received' = [received EXCEPT !["server"] = << >>]
    /\ struck' = TRUE
    /\ UNCHANGED client

(* The rest of an acknowledge, taken for a request.                        *)
ReadAstray ==
    /\ struck
    /\ server \in {"request", "ack"}
    /\ server' \in {"request", "respond", "over"}
    /\ UNCHANGED <<client, channel, received, struck>>

Next ==
    \/ SendRequest \/ ReceiveResponse \/ SendAcknowledge \/ ClientLeaves
    \/ ReceiveRequest \/ SendResponse \/ LoseClient
    \/ ReceiveAcknowledge \/ LoseRest \/ StrikeTimer
    \/ ReadAstray

Spec == Init /\ [][Next]_vars

=============================================================================
