----------------------------- MODULE RdmaMessages -----------------------------
(***************************************************************************)
(* The bytes of one session's TCP connection: MessageSerializer            *)
(* (rdma_communication.cpp) and the framing in rdma_session.cpp, a length  *)
(* and a payload, each written and read by an operation of its own.        *)
(*                                                                         *)
(* RdmaSession takes a message as one thing.  Here it is shown that it     *)
(* may: what is read is what was written, however TCP cuts the bytes, and  *)
(* what happens to the bytes when a timer cancels a read or a write.       *)
(***************************************************************************)
EXTENDS Naturals, Sequences

CONSTANTS Paths,       (* of endpoints, sequences of bytes                 *)
          Descriptors, (* exported memory descriptors, sequences of bytes  *)
          MaxCut       (* bound: see Deliver                               *)

ASSUME MessagesAssumption ==
    /\ Paths \subseteq Seq(0 .. 255)
    /\ Descriptors \subseteq Seq(0 .. 255)
    /\ MaxCut \in Nat

(* No message has 2^32 bytes: the code casts each size to a uint32_t,      *)
(* unchecked, and a longer message would not come back.                    *)
FitsUint32(n) == n \div 16777216 < 256

ASSUME LengthAssumption ==
    \A p \in Paths \cup Descriptors : FitsUint32(Len(p) + 5)

VARIABLES
    client,    (* where the client's coroutine is                          *)
    server,    (* where the server's is                                    *)
    writing,   (* the message each reader's peer is writing                *)
    length,    (* the length each reader has read                          *)
    wire,      (* the bytes written and not yet read                       *)
    arrived,   (* so many of them have come                                *)
    sent,      (* the messages written to each reader                      *)
    received,  (* the messages each reader has parsed                      *)
    outside,   (* a parser has read beyond the end of its buffer           *)
    struck     (* the timer of ReceiveAcknowledge has struck               *)

wireVars == <<wire, arrived>>
flagVars == <<outside, struck>>
vars == <<client, server, writing, length, wireVars, sent, received, flagVars>>

Readers == {"client", "server"}

Request     == [kind : {"request"}, code : 1 .. 2, data : Paths]
Acknowledge == [kind : {"ack"}, code : 1 .. 4, data : {<< >>}]

(* EndpointNotFound and internalError come without a descriptor, permitted,*)
(* locked and serviceError with one.                                       *)
Responce ==
    [kind : {"response"}, code : {3, 5}, data : {<< >>}]
        \cup [kind : {"response"}, code : {2, 4, 6}, data : Descriptors]

Messages == Request \cup Acknowledge \cup Responce

Init ==
    /\ client = "ask"
    /\ server = "request length"
    /\ writing \in {[client |-> << >>, server |-> <<r>>] : r \in Request}
    /\ length = [e \in Readers |-> 0]
    /\ wire = [e \in Readers |-> << >>]
    /\ arrived = [e \in Readers |-> 0]
    /\ sent = [e \in Readers |-> << >>]
    /\ received = [e \in Readers |-> << >>]
    /\ outside = FALSE
    /\ struck = FALSE

-----------------------------------------------------------------------------
(* The codecs.  A uint32_t goes least significant byte first.              *)

SizeOfLength == 4

Uint32(n) == <<n % 256, (n \div 256) % 256, (n \div 65536) % 256, (n \div 16777216) % 256>>
Value(b)  == b[1] + 256 * b[2] + 65536 * b[3] + 16777216 * b[4]

(* Mutation: the length is taken as a uint8_t.                             *)
SerializeShort(m) == <<m.code>> \o Uint32(Len(m.data) % 256) \o m.data

(* The path of a request, the descriptor of a response.                    *)
SerializeRequest(m)     == <<m.code>> \o Uint32(Len(m.data)) \o m.data
SerializeResponse(m)    == <<m.code>> \o Uint32(Len(m.data)) \o m.data
SerializeAcknowledge(m) == <<m.code>>

Serialize(m) ==
    CASE m.kind = "request"  -> SerializeRequest(m)
      [] m.kind = "response" -> SerializeResponse(m)
      [] m.kind = "ack"      -> SerializeAcknowledge(m)

(* The parsers do not look at the size of their buffer.                    *)
Holds(b) == Len(b) >= 5 /\ Len(b) >= 5 + Value(SubSeq(b, 2, 5))
Data(b)  == SubSeq(b, 6, 5 + Value(SubSeq(b, 2, 5)))

DeserializeRequest(b)     == [kind |-> "request", code |-> b[1], data |-> Data(b)]
DeserializeResponse(b)    == [kind |-> "response", code |-> b[1], data |-> Data(b)]
DeserializeAcknowledge(b) == [kind |-> "ack", code |-> b[1], data |-> << >>]

-----------------------------------------------------------------------------
(* Async_write and async_read.                                             *)

Writes(to, bytes) == wire' = [wire EXCEPT ![to] = @ \o bytes] /\ UNCHANGED arrived

WritesLength(to) ==
    Writes(to, Uint32(Len(Serialize(Head(writing[to]))))) /\ UNCHANGED <<writing, sent>>

(* A message is sent when its second write is made.                        *)
WritesPayload(to) ==
    /\ Writes(to, Serialize(Head(writing[to])))
    /\ sent' = [sent EXCEPT ![to] = Append(@, Head(writing[to]))]
    /\ writing' = [writing EXCEPT ![to] = << >>]

(* TCP delivers some of the bytes: all, or not more than MaxCut.           *)
Deliver(e) ==
    /\ \E n \in (1 .. MaxCut) \cup {Len(wire[e])} :
         /\ arrived[e] < n /\ n <= Len(wire[e])
         /\ arrived' = [arrived EXCEPT ![e] = n]
    /\ UNCHANGED <<client, server, writing, length, wire, sent, received, flagVars>>

Drop(e, n) ==
    /\ wire' = [wire EXCEPT ![e] = SubSeq(@, n + 1, Len(@))]
    /\ arrived' = [arrived EXCEPT ![e] = @ - n]

(* A read ends when all its bytes have come, at the end of the connection, *)
(* or when it is canceled; what it had until then is gone.                 *)
ReadsLength(e) ==
    /\ arrived[e] >= SizeOfLength
    /\ length' = [length EXCEPT ![e] = Value(SubSeq(wire[e], 1, SizeOfLength))]
    /\ Drop(e, SizeOfLength)

Payload(e)      == SubSeq(wire[e], 1, length[e])
ReadsPayload(e) == arrived[e] >= length[e] /\ Drop(e, length[e])

Parsed(e, m) == received' = [received EXCEPT ![e] = Append(@, m)]

(* Mutation: a read fails at the end although all its bytes have come.     *)
EndedEarly(e, n) == arrived[e] = Len(wire[e]) /\ Drop(e, arrived[e])

Ended(e, n) == arrived[e] = Len(wire[e]) /\ arrived[e] < n /\ Drop(e, arrived[e])

Canceled(e, n) ==
    \E got \in {k \in 0 .. arrived[e] : k <= n} : Drop(e, got)

-----------------------------------------------------------------------------
(* The client: SendRequest and SendAcknowledge.  A write to a server that  *)
(* has closed fails, and the timers end the client at each of its steps.   *)

ClientWritesLength ==
    /\ \/ client = "ask" /\ client' = "asking"
       \/ client = "acknowledge" /\ client' = "acknowledging"
    /\ WritesLength("server")
    /\ UNCHANGED <<server, length, received, flagVars>>

ClientWritesPayload ==
    /\ \/ client = "asking" /\ client' = "response length"
       \/ client = "acknowledging" /\ client' = "over"
    /\ WritesPayload("server")
    /\ UNCHANGED <<server, length, received, flagVars>>

ReceiveResponseLength ==
    /\ client = "response length"
    /\ ReadsLength("client")
    /\ client' = "response"
    /\ UNCHANGED <<server, writing, sent, received, flagVars>>

(* With the permission the operation is performed, which ends somehow, or  *)
(* the remote buffer cannot be made and the client just leaves.            *)
ReceiveResponse ==
    /\ client = "response"
    /\ ReadsPayload("client")
    /\ IF Holds(Payload("client"))
         THEN LET m == DeserializeResponse(Payload("client")) IN
              /\ Parsed("client", m)
              /\ \/ /\ m.code = 2
                    /\ client' = "acknowledge"
                    /\ \E a \in Acknowledge : writing' = [writing EXCEPT !["server"] = <<a>>]
                 \/ client' = "over" /\ UNCHANGED writing
              /\ UNCHANGED outside
         ELSE outside' = TRUE /\ client' = "over" /\ UNCHANGED <<received, writing>>
    /\ UNCHANGED <<server, length, sent, struck>>

ClientLeaves ==
    /\ client # "over"
    /\ client' = "over"
    /\ UNCHANGED <<server, writing, length, wireVars, sent, received, flagVars>>

-----------------------------------------------------------------------------
(* The server: ReceiveRequest, SendResponse and ReceiveAcknowledge.        *)

ReceiveRequestLength ==
    /\ server = "request length"
    /\ ReadsLength("server")
    /\ server' = "request"
    /\ UNCHANGED <<client, writing, sent, received, flagVars>>

(* What is parsed outside of the buffer may end the session, or be the     *)
(* request for an endpoint that is not there.                              *)
ReceiveRequest ==
    /\ server = "request"
    /\ ReadsPayload("server")
    /\ IF Holds(Payload("server"))
         THEN Parsed("server", DeserializeRequest(Payload("server"))) /\ UNCHANGED outside
         ELSE outside' = TRUE /\ UNCHANGED received
    /\ \/ /\ server' = "respond"
          /\ \E r \in Responce : writing' = [writing EXCEPT !["client"] = <<r>>]
       \/ server' = "over" /\ UNCHANGED writing
    /\ UNCHANGED <<client, length, sent, struck>>

SendResponseLength ==
    /\ server = "respond"
    /\ WritesLength("client")
    /\ server' = "responding"
    /\ UNCHANGED <<client, length, received, flagVars>>

SendResponse ==
    /\ server = "responding"
    /\ server' = CASE Head(writing["client"]).code = 2 -> "ack length"
                   [] Head(writing["client"]).code = 5 -> "over"
                   [] OTHER -> "request length"
    /\ WritesPayload("client")
    /\ UNCHANGED <<client, length, received, flagVars>>

(* The write to a client that has left fails.                              *)
LoseClient ==
    /\ server \in {"respond", "responding"}
    /\ client = "over"
    /\ server' = "over"
    /\ UNCHANGED <<client, writing, length, wireVars, sent, received, flagVars>>

ReceiveAcknowledgeLength ==
    /\ server = "ack length"
    /\ ReadsLength("server")
    /\ server' = "ack"
    /\ UNCHANGED <<client, writing, sent, received, flagVars>>

ReceiveAcknowledge ==
    /\ server = "ack"
    /\ ReadsPayload("server")
    /\ IF Payload("server") # << >>
         THEN Parsed("server", DeserializeAcknowledge(Payload("server"))) /\ UNCHANGED outside
         ELSE outside' = TRUE /\ UNCHANGED received
    /\ server' = "request length"
    /\ UNCHANGED <<client, writing, length, sent, struck>>

Need == IF server \in {"request length", "ack length"} THEN SizeOfLength ELSE length["server"]

(* The read fails at the end of the connection, and the session goes on    *)
(* with the next request.                                                  *)
LoseRest ==
    /\ server \in {"request length", "request", "ack length", "ack"}
    /\ client = "over"
    /\ Ended("server", Need)
    /\ server' = "request length"
    /\ UNCHANGED <<client, writing, length, sent, received, flagVars>>

(* The timer of ReceiveAcknowledge cancels the read, wherever it is.       *)
StrikeTimer ==
    /\ server \in {"ack length", "ack"}
    /\ Canceled("server", Need)
    /\ server' = "request length"
    /\ struck' = TRUE
    /\ UNCHANGED <<client, writing, length, sent, received, outside>>

-----------------------------------------------------------------------------
ClientStep ==
    \/ ClientWritesLength \/ ClientWritesPayload
    \/ ReceiveResponseLength \/ ReceiveResponse
    \/ ClientLeaves

ServerStep ==
    \/ ReceiveRequestLength \/ ReceiveRequest
    \/ SendResponseLength \/ SendResponse \/ LoseClient
    \/ ReceiveAcknowledgeLength \/ ReceiveAcknowledge
    \/ LoseRest \/ StrikeTimer

Next == ClientStep \/ ServerStep \/ \E e \in Readers : Deliver(e)

Spec == Init /\ [][Next]_vars

-----------------------------------------------------------------------------
(* Properties.                                                             *)

Bytes == Seq(0 .. 255)

(* Every variable has its type.                                            *)
TypeOK ==
    /\ client \in {"ask", "asking", "response length", "response", "acknowledge",
                   "acknowledging", "over"}
    /\ server \in {"request length", "request", "respond", "responding", "ack length", "ack",
                   "over"}
    /\ writing \in [Readers -> Seq(Messages)]
    /\ length \in [Readers -> Nat]
    /\ wire \in [Readers -> Bytes]
    /\ arrived \in [Readers -> Nat]
    /\ \A e \in Readers : arrived[e] <= Len(wire[e])
    /\ sent \in [Readers -> Seq(Messages)]
    /\ DOMAIN received = Readers
    /\ outside \in BOOLEAN
    /\ struck \in BOOLEAN

Begins(s, t) == Len(s) <= Len(t) /\ s = SubSeq(t, 1, Len(s))

(* What each side parses is what the other serialised, message for         *)
(* message, for every length of path and descriptor and however the bytes  *)
(* come, no parser reads beyond its buffer, and when the server has no     *)
(* more bytes to read it has parsed every message.  Only when the timer    *)
(* has struck on an acknowledge the server may read that as a request, and *)
(* beyond its end.                                                         *)
ParsesBack ==
    /\ Begins(received["client"], sent["client"])
    /\ ~struck =>
         /\ Begins(received["server"], sent["server"])
         /\ wire["server"] = << >> => received["server"] = sent["server"]
         /\ ~outside

(* Where the two are when a message is taken as one thing.                 *)
ClientDoes ==
    CASE client \in {"ask", "asking"}                -> "ask"
      [] client \in {"response length", "response"}  -> "response"
      [] client \in {"acknowledge", "acknowledging"} -> "acknowledge"
      [] client = "over"                             -> "over"

ServerDoes ==
    CASE server \in {"request length", "request"} -> "request"
      [] server \in {"respond", "responding"}     -> "respond"
      [] server \in {"ack length", "ack"}         -> "ack"
      [] server = "over"                          -> "over"

Unread ==
    [e \in Readers |-> IF e = "server" /\ struck
                         THEN << >>
                         ELSE SubSeq(sent[e], Len(received[e]) + 1, Len(sent[e]))]

Read == [e \in Readers |-> IF e = "server" /\ struck THEN << >> ELSE received[e]]

(* The two writes and two reads of a message, over a stream that delivers  *)
(* what it likes, are a channel of whole messages; a side that leaves      *)
(* between its two writes has sent nothing, and a read that fails has lost *)
(* nothing.                                                                *)
Exchange == INSTANCE MessageExchange WITH
                client   <- ClientDoes,
                server   <- ServerDoes,
                channel  <- Unread,
                received <- Read

ExchangeSpec == Exchange!Spec
=============================================================================
