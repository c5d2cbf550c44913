----------------------- MODULE RdmaConnectionsProofs -----------------------
(***************************************************************************)
(* Proofs about RdmaConnections, for any number of connections.  What the  *)
(* server has yet to be told of a connection is known from the state of    *)
(* its link (Shape), and the two slots of the executor are never both      *)
(* taken (OneSlot).  From these follow which slot a connection that was    *)
(* accepted, is up, or has just ended can be in.                           *)
(***************************************************************************)
EXTENDS RdmaConnections, FiniteSetTheorems, SequenceTheorems, TLAPS

(* What the server has yet to be told of a connection.                     *)
ShapeOf(c) ==
    /\ link[c] \in {"none", "connecting", "rejected", "accepted"} => serverEvents[c] = << >>
    /\ link[c] = "offered" => serverEvents[c] = <<"requested">>
    /\ link[c] = "up" => serverEvents[c] \in {<< >>, <<"established">>}
    /\ link[c] = "down" =>
           serverEvents[c] \in {<< >>, <<"requested">>, <<"requested", "failed">>, <<"failed">>,
                                <<"established", "disconnected">>, <<"disconnected">>}
    /\ serverEvents[c] = <<"requested", "failed">> => tellsAll
    /\ client[c] = "idle" => link[c] = "none"

Shape == \A c \in Conns : ShapeOf(c)

OneSlot == active # None => requested = None

(* A connection whose establishment the server has yet to be told of.      *)
Granted(c) ==
    \/ link[c] = "accepted"
    \/ serverEvents[c] \in {<<"established">>, <<"established", "disconnected">>}

GrantedRequested == \A c \in Conns : Granted(c) => requested = c /\ active = None

ActiveKnown ==
    active # None =>
        \/ link[active] = "up" /\ serverEvents[active] = << >>
        \/ link[active] = "down" /\ serverEvents[active] = <<"disconnected">>

(* Under the condition of OneClient, what is up or has ended is in a slot. *)
EndsOfOwn ==
    ~tellsAll => \A c \in Conns :
        serverEvents[c] \in {<<"failed">>, <<"disconnected">>} => requested = c \/ active = c

UpIsActive ==
    ~tellsAll => \A c \in Conns : link[c] = "up" /\ serverEvents[c] = << >> => active = c

Slots == OneSlot /\ GrantedRequested /\ ActiveKnown /\ EndsOfOwn /\ UpIsActive

Inv == TypeOK /\ Shape /\ Slots

-----------------------------------------------------------------------------
(* The sequences that Shape names.                                         *)

LEMMA AppendSecond ==
  ASSUME NEW x \in Events, NEW y \in Events
  PROVE  Append(<<x>>, y) = <<x, y>>
  <1> DEFINE s == Append(<<x>>, y)
             t == <<x, y>>
  <1>1. s \in Seq(Events) /\ Len(s) = 2 /\ s[1] = x /\ s[2] = y
    <2>1. <<x>> \in Seq(Events) /\ Len(<<x>>) = 1 /\ <<x>>[1] = x
      OBVIOUS
    <2> QED
      BY <2>1, AppendProperties
  <1>2. t \in Seq(Events) /\ Len(t) = 2 /\ t[1] = x /\ t[2] = y
    OBVIOUS
  <1>3. s = t
    <2> HIDE DEF s, t
    <2>1. \A i \in 1 .. Len(s) : s[i] = t[i]
      BY <1>1, <1>2
    <2> QED
      BY <1>1, <1>2, <2>1, SeqEqual
  <1> QED
    BY <1>3

Told == {<<"requested">>, <<"established">>, <<"failed">>, <<"disconnected">>,
         <<"requested", "failed">>, <<"established", "disconnected">>}

LEMMA AppendTold ==
  /\ \A e \in Events : Append(<< >>, e) = <<e>>
  /\ Append(<<"requested">>, "failed") = <<"requested", "failed">>
  /\ Append(<<"established">>, "disconnected") = <<"established", "disconnected">>
  <1>1. \A e \in Events : Append(<< >>, e) = <<e>>
    OBVIOUS
  <1> QED
    BY <1>1, AppendSecond DEF Events

LEMMA HeadTold ==
  /\ \A e \in Events : Head(<<e>>) = e /\ Tail(<<e>>) = << >>
  /\ Head(<<"requested", "failed">>) = "requested"
  /\ Tail(<<"requested", "failed">>) = <<"failed">>
  /\ Head(<<"established", "disconnected">>) = "established"
  /\ Tail(<<"established", "disconnected">>) = <<"disconnected">>
  OBVIOUS

LEMMA ToldDiffer ==
  /\ << >> \notin Told
  /\ \A e \in Events, f \in Events : <<e>> = <<f>> => e = f
  /\ \A e \in Events : <<e>> # <<"requested", "failed">>
                      /\ <<e>> # <<"established", "disconnected">>
  /\ <<"requested", "failed">> # <<"established", "disconnected">>
  BY DEF Told
-----------------------------------------------------------------------------
(* The steps.                                                              *)

ClientStep(c) == Connect(c) \/ WaitForEstablishedConnection(c) \/ ClientLeaves(c)
DeviceStep(c) == DeviceOffers(c) \/ DeviceEstablishes(c) \/ DeviceFails(c)

LEMMA TypeStep == TypeOK /\ [Next]_vars => TypeOK'
  <1> SUFFICES ASSUME TypeOK, [Next]_vars
               PROVE  TypeOK'
    OBVIOUS
  <1> USE DEF TypeOK, Links, Events, SetLink, TellServer, serverVars, deviceVars
  <1>1. ASSUME NEW c \in Conns, ServerHearsEnd(c)
        PROVE  serverEvents' \in [Conns -> Seq(Events)]
    <2>1. \A e \in Events : Append(serverEvents[c], e) \in Seq(Events)
      OBVIOUS
    <2>2. \/ UNCHANGED serverEvents
          \/ \E e \in Events : serverEvents' = [serverEvents EXCEPT ![c] = Append(@, e)]
      BY <1>1 DEF ServerHearsEnd
    <2> QED
      BY <2>1, <2>2
  <1>2. ASSUME NEW c \in Conns, Connect(c) \/ WaitForEstablishedConnection(c) PROVE TypeOK'
    BY <1>2 DEF Connect, WaitForEstablishedConnection
  <1>3. ASSUME NEW c \in Conns, ClientLeaves(c) PROVE TypeOK'
    BY <1>1, <1>3 DEF ClientLeaves
  <1>4. ASSUME NEW c \in Conns, DeviceOffers(c) PROVE TypeOK'
    BY <1>4 DEF DeviceOffers
  <1>5. ASSUME NEW c \in Conns, DeviceEstablishes(c) PROVE TypeOK'
    BY <1>5 DEF DeviceEstablishes
  <1>6. ASSUME NEW c \in Conns, DeviceFails(c) PROVE TypeOK'
    BY <1>1, <1>6 DEF DeviceFails
  <1>7. ASSUME NEW c \in Conns, NEW events, Delivered(c, events)
        PROVE  serverEvents' \in [Conns -> Seq(Events)]
    BY <1>7 DEF Delivered
  <1>8. ASSUME NEW c \in Conns, OnConnectionRequested(c) PROVE TypeOK'
    BY <1>7, <1>8 DEF OnConnectionRequested, Reject, Accept
  <1>9. ASSUME NEW c \in Conns, OnConnectionEstablished(c) PROVE TypeOK'
    BY <1>7, <1>9 DEF OnConnectionEstablished, Disconnected
  <1>10. ASSUME NEW c \in Conns, OnConnectionClosed(c) PROVE TypeOK'
    BY <1>7, <1>10 DEF OnConnectionClosed
  <1>11. CASE ServeReturns \/ \E c \in Conns : HangUp(c)
    BY <1>11 DEF ServeReturns, HangUp
  <1>12. CASE ServeAgain
    BY <1>12 DEF ServeAgain
  <1>13. CASE UNCHANGED vars
    BY <1>13 DEF vars
  <1> HIDE DEF TypeOK
  <1> QED
    BY <1>2, <1>3, <1>4, <1>5, <1>6, <1>8, <1>9, <1>10, <1>11, <1>12, <1>13
    DEF Next, ServerCallback

(* What is pending of a connection whose next event the server takes.      *)
LEMMA DeliveredShape ==
  ASSUME Inv, NEW c \in Conns, NEW events, Delivered(c, events)
  PROVE  \/ /\ serverEvents[c] = <<"requested">> /\ serverEvents'[c] = << >>
            /\ "requested" \in events /\ link[c] \in {"offered", "down"}
         \/ /\ serverEvents[c] = <<"established">> /\ serverEvents'[c] = << >>
            /\ "established" \in events /\ link[c] = "up"
         \/ /\ serverEvents[c] = <<"failed">> /\ serverEvents'[c] = << >>
            /\ "failed" \in events /\ link[c] = "down"
         \/ /\ serverEvents[c] = <<"disconnected">> /\ serverEvents'[c] = << >>
            /\ "disconnected" \in events /\ link[c] = "down"
         \/ /\ serverEvents[c] = <<"requested", "failed">> /\ serverEvents'[c] = <<"failed">>
            /\ "requested" \in events /\ link[c] = "down"
         \/ /\ serverEvents[c] = <<"established", "disconnected">>
            /\ serverEvents'[c] = <<"disconnected">>
            /\ "established" \in events /\ link[c] = "down"
  <1>1. /\ serverEvents[c] # << >>
        /\ Head(serverEvents[c]) \in events
        /\ serverEvents'[c] = Tail(serverEvents[c])
    BY DEF Delivered, Inv, TypeOK
  <1>2. link[c] \in {"offered", "up", "down"}
    BY <1>1 DEF Inv, Shape, ShapeOf, TypeOK, Links
  <1>3. \/ link[c] \in {"offered", "down"} /\ serverEvents[c] = <<"requested">>
        \/ link[c] = "up" /\ serverEvents[c] = <<"established">>
        \/ link[c] = "down" /\ serverEvents[c] \in Told \ {<<"established">>}
    BY <1>1, <1>2 DEF Inv, Shape, ShapeOf, Told
  <1>4. /\ Head(<<"requested">>) = "requested" /\ Tail(<<"requested">>) = << >>
        /\ Head(<<"established">>) = "established" /\ Tail(<<"established">>) = << >>
        /\ Head(<<"failed">>) = "failed" /\ Tail(<<"failed">>) = << >>
        /\ Head(<<"disconnected">>) = "disconnected" /\ Tail(<<"disconnected">>) = << >>
    BY HeadTold DEF Events
  <1> QED
    BY <1>1, <1>3, <1>4, HeadTold DEF Told
(* The same for OnConnectionClosed.                                        *)
LEMMA ClosedShape ==
  ASSUME Inv, NEW c \in Conns, OnConnectionClosed(c)
  PROVE  /\ serverEvents[c] \in {<<"failed">>, <<"disconnected">>}
         /\ serverEvents'[c] = << >> /\ link[c] = "down"
  <1>1. Delivered(c, {"failed", "disconnected"})
    BY DEF OnConnectionClosed
  <1>2. /\ "requested" \notin {"failed", "disconnected"}
        /\ "established" \notin {"failed", "disconnected"}
    OBVIOUS
  <1> QED
    BY <1>1, <1>2, DeliveredShape, Zenon

(* Each event leaves its connection in one of the states of Shape.         *)
LEMMA ShapeStep ==
  ASSUME Inv, [Next]_vars
  PROVE  Shape'
  <1> USE DEF Inv, TypeOK, Shape
  <1>1. ASSUME NEW c \in Conns, ClientStep(c) PROVE Shape'
    <2>1. CASE Connect(c)
      BY <2>1 DEF Connect, SetLink, ShapeOf, serverVars
    <2>2. CASE WaitForEstablishedConnection(c)
      BY <2>2 DEF WaitForEstablishedConnection, ShapeOf, serverVars, deviceVars
    <2>3. CASE ClientLeaves(c)
      BY <2>3, AppendTold, ToldDiffer
      DEF ClientLeaves, ServerHearsEnd, SetLink, TellServer, ShapeOf, serverVars, Events
    <2> QED
      BY <1>1, <2>1, <2>2, <2>3 DEF ClientStep
  <1>2. ASSUME NEW c \in Conns, DeviceStep(c) PROVE Shape'
    <2>1. CASE DeviceOffers(c)
      BY <2>1, AppendTold, ToldDiffer
      DEF DeviceOffers, SetLink, TellServer, ShapeOf, serverVars, Events
    <2>2. CASE DeviceEstablishes(c)
      BY <2>2, AppendTold, ToldDiffer
      DEF DeviceEstablishes, SetLink, TellServer, ShapeOf, serverVars, Events
    <2>3. CASE DeviceFails(c)
      BY <2>3, AppendTold, ToldDiffer
      DEF DeviceFails, ServerHearsEnd, SetLink, TellServer, ShapeOf, serverVars, Events
    <2> QED
      BY <1>2, <2>1, <2>2, <2>3 DEF DeviceStep
  <1>3. ASSUME NEW c \in Conns, ServerCallback(c) PROVE Shape'
    <2>1. PICK events : Delivered(c, events)
      BY <1>3 DEF ServerCallback, OnConnectionRequested, OnConnectionEstablished,
                  OnConnectionClosed
    <2>2. /\ client' = client /\ tellsAll' = tellsAll
          /\ \A d \in Conns \ {c} : link'[d] = link[d] /\ serverEvents'[d] = serverEvents[d]
      BY <1>3, <2>1
      DEF ServerCallback, OnConnectionRequested, OnConnectionEstablished, OnConnectionClosed,
          Reject, Accept, SetLink, Disconnected, Delivered
    <2>3. ShapeOf(c)'
      <3>1. CASE OnConnectionRequested(c)
        <4>1. \/ serverEvents[c] = <<"requested">> /\ serverEvents'[c] = << >>
              \/ /\ serverEvents[c] = <<"requested", "failed">>
                 /\ serverEvents'[c] = <<"failed">> /\ link[c] = "down"
          BY <3>1, DeliveredShape DEF OnConnectionRequested
        <4>2. \/ link'[c] \in {"accepted", "rejected"} /\ link[c] = "offered"
              \/ link'[c] = link[c] /\ link[c] # "offered"
          BY <3>1 DEF OnConnectionRequested, Reject, Accept, SetLink
        <4>3. link[c] \in {"offered", "down"}
          BY <3>1, DeliveredShape DEF OnConnectionRequested
        <4>4. /\ client[c] # "idle"
              /\ serverEvents'[c] \in {<< >>, <<"failed">>}
              /\ link'[c] \in {"accepted", "rejected", "down"}
              /\ link'[c] # "down" => serverEvents'[c] = << >>
          BY <4>1, <4>2, <4>3 DEF ShapeOf
        <4>5. serverEvents'[c] # <<"requested", "failed">>
          BY <4>4, ToldDiffer DEF Told, Events
        <4> QED
          BY <2>2, <4>4, <4>5 DEF ShapeOf
      <3>2. CASE OnConnectionEstablished(c)
        <4>1. /\ serverEvents'[c] \in {<< >>, <<"disconnected">>}
              /\ link[c] = "up" => serverEvents'[c] = << >>
              /\ link[c] \in {"up", "down"}
          BY <3>2, DeliveredShape DEF OnConnectionEstablished
        <4>2. link'[c] \in {link[c], "down"}
          BY <3>2 DEF OnConnectionEstablished, Disconnected
        <4>3. << >> # <<"requested", "failed">> /\ <<"disconnected">> # <<"requested", "failed">>
          BY ToldDiffer DEF Told, Events
        <4>4. client[c] # "idle"
          BY <4>1 DEF ShapeOf
        <4>5. /\ serverEvents'[c] \in {<< >>, <<"disconnected">>}
              /\ link'[c] \in {"up", "down"}
              /\ link'[c] = "up" => serverEvents'[c] = << >>
          BY <4>1, <4>2
        <4> QED
          BY <2>2, <4>3, <4>4, <4>5 DEF ShapeOf
      <3>3. CASE OnConnectionClosed(c)
        <4>1. serverEvents'[c] = << >> /\ link[c] = "down" /\ link' = link
          BY <3>3, ClosedShape DEF OnConnectionClosed
        <4>2. << >> # <<"requested", "failed">>
          BY ToldDiffer DEF Told
        <4> QED
          BY <2>2, <4>1, <4>2 DEF ShapeOf
      <3> QED
        BY <1>3, <3>1, <3>2, <3>3 DEF ServerCallback
    <2> QED
      BY <2>2, <2>3 DEF ShapeOf
  <1>4. CASE ServeReturns \/ (\E c \in Conns : HangUp(c)) \/ UNCHANGED vars
    <2>1. UNCHANGED <<link, serverEvents, client, tellsAll>>
      BY <1>4 DEF ServeReturns, HangUp, vars, deviceVars
    <2> QED
      BY <2>1 DEF ShapeOf
  <1>5. CASE ServeAgain
    BY <1>5, ToldDiffer DEF ServeAgain, ShapeOf, Told, Links
  <1> HIDE DEF Shape, Inv, TypeOK
  <1> QED
    BY <1>1, <1>2, <1>3, <1>4, <1>5 DEF Next, ClientStep, DeviceStep
(* What a step of a client or of the device makes of its connection, when  *)
(* the slots are left alone.                                               *)
LEMMA SlotsKept ==
  ASSUME Inv, NEW c \in Conns,
         UNCHANGED <<requested, active, tellsAll>>,
         \A d \in Conns \ {c} : link'[d] = link[d] /\ serverEvents'[d] = serverEvents[d],
         Granted(c)' => Granted(c),
         ~tellsAll /\ serverEvents'[c] \in {<<"failed">>, <<"disconnected">>} =>
             \/ serverEvents[c] \in {<<"failed">>, <<"disconnected">>}
             \/ link[c] = "accepted"
             \/ link[c] = "up" /\ serverEvents[c] = << >>,
         link'[c] = "up" /\ serverEvents'[c] = << >> =>
             link[c] = "up" /\ serverEvents[c] = << >>,
         \/ link[c] = "up" /\ serverEvents[c] = << >>
         \/ link[c] = "down" /\ serverEvents[c] = <<"disconnected">>
         => \/ link'[c] = "up" /\ serverEvents'[c] = << >>
            \/ link'[c] = "down" /\ serverEvents'[c] = <<"disconnected">>
  PROVE  Slots'
  <1>1. OneSlot'
    BY DEF Inv, Slots, OneSlot
  <1>2. GrantedRequested'
    BY DEF Inv, Slots, GrantedRequested, Granted
  <1>3. ActiveKnown'
    BY DEF Inv, Slots, ActiveKnown, TypeOK
  <1>4. EndsOfOwn'
    BY DEF Inv, Slots, EndsOfOwn, UpIsActive, GrantedRequested, Granted
  <1>5. UpIsActive'
    BY DEF Inv, Slots, UpIsActive
  <1> QED
    BY <1>1, <1>2, <1>3, <1>4, <1>5 DEF Slots

(* Only OnConnectionRequested takes the first slot, and only when both are *)
(* free; only OnConnectionEstablished passes it on to the second.          *)
LEMMA SlotsStep ==
  ASSUME Inv, [Next]_vars
  PROVE  Slots'
  <1>1. ASSUME NEW c \in Conns, Connect(c) \/ WaitForEstablishedConnection(c) PROVE Slots'
    <2>1. /\ UNCHANGED <<requested, active, tellsAll, serverEvents>>
          /\ \A d \in Conns \ {c} : link'[d] = link[d]
          /\ \/ link'[c] = link[c]
             \/ link'[c] = "connecting" /\ link[c] = "none"
      <3>1. client[c] = "idle" => link[c] = "none"
        BY DEF Inv, Shape, ShapeOf
      <3> QED
        BY <1>1, <3>1 DEF Connect, WaitForEstablishedConnection, SetLink, serverVars,
                          deviceVars, Inv, TypeOK
    <2> QED
      BY <2>1, SlotsKept DEF Granted
  <1>2. ASSUME NEW c \in Conns, DeviceOffers(c) \/ DeviceEstablishes(c) PROVE Slots'
    <2>1. /\ UNCHANGED <<requested, active, tellsAll>>
          /\ \A d \in Conns \ {c} : link'[d] = link[d] /\ serverEvents'[d] = serverEvents[d]
      BY <1>2 DEF DeviceOffers, DeviceEstablishes, SetLink, TellServer, serverVars, Inv, TypeOK
    <2>2. serverEvents[c] = << >>
      BY <1>2 DEF DeviceOffers, DeviceEstablishes, Inv, Shape, ShapeOf
    <2>3. \/ /\ link[c] = "connecting" /\ link'[c] = "offered"
             /\ serverEvents'[c] = <<"requested">>
          \/ /\ link[c] = "accepted" /\ link'[c] = "up"
             /\ serverEvents'[c] = <<"established">>
      BY <1>2, <2>2, AppendTold
      DEF DeviceOffers, DeviceEstablishes, SetLink, TellServer, Inv, TypeOK, Events
    <2> QED
      BY <2>1, <2>2, <2>3, SlotsKept, ToldDiffer DEF Granted, Events, Told
  <1>3. ASSUME NEW c \in Conns, ClientLeaves(c) \/ DeviceFails(c) PROVE Slots'
    <2>1. /\ UNCHANGED <<requested, active, tellsAll>>
          /\ \A d \in Conns \ {c} : link'[d] = link[d] /\ serverEvents'[d] = serverEvents[d]
          /\ link'[c] = "down"
      BY <1>3 DEF ClientLeaves, DeviceFails, ServerHearsEnd, SetLink, TellServer, serverVars,
                  Inv, TypeOK
    <2>2. \/ serverEvents'[c] = serverEvents[c] /\ link[c] \notin {"up", "accepted"}
          \/ link[c] = "up" /\ serverEvents[c] = << >> /\ serverEvents'[c] = <<"disconnected">>
          \/ /\ link[c] = "up" /\ serverEvents[c] = <<"established">>
             /\ serverEvents'[c] = <<"established", "disconnected">>
          \/ link[c] = "accepted" /\ serverEvents'[c] = <<"failed">>
          \/ tellsAll /\ link[c] = "rejected" /\ serverEvents'[c] = <<"failed">>
          \/ /\ tellsAll /\ link[c] = "offered"
             /\ serverEvents'[c] = <<"requested", "failed">>
      <3>1. ServerHearsEnd(c)
        BY <1>3 DEF ClientLeaves, DeviceFails
      <3>2. ShapeOf(c)
        BY DEF Inv, Shape
      <3> QED
        BY <3>1, <3>2, AppendTold DEF ServerHearsEnd, TellServer, ShapeOf, Inv, TypeOK, Events
    <2> QED
      BY <2>1, <2>2, SlotsKept, ToldDiffer DEF Granted, Events, Told
  <1>4. ASSUME NEW c \in Conns, OnConnectionRequested(c) PROVE Slots'
    <2>1. /\ UNCHANGED <<active, tellsAll>>
          /\ \A d \in Conns \ {c} : link'[d] = link[d] /\ serverEvents'[d] = serverEvents[d]
          /\ Delivered(c, {"requested"})
      BY <1>4 DEF OnConnectionRequested, Reject, Accept, SetLink, Delivered, Inv, TypeOK
    <2>2. /\ serverEvents[c] \in {<<"requested">>, <<"requested", "failed">>}
          /\ serverEvents'[c] \in {<< >>, <<"failed">>}
          /\ ~tellsAll => serverEvents'[c] = << >>
          /\ link[c] \in {"offered", "down"}
      BY <2>1, DeliveredShape DEF Inv, Shape, ShapeOf
    <2>3. active # c
      BY <2>2, ToldDiffer, NoneAssumption DEF Inv, Slots, ActiveKnown, Events, Told
    <2>4. CASE Reject(c) /\ UNCHANGED requested
      <3>1. link'[c] \in {"rejected", "down"}
        BY <2>2, <2>4 DEF Reject, SetLink, Inv, TypeOK
      <3> QED
        BY <2>1, <2>2, <2>4, <3>1, SlotsKept, ToldDiffer DEF Granted, Events, Told
    <2>5. CASE active = None /\ requested = None /\ requested' = c /\ Accept(c)
      <3>1. link'[c] \in {"accepted", "down"}
        BY <2>2, <2>5 DEF Accept, SetLink, Inv, TypeOK
      <3>2. \A d \in Conns : ~Granted(d)
        BY <2>5, NoneAssumption DEF Inv, Slots, GrantedRequested
      <3>3. GrantedRequested'
        BY <2>1, <2>5, <3>2 DEF GrantedRequested, Granted
      <3>4. EndsOfOwn' /\ UpIsActive'
        BY <2>1, <2>5, <3>1, NoneAssumption DEF EndsOfOwn, UpIsActive, Inv, Slots
      <3> QED
        BY <2>1, <2>5, <3>3, <3>4 DEF Slots, OneSlot, ActiveKnown
    <2> QED
      BY <1>4, <2>4, <2>5 DEF OnConnectionRequested
  <1>5. ASSUME NEW c \in Conns, OnConnectionEstablished(c) PROVE Slots'
    <2>1. /\ Delivered(c, {"established"})
          /\ UNCHANGED tellsAll
          /\ \A d \in Conns \ {c} : serverEvents'[d] = serverEvents[d]
      BY <1>5 DEF OnConnectionEstablished, Delivered, Inv, TypeOK
    <2>2. /\ Granted(c)
          /\ \/ link[c] = "up" /\ serverEvents'[c] = << >>
             \/ link[c] = "down" /\ serverEvents'[c] = <<"disconnected">>
      BY <2>1, DeliveredShape DEF Granted
    <2>3. requested = c /\ active = None
      BY <2>2 DEF Inv, Slots, GrantedRequested
    <2>4. active' = c /\ requested' = None /\ link' = link
      BY <1>5, <2>3 DEF OnConnectionEstablished
    <2>5. ~Granted(c)'
      BY <2>2, <2>4, ToldDiffer DEF Granted, Events, Told
    <2>6. GrantedRequested'
      BY <2>1, <2>3, <2>4, <2>5 DEF Inv, Slots, GrantedRequested, Granted
    <2>7. EndsOfOwn' /\ UpIsActive'
      BY <2>1, <2>3, <2>4, NoneAssumption DEF Inv, Slots, EndsOfOwn, UpIsActive
    <2> QED
      BY <2>2, <2>4, <2>6, <2>7 DEF Slots, OneSlot, ActiveKnown
  <1>6. ASSUME NEW c \in Conns, OnConnectionClosed(c) PROVE Slots'
    <2>1. /\ Delivered(c, {"failed", "disconnected"})
          /\ UNCHANGED <<requested, link, tellsAll>>
          /\ active' = None
          /\ \A d \in Conns \ {c} : serverEvents'[d] = serverEvents[d]
      BY <1>6 DEF OnConnectionClosed, Delivered, Inv, TypeOK
    <2>2. /\ serverEvents[c] \in {<<"failed">>, <<"disconnected">>}
          /\ serverEvents'[c] = << >> /\ link[c] = "down"
      BY <1>6, ClosedShape
    <2>3. ~Granted(c)'
      BY <2>1, <2>2, ToldDiffer DEF Granted, Events, Told
    <2>4. GrantedRequested'
      BY <2>1, <2>3 DEF Inv, Slots, GrantedRequested, Granted
    <2>5. ~tellsAll => \A d \in Conns \ {c} : active # d
      BY <2>2, NoneAssumption DEF Inv, Slots, EndsOfOwn, OneSlot
    <2>6. EndsOfOwn' /\ UpIsActive'
      BY <2>1, <2>2, <2>5, ToldDiffer DEF Inv, Slots, EndsOfOwn, UpIsActive, Events, Told
    <2> QED
      BY <2>1, <2>4, <2>6 DEF Slots, OneSlot, ActiveKnown
  <1>7. CASE ServeReturns \/ (\E c \in Conns : HangUp(c)) \/ UNCHANGED vars
    <2>1. UNCHANGED <<requested, active, link, serverEvents, tellsAll>>
      BY <1>7 DEF ServeReturns, HangUp, vars, serverVars, deviceVars
    <2> QED
      BY <2>1 DEF Inv, Slots, OneSlot, GrantedRequested, Granted, ActiveKnown, EndsOfOwn,
                  UpIsActive
  <1>8. CASE ServeAgain
    <2>1. \A c \in Conns : serverEvents'[c] = << >> /\ link'[c] \notin {"accepted", "up"}
      BY <1>8 DEF ServeAgain, Inv, TypeOK
    <2>2. GrantedRequested' /\ EndsOfOwn' /\ UpIsActive'
      BY <2>1, ToldDiffer DEF GrantedRequested, Granted, EndsOfOwn, UpIsActive, Events, Told
    <2> QED
      BY <1>8, <2>2 DEF ServeAgain, Slots, OneSlot, ActiveKnown
  <1> QED
    BY <1>1, <1>2, <1>3, <1>4, <1>5, <1>6, <1>7, <1>8 DEF Next, ServerCallback

LEMMA InvCorrect == Spec => []Inv
  <1>1. Init => Inv
    <2> SUFFICES ASSUME Init PROVE Inv
      OBVIOUS
    <2>1. TypeOK
      <3>1. serving \in BOOLEAN /\ stuck \in BOOLEAN /\ tellsAll \in BOOLEAN
        BY Zenon DEF Init
      <3>2. /\ link \in [Conns -> Links]
            /\ serverEvents \in [Conns -> Seq(Events)]
            /\ client \in [Conns -> {"idle", "waiting", "returned", "gone"}]
        BY DEF Init, Links
      <3> QED
        BY <3>1, <3>2 DEF Init, TypeOK
    <2>2. \A c \in Conns : link[c] = "none" /\ serverEvents[c] = << >>
      BY DEF Init
    <2>3. Shape
      BY <2>2, ToldDiffer DEF Shape, ShapeOf, Told
    <2>4. Slots
      BY <2>2, ToldDiffer DEF Init, Slots, OneSlot, GrantedRequested, Granted, ActiveKnown,
                              EndsOfOwn, UpIsActive, Told
    <2> QED
      BY <2>1, <2>3, <2>4 DEF Inv
  <1>2. Inv /\ [Next]_vars => Inv'
    BY TypeStep, ShapeStep, SlotsStep DEF Inv
  <1> QED
    BY <1>1, <1>2, PTL DEF Spec

-----------------------------------------------------------------------------
(* The results.                                                            *)

(* Every variable of the slots, the links and the clients keeps its type.  *)
THEOREM ConnectionsTypeCorrect == Spec => []TypeOK
  <1>1. Inv => TypeOK
    BY DEF Inv
  <1> QED
    BY <1>1, InvCorrect, PTL

(* The callbacks leave no connection in the active slot that is over and   *)
(* of whose end the server will not be told.                               *)
THEOREM ActiveIsAlwaysLive == Spec => []ActiveIsLive
  <1>1. Inv => ActiveIsLive
    BY ToldDiffer DEF Inv, Slots, ActiveKnown, ActiveIsLive, Told
  <1> QED
    BY <1>1, InvCorrect, PTL

(* OnConnectionEstablished never finds another connection in its slot, for *)
(* any number of clients: the branch that disconnects the new one is dead. *)
THEOREM SlotIsFreeWhenEstablished == Spec => []EstablishedFindsFree
  <1>1. ASSUME Inv
        PROVE  EstablishedFindsFree
    <2> SUFFICES ASSUME NEW c \in Conns,
                        serverEvents[c] # << >>, Head(serverEvents[c]) = "established"
                 PROVE  active = None
      BY DEF EstablishedFindsFree
    <2>1. link[c] = "up" \/ link[c] = "down" \/ serverEvents[c] = <<"requested">>
      BY <1>1 DEF Inv, TypeOK, Links, Shape, ShapeOf
    <2>2. serverEvents[c] \in Told
      BY <1>1, <2>1 DEF Inv, Shape, ShapeOf, Told
    <2>3. Granted(c)
      BY <2>2, HeadTold DEF Told, Events, Granted
    <2> QED
      BY <1>1, <2>3 DEF Inv, Slots, GrantedRequested
  <1> QED
    BY <1>1, InvCorrect, PTL

(* However many clients connect, the server has at most one at a time, as  *)
(* long as the device tells it of no end but those of what it accepted.    *)
THEOREM OneClientAtATime == Spec => []OneClient
  <1>1. ASSUME Inv, ~tellsAll
        PROVE  Cardinality({c \in Conns : link[c] \in {"accepted", "up"}}) <= 1
    <2> DEFINE Accepted == {c \in Conns : link[c] \in {"accepted", "up"}}
    <2>1. \A c \in Accepted : active = c \/ (requested = c /\ active = None)
      BY <1>1 DEF Inv, Shape, ShapeOf, Slots, GrantedRequested, Granted, UpIsActive
    <2>2. \A c, d \in Accepted : c = d
      BY <1>1, <2>1, NoneAssumption DEF Inv, Slots, OneSlot
    <2>3. Accepted = {} \/ \E c : Accepted = {c}
      BY <2>2
    <2> HIDE DEF Accepted
    <2>4. Cardinality(Accepted) \in {0, 1}
      <3>1. CASE Accepted = {}
        BY <3>1, FS_EmptySet
      <3>2. ASSUME NEW c, Accepted = {c} PROVE Cardinality(Accepted) = 1
        BY <3>2, FS_Singleton
      <3> QED
        BY <2>3, <3>1, <3>2
    <2> QED
      BY <2>4 DEF Accepted
  <1>2. Inv => OneClient
    BY <1>1 DEF OneClient
  <1> QED
    BY <1>2, InvCorrect, PTL

(* No end of another connection takes the active one from the server.      *)
THEOREM ActiveIsKept == Spec => ActiveKept
  <1>1. ASSUME Inv, [Next]_vars, ~tellsAll, serving, active # None, active' = None
        PROVE  link[active] # "up"
    <2> USE <1>1
    <2>1. PICK c \in Conns : OnConnectionClosed(c)
      BY DEF Next, Connect, WaitForEstablishedConnection, ClientLeaves, DeviceOffers,
          DeviceEstablishes, DeviceFails, ServerCallback, OnConnectionRequested,
          OnConnectionEstablished, HangUp, ServeReturns, ServeAgain, vars, serverVars
    <2>2. serverEvents[c] \in {<<"failed">>, <<"disconnected">>} /\ link[c] = "down"
      BY <2>1, ClosedShape
    <2>3. active = c
      BY <1>1, <2>2, NoneAssumption DEF Inv, Slots, EndsOfOwn, OneSlot
    <2> QED
      BY <2>2, <2>3
  <1> QED
    BY <1>1, InvCorrect, PTL DEF Spec, ActiveKept
=============================================================================
