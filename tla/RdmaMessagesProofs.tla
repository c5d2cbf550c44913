-------------------------- MODULE RdmaMessagesProofs --------------------------
(***************************************************************************)
(* For any paths and descriptors that fit a uint32_t, and however TCP cuts *)
(* the stream: the codecs invert each other, each side parses what the     *)
(* other wrote until the timer of ReceiveAcknowledge strikes, and the      *)
(* bytes implement MessageExchange.                                        *)
(*                                                                         *)
(* The invariant says what is on the way to the server: nothing, the first *)
(* half of one message or the whole of it, with the server before its      *)
(* length or before its payload.  The protocol never puts two messages     *)
(* before the server, and the client reads only the first of its own.      *)
(***************************************************************************)
EXTENDS RdmaMessages, SequenceTheorems, TLAPS

-----------------------------------------------------------------------------
(* Numbers and sequences of bytes.                                         *)

(* A uint32_t is four bytes.                                               *)
LEMMA Bytes4 ==
    ASSUME NEW n \in Nat
    PROVE  Uint32(n) \in Bytes /\ Len(Uint32(n)) = SizeOfLength
<1>1. /\ n % 256 \in 0 .. 255
      /\ (n \div 256) % 256 \in 0 .. 255
      /\ (n \div 65536) % 256 \in 0 .. 255
      /\ (n \div 16777216) % 256 \in 0 .. 255
  BY SMT
<1>2. QED  BY <1>1, SMT DEF Uint32, Bytes, SizeOfLength

(* And read back it is what was written, when it fits.                     *)
LEMMA ValueBack ==
    ASSUME NEW n \in Nat, FitsUint32(n)
    PROVE  Value(Uint32(n)) = n
<1> DEFINE a == n \div 256
           b == n \div 65536
           c == n \div 16777216
<1>0. a \in Nat /\ b \in Nat /\ c \in Nat  BY SMT
<1>1. n = 256 * a + (n % 256) /\ n % 256 \in 0 .. 255  BY SMT
<1>2. n >= 65536 * b /\ n < 65536 * b + 65536  BY SMT
<1>3. n >= 16777216 * c /\ n < 16777216 * c + 16777216  BY SMT
<1>4. Value(Uint32(n)) = (n % 256) + 256 * (a % 256) + 65536 * (b % 256) + 16777216 * (c % 256)
  BY SMT DEF Value, Uint32
<1>5. c < 256  BY SMT DEF FitsUint32
<1> HIDE DEF a, b, c
<1>6. \A x, y \in Nat : x - 256 * y \in 0 .. 255 => x % 256 = x - 256 * y  BY SMT
<1>7. a % 256 = a - 256 * b
  <2>1. a - 256 * b \in 0 .. 255  BY <1>0, <1>1, <1>2, SMT
  <2>2. QED  BY <1>0, <1>6, <2>1, SMT
<1>8. b % 256 = b - 256 * c
  <2>1. b - 256 * c \in 0 .. 255  BY <1>0, <1>2, <1>3, SMT
  <2>2. QED  BY <1>0, <1>6, <2>1, SMT
<1>9. c % 256 = c  BY <1>0, <1>5, SMT
<1>10. QED  BY <1>0, <1>1, <1>4, <1>7, <1>8, <1>9, SMT

(* What SubSeq takes of a sequence of bytes.                               *)
LEMMA Slice ==
    ASSUME NEW s \in Bytes, NEW a \in 1 .. Len(s) + 1, NEW b \in (a - 1) .. Len(s)
    PROVE  /\ SubSeq(s, a, b) \in Bytes
           /\ Len(SubSeq(s, a, b)) = (b - a) + 1
           /\ \A i \in 1 .. (b - a) + 1 : SubSeq(s, a, b)[i] = s[(i + a) - 1]
<1>0. s \in Seq(0 .. 255) /\ Len(s) \in Nat  BY SMT DEF Bytes
<1>1. a \in Int /\ b \in Int  BY <1>0, SMT
<1>2. \A i \in a .. b : s[i] \in 0 .. 255
  <2>1. SUFFICES ASSUME NEW i \in a .. b PROVE s[i] \in 0 .. 255  OBVIOUS
  <2>2. i \in 1 .. Len(s)  BY <1>0, SMT
  <2>3. QED  BY <1>0, <2>2, ElementOfSeq, Zenon
<1>3. SubSeq(s, a, b) \in Seq(0 .. 255)  BY <1>1, <1>2, SubSeqProperties, Zenon
<1>4. Len(SubSeq(s, a, b)) = IF a <= b THEN b - a + 1 ELSE 0
  BY <1>1, <1>2, SubSeqProperties, Zenon
<1>5. \A i \in 1 .. b - a + 1 : SubSeq(s, a, b)[i] = s[a + i - 1]
  BY <1>1, <1>2, SubSeqProperties
<1>6. QED  BY <1>0, <1>3, <1>4, <1>5, SMT DEF Bytes

(* What a concatenation is made of.                                        *)
LEMMA Joint ==
    ASSUME NEW s \in Bytes, NEW t \in Bytes
    PROVE  /\ s \o t \in Bytes
           /\ Len(s) \in Nat /\ Len(t) \in Nat
           /\ Len(s \o t) = Len(s) + Len(t)
           /\ \A i \in 1 .. Len(s) : (s \o t)[i] = s[i]
           /\ \A i \in 1 .. Len(t) : (s \o t)[Len(s) + i] = t[i]
<1>1. s \in Seq(0 .. 255) /\ t \in Seq(0 .. 255)  BY DEF Bytes
<1>2. s \o t \in Seq(0 .. 255) /\ Len(s \o t) = Len(s) + Len(t)
  BY <1>1, ConcatProperties, Zenon
<1>3. \A i \in 1 .. Len(s) + Len(t) : (s \o t)[i] = IF i <= Len(s) THEN s[i] ELSE t[i - Len(s)]
  BY <1>1, ConcatProperties, Zenon
<1>4. Len(s) \in Nat /\ Len(t) \in Nat  BY <1>1, LenProperties, Zenon
<1>5. \A i \in 1 .. Len(s) : (s \o t)[i] = s[i]  BY <1>3, <1>4, SMT
<1>6. \A i \in 1 .. Len(t) : (s \o t)[Len(s) + i] = t[i]
  <2>1. SUFFICES ASSUME NEW i \in 1 .. Len(t) PROVE (s \o t)[Len(s) + i] = t[i]  OBVIOUS
  <2>2. /\ Len(s) + i \in 1 .. Len(s) + Len(t)
        /\ ~ (Len(s) + i <= Len(s))
        /\ (Len(s) + i) - Len(s) = i
    BY <1>4, SMT
  <2>3. QED  BY <1>3, <2>2, SMT
<1>7. QED  BY <1>1, <1>2, <1>4, <1>5, <1>6, Zenon DEF Bytes

(* Two sequences of bytes with the same bytes are one.                     *)
LEMMA Same ==
    ASSUME NEW s \in Bytes, NEW t \in Bytes, Len(s) = Len(t), \A i \in 1 .. Len(s) : s[i] = t[i]
    PROVE  s = t
<1>1. s \in Seq(0 .. 255) /\ t \in Seq(0 .. 255)  BY DEF Bytes
<1>2. QED  BY <1>1, SeqEqual, Zenon

(* A concatenation cut where it was joined gives its two parts.            *)
LEMMA Divides ==
    ASSUME NEW s \in Bytes, NEW t \in Bytes
    PROVE  /\ SubSeq(s \o t, 1, Len(s)) = s
           /\ SubSeq(s \o t, Len(s) + 1, Len(s \o t)) = t
<1> DEFINE u == s \o t
<1>0. /\ u \in Bytes
      /\ Len(s) \in Nat /\ Len(t) \in Nat
      /\ Len(u) = Len(s) + Len(t)
      /\ \A i \in 1 .. Len(s) : u[i] = s[i]
      /\ \A i \in 1 .. Len(t) : u[Len(s) + i] = t[i]
  BY Joint, Zenon
<1> HIDE DEF u
<1>1. SubSeq(u, 1, Len(s)) = s
  <2>1. 1 \in 1 .. Len(u) + 1 /\ Len(s) \in (1 - 1) .. Len(u)  BY <1>0, SMT
  <2>2. /\ SubSeq(u, 1, Len(s)) \in Bytes
        /\ Len(SubSeq(u, 1, Len(s))) = (Len(s) - 1) + 1
        /\ \A i \in 1 .. (Len(s) - 1) + 1 : SubSeq(u, 1, Len(s))[i] = u[(i + 1) - 1]
    BY <1>0, <2>1, Slice, Zenon
  <2>3. Len(SubSeq(u, 1, Len(s))) = Len(s)  BY <1>0, <2>2, SMT
  <2>4. \A i \in 1 .. Len(s) : SubSeq(u, 1, Len(s))[i] = s[i]  BY <1>0, <2>2, SMT
  <2>5. QED  BY <2>2, <2>3, <2>4, Same, Zenon
<1>2. SubSeq(u, Len(s) + 1, Len(u)) = t
  <2>1. Len(s) + 1 \in 1 .. Len(u) + 1 /\ Len(u) \in ((Len(s) + 1) - 1) .. Len(u)
    BY <1>0, SMT
  <2>2. /\ SubSeq(u, Len(s) + 1, Len(u)) \in Bytes
        /\ Len(SubSeq(u, Len(s) + 1, Len(u))) = (Len(u) - (Len(s) + 1)) + 1
        /\ \A i \in 1 .. (Len(u) - (Len(s) + 1)) + 1 :
             SubSeq(u, Len(s) + 1, Len(u))[i] = u[(i + (Len(s) + 1)) - 1]
    BY <1>0, <2>1, Slice, Zenon
  <2>3. Len(SubSeq(u, Len(s) + 1, Len(u))) = Len(t)  BY <1>0, <2>2, SMT
  <2>4. \A i \in 1 .. Len(t) : SubSeq(u, Len(s) + 1, Len(u))[i] = t[i]
    BY <1>0, <2>2, SMT
  <2>5. QED  BY <2>2, <2>3, <2>4, Same, Zenon
<1>3. QED  BY <1>1, <1>2, Zenon DEF u

-----------------------------------------------------------------------------
(* The codecs.                                                             *)

(* The two writes of a message, and both together.                         *)
Half(m)  == Uint32(Len(Serialize(m)))
Frame(m) == Half(m) \o Serialize(m)

(* What SerializeRequest and SerializeResponse have in common.             *)
LongForm(code, data) == <<code>> \o Uint32(Len(data)) \o data

(* The layout of a request and a response comes back, and the parser       *)
(* stays inside of it.                                                     *)
LEMMA LongFormBack ==
    ASSUME NEW code \in 0 .. 255, NEW data \in Bytes, FitsUint32(Len(data) + 5)
    PROVE  /\ LongForm(code, data) \in Bytes
           /\ Len(LongForm(code, data)) = Len(data) + 5
           /\ LongForm(code, data)[1] = code
           /\ Holds(LongForm(code, data))
           /\ Data(LongForm(code, data)) = data
<1> DEFINE h == Uint32(Len(data))
           p == <<code>> \o h
           s == LongForm(code, data)
<1>1. Len(data) \in Nat /\ h \in Bytes /\ Len(h) = 4
  <2>1. Len(data) \in Nat  BY DEF Bytes
  <2>2. QED  BY <2>1, Bytes4, Zenon DEF SizeOfLength
<1>2. Value(h) = Len(data)
  <2>1. FitsUint32(Len(data))  BY <1>1, SMT DEF FitsUint32
  <2>2. QED  BY <1>1, <2>1, ValueBack, Zenon
<1> HIDE DEF h
<1>3. /\ p \in Bytes /\ Len(p) = 5
      /\ p[1] = code
      /\ \A i \in 1 .. 4 : p[1 + i] = h[i]
  <2>1. <<code>> \in Bytes /\ Len(<<code>>) = 1 /\ <<code>>[1] = code  BY SMT DEF Bytes
  <2>2. /\ p \in Bytes
        /\ Len(p) = Len(<<code>>) + Len(h)
        /\ \A i \in 1 .. Len(<<code>>) : p[i] = <<code>>[i]
        /\ \A i \in 1 .. Len(h) : p[Len(<<code>>) + i] = h[i]
    BY <1>1, <2>1, Joint, Zenon
  <2>3. QED  BY <1>1, <2>1, <2>2, SMT
<1>4. /\ s \in Bytes
      /\ Len(s) = 5 + Len(data)
      /\ \A i \in 1 .. 5 : s[i] = p[i]
      /\ \A i \in 1 .. Len(data) : s[5 + i] = data[i]
  <2>1. s = p \o data  BY Zenon DEF h, LongForm
  <2> HIDE DEF p
  <2>2. /\ p \o data \in Bytes
        /\ Len(p \o data) = Len(p) + Len(data)
        /\ \A i \in 1 .. Len(p) : (p \o data)[i] = p[i]
        /\ \A i \in 1 .. Len(data) : (p \o data)[Len(p) + i] = data[i]
    BY <1>3, Joint, Zenon
  <2>3. QED  BY <1>3, <2>1, <2>2
<1> HIDE DEF p, s
<1>5. s[1] = code  BY <1>3, <1>4, SMT
<1>6. SubSeq(s, 2, 5) = h
  <2>1. 2 \in 1 .. Len(s) + 1 /\ 5 \in (2 - 1) .. Len(s)  BY <1>1, <1>4, SMT
  <2>2. /\ SubSeq(s, 2, 5) \in Bytes
        /\ Len(SubSeq(s, 2, 5)) = (5 - 2) + 1
        /\ \A i \in 1 .. (5 - 2) + 1 : SubSeq(s, 2, 5)[i] = s[(i + 2) - 1]
    BY <1>4, <2>1, Slice, Zenon
  <2>3. Len(SubSeq(s, 2, 5)) = Len(h)  BY <1>1, <2>2, SMT
  <2>4. \A i \in 1 .. Len(SubSeq(s, 2, 5)) : SubSeq(s, 2, 5)[i] = h[i]
    <3>1. SUFFICES ASSUME NEW i \in 1 .. 4 PROVE SubSeq(s, 2, 5)[i] = h[i]
      BY <1>1, <2>3, Zenon
    <3>2. SubSeq(s, 2, 5)[i] = s[1 + i]
      <4>1. i \in 1 .. (5 - 2) + 1 /\ (i + 2) - 1 = 1 + i  BY SMT
      <4>2. QED  BY <2>2, <4>1, Zenon
    <3>3. s[1 + i] = p[1 + i]  BY <1>4, SMT
    <3>4. QED  BY <1>3, <3>2, <3>3, Zenon
  <2>5. QED  BY <1>1, <2>2, <2>3, <2>4, Same, Zenon
<1>7. SubSeq(s, 6, 5 + Len(data)) = data
  <2>1. 6 \in 1 .. Len(s) + 1 /\ 5 + Len(data) \in (6 - 1) .. Len(s)  BY <1>1, <1>4, SMT
  <2> DEFINE t == SubSeq(s, 6, 5 + Len(data))
  <2>2. /\ t \in Bytes
        /\ Len(t) = ((5 + Len(data)) - 6) + 1
        /\ \A i \in 1 .. ((5 + Len(data)) - 6) + 1 : t[i] = s[(i + 6) - 1]
    BY <1>4, <2>1, Slice, Zenon
  <2> HIDE DEF t
  <2>3. Len(t) = Len(data)  BY <1>1, <2>2, SMT
  <2>4. \A i \in 1 .. Len(t) : t[i] = data[i]
    <3>1. SUFFICES ASSUME NEW i \in 1 .. Len(data) PROVE t[i] = data[i]
      BY <2>3, Zenon
    <3>2. t[i] = s[5 + i]
      <4>1. i \in 1 .. ((5 + Len(data)) - 6) + 1 /\ (i + 6) - 1 = 5 + i  BY <1>1, SMT
      <4>2. QED  BY <2>2, <4>1, Zenon
    <3>3. QED  BY <1>4, <3>2, Zenon
  <2>5. QED  BY <2>2, <2>3, <2>4, Same, Zenon DEF t
<1>8. Holds(s)
  <2>1. Value(SubSeq(s, 2, 5)) = Len(data)  BY <1>2, <1>6, Zenon
  <2>2. Len(s) >= 5 /\ Len(s) >= 5 + Len(data)  BY <1>1, <1>4, SMT
  <2>3. QED  BY <2>1, <2>2, Zenon DEF Holds
<1>9. Data(s) = data  BY <1>2, <1>6, <1>7, Zenon DEF Data
<1>10. Len(s) = Len(data) + 5  BY <1>1, <1>4, SMT
<1>11. QED  BY <1>4, <1>5, <1>8, <1>9, <1>10, Zenon DEF s

(* DeserializeRequest undoes SerializeRequest.                             *)
LEMMA RequestBack ==
    ASSUME NEW m \in Request
    PROVE  /\ Serialize(m) \in Bytes
           /\ Len(Serialize(m)) \in Nat \ {0}
           /\ FitsUint32(Len(Serialize(m)))
           /\ Holds(Serialize(m))
           /\ DeserializeRequest(Serialize(m)) = m
<1>1. /\ m.kind = "request" /\ m.code \in 0 .. 255 /\ m.data \in Paths
  BY DEF Request
<1>m. m = [kind |-> "request", code |-> m.code, data |-> m.data]
  BY DEF Request
<1>2. m.data \in Bytes /\ FitsUint32(Len(m.data) + 5)
  BY <1>1, MessagesAssumption, LengthAssumption, SMT DEF Bytes
<1>3. Serialize(m) = LongForm(m.code, m.data)
  BY <1>1 DEF Serialize, SerializeRequest, LongForm
<1>4. /\ Serialize(m) \in Bytes
      /\ Len(Serialize(m)) = Len(m.data) + 5
      /\ Serialize(m)[1] = m.code
      /\ Holds(Serialize(m))
      /\ Data(Serialize(m)) = m.data
  <2>1. /\ LongForm(m.code, m.data) \in Bytes
        /\ Len(LongForm(m.code, m.data)) = Len(m.data) + 5
        /\ LongForm(m.code, m.data)[1] = m.code
        /\ Holds(LongForm(m.code, m.data))
        /\ Data(LongForm(m.code, m.data)) = m.data
    BY <1>1, <1>2, LongFormBack
  <2>2. QED  BY <1>3, <2>1, Zenon
<1>5. DeserializeRequest(Serialize(m)) = m  BY <1>m, <1>4, Zenon DEF DeserializeRequest
<1>6. Len(m.data) \in Nat  BY <1>2, SMT DEF Bytes
<1>7. Len(Serialize(m)) \in Nat \ {0}  BY <1>4, <1>6, SMT
<1>8. QED  BY <1>2, <1>4, <1>5, <1>7, Zenon

(* DeserializeResponse undoes SerializeResponse.                           *)
LEMMA ResponceBack ==
    ASSUME NEW m \in Responce
    PROVE  /\ Serialize(m) \in Bytes
           /\ Len(Serialize(m)) \in Nat \ {0}
           /\ FitsUint32(Len(Serialize(m)))
           /\ Holds(Serialize(m))
           /\ DeserializeResponse(Serialize(m)) = m
<1>1. /\ m.kind = "response" /\ m.code \in 0 .. 255 /\ m.data \in Descriptors \cup {<< >>}
  BY DEF Responce
<1>m. m = [kind |-> "response", code |-> m.code, data |-> m.data]
  BY DEF Responce
<1>2. m.data \in Bytes /\ FitsUint32(Len(m.data) + 5)
  <2>1. CASE m.data \in Descriptors
    BY <2>1, MessagesAssumption, LengthAssumption, SMT DEF Bytes
  <2>2. CASE m.data = << >>
    <3>1. << >> \in Bytes /\ Len(<< >>) = 0  BY SMT DEF Bytes
    <3>2. FitsUint32(0 + 5)  BY SMT DEF FitsUint32
    <3>3. QED  BY <2>2, <3>1, <3>2, Zenon
  <2>3. QED  BY <1>1, <2>1, <2>2
<1>3. Serialize(m) = LongForm(m.code, m.data)
  BY <1>1 DEF Serialize, SerializeResponse, LongForm
<1>4. /\ Serialize(m) \in Bytes
      /\ Len(Serialize(m)) = Len(m.data) + 5
      /\ Serialize(m)[1] = m.code
      /\ Holds(Serialize(m))
      /\ Data(Serialize(m)) = m.data
  <2>1. /\ LongForm(m.code, m.data) \in Bytes
        /\ Len(LongForm(m.code, m.data)) = Len(m.data) + 5
        /\ LongForm(m.code, m.data)[1] = m.code
        /\ Holds(LongForm(m.code, m.data))
        /\ Data(LongForm(m.code, m.data)) = m.data
    BY <1>1, <1>2, LongFormBack
  <2>2. QED  BY <1>3, <2>1, Zenon
<1>5. DeserializeResponse(Serialize(m)) = m  BY <1>m, <1>4, Zenon DEF DeserializeResponse
<1>6. Len(m.data) \in Nat  BY <1>2, SMT DEF Bytes
<1>7. Len(Serialize(m)) \in Nat \ {0}  BY <1>4, <1>6, SMT
<1>8. QED  BY <1>2, <1>4, <1>5, <1>7, Zenon

(* DeserializeAcknowledge undoes SerializeAcknowledge.                     *)
LEMMA AcknowledgeBack ==
    ASSUME NEW m \in Acknowledge
    PROVE  /\ Serialize(m) \in Bytes
           /\ Len(Serialize(m)) \in Nat \ {0}
           /\ FitsUint32(Len(Serialize(m)))
           /\ Serialize(m) # << >>
           /\ DeserializeAcknowledge(Serialize(m)) = m
<1>1. /\ m.kind = "ack" /\ m.code \in 0 .. 255
      /\ m = [kind |-> "ack", code |-> m.code, data |-> << >>]
  BY DEF Acknowledge
<1>2. Serialize(m) = <<m.code>>  BY <1>1 DEF Serialize, SerializeAcknowledge
<1>3. FitsUint32(1)  BY SMT DEF FitsUint32
<1>4. QED  BY <1>1, <1>2, <1>3, SMT DEF Bytes, DeserializeAcknowledge

(* Each parser returns the message that was serialised, and stays inside   *)
(* the buffer (rdma_communication.cpp).                                    *)
THEOREM CodecsInvert ==
    /\ \A m \in Request :
         /\ Holds(SerializeRequest(m))
         /\ DeserializeRequest(SerializeRequest(m)) = m
    /\ \A m \in Responce :
         /\ Holds(SerializeResponse(m))
         /\ DeserializeResponse(SerializeResponse(m)) = m
    /\ \A m \in Acknowledge :
         /\ SerializeAcknowledge(m) # << >>
         /\ DeserializeAcknowledge(SerializeAcknowledge(m)) = m
<1>1. \A m \in Request : Serialize(m) = SerializeRequest(m)  BY DEF Serialize, Request
<1>2. \A m \in Responce : Serialize(m) = SerializeResponse(m)  BY DEF Serialize, Responce
<1>3. \A m \in Acknowledge : Serialize(m) = SerializeAcknowledge(m)
  BY DEF Serialize, Acknowledge
<1>4. QED  BY <1>1, <1>2, <1>3, RequestBack, ResponceBack, AcknowledgeBack, Zenon

(* The first write of a message tells the length of the second.            *)
LEMMA HalfOfMessage ==
    ASSUME NEW m \in Messages
    PROVE  /\ Serialize(m) \in Bytes
           /\ Len(Serialize(m)) \in Nat \ {0}
           /\ Half(m) \in Bytes
           /\ Len(Half(m)) = SizeOfLength
           /\ Value(Half(m)) = Len(Serialize(m))
           /\ Frame(m) \in Bytes
<1> DEFINE n == Len(Serialize(m))
<1>1. Serialize(m) \in Bytes /\ n \in Nat \ {0} /\ FitsUint32(n)
  BY RequestBack, ResponceBack, AcknowledgeBack, Zenon DEF Messages
<1> HIDE DEF n
<1>2. n \in Nat  BY <1>1, SMT
<1>3. Uint32(n) \in Bytes /\ Len(Uint32(n)) = SizeOfLength /\ Value(Uint32(n)) = n
  BY <1>1, <1>2, Bytes4, ValueBack, Zenon
<1>4. Uint32(n) \o Serialize(m) \in Bytes
  BY <1>1, <1>3, Joint, Zenon
<1>5. QED  BY <1>1, <1>3, <1>4, Zenon DEF n, Half, Frame

-----------------------------------------------------------------------------
(* Prefixes of a stream.                                                   *)

(* Begins, byte for byte.                                                  *)
LEMMA BeginsElements ==
    ASSUME NEW s \in Bytes, NEW t \in Bytes
    PROVE  Begins(s, t) <=> Len(s) <= Len(t) /\ \A i \in 1 .. Len(s) : s[i] = t[i]
<1>0. Len(s) \in Nat /\ Len(t) \in Nat  BY SMT DEF Bytes
<1>1. ASSUME Len(s) <= Len(t)
      PROVE  /\ SubSeq(t, 1, Len(s)) \in Bytes
             /\ Len(SubSeq(t, 1, Len(s))) = Len(s)
             /\ \A i \in 1 .. Len(s) : SubSeq(t, 1, Len(s))[i] = t[i]
  <2>1. 1 \in 1 .. Len(t) + 1 /\ Len(s) \in (1 - 1) .. Len(t)  BY <1>0, <1>1, SMT
  <2>2. /\ SubSeq(t, 1, Len(s)) \in Bytes
        /\ Len(SubSeq(t, 1, Len(s))) = (Len(s) - 1) + 1
        /\ \A i \in 1 .. (Len(s) - 1) + 1 : SubSeq(t, 1, Len(s))[i] = t[(i + 1) - 1]
    BY <2>1, Slice, Zenon
  <2>3. QED  BY <1>0, <2>2, SMT
<1>2. ASSUME Begins(s, t)
      PROVE  Len(s) <= Len(t) /\ \A i \in 1 .. Len(s) : s[i] = t[i]
  <2>1. Len(s) <= Len(t) /\ s = SubSeq(t, 1, Len(s))  BY <1>2, Zenon DEF Begins
  <2>2. QED  BY <1>1, <2>1, Zenon
<1>3. ASSUME Len(s) <= Len(t), \A i \in 1 .. Len(s) : s[i] = t[i]
      PROVE  Begins(s, t)
  <2>1. SubSeq(t, 1, Len(s)) = s  BY <1>1, <1>3, Same, Zenon
  <2>2. QED  BY <1>3, <2>1, Zenon DEF Begins
<1>4. QED  BY <1>2, <1>3, Zenon

(* What begins a stream begins it when more is written.                    *)
LEMMA BeginsMore ==
    ASSUME NEW s \in Bytes, NEW t \in Bytes, NEW u \in Bytes, Begins(s, t)
    PROVE  Begins(s, t \o u)
<1>1. t \o u \in Bytes /\ Len(t \o u) = Len(t) + Len(u) /\ Len(t) \in Nat /\ Len(u) \in Nat
      /\ \A i \in 1 .. Len(t) : (t \o u)[i] = t[i]
  BY Joint, Zenon
<1>2. Len(s) <= Len(t) /\ \A i \in 1 .. Len(s) : s[i] = t[i]  BY BeginsElements, Zenon
<1>3. Len(s) \in Nat  BY SMT DEF Bytes
<1>4. Len(s) <= Len(t \o u)  BY <1>1, <1>2, <1>3, SMT
<1>5. \A i \in 1 .. Len(s) : s[i] = (t \o u)[i]  BY <1>1, <1>2, <1>3, SMT
<1>6. QED  BY <1>1, <1>4, <1>5, BeginsElements, Zenon

(* A stream begins with itself.                                            *)
LEMMA BeginsAll == ASSUME NEW s \in Bytes PROVE Begins(s, s)
<1>1. Len(s) <= Len(s)  BY SMT DEF Bytes
<1>2. QED  BY <1>1, BeginsElements, Zenon

(* The first part of what begins a stream is read, and the second begins   *)
(* the rest.                                                               *)
LEMMA BeginsRest ==
    ASSUME NEW s \in Bytes, NEW t \in Bytes, NEW u \in Bytes, Begins(s \o t, u)
    PROVE  /\ Len(s) <= Len(u)
           /\ SubSeq(u, 1, Len(s)) = s
           /\ SubSeq(u, Len(s) + 1, Len(u)) \in Bytes
           /\ Begins(t, SubSeq(u, Len(s) + 1, Len(u)))
<1> DEFINE b == s \o t
           r == SubSeq(u, Len(s) + 1, Len(u))
<1>1. /\ b \in Bytes
      /\ Len(s) \in Nat /\ Len(t) \in Nat
      /\ Len(b) = Len(s) + Len(t)
      /\ \A i \in 1 .. Len(s) : b[i] = s[i]
      /\ \A i \in 1 .. Len(t) : b[Len(s) + i] = t[i]
  BY Joint, Zenon
<1>2. Begins(b, u)  OBVIOUS
<1> HIDE DEF b
<1>3. Len(b) <= Len(u) /\ \A i \in 1 .. Len(b) : b[i] = u[i]
  BY <1>1, <1>2, BeginsElements, Zenon
<1>4. Len(u) \in Nat  BY SMT DEF Bytes
<1>5. Len(s) <= Len(u) /\ \A i \in 1 .. Len(s) : s[i] = u[i]  BY <1>1, <1>3, <1>4, SMT
<1>6. SubSeq(u, 1, Len(s)) = s  BY <1>5, BeginsElements, Zenon DEF Begins
<1>7. /\ r \in Bytes
      /\ Len(r) = Len(u) - Len(s)
      /\ \A i \in 1 .. Len(u) - Len(s) : r[i] = u[(i + (Len(s) + 1)) - 1]
  <2>1. Len(s) + 1 \in 1 .. Len(u) + 1 /\ Len(u) \in ((Len(s) + 1) - 1) .. Len(u)
    BY <1>1, <1>4, <1>5, SMT
  <2>2. /\ r \in Bytes
        /\ Len(r) = (Len(u) - (Len(s) + 1)) + 1
        /\ \A i \in 1 .. (Len(u) - (Len(s) + 1)) + 1 : r[i] = u[(i + (Len(s) + 1)) - 1]
    BY <2>1, Slice, Zenon
  <2>3. (Len(u) - (Len(s) + 1)) + 1 = Len(u) - Len(s)  BY <1>1, <1>4, SMT
  <2>4. QED  BY <2>2, <2>3, Zenon
<1> HIDE DEF r
<1>8. Len(t) <= Len(r)  BY <1>1, <1>3, <1>4, <1>7, SMT
<1>9. \A i \in 1 .. Len(t) : t[i] = r[i]
  <2>1. SUFFICES ASSUME NEW i \in 1 .. Len(t) PROVE t[i] = r[i]  OBVIOUS
  <2>2. /\ i \in 1 .. Len(u) - Len(s)
        /\ (i + (Len(s) + 1)) - 1 = Len(s) + i
        /\ Len(s) + i \in 1 .. Len(b)
    BY <1>1, <1>3, <1>4, SMT
  <2>3. QED  BY <1>1, <1>3, <1>7, <2>2, Zenon
<1>10. QED  BY <1>5, <1>6, <1>7, <1>8, <1>9, BeginsElements, Zenon DEF r

-----------------------------------------------------------------------------
(* The bytes on their way.                                                 *)

(* The types of the streams.                                               *)
WireOK ==
    /\ wire \in [Readers -> Bytes]
    /\ arrived \in [Readers -> Nat]
    /\ \A e \in Readers : arrived[e] <= Len(wire[e])

(* A write adds its bytes at the end of one stream.                        *)
LEMMA WritesOK ==
    ASSUME WireOK, NEW e \in Readers, NEW b \in Bytes, Writes(e, b)
    PROVE  /\ WireOK'
           /\ wire'[e] = wire[e] \o b
           /\ \A o \in Readers \ {e} : wire'[o] = wire[o]
<1>1. wire[e] \in Bytes  BY Zenon DEF WireOK
<1>2. /\ wire[e] \o b \in Bytes
      /\ Len(wire[e]) \in Nat /\ Len(b) \in Nat
      /\ Len(wire[e] \o b) = Len(wire[e]) + Len(b)
  BY <1>1, Joint, Zenon
<1>3. /\ wire' \in [Readers -> Bytes]
      /\ wire'[e] = wire[e] \o b
      /\ \A o \in Readers \ {e} : wire'[o] = wire[o]
  BY <1>2, Zenon DEF WireOK, Writes
<1>4. arrived' = arrived /\ arrived \in [Readers -> Nat]  BY Zenon DEF WireOK, Writes
<1>5. ASSUME NEW o \in Readers PROVE arrived[o] <= Len(wire'[o])
  <2>1. arrived[o] \in Nat /\ arrived[o] <= Len(wire[o])  BY <1>4, Zenon DEF WireOK
  <2>2. CASE o = e  BY <1>2, <1>3, <2>1, <2>2, SMT
  <2>3. CASE o # e  BY <1>3, <2>1, <2>3, Zenon
  <2>4. QED  BY <2>2, <2>3
<1>6. QED  BY <1>3, <1>4, <1>5, Zenon DEF WireOK

(* A read takes bytes that have come from the front of one stream.         *)
LEMMA DropOK ==
    ASSUME WireOK, NEW e \in Readers, NEW n \in 0 .. arrived[e], Drop(e, n)
    PROVE  /\ WireOK'
           /\ n <= Len(wire[e])
           /\ wire'[e] = SubSeq(wire[e], n + 1, Len(wire[e]))
           /\ \A o \in Readers \ {e} : wire'[o] = wire[o]
<1>1. /\ wire[e] \in Bytes
      /\ arrived[e] \in Nat /\ arrived[e] <= Len(wire[e])
  BY Zenon DEF WireOK
<1>2. Len(wire[e]) \in Nat  BY <1>1, SMT DEF Bytes
<1> DEFINE r == SubSeq(wire[e], n + 1, Len(wire[e]))
<1>3. n <= Len(wire[e]) /\ arrived[e] - n \in Nat  BY <1>1, <1>2, SMT
<1>4. r \in Bytes /\ Len(r) = (Len(wire[e]) - (n + 1)) + 1
  <2>1. n + 1 \in 1 .. Len(wire[e]) + 1 /\ Len(wire[e]) \in ((n + 1) - 1) .. Len(wire[e])
    BY <1>1, <1>2, SMT
  <2>2. QED  BY <1>1, <2>1, Slice, Zenon
<1>5. /\ wire' \in [Readers -> Bytes]
      /\ wire'[e] = r
      /\ \A o \in Readers \ {e} : wire'[o] = wire[o]
  BY <1>4, Zenon DEF WireOK, Drop
<1>6. /\ arrived' \in [Readers -> Nat]
      /\ arrived'[e] = arrived[e] - n
      /\ \A o \in Readers \ {e} : arrived'[o] = arrived[o]
  BY <1>3, Zenon DEF WireOK, Drop
<1> HIDE DEF r
<1>7. ASSUME NEW o \in Readers PROVE arrived'[o] <= Len(wire'[o])
  <2>1. arrived[o] <= Len(wire[o])  BY Zenon DEF WireOK
  <2>2. CASE o = e
    <3>1. arrived[e] - n <= Len(r)  BY <1>1, <1>2, <1>4, SMT
    <3>2. QED  BY <1>5, <1>6, <2>2, <3>1, Zenon
  <2>3. CASE o # e  BY <1>5, <1>6, <2>1, <2>3, Zenon
  <2>4. QED  BY <2>2, <2>3
<1>8. QED  BY <1>3, <1>5, <1>6, <1>7, Zenon DEF WireOK, r

(* Four bytes are a number.                                                *)
LEMMA ValueOfFour ==
    ASSUME NEW b \in Bytes, Len(b) = 4
    PROVE  Value(b) \in Nat
<1>1. b \in Seq(0 .. 255) /\ 1 \in 1 .. Len(b) /\ 2 \in 1 .. Len(b) /\ 3 \in 1 .. Len(b)
      /\ 4 \in 1 .. Len(b)
  BY SMT DEF Bytes
<1>2. b[1] \in 0 .. 255 /\ b[2] \in 0 .. 255 /\ b[3] \in 0 .. 255 /\ b[4] \in 0 .. 255
  BY <1>1, ElementOfSeq, Zenon
<1>3. PICK x \in 0 .. 255, y \in 0 .. 255, z \in 0 .. 255, w \in 0 .. 255 :
        b[1] = x /\ b[2] = y /\ b[3] = z /\ b[4] = w
  BY <1>2, Zenon
<1>4. Value(b) = x + 256 * y + 65536 * z + 16777216 * w  BY <1>3, SMT DEF Value
<1>5. QED  BY <1>4, SMT

(* The read of a length takes four bytes, and their number is the length.  *)
LEMMA ReadsLengthOK ==
    ASSUME WireOK, length \in [Readers -> Nat], NEW e \in Readers, ReadsLength(e)
    PROVE  /\ WireOK'
           /\ length' \in [Readers -> Nat]
           /\ SizeOfLength <= Len(wire[e])
           /\ length'[e] = Value(SubSeq(wire[e], 1, SizeOfLength))
           /\ wire'[e] = SubSeq(wire[e], SizeOfLength + 1, Len(wire[e]))
           /\ \A o \in Readers \ {e} : wire'[o] = wire[o] /\ length'[o] = length[o]
<1>1. wire[e] \in Bytes /\ arrived[e] \in Nat /\ arrived[e] <= Len(wire[e])
  BY Zenon DEF WireOK
<1>2. Len(wire[e]) \in Nat  BY <1>1, SMT DEF Bytes
<1>3. arrived[e] >= SizeOfLength /\ Drop(e, SizeOfLength)  BY Zenon DEF ReadsLength
<1>4. SizeOfLength \in 0 .. arrived[e] /\ SizeOfLength <= Len(wire[e])
  BY <1>1, <1>2, <1>3, SMT DEF SizeOfLength
<1>5. /\ WireOK'
      /\ wire'[e] = SubSeq(wire[e], SizeOfLength + 1, Len(wire[e]))
      /\ \A o \in Readers \ {e} : wire'[o] = wire[o]
  BY <1>3, <1>4, DropOK, Zenon
<1> DEFINE b == SubSeq(wire[e], 1, SizeOfLength)
<1>6. Value(b) \in Nat
  <2>1. 1 \in 1 .. Len(wire[e]) + 1 /\ SizeOfLength \in (1 - 1) .. Len(wire[e])
    BY <1>2, <1>4, SMT DEF SizeOfLength
  <2>2. b \in Bytes /\ Len(b) = (SizeOfLength - 1) + 1  BY <1>1, <2>1, Slice, Zenon
  <2> HIDE DEF b
  <2>3. Len(b) = 4  BY <2>2, SMT DEF SizeOfLength
  <2>4. QED  BY <2>2, <2>3, ValueOfFour, Zenon
<1>7. length' = [length EXCEPT ![e] = Value(b)]  BY Zenon DEF ReadsLength
<1> HIDE DEF b
<1>8. /\ length' \in [Readers -> Nat]
      /\ length'[e] = Value(b)
      /\ \A o \in Readers \ {e} : length'[o] = length[o]
  BY <1>6, <1>7, Zenon
<1>9. QED  BY <1>4, <1>5, <1>8, Zenon DEF b

(* The read of a payload takes as many bytes as the length says.           *)
LEMMA ReadsPayloadOK ==
    ASSUME WireOK, length \in [Readers -> Nat], NEW e \in Readers, ReadsPayload(e)
    PROVE  /\ WireOK'
           /\ length[e] <= Len(wire[e])
           /\ wire'[e] = SubSeq(wire[e], length[e] + 1, Len(wire[e]))
           /\ \A o \in Readers \ {e} : wire'[o] = wire[o]
<1>1. arrived[e] \in Nat /\ length[e] \in Nat  BY Zenon DEF WireOK
<1>2. arrived[e] >= length[e] /\ Drop(e, length[e])  BY Zenon DEF ReadsPayload
<1>3. length[e] \in 0 .. arrived[e]  BY <1>1, <1>2, SMT
<1>4. QED  BY <1>2, <1>3, DropOK, Zenon

(* A read that fails at the end of the connection disturbs the other       *)
(* stream not.                                                             *)
LEMMA EndedOK ==
    ASSUME WireOK, NEW e \in Readers, NEW n, Ended(e, n)
    PROVE  WireOK' /\ \A o \in Readers \ {e} : wire'[o] = wire[o]
<1>1. arrived[e] \in Nat /\ Drop(e, arrived[e])  BY Zenon DEF WireOK, Ended
<1>2. arrived[e] \in 0 .. arrived[e]  BY <1>1, SMT
<1>3. QED  BY <1>1, <1>2, DropOK, Zenon

(* Nor does a read that is canceled.                                       *)
LEMMA CanceledOK ==
    ASSUME WireOK, NEW e \in Readers, NEW n, Canceled(e, n)
    PROVE  WireOK' /\ \A o \in Readers \ {e} : wire'[o] = wire[o]
<1>1. PICK got \in 0 .. arrived[e] : Drop(e, got)  BY Zenon DEF Canceled
<1>2. QED  BY <1>1, DropOK, Zenon

-----------------------------------------------------------------------------
(* The types.                                                              *)

(* A side that writes has the message it writes, of the kind its place     *)
(* calls for.                                                              *)
WritingInv ==
    /\ client \in {"ask", "asking"} => \E m \in Request : writing["server"] = <<m>>
    /\ client \in {"acknowledge", "acknowledging"} =>
         \E m \in Acknowledge : writing["server"] = <<m>>
    /\ server \in {"respond", "responding"} => \E m \in Responce : writing["client"] = <<m>>

ClientPlaces == {"ask", "asking", "response length", "response", "acknowledge",
                 "acknowledging", "over"}
ServerPlaces == {"request length", "request", "respond", "responding", "ack length", "ack",
                 "over"}
(* The types of the other variables.                                       *)
RestOK ==
    /\ client \in ClientPlaces
    /\ server \in ServerPlaces
    /\ writing \in [Readers -> Seq(Messages)]
    /\ length \in [Readers -> Nat]
    /\ sent \in [Readers -> Seq(Messages)]
    /\ DOMAIN received = Readers
    /\ outside \in BOOLEAN
    /\ struck \in BOOLEAN

(* The type invariant is that of the streams and that of the rest.         *)
LEMMA TypeParts == TypeOK <=> WireOK /\ RestOK
BY Zenon DEF TypeOK, WireOK, RestOK, ClientPlaces, ServerPlaces

(* The first write of a message.                                           *)
LEMMA WritesLengthOK ==
    ASSUME WireOK, NEW e \in Readers, NEW m \in Messages, writing[e] = <<m>>, WritesLength(e)
    PROVE  /\ WireOK' /\ wire'[e] = wire[e] \o Half(m)
           /\ \A o \in Readers \ {e} : wire'[o] = wire[o]
           /\ UNCHANGED <<writing, sent>>
<1>1. Head(writing[e]) = m  BY SMT
<1>2. Writes(e, Half(m)) /\ UNCHANGED <<writing, sent>>
  BY <1>1, Zenon DEF WritesLength, Half
<1>3. QED  BY <1>2, HalfOfMessage, WritesOK, Zenon

(* The second write of a message, with which it is sent.                   *)
LEMMA WritesPayloadOK ==
    ASSUME WireOK, RestOK, NEW e \in Readers, NEW m \in Messages, writing[e] = <<m>>,
           WritesPayload(e)
    PROVE  /\ WireOK' /\ wire'[e] = wire[e] \o Serialize(m)
           /\ \A o \in Readers \ {e} : wire'[o] = wire[o]
           /\ sent' \in [Readers -> Seq(Messages)]
           /\ sent'[e] = Append(sent[e], m)
           /\ \A o \in Readers \ {e} : sent'[o] = sent[o]
           /\ writing' \in [Readers -> Seq(Messages)]
           /\ \A o \in Readers \ {e} : writing'[o] = writing[o]
<1>1. Head(writing[e]) = m  BY SMT
<1>2. /\ Writes(e, Serialize(m))
      /\ sent' = [sent EXCEPT ![e] = Append(@, m)]
      /\ writing' = [writing EXCEPT ![e] = << >>]
  BY <1>1, Zenon DEF WritesPayload
<1>3. /\ sent \in [Readers -> Seq(Messages)]
      /\ writing \in [Readers -> Seq(Messages)]
  BY Zenon DEF RestOK
<1>4. Append(sent[e], m) \in Seq(Messages) /\ << >> \in Seq(Messages)
  BY <1>3, SMT
<1>5. /\ sent' \in [Readers -> Seq(Messages)]
      /\ sent'[e] = Append(sent[e], m)
      /\ \A o \in Readers \ {e} : sent'[o] = sent[o]
  BY <1>2, <1>3, <1>4, Zenon
<1>6. /\ writing' \in [Readers -> Seq(Messages)]
      /\ \A o \in Readers \ {e} : writing'[o] = writing[o]
  BY <1>2, <1>3, <1>4, Zenon
<1>7. QED  BY <1>2, <1>5, <1>6, HalfOfMessage, WritesOK, Zenon

(* The types at the start.                                                 *)
LEMMA InitOK == Init => TypeOK /\ WritingInv
<1> SUFFICES ASSUME Init PROVE TypeOK /\ WritingInv  OBVIOUS
<1>1. PICK r \in Request : writing = [client |-> << >>, server |-> <<r>>]
  BY Zenon DEF Init
<1>2. writing \in [Readers -> Seq(Messages)]
  <2>1. << >> \in Seq(Messages) /\ <<r>> \in Seq(Messages)  BY SMT DEF Messages
  <2>2. \A a, b \in Seq(Messages) :
          [client |-> a, server |-> b] \in [Readers -> Seq(Messages)]
    BY SMT DEF Readers
  <2>3. QED  BY <1>1, <2>1, <2>2, Zenon
<1>3. /\ length = [e \in Readers |-> 0] /\ arrived = [e \in Readers |-> 0]
      /\ wire = [e \in Readers |-> << >>]
      /\ sent = [e \in Readers |-> << >>] /\ received = [e \in Readers |-> << >>]
  BY Zenon DEF Init
<1>4. /\ length \in [Readers -> Nat] /\ arrived \in [Readers -> Nat]
      /\ wire \in [Readers -> Bytes] /\ sent \in [Readers -> Seq(Messages)]
      /\ DOMAIN received = Readers
      /\ \A e \in Readers : arrived[e] = 0 /\ wire[e] = << >>
  <2>1. 0 \in Nat /\ << >> \in Bytes /\ << >> \in Seq(Messages)  BY SMT DEF Bytes
  <2>2. QED  BY <1>3, <2>1, Zenon
<1>5. \A e \in Readers : arrived[e] <= Len(wire[e])
  <2>1. 0 <= Len(<< >>)  BY SMT
  <2>2. QED  BY <1>4, <2>1, Zenon
<1>6. /\ client = "ask" /\ server = "request length"
      /\ outside \in BOOLEAN /\ struck \in BOOLEAN
  BY Zenon DEF Init
<1>7. TypeOK  BY <1>2, <1>4, <1>5, <1>6, Zenon DEF TypeOK
<1>8. writing["server"] = <<r>>  BY <1>1
<1>9. WritingInv  BY <1>6, <1>8 DEF WritingInv
<1>10. QED  BY <1>7, <1>9

(* Every step keeps the types, and a side that writes has its message.     *)
LEMMA TypeStep ==
    ASSUME TypeOK, WritingInv, Next
    PROVE  TypeOK' /\ WritingInv'
<1>0. WireOK /\ RestOK  BY TypeParts
<1>1. /\ client \in ClientPlaces /\ server \in ServerPlaces
      /\ writing \in [Readers -> Seq(Messages)]
      /\ length \in [Readers -> Nat]
      /\ sent \in [Readers -> Seq(Messages)]
      /\ DOMAIN received = Readers
      /\ outside \in BOOLEAN /\ struck \in BOOLEAN
  BY <1>0, Zenon DEF RestOK
<1>2. "client" \in Readers /\ "server" \in Readers /\ "client" \in Readers \ {"server"}
      /\ "server" \in Readers \ {"client"}
  BY SMT DEF Readers
<1>3. Request \subseteq Messages /\ Acknowledge \subseteq Messages /\ Responce \subseteq Messages
  BY Zenon DEF Messages
<1>4. SUFFICES WireOK' /\ RestOK' /\ WritingInv'
  BY Zenon DEF TypeOK, WireOK, RestOK, ClientPlaces, ServerPlaces
<1>a. CASE ClientWritesLength
  <2>1. PICK m \in Messages : writing["server"] = <<m>>
    BY <1>a, <1>3 DEF ClientWritesLength, WritingInv
  <2>2. /\ WritesLength("server") /\ client' \in {"asking", "acknowledging"}
        /\ client' = "asking" => client = "ask"
        /\ client' = "acknowledging" => client = "acknowledge"
        /\ UNCHANGED <<server, length, received, flagVars>>
    BY <1>a DEF ClientWritesLength
  <2>3. WireOK' /\ UNCHANGED <<writing, sent>>  BY <1>0, <1>2, <2>1, <2>2, WritesLengthOK
  <2>4. RestOK'  BY <1>1, <2>2, <2>3 DEF RestOK, flagVars, ClientPlaces
  <2>5. WritingInv'  BY <2>2, <2>3 DEF WritingInv
  <2>6. QED  BY <2>3, <2>4, <2>5
<1>b. CASE ClientWritesPayload
  <2>1. PICK m \in Messages : writing["server"] = <<m>>
    BY <1>b, <1>3 DEF ClientWritesPayload, WritingInv
  <2>2. /\ WritesPayload("server") /\ client' \in {"response length", "over"}
        /\ UNCHANGED <<server, length, received, flagVars>>
    BY <1>b DEF ClientWritesPayload
  <2>3. /\ WireOK' /\ sent' \in [Readers -> Seq(Messages)]
        /\ writing' \in [Readers -> Seq(Messages)]
        /\ writing'["client"] = writing["client"]
    BY <1>0, <1>2, <2>1, <2>2, WritesPayloadOK
  <2>4. RestOK'  BY <1>1, <2>2, <2>3 DEF RestOK, flagVars, ClientPlaces
  <2>5. WritingInv'  BY <2>2, <2>3 DEF WritingInv
  <2>6. QED  BY <2>3, <2>4, <2>5
<1>c. CASE ReceiveResponseLength
  <2>1. /\ ReadsLength("client") /\ client' = "response"
        /\ UNCHANGED <<server, writing, sent, received, flagVars>>
    BY <1>c DEF ReceiveResponseLength
  <2>2. WireOK' /\ length' \in [Readers -> Nat]  BY <1>0, <1>1, <1>2, <2>1, ReadsLengthOK
  <2>3. RestOK'  BY <1>1, <2>1, <2>2 DEF RestOK, flagVars, ClientPlaces
  <2>4. WritingInv'  BY <2>1 DEF WritingInv
  <2>5. QED  BY <2>2, <2>3, <2>4
<1>d. CASE ReceiveResponse
  <2>1. ReadsPayload("client") /\ UNCHANGED <<server, length, sent, struck>>
    BY <1>d DEF ReceiveResponse
  <2>2. WireOK'  BY <1>0, <1>1, <1>2, <2>1, ReadsPayloadOK
  <2>3. /\ client' \in {"acknowledge", "over"} /\ outside' \in BOOLEAN
        /\ DOMAIN received' = Readers
    BY <1>1, <1>d DEF ReceiveResponse, Parsed
  <2>4. \/ client' = "over" /\ UNCHANGED writing
        \/ /\ client' = "acknowledge"
           /\ \E a \in Acknowledge : writing' = [writing EXCEPT !["server"] = <<a>>]
    BY <1>d DEF ReceiveResponse
  <2>5. writing' \in [Readers -> Seq(Messages)] /\ WritingInv'
    <3>1. CASE client' = "over" /\ UNCHANGED writing
      BY <1>1, <2>1, <3>1 DEF WritingInv
    <3>2. ASSUME client' = "acknowledge", NEW a \in Acknowledge,
                 writing' = [writing EXCEPT !["server"] = <<a>>]
          PROVE  writing' \in [Readers -> Seq(Messages)] /\ WritingInv'
      <4>1. a \in Messages  BY <1>3
      <4>2. <<a>> \in Seq(Messages)  BY <4>1
      <4>3. /\ writing' \in [Readers -> Seq(Messages)]
            /\ writing'["server"] = <<a>> /\ writing'["client"] = writing["client"]
        BY <1>1, <1>2, <3>2, <4>2, Zenon
      <4>4. QED  BY <2>1, <3>2, <4>3 DEF WritingInv
    <3>3. QED  BY <2>4, <3>1, <3>2
  <2>6. RestOK'  BY <1>1, <2>1, <2>3, <2>5 DEF RestOK, ClientPlaces
  <2>7. QED  BY <2>2, <2>5, <2>6
<1>e. CASE ClientLeaves
  <2>1. client' = "over" /\ UNCHANGED <<server, writing, length, wire, arrived, sent, received,
                                         outside, struck>>
    BY <1>e DEF ClientLeaves, wireVars, flagVars
  <2>2. WireOK'  BY <1>0, <2>1 DEF WireOK
  <2>3. RestOK'  BY <1>1, <2>1 DEF RestOK, ClientPlaces
  <2>4. WritingInv'  BY <2>1 DEF WritingInv
  <2>5. QED  BY <2>2, <2>3, <2>4
<1>f. CASE ReceiveRequestLength \/ ReceiveAcknowledgeLength
  <2>1. /\ ReadsLength("server") /\ server' \in {"request", "ack"}
        /\ UNCHANGED <<client, writing, sent, received, flagVars>>
    BY <1>f DEF ReceiveRequestLength, ReceiveAcknowledgeLength
  <2>2. WireOK' /\ length' \in [Readers -> Nat]  BY <1>0, <1>1, <1>2, <2>1, ReadsLengthOK
  <2>3. RestOK'  BY <1>1, <2>1, <2>2 DEF RestOK, flagVars, ServerPlaces
  <2>4. WritingInv'  BY <2>1 DEF WritingInv
  <2>5. QED  BY <2>2, <2>3, <2>4
<1>g. CASE ReceiveRequest
  <2>1. ReadsPayload("server") /\ UNCHANGED <<client, length, sent, struck>>
    BY <1>g DEF ReceiveRequest
  <2>2. WireOK'  BY <1>0, <1>1, <1>2, <2>1, ReadsPayloadOK
  <2>3. /\ server' \in {"respond", "over"} /\ outside' \in BOOLEAN
        /\ DOMAIN received' = Readers
    BY <1>1, <1>g DEF ReceiveRequest, Parsed
  <2>4. \/ server' = "over" /\ UNCHANGED writing
        \/ /\ server' = "respond"
           /\ \E r \in Responce : writing' = [writing EXCEPT !["client"] = <<r>>]
    BY <1>g DEF ReceiveRequest
  <2>5. writing' \in [Readers -> Seq(Messages)] /\ WritingInv'
    <3>1. CASE server' = "over" /\ UNCHANGED writing
      BY <1>1, <2>1, <3>1 DEF WritingInv
    <3>2. ASSUME server' = "respond", NEW r \in Responce,
                 writing' = [writing EXCEPT !["client"] = <<r>>]
          PROVE  writing' \in [Readers -> Seq(Messages)] /\ WritingInv'
      <4>1. r \in Messages  BY <1>3
      <4>2. <<r>> \in Seq(Messages)  BY <4>1
      <4>3. /\ writing' \in [Readers -> Seq(Messages)]
            /\ writing'["client"] = <<r>> /\ writing'["server"] = writing["server"]
        BY <1>1, <1>2, <3>2, <4>2, Zenon
      <4>4. QED  BY <2>1, <3>2, <4>3 DEF WritingInv
    <3>3. QED  BY <2>4, <3>1, <3>2
  <2>6. RestOK'  BY <1>1, <2>1, <2>3, <2>5 DEF RestOK, ServerPlaces
  <2>7. QED  BY <2>2, <2>5, <2>6
<1>h. CASE SendResponseLength
  <2>1. PICK m \in Messages : writing["client"] = <<m>>
    BY <1>h, <1>3 DEF SendResponseLength, WritingInv
  <2>2. /\ WritesLength("client") /\ server' = "responding" /\ server = "respond"
        /\ UNCHANGED <<client, length, received, flagVars>>
    BY <1>h DEF SendResponseLength
  <2>3. WireOK' /\ UNCHANGED <<writing, sent>>  BY <1>0, <1>2, <2>1, <2>2, WritesLengthOK
  <2>4. RestOK'  BY <1>1, <2>2, <2>3 DEF RestOK, flagVars, ServerPlaces
  <2>5. WritingInv'  BY <2>2, <2>3 DEF WritingInv
  <2>6. QED  BY <2>3, <2>4, <2>5
<1>i. CASE SendResponse
  <2>1. PICK m \in Messages : writing["client"] = <<m>>
    BY <1>i, <1>3 DEF SendResponse, WritingInv
  <2>2. /\ WritesPayload("client") /\ server' \in {"ack length", "request length", "over"}
        /\ UNCHANGED <<client, length, received, flagVars>>
    BY <1>i DEF SendResponse
  <2>3. /\ WireOK' /\ sent' \in [Readers -> Seq(Messages)]
        /\ writing' \in [Readers -> Seq(Messages)]
        /\ writing'["server"] = writing["server"]
    BY <1>0, <1>2, <2>1, <2>2, WritesPayloadOK
  <2>4. RestOK'  BY <1>1, <2>2, <2>3 DEF RestOK, flagVars, ServerPlaces
  <2>5. WritingInv'  BY <2>2, <2>3 DEF WritingInv
  <2>6. QED  BY <2>3, <2>4, <2>5
<1>j. CASE LoseClient
  <2>1. server' = "over" /\ UNCHANGED <<client, writing, length, wire, arrived, sent, received,
                                         outside, struck>>
    BY <1>j DEF LoseClient, wireVars, flagVars
  <2>2. WireOK'  BY <1>0, <2>1 DEF WireOK
  <2>3. RestOK'  BY <1>1, <2>1 DEF RestOK, ServerPlaces
  <2>4. WritingInv'  BY <2>1 DEF WritingInv
  <2>5. QED  BY <2>2, <2>3, <2>4
<1>k. CASE ReceiveAcknowledge
  <2>1. /\ ReadsPayload("server") /\ server' = "request length"
        /\ UNCHANGED <<client, writing, length, sent, struck>>
    BY <1>k DEF ReceiveAcknowledge
  <2>2. WireOK'  BY <1>0, <1>1, <1>2, <2>1, ReadsPayloadOK
  <2>3. outside' \in BOOLEAN /\ DOMAIN received' = Readers
    BY <1>1, <1>k DEF ReceiveAcknowledge, Parsed
  <2>4. RestOK'  BY <1>1, <2>1, <2>3 DEF RestOK, ServerPlaces
  <2>5. WritingInv'  BY <2>1 DEF WritingInv
  <2>6. QED  BY <2>2, <2>4, <2>5
<1>l. CASE LoseRest \/ StrikeTimer
  <2>1. /\ server' = "request length" /\ struck' \in BOOLEAN
        /\ UNCHANGED <<client, writing, length, sent, received, outside>>
    BY <1>1, <1>l DEF LoseRest, StrikeTimer, flagVars
  <2>2. WireOK'  BY <1>0, <1>2, <1>l, EndedOK, CanceledOK DEF LoseRest, StrikeTimer
  <2>3. RestOK'  BY <1>1, <2>1 DEF RestOK, ServerPlaces
  <2>4. WritingInv'  BY <2>1 DEF WritingInv
  <2>5. QED  BY <2>2, <2>3, <2>4
<1>m. ASSUME NEW e \in Readers, Deliver(e) PROVE WireOK' /\ RestOK' /\ WritingInv'
  <2>1. /\ UNCHANGED <<client, server, writing, length, wire, sent, received, outside, struck>>
        /\ \E n \in (1 .. MaxCut) \cup {Len(wire[e])} :
             n <= Len(wire[e]) /\ arrived' = [arrived EXCEPT ![e] = n]
    BY <1>m DEF Deliver, flagVars
  <2>2. PICK n \in (1 .. MaxCut) \cup {Len(wire[e])} :
          n <= Len(wire[e]) /\ arrived' = [arrived EXCEPT ![e] = n]
    BY <2>1
  <2>3. Len(wire[e]) \in Nat  BY <1>0, SMT DEF WireOK, Bytes
  <2>4. n \in Nat  BY <2>2, <2>3, SMT
  <2>5. arrived' \in [Readers -> Nat] /\ \A o \in Readers : arrived'[o] <= Len(wire[o])
    BY <1>0, <2>2, <2>4 DEF WireOK
  <2>6. WireOK'  BY <1>0, <2>1, <2>5 DEF WireOK
  <2>7. RestOK'  BY <1>1, <2>1 DEF RestOK
  <2>8. WritingInv'  BY <2>1 DEF WritingInv
  <2>9. QED  BY <2>6, <2>7, <2>8
<1>n. QED
  BY <1>a, <1>b, <1>c, <1>d, <1>e, <1>f, <1>g, <1>h, <1>i, <1>j, <1>k, <1>l, <1>m
     DEF Next, ClientStep, ServerStep

-----------------------------------------------------------------------------
(* The messages to the client.                                             *)

(* The client's stream when it reads a length: nothing, the length of a    *)
(* response, or the whole response first.                                  *)
ResponseComes ==
    \/ /\ sent["client"] = << >> /\ server # "responding"
       /\ wire["client"] = << >>
    \/ /\ sent["client"] = << >> /\ server = "responding"
       /\ wire["client"] = Half(Head(writing["client"]))
    \/ /\ sent["client"] # << >>
       /\ Begins(Frame(sent["client"][1]), wire["client"])

(* And when it reads a payload: as long as the response that comes.        *)
PayloadComes ==
    \/ /\ sent["client"] = << >> /\ server = "responding"
       /\ wire["client"] = << >>
       /\ length["client"] = Len(Serialize(Head(writing["client"])))
    \/ /\ sent["client"] # << >>
       /\ length["client"] = Len(Serialize(sent["client"][1]))
       /\ Begins(Serialize(sent["client"][1]), wire["client"])

(* It receives no more than the first response.                            *)
OneResponse ==
    \/ received["client"] = << >>
    \/ sent["client"] # << >> /\ received["client"] = <<sent["client"][1]>>

(* What the client relies on.                                              *)
ClientInv ==
    /\ sent["client"] \in Seq(Responce)
    /\ OneResponse
    /\ client \in {"ask", "asking", "response length"} =>
         received["client"] = << >> /\ ResponseComes
    /\ client = "response" => received["client"] = << >> /\ PayloadComes

(* A step that leaves the client's stream alone keeps what the client      *)
(* relies on.                                                              *)
LEMMA ClientKeeps ==
    ASSUME ClientInv,
           wire'["client"] = wire["client"], length'["client"] = length["client"],
           sent'["client"] = sent["client"], received'["client"] = received["client"],
           server = "responding" =>
             server' = "responding" /\ writing'["client"] = writing["client"],
           server' = "responding" => server = "responding",
           \/ client' = client
           \/ client \in {"ask", "asking"} /\ client' \in {"asking", "response length"}
           \/ client' \in {"acknowledge", "acknowledging", "over"}
    PROVE  ClientInv'
<1>1. ResponseComes => ResponseComes'  BY DEF ResponseComes
<1>2. PayloadComes => PayloadComes'  BY DEF PayloadComes
<1>3. OneResponse'  BY DEF OneResponse, ClientInv
<1>4. QED  BY <1>1, <1>2, <1>3 DEF ClientInv

(* The first message to the client is a response.                          *)
LEMMA FirstResponce ==
    ASSUME ClientInv, sent["client"] # << >>
    PROVE  /\ sent["client"][1] \in Responce
           /\ sent["client"][1] \in Messages
<1>1. sent["client"] \in Seq(Responce)  BY DEF ClientInv
<1>2. 1 \in 1 .. Len(sent["client"])  BY <1>1, SMT
<1>3. sent["client"][1] \in Responce  BY <1>1, <1>2, ElementOfSeq
<1>4. QED  BY <1>3 DEF Messages

(* When the client has a payload, it is that of the first response.        *)
LEMMA ResponseParsed ==
    ASSUME WireOK, RestOK, WritingInv, ClientInv, client = "response", ReadsPayload("client")
    PROVE  /\ sent["client"] # << >>
           /\ received["client"] = << >>
           /\ Holds(Payload("client"))
           /\ DeserializeResponse(Payload("client")) = sent["client"][1]
<1>1. received["client"] = << >> /\ PayloadComes  BY DEF ClientInv
<1>2. length["client"] <= Len(wire["client"])
  BY ReadsPayloadOK DEF RestOK, Readers
<1>3. sent["client"] # << >>
  <2>1. SUFFICES ASSUME server = "responding", wire["client"] = << >>,
                        length["client"] = Len(Serialize(Head(writing["client"])))
                 PROVE  FALSE
    BY <1>1 DEF PayloadComes
  <2>2. PICK m \in Responce : writing["client"] = <<m>>  BY <2>1 DEF WritingInv
  <2>3. Head(writing["client"]) = m /\ m \in Messages  BY <2>2 DEF Messages
  <2>4. Len(Serialize(m)) \in Nat \ {0}  BY <2>3, HalfOfMessage
  <2>5. Len(<< >>) = 0  OBVIOUS
  <2>6. QED  BY <1>2, <2>1, <2>3, <2>4, <2>5, SMT
<1>4. sent["client"][1] \in Responce  BY <1>3, FirstResponce
<1>5. /\ length["client"] = Len(Serialize(sent["client"][1]))
      /\ Begins(Serialize(sent["client"][1]), wire["client"])
  BY <1>1, <1>3 DEF PayloadComes
<1>6. Payload("client") = Serialize(sent["client"][1])
  BY <1>5, Zenon DEF Payload, Begins
<1>7. QED  BY <1>1, <1>3, <1>4, <1>6, ResponceBack

(* Every step keeps what the client relies on; the timer makes no          *)
(* difference.                                                             *)
LEMMA ClientInvStep ==
    ASSUME TypeOK, WritingInv, ClientInv, Next
    PROVE  ClientInv'
<1>0. WireOK /\ RestOK  BY TypeParts
<1>1. /\ length \in [Readers -> Nat]
      /\ writing \in [Readers -> Seq(Messages)]
      /\ sent \in [Readers -> Seq(Messages)]
      /\ DOMAIN received = Readers
  BY <1>0 DEF RestOK
<1>2. "client" \in Readers /\ "server" \in Readers /\ "client" \in Readers \ {"server"}
      /\ "server" \in Readers \ {"client"}
  BY SMT DEF Readers
<1>3. Responce \subseteq Messages /\ Request \subseteq Messages /\ Acknowledge \subseteq Messages
  BY Zenon DEF Messages
<1>a. CASE ClientWritesLength
  <2>1. PICK m \in Messages : writing["server"] = <<m>>
    BY <1>a, <1>3 DEF ClientWritesLength, WritingInv
  <2>2. /\ WritesLength("server") /\ UNCHANGED <<server, length, received, flagVars>>
        /\ \/ client = "ask" /\ client' = "asking"
           \/ client' = "acknowledging"
    BY <1>a DEF ClientWritesLength
  <2>3. wire'["client"] = wire["client"] /\ UNCHANGED <<writing, sent>>
    BY <1>0, <1>2, <2>1, <2>2, WritesLengthOK
  <2>4. QED  BY <2>2, <2>3, ClientKeeps
<1>b. CASE ClientWritesPayload
  <2>1. PICK m \in Messages : writing["server"] = <<m>>
    BY <1>b, <1>3 DEF ClientWritesPayload, WritingInv
  <2>2. /\ WritesPayload("server") /\ UNCHANGED <<server, length, received, flagVars>>
        /\ \/ client = "asking" /\ client' = "response length"
           \/ client' = "over"
    BY <1>b DEF ClientWritesPayload
  <2>3. /\ wire'["client"] = wire["client"] /\ sent'["client"] = sent["client"]
        /\ writing'["client"] = writing["client"]
    BY <1>0, <1>2, <2>1, <2>2, WritesPayloadOK
  <2>4. QED  BY <2>2, <2>3, ClientKeeps
<1>c. CASE ReceiveResponseLength
  <2>1. /\ client = "response length" /\ client' = "response"
        /\ ReadsLength("client") /\ UNCHANGED <<server, writing, sent, received>>
    BY <1>c DEF ReceiveResponseLength
  <2>2. /\ SizeOfLength <= Len(wire["client"])
        /\ length'["client"] = Value(SubSeq(wire["client"], 1, SizeOfLength))
        /\ wire'["client"] = SubSeq(wire["client"], SizeOfLength + 1, Len(wire["client"]))
        /\ wire["client"] \in Bytes
    <3>1. wire["client"] \in Bytes  BY <1>0, <1>2 DEF WireOK
    <3>2. QED  BY <1>0, <1>1, <1>2, <2>1, <3>1, ReadsLengthOK, Zenon
  <2>3. received["client"] = << >> /\ ResponseComes  BY <2>1 DEF ClientInv
  <2>4. CASE sent["client"] = << >> /\ wire["client"] = << >>
    <3>1. Len(<< >>) = 0 /\ SizeOfLength = 4  BY DEF SizeOfLength
    <3>2. FALSE  BY <2>2, <2>4, <3>1, SMT
    <3>3. QED  BY <3>2
  <2>5. CASE /\ sent["client"] = << >> /\ server = "responding"
             /\ wire["client"] = Half(Head(writing["client"]))
    <3>1. PICK m \in Responce : writing["client"] = <<m>>  BY <2>5 DEF WritingInv
    <3>2. Head(writing["client"]) = m /\ m \in Messages  BY <1>3, <3>1
    <3>3. /\ Half(m) \in Bytes /\ Len(Half(m)) = SizeOfLength
          /\ Value(Half(m)) = Len(Serialize(m))
      BY <3>2, HalfOfMessage
    <3>4. /\ SubSeq(Half(m), 1, SizeOfLength) = Half(m)
          /\ SubSeq(Half(m), SizeOfLength + 1, Len(Half(m))) = << >>
      BY <3>3, SubSeqFull, SMT DEF Bytes, SizeOfLength
    <3>5. wire'["client"] = << >> /\ length'["client"] = Len(Serialize(m))
      BY <2>2, <2>5, <3>2, <3>3, <3>4
    <3>6. PayloadComes'  BY <2>1, <2>5, <3>2, <3>5 DEF PayloadComes
    <3>7. QED  BY <2>1, <2>3, <3>6 DEF ClientInv, OneResponse
  <2>6. CASE /\ sent["client"] # << >>
             /\ Begins(Frame(sent["client"][1]), wire["client"])
    <3> DEFINE m == sent["client"][1]
    <3>1. m \in Messages  BY <2>6, FirstResponce
    <3>2. Begins(Frame(m), wire["client"])  BY <2>6
    <3> HIDE DEF m
    <3>3. /\ Half(m) \in Bytes /\ Len(Half(m)) = SizeOfLength
          /\ Value(Half(m)) = Len(Serialize(m))
          /\ Serialize(m) \in Bytes
      BY <3>1, HalfOfMessage
    <3>4. Begins(Half(m) \o Serialize(m), wire["client"])  BY <3>2 DEF Frame
    <3>5. /\ SubSeq(wire["client"], 1, SizeOfLength) = Half(m)
          /\ Begins(Serialize(m), SubSeq(wire["client"], SizeOfLength + 1, Len(wire["client"])))
      BY <2>2, <3>3, <3>4, BeginsRest, Zenon
    <3>6. length'["client"] = Len(Serialize(m)) /\ Begins(Serialize(m), wire'["client"])
      BY <2>2, <3>3, <3>5
    <3>7. PayloadComes'  BY <2>1, <2>6, <3>6 DEF PayloadComes, m, Begins
    <3>8. QED  BY <2>1, <2>3, <3>7 DEF ClientInv, OneResponse
  <2>7. QED  BY <2>3, <2>4, <2>5, <2>6 DEF ResponseComes
<1>d. CASE ReceiveResponse
  <2>1. /\ client = "response" /\ ReadsPayload("client") /\ sent' = sent
        /\ client' \in {"acknowledge", "over"}
    BY <1>d DEF ReceiveResponse
  <2>2. /\ sent["client"] # << >> /\ received["client"] = << >>
        /\ Holds(Payload("client"))
        /\ DeserializeResponse(Payload("client")) = sent["client"][1]
    BY <1>0, <2>1, ResponseParsed
  <2>3. received' = [received EXCEPT !["client"] = Append(@, sent["client"][1])]
    BY <1>d, <2>2 DEF ReceiveResponse, Parsed
  <2>4. received'["client"] = <<sent["client"][1]>>
    <3>1. received'["client"] = Append(received["client"], sent["client"][1])
      BY <1>1, <1>2, <2>3
    <3>2. Append(<< >>, sent["client"][1]) = <<sent["client"][1]>>  OBVIOUS
    <3>3. QED  BY <2>2, <3>1, <3>2
  <2>5. QED  BY <2>1, <2>2, <2>4 DEF ClientInv, OneResponse
<1>e. CASE ClientLeaves
  <2>1. client' = "over" /\ UNCHANGED <<server, writing, length, wire, sent, received>>
    BY <1>e DEF ClientLeaves, wireVars
  <2>2. QED  BY <2>1, ClientKeeps
<1>f. CASE ReceiveRequestLength \/ ReceiveAcknowledgeLength
  <2>1. /\ ReadsLength("server") /\ server \in {"request length", "ack length"}
        /\ server' \in {"request", "ack"}
        /\ UNCHANGED <<client, writing, sent, received>>
    BY <1>f DEF ReceiveRequestLength, ReceiveAcknowledgeLength
  <2>2. wire'["client"] = wire["client"] /\ length'["client"] = length["client"]
    BY <1>0, <1>1, <1>2, <2>1, ReadsLengthOK
  <2>3. QED  BY <2>1, <2>2, ClientKeeps
<1>g. CASE ReceiveRequest \/ ReceiveAcknowledge
  <2>1. /\ ReadsPayload("server") /\ server \in {"request", "ack"}
        /\ server' \in {"respond", "over", "request length"}
        /\ UNCHANGED <<client, length, sent>>
    BY <1>g DEF ReceiveRequest, ReceiveAcknowledge
  <2>2. wire'["client"] = wire["client"]
    BY <1>0, <1>1, <1>2, <2>1, ReadsPayloadOK
  <2>3. received'["client"] = received["client"]
    BY <1>1, <1>2, <1>g DEF ReceiveRequest, ReceiveAcknowledge, Parsed
  <2>4. QED  BY <2>1, <2>2, <2>3, ClientKeeps
<1>h. CASE SendResponseLength
  <2>1. PICK m \in Messages : writing["client"] = <<m>>
    BY <1>h, <1>3 DEF SendResponseLength, WritingInv
  <2>2. /\ WritesLength("client") /\ server = "respond" /\ server' = "responding"
        /\ UNCHANGED <<client, length, received, flagVars>>
    BY <1>h DEF SendResponseLength
  <2>3. wire'["client"] = wire["client"] \o Half(m) /\ UNCHANGED <<writing, sent>>
    BY <1>0, <1>2, <2>1, <2>2, WritesLengthOK
  <2>4. /\ wire["client"] \in Bytes /\ Half(m) \in Bytes
        /\ Head(writing["client"]) = m
    BY <1>0, <1>2, <2>1, HalfOfMessage DEF WireOK
  <2>5. ResponseComes => ResponseComes'
    <3>1. CASE sent["client"] = << >> /\ wire["client"] = << >>
      <4>1. << >> \o Half(m) = Half(m)  BY <2>4, ConcatEmptySeq DEF Bytes
      <4>2. QED  BY <2>2, <2>3, <2>4, <3>1, <4>1 DEF ResponseComes
    <3>2. CASE sent["client"] # << >> /\ Begins(Frame(sent["client"][1]), wire["client"])
      <4>1. Frame(sent["client"][1]) \in Bytes  BY <3>2, FirstResponce, HalfOfMessage
      <4>2. Begins(Frame(sent["client"][1]), wire'["client"])
        BY <2>3, <2>4, <3>2, <4>1, BeginsMore
      <4>3. QED  BY <2>3, <3>2, <4>2 DEF ResponseComes
    <3>3. QED  BY <2>2, <3>1, <3>2 DEF ResponseComes
  <2>6. PayloadComes => PayloadComes'
    <3>1. CASE sent["client"] # << >> /\ Begins(Serialize(sent["client"][1]), wire["client"])
      <4>1. Serialize(sent["client"][1]) \in Bytes  BY <3>1, FirstResponce, HalfOfMessage
      <4>2. Begins(Serialize(sent["client"][1]), wire'["client"])
        BY <2>3, <2>4, <3>1, <4>1, BeginsMore
      <4>3. QED  BY <2>2, <2>3, <3>1, <4>2 DEF PayloadComes
    <3>2. QED  BY <2>2, <3>1 DEF PayloadComes
  <2>7. OneResponse'  BY <2>2, <2>3 DEF OneResponse, ClientInv
  <2>8. QED  BY <2>2, <2>3, <2>5, <2>6, <2>7 DEF ClientInv
<1>i. CASE SendResponse
  <2>1. PICK m \in Responce : writing["client"] = <<m>>
    BY <1>i DEF SendResponse, WritingInv
  <2>2. m \in Messages /\ Head(writing["client"]) = m  BY <1>3, <2>1
  <2>3. /\ WritesPayload("client") /\ server = "responding" /\ server' # "responding"
        /\ UNCHANGED <<client, length, received, flagVars>>
    BY <1>i DEF SendResponse
  <2>4. /\ wire'["client"] = wire["client"] \o Serialize(m)
        /\ sent'["client"] = Append(sent["client"], m)
    BY <1>0, <1>2, <2>1, <2>2, <2>3, WritesPayloadOK
  <2>5. /\ sent["client"] \in Seq(Responce)
        /\ sent'["client"] \in Seq(Responce)
        /\ sent'["client"] # << >>
        /\ sent["client"] = << >> => sent'["client"][1] = m
        /\ sent["client"] # << >> => sent'["client"][1] = sent["client"][1]
    <3>1. sent["client"] \in Seq(Responce)  BY DEF ClientInv
    <3>2. QED  BY <2>4, <3>1, SMT
  <2>6. /\ wire["client"] \in Bytes
        /\ Half(m) \in Bytes /\ Serialize(m) \in Bytes /\ Frame(m) \in Bytes
    BY <1>0, <1>2, <2>2, HalfOfMessage DEF WireOK
  <2>7. ResponseComes => ResponseComes'
    <3>1. CASE sent["client"] = << >> /\ wire["client"] = Half(Head(writing["client"]))
      <4>1. wire'["client"] = Frame(m)  BY <2>2, <2>4, <3>1 DEF Frame
      <4>2. Begins(Frame(m), Frame(m))  BY <2>6, BeginsAll
      <4>3. QED  BY <2>5, <3>1, <4>1, <4>2 DEF ResponseComes
    <3>2. CASE sent["client"] # << >> /\ Begins(Frame(sent["client"][1]), wire["client"])
      <4>1. Frame(sent["client"][1]) \in Bytes  BY <3>2, FirstResponce, HalfOfMessage
      <4>2. Begins(Frame(sent["client"][1]), wire'["client"])
        BY <2>4, <2>6, <3>2, <4>1, BeginsMore
      <4>3. QED  BY <2>5, <3>2, <4>2 DEF ResponseComes
    <3>3. QED  BY <2>3, <3>1, <3>2 DEF ResponseComes
  <2>8. PayloadComes => PayloadComes'
    <3>1. CASE /\ sent["client"] = << >> /\ wire["client"] = << >>
               /\ length["client"] = Len(Serialize(Head(writing["client"])))
      <4>1. << >> \o Serialize(m) = Serialize(m)  BY <2>6, ConcatEmptySeq DEF Bytes
      <4>2. Begins(Serialize(m), Serialize(m))  BY <2>6, BeginsAll
      <4>3. wire'["client"] = Serialize(m)  BY <2>4, <3>1, <4>1
      <4>4. QED  BY <2>2, <2>3, <2>5, <3>1, <4>2, <4>3 DEF PayloadComes
    <3>2. CASE /\ sent["client"] # << >> /\ Begins(Serialize(sent["client"][1]), wire["client"])
               /\ length["client"] = Len(Serialize(sent["client"][1]))
      <4>1. Serialize(sent["client"][1]) \in Bytes  BY <3>2, FirstResponce, HalfOfMessage
      <4>2. Begins(Serialize(sent["client"][1]), wire'["client"])
        BY <2>4, <2>6, <3>2, <4>1, BeginsMore
      <4>3. QED  BY <2>3, <2>5, <3>2, <4>2 DEF PayloadComes
    <3>3. QED  BY <2>3, <3>1, <3>2 DEF PayloadComes
  <2>9. OneResponse'
    <3>1. received'["client"] = received["client"] /\ OneResponse  BY <2>3 DEF ClientInv
    <3>2. QED  BY <2>5, <3>1 DEF OneResponse
  <2>10. QED  BY <2>3, <2>5, <2>7, <2>8, <2>9 DEF ClientInv
<1>j. CASE LoseClient
  <2>1. /\ client = "over" /\ UNCHANGED <<client, wire, sent, received>>
    BY <1>j DEF LoseClient, wireVars
  <2>2. QED  BY <2>1 DEF ClientInv, OneResponse
<1>k. CASE LoseRest \/ StrikeTimer
  <2>1. /\ server' = "request length" /\ server # "responding"
        /\ UNCHANGED <<client, writing, length, sent, received>>
    BY <1>k DEF LoseRest, StrikeTimer
  <2>2. wire'["client"] = wire["client"]
    BY <1>0, <1>2, <1>k, EndedOK, CanceledOK DEF LoseRest, StrikeTimer
  <2>3. QED  BY <2>1, <2>2, ClientKeeps
<1>l. ASSUME NEW e \in Readers, Deliver(e) PROVE ClientInv'
  <2>1. UNCHANGED <<client, server, writing, length, wire, sent, received>>
    BY <1>l DEF Deliver
  <2>2. QED  BY <2>1, ClientKeeps
<1>m. QED
  BY <1>a, <1>b, <1>c, <1>d, <1>e, <1>f, <1>g, <1>h, <1>i, <1>j, <1>k, <1>l
     DEF Next, ClientStep, ServerStep

-----------------------------------------------------------------------------
(* The messages to the server.                                             *)

(* The server's places.                                                    *)
AtLength  == server \in {"request length", "ack length"}
AtPayload == server \in {"request", "ack"}
AtRequest == server \in {"request length", "request"}
AtAck     == server \in {"ack length", "ack"}

(* Between two messages to the server nothing is on the way.               *)
Quiet ==
    /\ sent["server"] = received["server"]
    /\ wire["server"] = << >>
    /\ ~AtPayload

(* The length of a message has been written, and may have been read.       *)
HalfSent(m) ==
    /\ sent["server"] = received["server"]
    /\ \/ AtLength /\ wire["server"] = Half(m)
       \/ /\ AtPayload
          /\ wire["server"] = << >>
          /\ length["server"] = Len(Serialize(m))

(* Both have been written, the length may have been read, and the payload  *)
(* is all there is.                                                        *)
Whole(m) ==
    /\ sent["server"] = Append(received["server"], m)
    /\ \/ AtLength /\ wire["server"] = Frame(m)
       \/ /\ AtPayload
          /\ wire["server"] = Serialize(m)
          /\ length["server"] = Len(Serialize(m))

(* The server answers the request and then waits for an acknowledge, if    *)
(* it permitted the operation.                                             *)
Answered ==
    \/ server \in {"respond", "responding", "over"} /\ sent["client"] = << >>
    \/ /\ server \in {"ack length", "request length", "over"}
       /\ sent["client"] # << >>
       /\ sent["client"][1].code = 2 => server = "ack length"

(* The message that is there whole is of the kind the server reads it as.  *)
WholeRequest     == AtRequest /\ \E m \in Request : Whole(m)
WholeAcknowledge == AtAck /\ \E m \in Acknowledge : Whole(m)

(* What the server relies on, by the place of the client: it never has     *)
(* more than one message before it.                                        *)
ServerInv ==
    /\ received["server"] \in Seq(Messages)
    /\ ~outside
    /\ client = "ask" => Quiet /\ server = "request length" /\ sent["client"] = << >>
    /\ client = "asking" =>
         HalfSent(Head(writing["server"])) /\ AtRequest /\ sent["client"] = << >>
    /\ client \in {"response length", "response"} =>
         \/ WholeRequest /\ sent["client"] = << >>
         \/ Quiet /\ Answered
    /\ client = "acknowledge" => Quiet /\ server = "ack length"
    /\ client = "acknowledging" => HalfSent(Head(writing["server"])) /\ AtAck
    /\ client = "over" =>
         \/ Quiet
         \/ \E m \in Messages : HalfSent(m)
         \/ WholeRequest
         \/ WholeAcknowledge

(* The server reads a length only of a message on its way, which goes on   *)
(* being so.                                                               *)
LEMMA LengthReadFromServerWire ==
    ASSUME WireOK, RestOK, ReadsLength("server"), AtLength, AtPayload',
           sent' = sent, received' = received
    PROVE  /\ ~Quiet
           /\ \A m \in Messages : HalfSent(m) => HalfSent(m)'
           /\ \A m \in Messages : Whole(m) => Whole(m)'
<1>1. /\ SizeOfLength <= Len(wire["server"])
      /\ length'["server"] = Value(SubSeq(wire["server"], 1, SizeOfLength))
      /\ wire'["server"] = SubSeq(wire["server"], SizeOfLength + 1, Len(wire["server"]))
  BY ReadsLengthOK DEF RestOK, Readers
<1>2. ~AtPayload /\ ~AtLength'  BY DEF AtPayload, AtLength
<1>3. ~Quiet
  <2>1. SUFFICES ASSUME wire["server"] = << >> PROVE FALSE  BY DEF Quiet
  <2>2. Len(<< >>) = 0 /\ SizeOfLength = 4  BY DEF SizeOfLength
  <2>3. QED  BY <1>1, <2>1, <2>2, SMT
<1>4. ASSUME NEW m \in Messages, HalfSent(m) PROVE HalfSent(m)'
  <2>1. wire["server"] = Half(m) /\ sent["server"] = received["server"]
    BY <1>2, <1>4 DEF HalfSent
  <2>2. /\ Half(m) \in Bytes /\ Len(Half(m)) = SizeOfLength
        /\ Value(Half(m)) = Len(Serialize(m))
    BY HalfOfMessage
  <2>3. /\ SubSeq(Half(m), 1, SizeOfLength) = Half(m)
        /\ SubSeq(Half(m), SizeOfLength + 1, Len(Half(m))) = << >>
    BY <2>2, SubSeqFull, SMT DEF Bytes, SizeOfLength
  <2>4. wire'["server"] = << >> /\ length'["server"] = Len(Serialize(m))
    BY <1>1, <2>1, <2>2, <2>3
  <2>5. QED  BY <2>1, <2>4 DEF HalfSent
<1>5. ASSUME NEW m \in Messages, Whole(m) PROVE Whole(m)'
  <2>1. wire["server"] = Frame(m) /\ sent["server"] = Append(received["server"], m)
    BY <1>2, <1>5 DEF Whole
  <2>2. /\ Half(m) \in Bytes /\ Len(Half(m)) = SizeOfLength
        /\ Serialize(m) \in Bytes
        /\ Value(Half(m)) = Len(Serialize(m))
    BY HalfOfMessage
  <2>3. /\ SubSeq(Frame(m), 1, SizeOfLength) = Half(m)
        /\ SubSeq(Frame(m), SizeOfLength + 1, Len(Frame(m))) = Serialize(m)
    BY <2>2, Divides, Zenon DEF Frame
  <2>4. wire'["server"] = Serialize(m) /\ length'["server"] = Len(Serialize(m))
    BY <1>1, <2>1, <2>2, <2>3
  <2>5. QED  BY <2>1, <2>4 DEF Whole
<1>6. QED  BY <1>3, <1>4, <1>5

(* The server reads a payload only when the message is there whole.        *)
LEMMA PayloadReadFromServerWire ==
    ASSUME WireOK, RestOK, ReadsPayload("server"), AtPayload
    PROVE  /\ ~Quiet
           /\ \A m \in Messages : ~HalfSent(m)
           /\ \A m \in Messages : Whole(m) =>
                wire'["server"] = << >> /\ Payload("server") = Serialize(m)
<1>1. /\ length["server"] <= Len(wire["server"])
      /\ wire'["server"] = SubSeq(wire["server"], length["server"] + 1, Len(wire["server"]))
  BY ReadsPayloadOK DEF RestOK, Readers
<1>2. ~AtLength  BY DEF AtPayload, AtLength
<1>3. ASSUME NEW m \in Messages PROVE ~HalfSent(m)
  <2>1. SUFFICES ASSUME wire["server"] = << >>, length["server"] = Len(Serialize(m))
                 PROVE  FALSE
    BY <1>2 DEF HalfSent
  <2>2. Len(Serialize(m)) \in Nat \ {0}  BY HalfOfMessage
  <2>3. Len(<< >>) = 0  OBVIOUS
  <2>4. QED  BY <1>1, <2>1, <2>2, <2>3, SMT
<1>4. ASSUME NEW m \in Messages, Whole(m)
      PROVE  wire'["server"] = << >> /\ Payload("server") = Serialize(m)
  <2>1. wire["server"] = Serialize(m) /\ length["server"] = Len(Serialize(m))
    BY <1>2, <1>4 DEF Whole
  <2>2. Serialize(m) \in Bytes  BY HalfOfMessage
  <2>3. /\ SubSeq(Serialize(m), 1, Len(Serialize(m))) = Serialize(m)
        /\ SubSeq(Serialize(m), Len(Serialize(m)) + 1, Len(Serialize(m))) = << >>
    BY <2>2, SubSeqFull, SMT DEF Bytes
  <2>4. QED  BY <1>1, <2>1, <2>3 DEF Payload
<1>5. QED  BY <1>3, <1>4 DEF Quiet

(* A read of the server that fails at the end of the connection has lost   *)
(* no message.                                                             *)
LEMMA RestLost ==
    ASSUME WireOK, RestOK, Ended("server", Need), AtLength \/ AtPayload,
           \/ Quiet
           \/ \E m \in Messages : HalfSent(m)
           \/ \E m \in Messages : Whole(m)
    PROVE  sent["server"] = received["server"] /\ wire'["server"] = << >>
<1>1. /\ arrived["server"] = Len(wire["server"])
      /\ arrived["server"] < Need
      /\ Drop("server", arrived["server"])
  BY DEF Ended
<1>2. wire["server"] \in Bytes /\ arrived["server"] \in Nat  BY DEF WireOK, Readers
<1>3. wire'["server"] = << >>
  <2>1. arrived["server"] \in 0 .. arrived["server"] /\ "server" \in Readers
    BY <1>2, SMT DEF Readers
  <2>2. wire'["server"] = SubSeq(wire["server"], Len(wire["server"]) + 1, Len(wire["server"]))
    BY <1>1, <2>1, DropOK
  <2>3. QED  BY <1>2, <2>2, SMT DEF Bytes
<1>4. ASSUME NEW m \in Messages, Whole(m) PROVE FALSE
  <2>1. /\ Serialize(m) \in Bytes /\ Half(m) \in Bytes
        /\ Len(Serialize(m)) \in Nat \ {0} /\ Len(Half(m)) = SizeOfLength
    BY HalfOfMessage
  <2>2. Len(Frame(m)) = SizeOfLength + Len(Serialize(m))  BY <2>1, Joint DEF Frame
  <2>3. CASE AtLength
    <3>1. Need = SizeOfLength  BY <2>3 DEF Need, AtLength
    <3>2. wire["server"] = Frame(m)  BY <1>4, <2>3 DEF Whole, AtLength, AtPayload
    <3>3. QED  BY <1>1, <2>1, <2>2, <3>1, <3>2, SMT DEF SizeOfLength
  <2>4. CASE AtPayload
    <3>1. Need = length["server"]  BY <2>4 DEF Need, AtPayload
    <3>2. /\ wire["server"] = Serialize(m)
          /\ length["server"] = Len(Serialize(m))
      BY <1>4, <2>4 DEF Whole, AtLength, AtPayload
    <3>3. QED  BY <1>1, <2>1, <3>1, <3>2, SMT
  <2>5. QED  BY <2>3, <2>4
<1>5. sent["server"] = received["server"]  BY <1>4 DEF Quiet, HalfSent
<1>6. QED  BY <1>3, <1>5

(* A client between its two writes has sent the length.                    *)
LEMMA HalfSentWhenWriting ==
    ASSUME WritingInv, ServerInv, client \in {"asking", "acknowledging"},
           NEW m, writing["server"] = <<m>>
    PROVE  HalfSent(m)
<1>1. Head(writing["server"]) = m  OBVIOUS
<1>2. QED  BY <1>1 DEF ServerInv

(* What the server parses as a request is the client's request.            *)
LEMMA RequestParsed ==
    ASSUME WireOK, RestOK, WritingInv, ServerInv, ReceiveRequest
    PROVE  /\ client \in {"response length", "response", "over"}
           /\ client # "over" => sent["client"] = << >>
           /\ \E m \in Request :
                /\ Whole(m)
                /\ wire'["server"] = << >>
                /\ received' = [received EXCEPT !["server"] = Append(@, m)]
                /\ outside' = outside
<1>1. server = "request" /\ ReadsPayload("server")  BY DEF ReceiveRequest
<1>2. AtPayload /\ ~AtAck  BY <1>1 DEF AtPayload, AtAck
<1>3. /\ ~Quiet
      /\ \A m \in Messages : ~HalfSent(m)
      /\ \A m \in Messages : Whole(m) =>
           wire'["server"] = << >> /\ Payload("server") = Serialize(m)
  BY <1>1, <1>2, PayloadReadFromServerWire
<1>4. client \in ClientPlaces  BY DEF RestOK
<1>5. client \notin {"ask", "asking", "acknowledge", "acknowledging"}
  <2>1. client # "asking"
    <3>1. SUFFICES ASSUME client = "asking" PROVE FALSE  OBVIOUS
    <3>2. PICK m \in Request : writing["server"] = <<m>>  BY <3>1 DEF WritingInv
    <3>3. HalfSent(m) /\ m \in Messages  BY <3>1, <3>2, HalfSentWhenWriting DEF Messages
    <3>4. QED  BY <1>3, <3>3
  <2>2. QED  BY <1>2, <1>3, <2>1 DEF ServerInv
<1>6. WholeRequest /\ (client # "over" => sent["client"] = << >>)
  BY <1>2, <1>3, <1>4, <1>5 DEF ServerInv, ClientPlaces, WholeAcknowledge
<1>7. PICK m \in Request : Whole(m)  BY <1>6 DEF WholeRequest
<1>8. wire'["server"] = << >> /\ Payload("server") = Serialize(m)
  BY <1>3, <1>7 DEF Messages
<1>9. Holds(Serialize(m)) /\ DeserializeRequest(Serialize(m)) = m  BY RequestBack
<1>10. received' = [received EXCEPT !["server"] = Append(@, m)] /\ outside' = outside
  BY <1>8, <1>9 DEF ReceiveRequest, Parsed
<1>11. QED  BY <1>4, <1>5, <1>6, <1>7, <1>8, <1>10 DEF ClientPlaces

(* What it parses as an acknowledge is the client's acknowledge.           *)
LEMMA AcknowledgeParsed ==
    ASSUME WireOK, RestOK, WritingInv, ServerInv, ReceiveAcknowledge
    PROVE  /\ client = "over"
           /\ \E m \in Acknowledge :
                /\ Whole(m)
                /\ wire'["server"] = << >>
                /\ received' = [received EXCEPT !["server"] = Append(@, m)]
                /\ outside' = outside
<1>1. server = "ack" /\ ReadsPayload("server")  BY DEF ReceiveAcknowledge
<1>2. AtPayload /\ ~AtRequest  BY <1>1 DEF AtPayload, AtRequest
<1>3. /\ ~Quiet
      /\ \A m \in Messages : ~HalfSent(m)
      /\ \A m \in Messages : Whole(m) =>
           wire'["server"] = << >> /\ Payload("server") = Serialize(m)
  BY <1>1, <1>2, PayloadReadFromServerWire
<1>4. client \in ClientPlaces  BY DEF RestOK
<1>5. client # "acknowledging"
  <2>1. SUFFICES ASSUME client = "acknowledging" PROVE FALSE  OBVIOUS
  <2>2. PICK m \in Acknowledge : writing["server"] = <<m>>  BY <2>1 DEF WritingInv
  <2>3. HalfSent(m) /\ m \in Messages  BY <2>1, <2>2, HalfSentWhenWriting DEF Messages
  <2>4. QED  BY <1>3, <2>3
<1>6. client = "over" /\ WholeAcknowledge
  BY <1>2, <1>3, <1>4, <1>5 DEF ServerInv, ClientPlaces, WholeRequest
<1>7. PICK m \in Acknowledge : Whole(m)  BY <1>6 DEF WholeAcknowledge
<1>8. wire'["server"] = << >> /\ Payload("server") = Serialize(m)
  BY <1>3, <1>7 DEF Messages
<1>9. Serialize(m) # << >> /\ DeserializeAcknowledge(Serialize(m)) = m  BY AcknowledgeBack
<1>10. received' = [received EXCEPT !["server"] = Append(@, m)] /\ outside' = outside
  BY <1>8, <1>9 DEF ReceiveAcknowledge, Parsed
<1>11. QED  BY <1>6, <1>7, <1>8, <1>10

(* Every step but the timer's keeps what the server relies on.             *)
LEMMA ServerInvStep ==
    ASSUME TypeOK, WritingInv, ClientInv, ServerInv, Next, ~struck, ~struck'
    PROVE  ServerInv'
<1>0. WireOK /\ RestOK  BY TypeParts
<1>1. /\ client \in ClientPlaces
      /\ length \in [Readers -> Nat]
      /\ writing \in [Readers -> Seq(Messages)]
      /\ sent \in [Readers -> Seq(Messages)]
      /\ DOMAIN received = Readers
  BY <1>0 DEF RestOK
<1>2. "client" \in Readers /\ "server" \in Readers /\ "client" \in Readers \ {"server"}
      /\ "server" \in Readers \ {"client"}
  BY SMT DEF Readers
<1>3. Responce \subseteq Messages /\ Request \subseteq Messages /\ Acknowledge \subseteq Messages
  BY Zenon DEF Messages
<1>4. received["server"] \in Seq(Messages) /\ ~outside  BY DEF ServerInv
<1>5. /\ client \in {"response length", "response"} =>
           (WholeRequest /\ sent["client"] = << >>) \/ (Quiet /\ Answered)
      /\ client = "over" =>
           Quiet \/ (\E m \in Messages : HalfSent(m)) \/ WholeRequest \/ WholeAcknowledge
  BY DEF ServerInv
<1>a. CASE ClientWritesLength
  <2>1. PICK m \in Messages : writing["server"] = <<m>>
    BY <1>a, <1>3 DEF ClientWritesLength, WritingInv
  <2>2. WritesLength("server") /\ UNCHANGED <<server, length, received, outside>>
    BY <1>a DEF ClientWritesLength, flagVars
  <2>3. wire'["server"] = wire["server"] \o Half(m) /\ UNCHANGED <<writing, sent>>
    BY <1>0, <1>2, <2>1, <2>2, WritesLengthOK
  <2>4. Head(writing'["server"]) = m  BY <2>1, <2>3
  <2>5. Quiet /\ AtLength => HalfSent(m)'
    <3>1. SUFFICES ASSUME Quiet, AtLength PROVE HalfSent(m)'  OBVIOUS
    <3>2. << >> \o Half(m) = Half(m)  BY HalfOfMessage, ConcatEmptySeq DEF Bytes
    <3>3. wire'["server"] = Half(m)  BY <2>3, <3>1, <3>2 DEF Quiet
    <3>4. QED  BY <2>2, <2>3, <3>1, <3>3 DEF Quiet, HalfSent, AtLength
  <2>6. CASE client = "ask" /\ client' = "asking"
    BY <1>4, <2>2, <2>3, <2>4, <2>5, <2>6 DEF ServerInv, AtLength, AtRequest
  <2>7. CASE client = "acknowledge" /\ client' = "acknowledging"
    BY <1>4, <2>2, <2>3, <2>4, <2>5, <2>7 DEF ServerInv, AtLength, AtAck
  <2>8. QED  BY <1>a, <2>6, <2>7 DEF ClientWritesLength
<1>b. CASE ClientWritesPayload
  <2>1. PICK m \in Messages : writing["server"] = <<m>>
    BY <1>b, <1>3 DEF ClientWritesPayload, WritingInv
  <2>2. WritesPayload("server") /\ UNCHANGED <<server, length, received, outside>>
    BY <1>b DEF ClientWritesPayload, flagVars
  <2>3. /\ wire'["server"] = wire["server"] \o Serialize(m)
        /\ sent'["server"] = Append(sent["server"], m)
        /\ sent'["client"] = sent["client"]
    BY <1>0, <1>2, <2>1, <2>2, WritesPayloadOK
  <2>4. Head(writing["server"]) = m  BY <2>1
  <2>5. HalfSent(m) => Whole(m)'
    <3>1. SUFFICES ASSUME HalfSent(m) PROVE Whole(m)'  OBVIOUS
    <3>2. << >> \o Serialize(m) = Serialize(m)  BY HalfOfMessage, ConcatEmptySeq DEF Bytes
    <3>3. sent'["server"] = Append(received'["server"], m)
      BY <2>2, <2>3, <3>1 DEF HalfSent
    <3>4. CASE AtLength /\ wire["server"] = Half(m)
      <4>1. wire'["server"] = Frame(m)  BY <2>3, <3>4 DEF Frame
      <4>2. QED  BY <2>2, <3>3, <3>4, <4>1 DEF Whole, AtLength
    <3>5. CASE /\ AtPayload /\ wire["server"] = << >>
               /\ length["server"] = Len(Serialize(m))
      <4>1. wire'["server"] = Serialize(m)  BY <2>3, <3>2, <3>5
      <4>2. QED  BY <2>2, <3>3, <3>5, <4>1 DEF Whole, AtPayload
    <3>6. QED  BY <3>1, <3>4, <3>5 DEF HalfSent
  <2>6. CASE client = "asking" /\ client' = "response length"
    <3>1. m \in Request
      <4>1. PICK r \in Request : writing["server"] = <<r>>  BY <2>6 DEF WritingInv
      <4>2. QED  BY <2>1, <4>1
    <3>2. HalfSent(m) /\ AtRequest /\ sent["client"] = << >>  BY <2>4, <2>6 DEF ServerInv
    <3>3. AtRequest' /\ sent'["client"] = << >>  BY <2>2, <2>3, <3>2 DEF AtRequest
    <3>4. WholeRequest'  BY <2>5, <3>1, <3>2, <3>3 DEF WholeRequest
    <3>5. QED  BY <1>4, <2>2, <2>6, <3>3, <3>4 DEF ServerInv
  <2>7. CASE client = "acknowledging" /\ client' = "over"
    <3>1. m \in Acknowledge  BY <2>1, <2>7 DEF WritingInv
    <3>2. HalfSent(m) /\ AtAck  BY <2>4, <2>7 DEF ServerInv
    <3>3. AtAck'  BY <2>2, <3>2 DEF AtAck
    <3>4. WholeAcknowledge'  BY <2>5, <3>1, <3>2, <3>3 DEF WholeAcknowledge
    <3>5. QED  BY <1>4, <2>2, <2>7, <3>4 DEF ServerInv
  <2>8. QED  BY <1>b, <2>6, <2>7 DEF ClientWritesPayload
<1>c. CASE ReceiveResponseLength
  <2>1. /\ client = "response length" /\ client' = "response" /\ ReadsLength("client")
        /\ UNCHANGED <<server, writing, sent, received, outside>>
    BY <1>c DEF ReceiveResponseLength, flagVars
  <2>2. wire'["server"] = wire["server"] /\ length'["server"] = length["server"]
    BY <1>0, <1>1, <1>2, <2>1, ReadsLengthOK
  <2>3. (Quiet => Quiet') /\ (Answered => Answered') /\ (WholeRequest => WholeRequest')
    BY <2>1, <2>2 DEF Quiet, Answered, WholeRequest, Whole, AtLength, AtPayload, AtRequest
  <2>4. QED  BY <1>4, <1>5, <2>1, <2>3 DEF ServerInv
<1>d. CASE ReceiveResponse
  <2>1. /\ client = "response" /\ ReadsPayload("client")
        /\ UNCHANGED <<server, length, sent>>
    BY <1>d DEF ReceiveResponse
  <2>2. /\ sent["client"] # << >>
        /\ Holds(Payload("client"))
        /\ DeserializeResponse(Payload("client")) = sent["client"][1]
    BY <1>0, <2>1, ResponseParsed
  <2>3. wire'["server"] = wire["server"]  BY <1>0, <1>1, <1>2, <2>1, ReadsPayloadOK
  <2>4. /\ received' = [received EXCEPT !["client"] = Append(@, sent["client"][1])]
        /\ outside' = outside
        /\ \/ sent["client"][1].code = 2 /\ client' = "acknowledge"
           \/ client' = "over"
    BY <1>d, <2>2 DEF ReceiveResponse, Parsed
  <2>5. received'["server"] = received["server"]  BY <1>1, <1>2, <2>4
  <2>6. Quiet /\ Answered  BY <1>5, <2>1, <2>2
  <2>7. Quiet'  BY <2>1, <2>3, <2>5, <2>6 DEF Quiet, AtPayload
  <2>8. sent["client"][1].code = 2 => server' = "ack length"
    BY <2>1, <2>2, <2>6 DEF Answered
  <2>9. QED  BY <1>4, <2>4, <2>5, <2>7, <2>8 DEF ServerInv
<1>e. CASE ClientLeaves
  <2>1. /\ client' = "over"
        /\ UNCHANGED <<server, writing, length, wire, sent, received, outside>>
    BY <1>e DEF ClientLeaves, wireVars, flagVars
  <2>2. Quiet \/ (\E m \in Messages : HalfSent(m)) \/ WholeRequest \/ WholeAcknowledge
    <3>1. CASE client \in {"asking", "acknowledging"}
      <4>1. PICK m \in Messages : writing["server"] = <<m>>  BY <1>3, <3>1 DEF WritingInv
      <4>2. Head(writing["server"]) = m  BY <4>1
      <4>3. HalfSent(m)  BY <3>1, <4>2 DEF ServerInv
      <4>4. QED  BY <4>3
    <3>2. CASE client \notin {"asking", "acknowledging"}
      BY <1>1, <1>5, <3>2 DEF ClientPlaces, ServerInv
    <3>3. QED  BY <3>1, <3>2
  <2>3. /\ Quiet => Quiet'
        /\ (\E m \in Messages : HalfSent(m)) => (\E m \in Messages : HalfSent(m))'
        /\ WholeRequest => WholeRequest'
        /\ WholeAcknowledge => WholeAcknowledge'
    BY <2>1 DEF Quiet, HalfSent, WholeRequest, WholeAcknowledge, Whole, AtLength, AtPayload,
                AtRequest, AtAck
  <2>4. QED  BY <1>4, <2>1, <2>2, <2>3 DEF ServerInv
<1>f. CASE ReceiveRequestLength
  <2>1. /\ server = "request length" /\ server' = "request" /\ ReadsLength("server")
        /\ UNCHANGED <<client, writing, sent, received, outside>>
    BY <1>f DEF ReceiveRequestLength, flagVars
  <2>2. AtLength /\ AtPayload' /\ AtRequest' /\ ~AtAck
    BY <2>1 DEF AtLength, AtPayload, AtRequest, AtAck
  <2>3. /\ ~Quiet
        /\ \A m \in Messages : HalfSent(m) => HalfSent(m)'
        /\ \A m \in Messages : Whole(m) => Whole(m)'
    BY <1>0, <2>1, <2>2, LengthReadFromServerWire
  <2>4. WholeRequest => WholeRequest'  BY <1>3, <2>2, <2>3 DEF WholeRequest
  <2>5. client = "asking" => HalfSent(Head(writing["server"]))' /\ sent["client"] = << >>
    <3>1. SUFFICES ASSUME client = "asking"
                   PROVE  HalfSent(Head(writing["server"]))' /\ sent["client"] = << >>
      OBVIOUS
    <3>2. PICK m \in Messages : writing["server"] = <<m>>  BY <1>3, <3>1 DEF WritingInv
    <3>3. Head(writing["server"]) = m /\ writing' = writing
      <4>1. Head(writing["server"]) = m  BY <3>2
      <4>2. QED  BY <2>1, <4>1, Zenon
    <3>4. HalfSent(m) /\ sent["client"] = << >>  BY <3>1, <3>3 DEF ServerInv
    <3>5. QED  BY <2>3, <3>3, <3>4
  <2>6. client \notin {"ask", "acknowledge", "acknowledging"}
    BY <2>2, <2>3 DEF ServerInv
  <2>7. QED  BY <1>4, <1>5, <2>1, <2>2, <2>3, <2>4, <2>5, <2>6 DEF ServerInv, WholeAcknowledge
<1>g. CASE ReceiveRequest
  <2>1. server' \in {"respond", "over"} /\ UNCHANGED <<client, sent>>
    BY <1>g DEF ReceiveRequest
  <2>2. /\ client \in {"response length", "response", "over"}
        /\ client # "over" => sent["client"] = << >>
    BY <1>0, <1>g, RequestParsed
  <2>3. PICK m \in Request :
          /\ Whole(m)
          /\ wire'["server"] = << >>
          /\ received' = [received EXCEPT !["server"] = Append(@, m)]
          /\ outside' = outside
    BY <1>0, <1>g, RequestParsed
  <2>4. received'["server"] = Append(received["server"], m)  BY <1>1, <1>2, <2>3
  <2>5. received'["server"] \in Seq(Messages)  BY <1>3, <1>4, <2>4
  <2>6. Quiet'  BY <2>1, <2>3, <2>4 DEF Quiet, Whole, AtPayload
  <2>7. client # "over" => Answered'  BY <2>1, <2>2 DEF Answered
  <2>8. QED  BY <1>4, <2>1, <2>2, <2>3, <2>5, <2>6, <2>7 DEF ServerInv
<1>h. CASE SendResponseLength
  <2>1. PICK m \in Messages : writing["client"] = <<m>>
    BY <1>h, <1>3 DEF SendResponseLength, WritingInv
  <2>2. /\ WritesLength("client") /\ server = "respond" /\ server' = "responding"
        /\ UNCHANGED <<client, length, received, outside>>
    BY <1>h DEF SendResponseLength, flagVars
  <2>3. wire'["server"] = wire["server"] /\ UNCHANGED <<writing, sent>>
    BY <1>0, <1>2, <2>1, <2>2, WritesLengthOK
  <2>4. ~AtLength /\ ~AtPayload /\ ~AtRequest /\ ~AtAck /\ ~AtPayload'
    BY <2>2 DEF AtLength, AtPayload, AtRequest, AtAck
  <2>5. Quiet /\ client \in {"response length", "response", "over"}
        /\ (client # "over" => Answered)
    BY <1>1, <1>5, <2>2, <2>4
       DEF ServerInv, ClientPlaces, HalfSent, WholeRequest, WholeAcknowledge
  <2>6. Quiet'  BY <2>2, <2>3, <2>4, <2>5 DEF Quiet
  <2>7. client # "over" => Answered'  BY <2>2, <2>3, <2>5 DEF Answered
  <2>8. QED  BY <1>4, <2>2, <2>5, <2>6, <2>7 DEF ServerInv
<1>i. CASE SendResponse
  <2>1. PICK m \in Responce : writing["client"] = <<m>>
    BY <1>i DEF SendResponse, WritingInv
  <2>2. m \in Messages /\ Head(writing["client"]) = m  BY <1>3, <2>1
  <2>3. /\ WritesPayload("client") /\ server = "responding"
        /\ server' \in {"ack length", "request length", "over"}
        /\ m.code = 2 => server' = "ack length"
        /\ UNCHANGED <<client, length, received, outside>>
    <3>1. /\ WritesPayload("client") /\ server = "responding"
          /\ UNCHANGED <<client, length, received, outside>>
      BY <1>i DEF SendResponse, flagVars
    <3>2. server' = CASE Head(writing["client"]).code = 2 -> "ack length"
                      [] Head(writing["client"]).code = 5 -> "over"
                      [] OTHER -> "request length"
      BY <1>i DEF SendResponse
    <3>3. server' = CASE m.code = 2 -> "ack length"
                      [] m.code = 5 -> "over"
                      [] OTHER -> "request length"
      BY <2>2, <3>2, Zenon
    <3>4. CASE m.code = 2
      <4>1. m.code # 5  BY <3>4
      <4>2. server' = "ack length"  BY <3>3, <3>4, <4>1
      <4>3. QED  BY <3>1, <4>2
    <3>5. CASE m.code # 2
      <4>1. server' \in {"over", "request length"}  BY <3>3, <3>5
      <4>2. QED  BY <3>1, <3>5, <4>1
    <3>6. QED  BY <3>4, <3>5
  <2>4. /\ wire'["server"] = wire["server"] /\ sent'["server"] = sent["server"]
        /\ sent'["client"] = Append(sent["client"], m)
    BY <1>0, <1>2, <2>1, <2>2, <2>3, WritesPayloadOK
  <2>5. ~AtLength /\ ~AtPayload /\ ~AtRequest /\ ~AtAck /\ ~AtPayload'
    BY <2>3 DEF AtLength, AtPayload, AtRequest, AtAck
  <2>6. Quiet /\ client \in {"response length", "response", "over"}
        /\ (client # "over" => Answered)
    BY <1>1, <1>5, <2>3, <2>5
       DEF ServerInv, ClientPlaces, HalfSent, WholeRequest, WholeAcknowledge
  <2>7. Quiet'  BY <2>3, <2>4, <2>5, <2>6 DEF Quiet
  <2>8. client # "over" => Answered'
    <3>1. SUFFICES ASSUME client # "over" PROVE Answered'  OBVIOUS
    <3>2. sent["client"] = << >>  BY <2>3, <2>6, <3>1 DEF Answered
    <3>3. sent'["client"] # << >> /\ sent'["client"][1] = m  BY <2>4, <3>2
    <3>4. QED  BY <2>3, <3>3 DEF Answered
  <2>9. QED  BY <1>4, <2>3, <2>6, <2>7, <2>8 DEF ServerInv
<1>j. CASE LoseClient
  <2>1. /\ client = "over" /\ server \in {"respond", "responding"} /\ server' = "over"
        /\ UNCHANGED <<client, writing, length, wire, sent, received, outside>>
    BY <1>j DEF LoseClient, wireVars, flagVars
  <2>2. ~AtLength /\ ~AtPayload /\ ~AtRequest /\ ~AtAck /\ ~AtPayload'
    BY <2>1 DEF AtLength, AtPayload, AtRequest, AtAck
  <2>3. Quiet  BY <1>5, <2>1, <2>2 DEF HalfSent, WholeRequest, WholeAcknowledge
  <2>4. Quiet'  BY <2>1, <2>2, <2>3 DEF Quiet
  <2>5. QED  BY <1>4, <2>1, <2>4 DEF ServerInv
<1>k. CASE ReceiveAcknowledgeLength
  <2>1. /\ server = "ack length" /\ server' = "ack" /\ ReadsLength("server")
        /\ UNCHANGED <<client, writing, sent, received, outside>>
    BY <1>k DEF ReceiveAcknowledgeLength, flagVars
  <2>2. AtLength /\ AtPayload' /\ AtAck' /\ ~AtRequest
    BY <2>1 DEF AtLength, AtPayload, AtRequest, AtAck
  <2>3. /\ ~Quiet
        /\ \A m \in Messages : HalfSent(m) => HalfSent(m)'
        /\ \A m \in Messages : Whole(m) => Whole(m)'
    BY <1>0, <2>1, <2>2, LengthReadFromServerWire
  <2>4. WholeAcknowledge => WholeAcknowledge'  BY <1>3, <2>2, <2>3 DEF WholeAcknowledge
  <2>5. client = "acknowledging" => HalfSent(Head(writing["server"]))'
    <3>1. SUFFICES ASSUME client = "acknowledging" PROVE HalfSent(Head(writing["server"]))'
      OBVIOUS
    <3>2. PICK m \in Messages : writing["server"] = <<m>>  BY <1>3, <3>1 DEF WritingInv
    <3>3. Head(writing["server"]) = m /\ writing' = writing
      <4>1. Head(writing["server"]) = m  BY <3>2
      <4>2. QED  BY <2>1, <4>1, Zenon
    <3>4. HalfSent(m)  BY <3>1, <3>3 DEF ServerInv
    <3>5. QED  BY <2>3, <3>3, <3>4
  <2>6. client \in {"acknowledging", "over"}
    BY <1>1, <1>5, <2>1, <2>2, <2>3 DEF ServerInv, ClientPlaces, WholeRequest
  <2>7. QED  BY <1>4, <1>5, <2>1, <2>2, <2>3, <2>4, <2>5, <2>6 DEF ServerInv, WholeRequest
<1>l. CASE ReceiveAcknowledge
  <2>1. server' = "request length" /\ UNCHANGED <<client, sent>>
    BY <1>l DEF ReceiveAcknowledge
  <2>2. client = "over"  BY <1>0, <1>l, AcknowledgeParsed
  <2>3. PICK m \in Acknowledge :
          /\ Whole(m)
          /\ wire'["server"] = << >>
          /\ received' = [received EXCEPT !["server"] = Append(@, m)]
          /\ outside' = outside
    BY <1>0, <1>l, AcknowledgeParsed
  <2>4. received'["server"] = Append(received["server"], m)  BY <1>1, <1>2, <2>3
  <2>5. received'["server"] \in Seq(Messages)  BY <1>3, <1>4, <2>4
  <2>6. Quiet'  BY <2>1, <2>3, <2>4 DEF Quiet, Whole, AtPayload
  <2>7. QED  BY <1>4, <2>1, <2>2, <2>3, <2>5, <2>6 DEF ServerInv
<1>m. CASE LoseRest
  <2>1. /\ client = "over" /\ Ended("server", Need) /\ server' = "request length"
        /\ UNCHANGED <<client, writing, length, sent, received, outside>>
        /\ AtLength \/ AtPayload
    BY <1>m DEF LoseRest, flagVars, AtLength, AtPayload
  <2>2. \/ Quiet
        \/ \E m \in Messages : HalfSent(m)
        \/ \E m \in Messages : Whole(m)
    BY <1>3, <1>5, <2>1 DEF WholeRequest, WholeAcknowledge
  <2>3. sent["server"] = received["server"] /\ wire'["server"] = << >>
    BY <1>0, <2>1, <2>2, RestLost
  <2>4. Quiet'  BY <2>1, <2>3 DEF Quiet, AtPayload
  <2>5. QED  BY <1>4, <2>1, <2>4 DEF ServerInv
<1>n. ASSUME NEW e \in Readers, Deliver(e) PROVE ServerInv'
  <2>1. UNCHANGED <<client, server, writing, length, wire, sent, received, outside>>
    BY <1>n DEF Deliver, flagVars
  <2>2. QED
    BY <2>1 DEF ServerInv, Quiet, HalfSent, WholeRequest, WholeAcknowledge, Whole, Answered,
                AtLength, AtPayload, AtRequest, AtAck
<1>o. ~StrikeTimer  BY DEF StrikeTimer
<1>p. QED
  BY <1>a, <1>b, <1>c, <1>d, <1>e, <1>f, <1>g, <1>h, <1>i, <1>j, <1>k, <1>l, <1>m, <1>n, <1>o
     DEF Next, ClientStep, ServerStep

-----------------------------------------------------------------------------
(* The invariant and what follows from it.                                 *)

(* The inductive invariant.                                                *)
IInv == TypeOK /\ WritingInv /\ ClientInv /\ (~struck => ServerInv)

(* The inductive invariant at the start.                                   *)
LEMMA InitInv == Init => IInv
<1> SUFFICES ASSUME Init PROVE IInv  OBVIOUS
<1>1. TypeOK /\ WritingInv  BY InitOK
<1>2. \A e \in Readers : wire[e] = << >> /\ sent[e] = << >> /\ received[e] = << >>
  BY Zenon DEF Init
<1>3. client = "ask" /\ server = "request length" /\ ~outside  BY DEF Init
<1>4. << >> \in Seq(Responce) /\ << >> \in Seq(Messages)  BY SMT
<1>5. /\ wire["client"] = << >> /\ sent["client"] = << >> /\ received["client"] = << >>
      /\ wire["server"] = << >> /\ sent["server"] = << >> /\ received["server"] = << >>
  BY <1>2 DEF Readers
<1>6. ClientInv  BY <1>3, <1>4, <1>5 DEF ClientInv, OneResponse, ResponseComes
<1>7. ServerInv  BY <1>3, <1>4, <1>5 DEF ServerInv, Quiet, AtPayload
<1>8. QED  BY <1>1, <1>6, <1>7 DEF IInv

(* And after every step.                                                   *)
LEMMA IInvStep == IInv /\ [Next]_vars => IInv'
<1> SUFFICES ASSUME IInv, [Next]_vars PROVE IInv'  OBVIOUS
<1>1. CASE Next
  <2>1. TypeOK /\ WritingInv /\ ClientInv /\ (~struck => ServerInv)  BY DEF IInv
  <2>2. TypeOK' /\ WritingInv'  BY <1>1, <2>1, TypeStep
  <2>3. ClientInv'  BY <1>1, <2>1, ClientInvStep
  <2>4. ASSUME ~struck' PROVE ServerInv'
    <3>1. ~struck
      BY <1>1, <2>4
         DEF Next, ClientStep, ServerStep, ClientWritesLength, ClientWritesPayload,
             ReceiveResponseLength, ReceiveResponse, ClientLeaves, ReceiveRequestLength,
             ReceiveRequest, SendResponseLength, SendResponse, LoseClient,
             ReceiveAcknowledgeLength, ReceiveAcknowledge, LoseRest, StrikeTimer, Deliver,
             flagVars
    <3>2. QED  BY <1>1, <2>1, <2>4, <3>1, ServerInvStep
  <2>5. QED  BY <2>2, <2>3, <2>4 DEF IInv
<1>2. CASE UNCHANGED vars
  BY <1>2 DEF IInv, TypeOK, WritingInv, ClientInv, OneResponse, ResponseComes, PayloadComes,
              ServerInv, Quiet, HalfSent, Whole, Answered, WholeRequest, WholeAcknowledge,
              AtLength, AtPayload, AtRequest, AtAck, vars, wireVars, flagVars, Begins
<1>3. QED  BY <1>1, <1>2

(* The invariant holds in every behaviour.                                 *)
THEOREM MessagesInductive == Spec => []IInv
BY InitInv, IInvStep, PTL DEF Spec

(* Every variable keeps its type, and no more bytes arrive than were       *)
(* written, for any paths and descriptors that fit a uint32_t.             *)
THEOREM MessagesTypeCorrect == Spec => []TypeOK
<1>1. IInv => TypeOK  BY DEF IInv
<1>2. QED  BY <1>1, MessagesInductive, PTL

(* What the client has received begins what was sent to it.                *)
LEMMA OneBegins ==
    ASSUME NEW S, NEW s, NEW t \in Seq(S), s = << >> \/ (t # << >> /\ s = <<t[1]>>)
    PROVE  Begins(s, t)
<1>1. CASE s = << >>
  <2>1. Len(s) = 0 /\ SubSeq(t, 1, 0) = << >> /\ 0 <= Len(t)  BY <1>1, SMT
  <2>2. QED  BY <1>1, <2>1, Zenon DEF Begins
<1>2. CASE t # << >> /\ s = <<t[1]>>
  <2>1. Len(s) = 1  BY <1>2, SMT
  <2>2. Len(t) \in Nat \ {0}  BY <1>2, EmptySeq, LenProperties
  <2>3. 1 \in 1 .. Len(t) /\ 1 <= Len(t)  BY <2>2, SMT
  <2>4. SubSeq(t, 1, 1) = <<t[1]>>
    <3>1. SubSeq(t, 1, 1) = <<t[1]>> \o SubSeq(t, 1 + 1, 1)
      <4>1. 1 \in 1 .. 1  BY SMT
      <4>2. 1 \in 1 .. Len(t)  BY <2>3
      <4>3. QED  BY <4>2, SubSeqRecursiveFirst, SMT
    <3>2. SubSeq(t, 1 + 1, 1) = << >>  BY SubSeqEmpty, SMT
    <3>3. <<t[1]>> \o << >> = <<t[1]>>  BY SMT
    <3>4. QED  BY <3>1, <3>2, <3>3, Zenon
  <2>5. QED  BY <1>2, <2>1, <2>3, <2>4, Zenon DEF Begins
<1>3. QED  BY <1>1, <1>2

(* A sequence begins itself and what it is appended to.                    *)
LEMMA AllBegins ==
    ASSUME NEW S, NEW s \in Seq(S)
    PROVE  /\ Begins(s, s)
           /\ \A m \in S : Begins(s, Append(s, m))
<1>1. Len(s) \in Nat /\ SubSeq(s, 1, Len(s)) = s  BY SubSeqFull, LenProperties
<1>2. Begins(s, s)  BY <1>1, SMT DEF Begins
<1>3. ASSUME NEW m \in S PROVE Begins(s, Append(s, m))
  <2>1. Len(Append(s, m)) = Len(s) + 1 /\ SubSeq(Append(s, m), 1, Len(s)) = s
    BY <1>1, SMT
  <2>2. QED  BY <1>1, <2>1 DEF Begins
<1>4. QED  BY <1>2, <1>3

(* Each side parses what the other serialised, in order and inside its     *)
(* buffer, for all messages and all cuts of the stream, until the timer    *)
(* strikes on an acknowledge (rdma_session.cpp, rdma_communication.cpp).   *)
THEOREM MessagesParseBack == Spec => []ParsesBack
<1>1. IInv => ParsesBack
  <2> SUFFICES ASSUME IInv PROVE ParsesBack  OBVIOUS
  <2>1. Begins(received["client"], sent["client"])
    BY OneBegins DEF IInv, ClientInv, OneResponse
  <2>2. ASSUME ~struck
        PROVE  /\ Begins(received["server"], sent["server"])
               /\ wire["server"] = << >> => received["server"] = sent["server"]
               /\ ~outside
    <3>1. ServerInv /\ received["server"] \in Seq(Messages)  BY <2>2 DEF IInv, ServerInv
    <3>2. \/ sent["server"] = received["server"]
          \/ \E m \in Messages : Whole(m)
      <4>1. client \in ClientPlaces  BY DEF IInv, TypeOK, ClientPlaces
      <4>2. QED
        BY <3>1, <4>1 DEF ServerInv, ClientPlaces, Quiet, HalfSent, WholeRequest,
                          WholeAcknowledge, Messages
    <3>3. ASSUME NEW m \in Messages, Whole(m)
          PROVE  Begins(received["server"], sent["server"]) /\ wire["server"] # << >>
      <4>1. sent["server"] = Append(received["server"], m)  BY <3>3 DEF Whole
      <4>2. Begins(received["server"], sent["server"])  BY <3>1, <4>1, AllBegins
      <4>3. /\ Serialize(m) \in Bytes /\ Half(m) \in Bytes
            /\ Len(Serialize(m)) \in Nat \ {0} /\ Len(Half(m)) = SizeOfLength
        BY HalfOfMessage
      <4>4. Len(Frame(m)) = SizeOfLength + Len(Serialize(m))  BY <4>3, Joint DEF Frame
      <4>5. Len(Serialize(m)) # 0 /\ Len(Frame(m)) # 0
        BY <4>3, <4>4, SMT DEF SizeOfLength
      <4>6. Len(<< >>) = 0  OBVIOUS
      <4>7. QED  BY <3>3, <4>2, <4>5, <4>6 DEF Whole
    <3>4. CASE sent["server"] = received["server"]
      <4>1. Begins(received["server"], received["server"])  BY <3>1, AllBegins
      <4>2. QED  BY <3>1, <3>4, <4>1 DEF ServerInv
    <3>5. QED  BY <3>1, <3>2, <3>3, <3>4 DEF ServerInv
  <2>3. QED  BY <2>1, <2>2 DEF ParsesBack
<1>2. QED  BY <1>1, MessagesInductive, PTL
-----------------------------------------------------------------------------
(* The bytes implement MessageExchange.                                    *)

(* What is unread before and after the first message is read.              *)
LEMMA TailUnread ==
    ASSUME NEW S, NEW s \in Seq(S), s # << >>
    PROVE  /\ SubSeq(s, Len(<< >>) + 1, Len(s)) = s
           /\ SubSeq(s, Len(<<s[1]>>) + 1, Len(s)) = Tail(s)
           /\ Head(s) = s[1]
<1>1. Len(<< >>) + 1 = 1 /\ Len(<<s[1]>>) + 1 = 2  BY SMT
<1>2. SubSeq(s, 1, Len(s)) = s  BY SubSeqFull
<1>3. SubSeq(s, 2, Len(s)) = Tail(s)  BY TailIsSubSeq
<1>4. Head(s) = s[1]  BY SMT
<1>5. QED  BY <1>1, <1>2, <1>3, <1>4, Zenon

(* A message that is sent is unread, the last.                             *)
LEMMA AppendUnread ==
    ASSUME NEW S, NEW s \in Seq(S), NEW m \in S, NEW k \in 0 .. Len(s)
    PROVE  SubSeq(Append(s, m), k + 1, Len(Append(s, m)))
             = Append(SubSeq(s, k + 1, Len(s)), m)
<1>0. Len(s) \in Nat /\ k \in Nat /\ k <= Len(s)  BY LenProperties, SMT
<1> DEFINE t == Append(s, m)
           u == SubSeq(t, k + 1, Len(t))
           w == SubSeq(s, k + 1, Len(s))
<1>1. /\ t \in Seq(S) /\ Len(t) = Len(s) + 1
      /\ \A i \in 1 .. Len(s) : t[i] = s[i]
      /\ t[Len(s) + 1] = m
  BY <1>0, SMT
<1> HIDE DEF t
<1>2. /\ u \in Seq(S) /\ Len(u) = (Len(s) + 1) - k
      /\ \A i \in 1 .. (Len(s) + 1) - k : u[i] = t[k + i]
  BY <1>0, <1>1, SMT
<1>3. /\ w \in Seq(S) /\ Len(w) = Len(s) - k
      /\ \A i \in 1 .. Len(s) - k : w[i] = s[k + i]
  BY <1>0, SMT
<1> HIDE DEF u, w
<1>4. /\ Append(w, m) \in Seq(S) /\ Len(Append(w, m)) = (Len(s) - k) + 1
      /\ \A i \in 1 .. Len(s) - k : Append(w, m)[i] = w[i]
      /\ Append(w, m)[(Len(s) - k) + 1] = m
  BY <1>0, <1>3, SMT
<1>5. Len(u) = Len(Append(w, m))  BY <1>0, <1>2, <1>4, SMT
<1>6. ASSUME NEW i \in 1 .. Len(u) PROVE u[i] = Append(w, m)[i]
  <2>1. CASE i <= Len(s) - k
    <3>1. i \in 1 .. Len(s) - k /\ k + i \in 1 .. Len(s) /\ i \in 1 .. (Len(s) + 1) - k
      BY <1>0, <1>2, <2>1, SMT
    <3>2. QED  BY <1>1, <1>2, <1>3, <1>4, <3>1, Zenon
  <2>2. CASE i > Len(s) - k
    <3>1. /\ i = (Len(s) - k) + 1 /\ k + i = Len(s) + 1
          /\ i \in 1 .. (Len(s) + 1) - k
      BY <1>0, <1>2, <2>2, SMT
    <3>2. QED  BY <1>1, <1>2, <1>4, <3>1, Zenon
  <2>3. i <= Len(s) - k \/ i > Len(s) - k  BY <1>0, <1>2, SMT
  <2>4. QED  BY <2>1, <2>2, <2>3
<1>7. u = Append(w, m)  BY <1>2, <1>4, <1>5, <1>6, SeqEqual, Zenon
<1>8. QED  BY <1>7, Zenon DEF t, u, w

(* What the server has yet to read: nothing, or the message that is there  *)
(* whole.                                                                  *)
LEMMA ServerUnread ==
    ASSUME ~struck, received["server"] \in Seq(Messages)
    PROVE  /\ Read["server"] = received["server"]
           /\ sent["server"] = received["server"] => Unread["server"] = << >>
           /\ \A m \in Messages :
                sent["server"] = Append(received["server"], m) => Unread["server"] = <<m>>
<1> DEFINE s == received["server"]
<1>1. /\ Read["server"] = s
      /\ Unread["server"] = SubSeq(sent["server"], Len(s) + 1, Len(sent["server"]))
  BY DEF Unread, Read, Readers
<1>2. s \in Seq(Messages)  OBVIOUS
<1> HIDE DEF s
<1>3. Len(s) \in Nat /\ SubSeq(s, Len(s) + 1, Len(s)) = << >>  BY <1>2, SMT
<1>4. ASSUME NEW m \in Messages
      PROVE  SubSeq(Append(s, m), Len(s) + 1, Len(Append(s, m))) = <<m>>
  <2>1. Len(s) \in 0 .. Len(s)  BY <1>3, SMT
  <2>2. SubSeq(Append(s, m), Len(s) + 1, Len(Append(s, m))) = Append(<< >>, m)
    BY <1>2, <1>3, <2>1, AppendUnread
  <2>3. Append(<< >>, m) = <<m>>  BY SMT
  <2>4. QED  BY <2>2, <2>3
<1>5. QED  BY <1>1, <1>3, <1>4, Zenon DEF s

(* A function that changes at one reader.                                  *)
LEMMA ChangesOne ==
    ASSUME NEW f, NEW g, DOMAIN f = Readers, DOMAIN g = Readers,
           f = [r \in Readers |-> f[r]], g = [r \in Readers |-> g[r]],
           NEW e \in Readers, NEW x, g[e] = x,
           \A o \in Readers \ {e} : g[o] = f[o]
    PROVE  g = [f EXCEPT ![e] = x]
<1>1. [f EXCEPT ![e] = x] = [r \in Readers |-> IF r = e THEN x ELSE f[r]]  OBVIOUS
<1>2. \A r \in Readers : g[r] = IF r = e THEN x ELSE f[r]  OBVIOUS
<1>3. QED  BY <1>1, <1>2

(* A step that writes to or reads for one reader changes the channel of    *)
(* that one.                                                               *)
LEMMA ViewChanges ==
    ASSUME NEW e \in Readers, NEW x,
           \A o \in Readers \ {e} : sent'[o] = sent[o] /\ received'[o] = received[o],
           struck' = struck
    PROVE  /\ Unread'[e] = x => Unread' = [Unread EXCEPT ![e] = x]
           /\ Read'[e] = x => Read' = [Read EXCEPT ![e] = x]
<1>1. /\ DOMAIN Unread = Readers /\ Unread = [r \in Readers |-> Unread[r]]
      /\ DOMAIN Read = Readers /\ Read = [r \in Readers |-> Read[r]]
      /\ DOMAIN Unread' = Readers /\ Unread' = [r \in Readers |-> Unread'[r]]
      /\ DOMAIN Read' = Readers /\ Read' = [r \in Readers |-> Read'[r]]
  BY DEF Unread, Read
<1>2. ASSUME NEW o \in Readers \ {e} PROVE Unread'[o] = Unread[o] /\ Read'[o] = Read[o]
  BY <1>2 DEF Unread, Read
<1>3. QED  BY <1>1, <1>2, ChangesOne, Zenon

(* A step that sends and parses nothing does not change the channel.       *)
LEMMA ViewStays ==
    ASSUME sent' = sent, received' = received, struck' = struck
    PROVE  Unread' = Unread /\ Read' = Read
BY DEF Unread, Read

(* The client's second write puts one message into the channel.            *)
LEMMA WriteToServer ==
    ASSUME IInv, ClientWritesPayload,
           NEW m \in Messages, writing["server"] = <<m>>
    PROVE  Exchange!PutToServer(m)
<1>0. WireOK /\ RestOK /\ WritingInv  BY TypeParts DEF IInv
<1>1. "server" \in Readers /\ Readers \ {"server"} = {"client"}  BY SMT DEF Readers
<1>2. /\ WritesPayload("server") /\ UNCHANGED <<received, struck>>
      /\ client \in {"asking", "acknowledging"}
  BY DEF ClientWritesPayload, flagVars
<1>3. /\ sent'["server"] = Append(sent["server"], m)
      /\ sent'["client"] = sent["client"]
  BY <1>0, <1>1, <1>2, WritesPayloadOK
<1>4. CASE struck
  <2>1. Unread' = Unread /\ Read' = Read  BY <1>2, <1>3, <1>4 DEF Unread, Read, Readers
  <2>2. QED  BY <1>4, <2>1 DEF Exchange!PutToServer
<1>5. CASE ~struck
  <2>1. ServerInv /\ received["server"] \in Seq(Messages)  BY <1>5 DEF IInv, ServerInv
  <2>2. sent["server"] = received["server"]
    BY <1>0, <1>2, <2>1, HalfSentWhenWriting DEF HalfSent
  <2>3. Unread["server"] = << >> /\ Read["server"] = received["server"]
    BY <1>5, <2>1, <2>2, ServerUnread
  <2>4. Unread'["server"] = <<m>> /\ Read'["server"] = received["server"]
    <3>1. /\ sent'["server"] = Append(received'["server"], m)
          /\ received'["server"] \in Seq(Messages) /\ ~struck'
      BY <1>2, <1>3, <1>5, <2>1, <2>2
    <3>2. /\ Read'["server"] = received'["server"]
          /\ Unread'["server"] = SubSeq(sent'["server"], Len(received'["server"]) + 1,
                                        Len(sent'["server"]))
      BY <3>1 DEF Unread, Read, Readers
    <3>3. /\ Unread["server"] = SubSeq(received["server"], Len(received["server"]) + 1,
                                       Len(received["server"]))
      BY <1>5, <2>2 DEF Unread, Readers
    <3>4. Len(received["server"]) \in 0 .. Len(received["server"])  BY <2>1, SMT
    <3>5. Unread'["server"] = Append(Unread["server"], m)
      BY <1>2, <2>1, <3>1, <3>2, <3>3, <3>4, AppendUnread
    <3>6. Append(<< >>, m) = <<m>>  BY SMT
    <3>7. QED  BY <1>2, <2>3, <3>2, <3>5, <3>6
  <2>5. <<m>> = Append(Unread["server"], m)  BY <2>3
  <2>6. /\ Unread' = [Unread EXCEPT !["server"] = Append(Unread["server"], m)]
        /\ Read' = [Read EXCEPT !["server"] = Read["server"]]
    BY <1>1, <1>2, <1>3, <2>3, <2>4, <2>5, ViewChanges
  <2>7. Read' = Read  BY <2>6 DEF Read
  <2>8. QED  BY <1>5, <2>6, <2>7 DEF Exchange!PutToServer, Exchange!Put
<1>6. QED  BY <1>4, <1>5

(* The server's parser takes the message that is in the channel.           *)
LEMMA ReadByServer ==
    ASSUME ServerInv, ~struck, struck' = struck, sent' = sent,
           NEW m \in Messages,
           sent["server"] = Append(received["server"], m),
           received' = [received EXCEPT !["server"] = Append(@, m)],
           DOMAIN received = Readers
    PROVE  Exchange!Take("server") /\ Head(Unread["server"]) = m
<1>0. "server" \in Readers /\ Readers \ {"server"} = {"client"}  BY SMT DEF Readers
<1>1. received["server"] \in Seq(Messages) /\ "server" \in Readers
      /\ Readers \ {"server"} = {"client"}
  BY <1>0 DEF ServerInv
<1>2. received'["server"] = Append(received["server"], m)
      /\ received'["client"] = received["client"]
  BY <1>1 DEF Readers
<1>3. Unread["server"] = <<m>> /\ Read["server"] = received["server"]
  BY <1>1, ServerUnread
<1>4. Head(<<m>>) = m /\ Tail(<<m>>) = << >> /\ <<m>> # << >>  BY SMT
<1>5. Read'["server"] = Append(Read["server"], Head(Unread["server"]))
  <2>1. Read'["server"] = received'["server"]  BY DEF Read, Readers
  <2>2. QED  BY <1>2, <1>3, <1>4, <2>1
<1>6. Unread'["server"] = Tail(Unread["server"])
  <2>1. Unread'["server"] = SubSeq(sent'["server"], Len(received'["server"]) + 1,
                                   Len(sent'["server"]))
    BY DEF Unread, Readers
  <2>2. sent'["server"] = received'["server"]  BY <1>2
  <2>3. received'["server"] \in Seq(Messages)  BY <1>1, <1>2
  <2>4. SubSeq(received'["server"], Len(received'["server"]) + 1, Len(received'["server"]))
          = << >>
    BY <2>3, SMT
  <2>5. QED  BY <1>3, <1>4, <2>1, <2>2, <2>4
<1>7. /\ Unread' = [Unread EXCEPT !["server"] = Tail(Unread["server"])]
      /\ Read' = [Read EXCEPT !["server"] = Append(Read["server"], Head(Unread["server"]))]
  BY <1>1, <1>2, <1>5, <1>6, ViewChanges
<1>8. QED  BY <1>3, <1>4, <1>7 DEF Exchange!Take

(* The server's second write puts one message into the channel.            *)
LEMMA WriteToClient ==
    ASSUME IInv, SendResponse, NEW m \in Responce, writing["client"] = <<m>>
    PROVE  Exchange!Put("client", m)
<1>0. WireOK /\ RestOK /\ ClientInv /\ m \in Messages  BY TypeParts DEF IInv, Messages
<1>1. "client" \in Readers /\ Readers \ {"client"} = {"server"}  BY SMT DEF Readers
<1>2. WritesPayload("client") /\ UNCHANGED <<received, struck>>
  BY DEF SendResponse, flagVars
<1>3. /\ sent'["client"] = Append(sent["client"], m)
      /\ sent'["server"] = sent["server"]
  BY <1>0, <1>1, <1>2, WritesPayloadOK
<1>4. sent["client"] \in Seq(Responce) /\ OneResponse  BY <1>0 DEF ClientInv
<1>5. Len(received["client"]) \in 0 .. Len(sent["client"])
  <2>1. CASE received["client"] = << >>
    <3>1. Len(<< >>) = 0 /\ Len(sent["client"]) \in Nat  BY <1>4, SMT
    <3>2. 0 \in 0 .. Len(sent["client"])  BY <3>1, SMT
    <3>3. QED  BY <2>1, <3>1, <3>2
  <2>2. CASE sent["client"] # << >> /\ received["client"] = <<sent["client"][1]>>
    <3>1. Len(<<sent["client"][1]>>) = 1  BY SMT
    <3>2. Len(sent["client"]) \in Nat \ {0}  BY <1>4, <2>2, EmptySeq, LenProperties
    <3>3. 1 \in 0 .. Len(sent["client"])  BY <3>2, SMT
    <3>4. QED  BY <2>2, <3>1, <3>3
  <2>3. QED  BY <1>4, <2>1, <2>2 DEF OneResponse
<1>6. /\ Unread["client"] = SubSeq(sent["client"], Len(received["client"]) + 1,
                                   Len(sent["client"]))
      /\ Unread'["client"] = SubSeq(sent'["client"], Len(received'["client"]) + 1,
                                    Len(sent'["client"]))
      /\ Read'["client"] = Read["client"]
  BY <1>2 DEF Unread, Read, Readers
<1>7. Unread'["client"] = Append(Unread["client"], m)
  BY <1>2, <1>3, <1>4, <1>5, <1>6, AppendUnread
<1>8. /\ Unread' = [Unread EXCEPT !["client"] = Append(Unread["client"], m)]
      /\ Read' = [Read EXCEPT !["client"] = Read["client"]]
  BY <1>1, <1>2, <1>3, <1>6, <1>7, ViewChanges
<1>9. Read' = Read  BY <1>8 DEF Read
<1>10. QED  BY <1>8, <1>9 DEF Exchange!Put

(* The client's parser takes the first message of the channel.             *)
LEMMA ReadByClient ==
    ASSUME IInv, ReceiveResponse
    PROVE  /\ Exchange!Take("client")
           /\ Head(Unread["client"]) = sent["client"][1]
           /\ \/ client' = "acknowledge" /\ sent["client"][1].code = 2
              \/ client' = "over"
<1>0. WireOK /\ RestOK /\ WritingInv /\ ClientInv  BY TypeParts DEF IInv
<1>1. "client" \in Readers /\ Readers \ {"client"} = {"server"}  BY SMT DEF Readers
<1>2. /\ client = "response" /\ ReadsPayload("client")
      /\ UNCHANGED <<server, length, sent, struck>>
  BY DEF ReceiveResponse
<1>3. /\ sent["client"] # << >> /\ received["client"] = << >>
      /\ Holds(Payload("client"))
      /\ DeserializeResponse(Payload("client")) = sent["client"][1]
  BY <1>0, <1>2, ResponseParsed
<1> DEFINE m == sent["client"][1]
<1>4. /\ received' = [received EXCEPT !["client"] = Append(@, m)]
      /\ \/ client' = "acknowledge" /\ m.code = 2
         \/ client' = "over"
  BY <1>3 DEF ReceiveResponse, Parsed
<1>5. sent["client"] \in Seq(Responce) /\ DOMAIN received = Readers
  BY <1>0 DEF ClientInv, RestOK
<1>6. /\ received'["client"] = <<m>>
      /\ received'["server"] = received["server"]
  <2>1. /\ received'["client"] = Append(received["client"], m)
        /\ received'["server"] = received["server"]
    BY <1>1, <1>4, <1>5
  <2>2. Append(<< >>, m) = <<m>>  OBVIOUS
  <2>3. QED  BY <1>3, <2>1, <2>2
<1>7. /\ Unread["client"] = sent["client"]
      /\ Unread'["client"] = Tail(sent["client"])
      /\ Head(sent["client"]) = m
  <2>1. /\ Unread["client"] = SubSeq(sent["client"], Len(received["client"]) + 1,
                                     Len(sent["client"]))
        /\ Unread'["client"] = SubSeq(sent'["client"], Len(received'["client"]) + 1,
                                      Len(sent'["client"]))
    BY DEF Unread, Readers
  <2>2. /\ SubSeq(sent["client"], Len(<< >>) + 1, Len(sent["client"])) = sent["client"]
        /\ SubSeq(sent["client"], Len(<<m>>) + 1, Len(sent["client"])) = Tail(sent["client"])
        /\ Head(sent["client"]) = m
    BY <1>3, <1>5, TailUnread
  <2>3. QED  BY <1>2, <1>3, <1>6, <2>1, <2>2
<1>8. Read'["client"] = Append(Read["client"], Head(Unread["client"]))
  <2>1. Read'["client"] = received'["client"] /\ Read["client"] = received["client"]
    BY DEF Read, Readers
  <2>2. Append(<< >>, m) = <<m>>  OBVIOUS
  <2>3. QED  BY <1>3, <1>6, <1>7, <2>1, <2>2
<1>9. Unread'["client"] = Tail(Unread["client"])  BY <1>7
<1>10. /\ Unread' = [Unread EXCEPT !["client"] = Tail(Unread["client"])]
       /\ Read' = [Read EXCEPT !["client"] = Append(Read["client"], Head(Unread["client"]))]
  BY <1>1, <1>2, <1>6, <1>8, <1>9, ViewChanges
<1>11. QED  BY <1>3, <1>4, <1>7, <1>10 DEF Exchange!Take

(* The refinement at the start.                                            *)
LEMMA InitExchange == Init => Exchange!Init
<1> SUFFICES ASSUME Init PROVE Exchange!Init  OBVIOUS
<1>1. ClientDoes = "ask" /\ ServerDoes = "request" /\ ~struck
  BY DEF Init, ClientDoes, ServerDoes
<1>2. \A e \in Readers : sent[e] = << >> /\ received[e] = << >>  BY Zenon DEF Init
<1>3. SubSeq(<< >>, Len(<< >>) + 1, Len(<< >>)) = << >>  BY SMT
<1>4. \A e \in Readers : Unread[e] = << >> /\ Read[e] = << >>
  BY <1>1, <1>2, <1>3, Zenon DEF Unread, Read
<1>5. Unread = [e \in Readers |-> << >>] /\ Read = [e \in Readers |-> << >>]
  BY <1>4, Zenon DEF Unread, Read
<1>6. QED  BY <1>1, <1>5 DEF Exchange!Init, Readers, Init

(* Every step is one of the exchange, or none.                             *)
LEMMA StepExchange ==
    ASSUME IInv, IInv', Next
    PROVE  [Exchange!Next]_Exchange!vars
<1>0. /\ WireOK /\ RestOK /\ WritingInv /\ ClientInv
      /\ ~struck => ServerInv
  BY TypeParts DEF IInv
<1>1. DOMAIN received = Readers /\ client \in ClientPlaces /\ server \in ServerPlaces
      /\ struck \in BOOLEAN
  BY <1>0 DEF RestOK
<1>2. /\ "client" \in Readers /\ "server" \in Readers
  BY SMT DEF Readers
<1>3. Responce \subseteq Messages /\ Request \subseteq Messages /\ Acknowledge \subseteq Messages
  BY Zenon DEF Messages
<1>a. CASE ClientWritesLength
  <2>1. ClientDoes' = ClientDoes /\ ServerDoes' = ServerDoes
    BY <1>a DEF ClientWritesLength, ClientDoes, ServerDoes
  <2>2. Unread' = Unread /\ Read' = Read
    BY <1>a, ViewStays DEF ClientWritesLength, WritesLength, flagVars
  <2>3. QED  BY <1>a, <2>1, <2>2 DEF ClientWritesLength, flagVars, Exchange!vars
<1>b. CASE ClientWritesPayload
  <2>1. /\ ServerDoes' = ServerDoes /\ struck' = struck
        /\ \/ ClientDoes = "ask" /\ ClientDoes' = "response" /\ client = "asking"
           \/ ClientDoes = "acknowledge" /\ ClientDoes' = "over" /\ client = "acknowledging"
    BY <1>b DEF ClientWritesPayload, ClientDoes, ServerDoes, flagVars
  <2>2. CASE client = "asking"
    <3>1. PICK m \in Request : writing["server"] = <<m>>  BY <1>0, <2>2 DEF WritingInv
    <3>2. Exchange!PutToServer(m)  BY <1>3, <1>b, <3>1, WriteToServer
    <3>3. Exchange!SendRequest  BY <2>1, <2>2, <3>2 DEF Exchange!SendRequest
    <3>4. QED  BY <3>3 DEF Exchange!Next
  <2>3. CASE client = "acknowledging"
    <3>1. PICK m \in Acknowledge : writing["server"] = <<m>>  BY <1>0, <2>3 DEF WritingInv
    <3>2. Exchange!PutToServer(m)  BY <1>3, <1>b, <3>1, WriteToServer
    <3>3. Exchange!SendAcknowledge  BY <2>1, <2>3, <3>2 DEF Exchange!SendAcknowledge
    <3>4. QED  BY <3>3 DEF Exchange!Next
  <2>4. QED  BY <2>1, <2>2, <2>3
<1>c. CASE ReceiveResponseLength
  <2>1. ClientDoes' = ClientDoes /\ ServerDoes' = ServerDoes
    BY <1>c DEF ReceiveResponseLength, ClientDoes, ServerDoes
  <2>2. Unread' = Unread /\ Read' = Read  BY <1>c, ViewStays DEF ReceiveResponseLength, flagVars
  <2>3. QED  BY <1>c, <2>1, <2>2 DEF ReceiveResponseLength, flagVars, Exchange!vars
<1>d. CASE ReceiveResponse
  <2>1. /\ Exchange!Take("client")
        /\ \/ client' = "acknowledge" /\ Head(Unread["client"]).code = 2
           \/ client' = "over"
    BY <1>d, ReadByClient
  <2>2. /\ ServerDoes' = ServerDoes /\ struck' = struck /\ ClientDoes = "response"
        /\ client' = "acknowledge" => ClientDoes' = "acknowledge"
        /\ client' = "over" => ClientDoes' = "over"
    BY <1>d DEF ReceiveResponse, ClientDoes, ServerDoes
  <2>3. Exchange!ReceiveResponse  BY <2>1, <2>2 DEF Exchange!ReceiveResponse
  <2>4. QED  BY <2>3 DEF Exchange!Next
<1>e. CASE ClientLeaves
  <2>1. /\ client # "over" /\ client' = "over"
        /\ UNCHANGED <<server, sent, received, struck>>
    BY <1>e DEF ClientLeaves, flagVars
  <2>2. ClientDoes # "over"  BY <1>1, <2>1 DEF ClientDoes, ClientPlaces
  <2>3. ClientDoes' = "over" /\ ServerDoes' = ServerDoes
    BY <2>1 DEF ClientDoes, ServerDoes
  <2>4. Unread' = Unread /\ Read' = Read  BY <2>1, ViewStays
  <2>5. Exchange!ClientLeaves  BY <2>1, <2>2, <2>3, <2>4 DEF Exchange!ClientLeaves
  <2>6. QED  BY <2>5 DEF Exchange!Next
<1>f. CASE ReceiveRequestLength \/ ReceiveAcknowledgeLength
  <2>1. ClientDoes' = ClientDoes /\ ServerDoes' = ServerDoes
    BY <1>f DEF ReceiveRequestLength, ReceiveAcknowledgeLength, ClientDoes, ServerDoes
  <2>2. Unread' = Unread /\ Read' = Read /\ struck' = struck
    BY <1>f, ViewStays DEF ReceiveRequestLength, ReceiveAcknowledgeLength, flagVars
  <2>3. QED  BY <2>1, <2>2 DEF Exchange!vars
<1>g. CASE ReceiveRequest
  <2>1. /\ ServerDoes = "request" /\ ServerDoes' \in {"respond", "over"}
        /\ ClientDoes' = ClientDoes
        /\ UNCHANGED <<sent, struck>>
    BY <1>g DEF ReceiveRequest, ClientDoes, ServerDoes
  <2>2. CASE ~struck
    <3>1. ServerInv  BY <1>0, <2>2
    <3>2. PICK m \in Request :
            /\ Whole(m)
            /\ received' = [received EXCEPT !["server"] = Append(@, m)]
      BY <1>0, <1>g, <3>1, RequestParsed
    <3>3. sent["server"] = Append(received["server"], m)  BY <3>2 DEF Whole
    <3>4. Exchange!Take("server") /\ Head(Unread["server"]) = m
      BY <1>1, <1>3, <2>1, <2>2, <3>1, <3>2, <3>3, ReadByServer
    <3>5. Exchange!ReceiveRequest  BY <2>1, <3>4 DEF Exchange!ReceiveRequest
    <3>6. QED  BY <3>5 DEF Exchange!Next
  <2>3. CASE struck
    <3>1. received'["client"] = received["client"]
      BY <1>1, <1>g DEF ReceiveRequest, Parsed, Readers
    <3>2. Unread' = Unread /\ Read' = Read  BY <2>1, <2>3, <3>1 DEF Unread, Read, Readers
    <3>3. Exchange!ReadAstray  BY <2>1, <2>3, <3>2 DEF Exchange!ReadAstray
    <3>4. QED  BY <3>3 DEF Exchange!Next
  <2>4. QED  BY <2>2, <2>3
<1>h. CASE SendResponseLength
  <2>1. ClientDoes' = ClientDoes /\ ServerDoes' = ServerDoes
    BY <1>h DEF SendResponseLength, ClientDoes, ServerDoes
  <2>2. Unread' = Unread /\ Read' = Read
    BY <1>h, ViewStays DEF SendResponseLength, WritesLength, flagVars
  <2>3. QED  BY <1>h, <2>1, <2>2 DEF SendResponseLength, flagVars, Exchange!vars
<1>i. CASE SendResponse
  <2>1. PICK m \in Responce : writing["client"] = <<m>>
    BY <1>0, <1>i DEF SendResponse, WritingInv
  <2>2. Exchange!Put("client", m)  BY <1>i, <2>1, WriteToClient
  <2>3. Head(writing["client"]) = m  BY <2>1
  <2>4. /\ server = "responding" /\ UNCHANGED <<client, struck>>
        /\ server' = CASE Head(writing["client"]).code = 2 -> "ack length"
                       [] Head(writing["client"]).code = 5 -> "over"
                       [] OTHER -> "request length"
    BY <1>i DEF SendResponse, flagVars
  <2>5. server' = CASE m.code = 2 -> "ack length"
                    [] m.code = 5 -> "over"
                    [] OTHER -> "request length"
    BY <2>3, <2>4, Zenon
  <2>6. /\ m.code = 2 => server' = "ack length"
        /\ m.code = 5 => server' = "over"
        /\ m.code # 2 /\ m.code # 5 => server' = "request length"
    <3>1. CASE m.code = 2
      <4>1. m.code # 5  BY <3>1
      <4>2. QED  BY <2>5, <3>1, <4>1
    <3>2. CASE m.code # 2  BY <2>5, <3>2
    <3>3. QED  BY <3>1, <3>2
  <2>7. ServerDoes' = CASE m.code = 2 -> "ack"
                        [] m.code = 5 -> "over"
                        [] OTHER -> "request"
    <3>1. CASE m.code = 2
      <4>1. m.code # 5  BY <3>1
      <4>2. ServerDoes' = "ack"  BY <2>6, <3>1 DEF ServerDoes
      <4>3. QED  BY <3>1, <4>1, <4>2
    <3>2. CASE m.code = 5
      <4>1. m.code # 2  BY <3>2
      <4>2. ServerDoes' = "over"  BY <2>6, <3>2 DEF ServerDoes
      <4>3. QED  BY <3>2, <4>1, <4>2
    <3>3. CASE m.code # 2 /\ m.code # 5
      <4>1. ServerDoes' = "request"  BY <2>6, <3>3 DEF ServerDoes
      <4>2. QED  BY <3>3, <4>1
    <3>4. QED  BY <3>1, <3>2, <3>3
  <2>8. ServerDoes = "respond" /\ ClientDoes' = ClientDoes
    BY <2>4 DEF ServerDoes, ClientDoes
  <2>9. Exchange!SendResponse  BY <2>2, <2>4, <2>7, <2>8 DEF Exchange!SendResponse
  <2>10. QED  BY <2>9 DEF Exchange!Next
<1>j. CASE LoseClient
  <2>1. /\ ServerDoes = "respond" /\ ClientDoes = "over" /\ ServerDoes' = "over"
        /\ ClientDoes' = ClientDoes
    BY <1>j DEF LoseClient, ServerDoes, ClientDoes
  <2>2. Unread' = Unread /\ Read' = Read /\ struck' = struck
    BY <1>j, ViewStays DEF LoseClient, flagVars
  <2>3. Exchange!LoseClient  BY <2>1, <2>2 DEF Exchange!LoseClient
  <2>4. QED  BY <2>3 DEF Exchange!Next
<1>k. CASE ReceiveAcknowledge
  <2>1. /\ ServerDoes = "ack" /\ ServerDoes' = "request"
        /\ ClientDoes' = ClientDoes
        /\ UNCHANGED <<sent, struck>>
    BY <1>k DEF ReceiveAcknowledge, ClientDoes, ServerDoes
  <2>2. CASE ~struck
    <3>1. ServerInv  BY <1>0, <2>2
    <3>2. PICK m \in Acknowledge :
            /\ Whole(m)
            /\ received' = [received EXCEPT !["server"] = Append(@, m)]
      BY <1>0, <1>k, <3>1, AcknowledgeParsed
    <3>3. sent["server"] = Append(received["server"], m)  BY <3>2 DEF Whole
    <3>4. Exchange!Take("server") /\ Head(Unread["server"]) = m
      BY <1>1, <1>3, <2>1, <2>2, <3>1, <3>2, <3>3, ReadByServer
    <3>5. Exchange!ReceiveAcknowledge  BY <2>1, <3>4 DEF Exchange!ReceiveAcknowledge
    <3>6. QED  BY <3>5 DEF Exchange!Next
  <2>3. CASE struck
    <3>1. received'["client"] = received["client"]
      BY <1>1, <1>k DEF ReceiveAcknowledge, Parsed, Readers
    <3>2. Unread' = Unread /\ Read' = Read  BY <2>1, <2>3, <3>1 DEF Unread, Read, Readers
    <3>3. Exchange!ReadAstray  BY <2>1, <2>3, <3>2 DEF Exchange!ReadAstray
    <3>4. QED  BY <3>3 DEF Exchange!Next
  <2>4. QED  BY <2>2, <2>3
<1>l. CASE LoseRest
  <2>1. /\ ServerDoes \in {"request", "ack"} /\ ServerDoes' = "request"
        /\ ClientDoes = "over" /\ ClientDoes' = ClientDoes
        /\ AtLength \/ AtPayload
        /\ client = "over" /\ Ended("server", Need)
        /\ UNCHANGED <<sent, received, struck>>
    BY <1>l DEF LoseRest, ClientDoes, ServerDoes, AtLength, AtPayload, flagVars
  <2>2. Unread' = Unread /\ Read' = Read  BY <2>1, ViewStays
  <2>3. CASE ~struck
    <3>1. ServerInv  BY <1>0, <2>3
    <3>2. \/ Quiet
          \/ \E m \in Messages : HalfSent(m)
          \/ \E m \in Messages : Whole(m)
      BY <1>3, <2>1, <3>1 DEF ServerInv, WholeRequest, WholeAcknowledge
    <3>3. sent["server"] = received["server"]  BY <1>0, <2>1, <3>2, RestLost
    <3>4. Unread["server"] = << >>  BY <2>3, <3>1, <3>3, ServerUnread DEF ServerInv
    <3>5. Exchange!LoseRest  BY <2>1, <2>2, <3>4 DEF Exchange!LoseRest
    <3>6. QED  BY <3>5 DEF Exchange!Next
  <2>4. CASE struck
    <3>1. Unread["server"] = << >>  BY <2>4 DEF Unread, Readers
    <3>2. Exchange!LoseRest  BY <2>1, <2>2, <3>1 DEF Exchange!LoseRest
    <3>3. QED  BY <3>2 DEF Exchange!Next
  <2>5. QED  BY <2>3, <2>4
<1>m. CASE StrikeTimer
  <2>1. /\ ServerDoes = "ack" /\ ServerDoes' = "request"
        /\ ClientDoes' = ClientDoes /\ struck'
        /\ UNCHANGED <<sent, received>>
    BY <1>m DEF StrikeTimer, ClientDoes, ServerDoes
  <2>2. /\ Unread' = [Unread EXCEPT !["server"] = << >>]
        /\ Read' = [Read EXCEPT !["server"] = << >>]
    BY <2>1 DEF Unread, Read, Readers
  <2>3. struck' = TRUE  BY <1>m DEF StrikeTimer
  <2>4. Exchange!StrikeTimer  BY <2>1, <2>2, <2>3 DEF Exchange!StrikeTimer
  <2>5. QED  BY <2>4 DEF Exchange!Next
<1>n. ASSUME NEW e \in Readers, Deliver(e) PROVE [Exchange!Next]_Exchange!vars
  <2>1. UNCHANGED <<client, server, sent, received, struck>>  BY <1>n DEF Deliver, flagVars
  <2>2. ClientDoes' = ClientDoes /\ ServerDoes' = ServerDoes
    BY <2>1 DEF ClientDoes, ServerDoes
  <2>3. Unread' = Unread /\ Read' = Read  BY <2>1, ViewStays
  <2>4. QED  BY <2>1, <2>2, <2>3 DEF Exchange!vars
<1>o. QED
  BY <1>a, <1>b, <1>c, <1>d, <1>e, <1>f, <1>g, <1>h, <1>i, <1>j, <1>k, <1>l, <1>m, <1>n
     DEF Next, ClientStep, ServerStep

(* A step that changes nothing changes nothing of the exchange.            *)
LEMMA StutterExchange == UNCHANGED vars => UNCHANGED Exchange!vars
<1> SUFFICES ASSUME UNCHANGED vars PROVE UNCHANGED Exchange!vars  OBVIOUS
<1>1. UNCHANGED <<client, server, sent, received, struck>>  BY DEF vars, flagVars
<1>2. Unread' = Unread /\ Read' = Read  BY <1>1, ViewStays
<1>3. ClientDoes' = ClientDoes /\ ServerDoes' = ServerDoes
  BY <1>1 DEF ClientDoes, ServerDoes
<1>4. QED  BY <1>1, <1>2, <1>3 DEF Exchange!vars

(* Over a stream that delivers bytes as it likes, the two writes and the   *)
(* two reads of a message are a channel of whole messages, as RdmaSession  *)
(* takes it for.                                                           *)
THEOREM ImplementsExchange == Spec => ExchangeSpec
<1>1. Init => Exchange!Init  BY InitExchange
<1>2. IInv /\ IInv' /\ [Next]_vars => [Exchange!Next]_Exchange!vars
  BY StepExchange, StutterExchange
<1>3. QED  BY <1>1, <1>2, MessagesInductive, PTL DEF Spec, ExchangeSpec, Exchange!Spec
=============================================================================
