------------------------------- MODULE MqttIn -------------------------------
(***************************************************************************)
(* How the MQTT client takes messages out of the TCP stream:               *)
(* mqtt_parse_incoming and mqtt_message_received of                        *)
(* lwip-2.1.3/src/apps/mqtt/mqtt.c, for PUBLISH, SUBACK and PINGRESP.      *)
(*                                                                         *)
(* A message is its bytes.  The fixed header is a control byte and the     *)
(* remaining length in digits of base Base (128 in MQTT), each with a      *)
(* continuation mark; a PUBLISH goes on with a two-byte topic length, the  *)
(* topic, a packet identifier if its QoS is not 0, and the payload.  The   *)
(* stream reaches the client in pbufs; the client keeps msg_idx and        *)
(* rx_buffer between them and starts each pbuf with its locals cleared.    *)
(***************************************************************************)
EXTENDS Integers, Sequences, SequencesExt

CONSTANTS
  BufLen,    \* MQTT_VAR_HEADER_BUFFER_LEN
  Base,      \* the base of the remaining-length digits
  Payloads,  \* the lengths a published payload may have
  Count      \* messages the server sends

MqttInAssumption ==
  /\ BufLen \in Nat /\ Base \in Nat \ {0, 1} /\ Payloads \subseteq Nat
  /\ Count \in Nat

VARIABLES
  sent,    \* the messages of the server
  stream,  \* the messages, as bytes, that have not arrived
  client,  \* the client's parser state
  app      \* what the application was told

vars == <<sent, stream, client, app>>

-----------------------------------------------------------------------------
(* The messages as bytes.  A payload byte tells its place.                  *)

PUBLISH == 3
SUBACK == 9
PINGRESP == 13

Message == [type : {PUBLISH}, qos : {0, 1}, size : Payloads] \cup
           [type : {SUBACK, PINGRESP}, qos : {0}, size : {0}]

Topic == <<7>>
Id == <<0, 5>>
Payload(n) == [i \in 1..n |-> 10 + i]

RECURSIVE Digits(_)
Digits(n) == IF n < Base THEN <<n>> ELSE <<Base + (n % Base)>> \o Digits(n \div Base)

Body(m) ==
  IF m.type = PINGRESP THEN <<>>
  ELSE IF m.type = SUBACK THEN Id \o <<0>>
  ELSE <<0, Len(Topic)>> \o Topic \o (IF m.qos > 0 THEN Id ELSE <<>>) \o Payload(m.size)

Bytes(m) == <<16 * m.type + 2 * m.qos>> \o Digits(Len(Body(m))) \o Body(m)

-----------------------------------------------------------------------------
(* The application: pub_cb starts a message, data_cb adds to it, and the    *)
(* last fragment completes it.                                              *)

pub_cb(a, topic, total) == [a EXCEPT !.topic = topic, !.data = <<>>, !.total = total]

data_cb(a, data, last) ==
  LET d == [a EXCEPT !.data = @ \o data, !.unasked = @ \/ a.total = 0]
  IN  IF last THEN [d EXCEPT !.told = Append(@, [topic |-> d.topic, data |-> d.data])]
      ELSE d

-----------------------------------------------------------------------------
(* mqtt_message_received: fixed bytes of header, n bytes of the body in the *)
(* buffer, rem bytes of it still to come.                                   *)

Var(c, fixed, i) == c.rx[fixed + i + 1]           \* var_hdr_payload[i]
Slice(c, fixed, i, n) == [k \in 1..n |-> Var(c, fixed, i + k - 1)]

\* The first part of a PUBLISH: where its payload starts, or -1 if the part
\* is short or does not fit the buffer.
AfterTopic(c, fixed, n, qos) ==
  LET idlen == IF qos > 0 THEN 2 ELSE 0
      room == BufLen - fixed
      topic_len == 256 * Var(c, fixed, 0) + Var(c, fixed, 1)
  IN  IF \/ n < 2 + idlen
         \/ topic_len > n - (2 + idlen) \/ topic_len > room - (2 + idlen)
         \/ 2 + topic_len + (IF qos > 0 THEN 2 ELSE 1) > room
      THEN -1 ELSE 2 + topic_len + idlen

\* The data callback and the answer to QoS 1.
PublishData(v, fixed, n, rem, qos, from) ==
  IF n - from > 0 \/ rem = 0
  THEN [v EXCEPT !.app = data_cb(@, Slice(v.c, fixed, from, n - from), rem = 0),
                 !.app.acks = IF rem = 0 /\ qos > 0 THEN @ + 1 ELSE @]
  ELSE v

ReceivedPublish(v, fixed, n, rem, qos) ==
  LET from == AfterTopic(v.c, fixed, n, qos)
      idlen == IF qos > 0 THEN 2 ELSE 0
      topic == Slice(v.c, fixed, 2, from - idlen - 2)
  IN  IF v.c.idx > BufLen THEN PublishData(v, fixed, n, rem, qos, 0)
      ELSE IF from = -1 THEN [v EXCEPT !.res = "disconnect"]
      ELSE PublishData([v EXCEPT !.app = pub_cb(@, topic, rem + n - from)],
                       fixed, n, rem, qos, from)

mqtt_message_received(v, fixed, n, rem) ==
  LET type == v.c.rx[1] \div 16
      id == 256 * Var(v.c, fixed, 0) + Var(v.c, fixed, 1)
  IN  IF type = PUBLISH THEN ReceivedPublish(v, fixed, n, rem, (v.c.rx[1] % 8) \div 2)
      ELSE IF type = PINGRESP THEN v
      ELSE IF id = 0 \/ type # SUBACK \/ n < 3 THEN [v EXCEPT !.res = "disconnect"]
      ELSE [v EXCEPT !.app.told = Append(@, [topic |-> <<id>>, data |-> <<>>])]

-----------------------------------------------------------------------------
(* mqtt_parse_incoming, one turn of its loop: v holds the client, the       *)
(* application, the pbuf p and the locals in_offset, msg_rem_len,           *)
(* fixed_hdr_len and b.                                                     *)

\* Mutant of HeaderByte: the part of the header that came in the pbuf before
\* is not counted again.
HeaderByteFresh(v) ==
  LET b == v.p[v.off + 1]
      x == [v EXCEPT !.off = @ + 1, !.c.idx = @ + 1, !.c.rx[v.c.idx + 1] = b,
                     !.fixed = @ + 1, !.b = b]
      rem == x.rem + (b % Base) * Base ^ (x.fixed - 2)
  IN  IF x.fixed < 2 THEN x
      ELSE IF b >= Base \/ rem = 0 THEN [x EXCEPT !.rem = rem]
      ELSE [x EXCEPT !.rem = (rem + x.fixed) - x.c.idx]

\* A byte of the fixed header, from rx_buffer or from this pbuf.
HeaderByte(v) ==
  LET old == v.fixed < v.c.idx
      b == IF old THEN v.c.rx[v.fixed + 1] ELSE v.p[v.off + 1]
      w == IF old THEN v
           ELSE [v EXCEPT !.off = @ + 1, !.c.idx = @ + 1, !.c.rx[v.c.idx + 1] = b]
      x == [w EXCEPT !.fixed = @ + 1, !.b = b]
      rem == x.rem + (b % Base) * Base ^ (x.fixed - 2)
  IN  IF x.fixed < 2 THEN x
      ELSE IF b >= Base THEN [x EXCEPT !.rem = rem]
      ELSE IF rem = 0
           THEN [mqtt_message_received(x, x.fixed, 0, 0) EXCEPT !.c.idx = 0, !.fixed = 0,
                                                                !.rem = 0]
      ELSE [x EXCEPT !.rem = (rem + x.fixed) - x.c.idx]

\* Bytes of the variable header and payload: always to the place after the
\* fixed header, handled when the message is complete or the buffer full.
BodyBytes(v) ==
  LET room == BufLen - v.fixed
      avail == IF Len(v.p) - v.off < v.rem THEN Len(v.p) - v.off ELSE v.rem
      n == IF avail > room THEN room ELSE avail
      w == [v EXCEPT !.c.rx = [i \in 1..BufLen |->
                                 IF i > v.fixed /\ i <= v.fixed + n
                                 THEN v.p[v.off + i - v.fixed] ELSE @[i]],
                     !.c.idx = @ + n, !.off = @ + n, !.rem = @ - n]
      x == mqtt_message_received(w, w.fixed, n, w.rem)
  IN  IF w.rem # 0 /\ n # room THEN w
      ELSE IF x.res # "ok" \/ x.rem # 0 THEN x
      ELSE [x EXCEPT !.c.idx = 0, !.fixed = 0]

RECURSIVE Loop(_)
Loop(v) ==
  IF v.off >= Len(v.p) \/ v.res # "ok" THEN v
  ELSE Loop(IF v.fixed < 2 \/ v.b >= Base THEN HeaderByte(v) ELSE BodyBytes(v))

mqtt_parse_incoming(c, a, p) ==
  Loop([c |-> c, app |-> a, p |-> p, off |-> 0, rem |-> 0, fixed |-> 0, b |-> 0,
        res |-> "ok"])
-----------------------------------------------------------------------------
Init ==
  /\ sent \in [1..Count -> Message]
  /\ stream = [i \in 1..Count |-> Bytes(sent[i])]
  /\ client = [idx |-> 0, rx |-> [i \in 1..BufLen |-> 0], open |-> TRUE]
  /\ app = [topic |-> <<>>, data |-> <<>>, total |-> 1, told |-> <<>>, acks |-> 0,
            unasked |-> FALSE]

\* mqtt_tcp_recv_cb, with the next bytes of the stream as its pbuf.
Received(p) ==
  LET v == mqtt_parse_incoming([idx |-> client.idx, rx |-> client.rx], app, p)
  IN  /\ app' = v.app
      /\ client' = [idx |-> v.c.idx, rx |-> v.c.rx, open |-> v.res = "ok"]
      /\ UNCHANGED sent

\* Whole messages ...
mqtt_tcp_recv_cb ==
  /\ client.open /\ stream # <<>>
  /\ \E k \in 1..Len(stream) :
       /\ Received(FlattenSeq(SubSeq(stream, 1, k)))
       /\ stream' = SubSeq(stream, k + 1, Len(stream))

\* ... or some of them and the first n bytes of one more.
Part(k, n) ==
  /\ Received(FlattenSeq(SubSeq(stream, 1, k)) \o SubSeq(stream[k + 1], 1, n))
  /\ stream' = <<SubSeq(stream[k + 1], n + 1, Len(stream[k + 1]))>> \o
               SubSeq(stream, k + 2, Len(stream))

\* The pbuf ends in or right after a fixed header (of a message none of which
\* has arrived yet).
RecvHeader ==
  /\ client.open /\ stream # <<>>
  /\ \E k \in 0 .. Len(stream) - 1 :
       LET m == Count - Len(stream) + k + 1
       IN  /\ stream[k + 1] = Bytes(sent[m])
           /\ \E n \in 1 .. 1 + Len(Digits(Len(Body(sent[m])))) : Part(k, n)

\* The pbuf ends anywhere, as TCP may cut the stream.
RecvAny ==
  /\ client.open /\ stream # <<>>
  /\ \E k \in 0 .. Len(stream) - 1 : \E n \in 1 .. Len(stream[k + 1]) - 1 : Part(k, n)

Next == mqtt_tcp_recv_cb \/ RecvHeader
NextCut == mqtt_tcp_recv_cb \/ RecvAny

Spec == Init /\ [][Next]_vars
SpecCut == Init /\ [][NextCut]_vars

-----------------------------------------------------------------------------
(* Properties.                                                              *)

Expected(m) == IF m.type = SUBACK THEN [topic |-> <<5>>, data |-> <<>>]
               ELSE [topic |-> Topic, data |-> Payload(m.size)]

(* Messages arrive intact: the application is told the server's messages,    *)
(* whole, once and in order -- their topics, their payloads joined from the  *)
(* fragments data_cb was given, and an acknowledgement for each of QoS 1 --  *)
(* and has been told all of them when the stream has been consumed, whether  *)
(* several messages share a pbuf, one is longer than rx_buffer, or a pbuf    *)
(* ends inside a fixed header.                                               *)
MessagesIntact ==
  LET msgs == SelectSeq(sent, LAMBDA m : m.type # PINGRESP)
      n == Len(app.told)
  IN  /\ client.open
      /\ n <= Len(msgs)
      /\ app.told = [i \in 1..n |-> Expected(msgs[i])]
      /\ app.acks = Len(SelectSeq(SubSeq(msgs, 1, n), LAMBDA m : m.qos > 0))
      /\ stream = <<>> => n = Len(msgs)

(* data_cb is not invoked for a publish without payload: mqtt.h says of      *)
(* tot_len "if set to 0 (no publish payload) data callback will not be       *)
(* invoked".                                                                 *)
NoEmptyData == ~app.unasked
=============================================================================
