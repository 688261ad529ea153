-------------------------------- MODULE Mqtt --------------------------------
(***************************************************************************)
(* The MQTT client (lwip-2.1.3/src/apps/mqtt/mqtt.c) as mqtt_example.c     *)
(* uses it: its connection, the pending-request queue with its relative    *)
(* timeouts, the cyclic timer with the keep-alive, and the output ring     *)
(* buffer that feeds TCP.  Everything runs under the core lock, so each    *)
(* API call, TCP callback and timer is one step; what makes it hard is     *)
(* that the client's callbacks may call the client again.                  *)
(*                                                                         *)
(* A client is a record c; an operation is an operator from a client to    *)
(* the set of clients it may leave (altcp_write may fail, the application  *)
(* chooses what to do in its callbacks).  The bytes of the output are      *)
(* counted, not carried.  Parsing what arrives is MqttIn's subject: here a *)
(* message has been parsed.                                                *)
(***************************************************************************)
EXTENDS Integers, Sequences, SequencesExt

CONSTANTS
  RingSize,     \* MQTT_OUTPUT_RINGBUF_SIZE
  SndBuf,       \* the bytes TCP's send buffer takes
  ReqMax,       \* MQTT_REQ_MAX_IN_FLIGHT
  ReqTimeout,   \* MQTT_REQ_TIMEOUT
  Interval,     \* MQTT_CYCLIC_TIMER_INTERVAL
  ConnTimeout,  \* MQTT_CONNECT_TIMOUT
  KeepAlive,    \* client_info->keep_alive
  ConnectLen,   \* bytes of the CONNECT message
  PingLen,      \* bytes of a PINGREQ
  AckLen,       \* bytes of a PUBACK, PUBREC, PUBREL or PUBCOMP
  Lens,         \* bytes a request's message may have
  Connects,     \* bound on the calls of mqtt_client_connect
  Calls,        \* bound on the packet identifiers of one connection
  Nested        \* may a request's or data callback call mqtt_disconnect?

MqttAssumption ==
  /\ {RingSize, SndBuf, ReqMax, Interval, ConnTimeout} \subseteq Nat \ {0}
  /\ {KeepAlive, Connects, Calls} \subseteq Nat
  /\ ReqTimeout > Interval /\ Lens \subseteq Nat \ {0} /\ Nested \in BOOLEAN
  /\ {ConnectLen, PingLen, AckLen} \subseteq 1..RingSize

VARIABLE client
vars == <<client>>

-----------------------------------------------------------------------------
(* The client, its pcb and its timer.                                       *)
(*   reqs     pend_req_queue: packet id, timeout_diff, and the seconds the  *)
(*            request has been timed for                                    *)
(*   used     the entries of req_list that are not free                     *)
(*   lost     bytes put in the ring are no longer counted in it             *)
(*   timers   pending timeouts of mqtt_cyclic_timer                         *)
(*   inpub    pub_cb and data_cb are set, as mqtt_example_init set them      *)
(*   fired    how long the last request to time out had waited              *)

Init ==
  client = [state |-> "disconnected", pcb |-> "none", space |-> SndBuf,
            put |-> 0, get |-> 0, lost |-> FALSE, reqs |-> <<>>, used |-> 0,
            ids |-> 0, tick |-> 0, dog |-> 0, inpub |-> TRUE, timers |-> 0,
            fired |-> ReqTimeout, asserts |-> TRUE, crashed |-> FALSE,
            connects |-> 0]

\* The ring buffer: the bytes it holds, and those before its end.
mqtt_ringbuf_len(c) == (c.put - c.get) % RingSize
Linear(c) == IF mqtt_ringbuf_len(c) < RingSize - c.get
             THEN mqtt_ringbuf_len(c) ELSE RingSize - c.get

mqtt_output_check_space(c, n) == n <= RingSize - mqtt_ringbuf_len(c)

\* mqtt_ringbuf_put of n bytes.  A ring filled to its last byte looks empty.
Append_(c, n) ==
  LET d == [c EXCEPT !.put = (@ + n) % RingSize]
  IN  [d EXCEPT !.lost = @ \/ mqtt_ringbuf_len(d) # mqtt_ringbuf_len(c) + n]

\* altcp_write of n bytes from the get index, or its failure.
Written(c, n) == [c EXCEPT !.get = (@ + n) % RingSize, !.space = @ - n]

\* mqtt_output_send: the linear part, and the part that wrapped around if all
\* of the first was written.  Without a connection it reads through NULL.
mqtt_output_send(c) ==
  LET n == IF c.space > Linear(c) THEN Linear(c) ELSE c.space
      wrap == c.space > Linear(c) /\ mqtt_ringbuf_len(c) > Linear(c)
      d == Written(c, n)
      m == IF d.space < Linear(d) THEN d.space ELSE Linear(d)
  IN  IF c.pcb = "none" THEN {[c EXCEPT !.crashed = TRUE]}
      ELSE IF n = 0 THEN {c}
      ELSE {c, d} \cup (IF wrap THEN {Written(d, m)} ELSE {})

-----------------------------------------------------------------------------
(* The request queue: each timeout is relative to the one before it.        *)

Before(c) == FoldLeft(LAMBDA a, q : a + q.diff, 0, c.reqs)

mqtt_append_request(c, id) ==
  [c EXCEPT !.used = @ + 1, !.asserts = @ /\ Before(c) <= ReqTimeout,
            !.reqs = Append(@, [id |-> id, diff |-> ReqTimeout - Before(c),
                                age |-> 0])]

\* Mutant of mqtt_take_request: the time of the request taken out of the
\* queue is not handed to the one behind it.
mqtt_take_requestShort(c, id) ==
  LET i == SelectInSeq(c.reqs, LAMBDA q : q.id = id)
  IN  [c EXCEPT !.reqs = RemoveAt(@, i)]

\* The first request with the identifier leaves; its time goes to the next.
mqtt_take_request(c, id) ==
  LET i == SelectInSeq(c.reqs, LAMBDA q : q.id = id)
      rest == RemoveAt(c.reqs, i)
  IN  [c EXCEPT !.reqs = [j \in DOMAIN rest |->
                            IF j = i THEN [rest[j] EXCEPT !.diff = @ + c.reqs[i].diff]
                                     ELSE rest[j]]]

Pending(c, id) == \E i \in DOMAIN c.reqs : c.reqs[i].id = id

mqtt_delete_request(c) == [c EXCEPT !.used = @ - 1]

\* mqtt_publish and mqtt_sub_unsub: an identifier (0 for QoS 0), a free entry
\* of req_list, room in the ring.
Request(c, qos0, n) ==
  LET id == IF qos0 THEN 0 ELSE c.ids + 1
      d == IF qos0 THEN c ELSE [c EXCEPT !.ids = id]
  IN  IF c.state = "disconnected" THEN {c}
      ELSE IF d.used = ReqMax \/ ~mqtt_output_check_space(d, n) THEN {d}
      ELSE mqtt_output_send(mqtt_append_request(Append_(d, n), id))

-----------------------------------------------------------------------------
(* Connecting and closing.                                                  *)

\* mqtt_client_connect wipes the client; then the ring may be too small, or
\* there is no pcb, no port or no route.
mqtt_client_connect(c) ==
  LET w == [c EXCEPT !.put = 0, !.get = 0, !.lost = FALSE, !.reqs = <<>>,
                     !.used = 0, !.ids = 0, !.tick = 0, !.dog = 0,
                     !.inpub = FALSE, !.connects = @ + 1]
  IN  {w, [Append_(w, ConnectLen) EXCEPT !.state = "tcp", !.pcb = "syn",
                                         !.space = SndBuf]}

\* The pcb is closed or gone, the requests are dropped, one timer is removed.
Closed(c) ==
  [c EXCEPT !.state = "disconnected", !.pcb = "none", !.reqs = <<>>,
            !.used = @ - Len(c.reqs),
            !.timers = IF @ > 0 THEN @ - 1 ELSE 0]

\* mqtt_close: connect_cb is told unless the client was disconnected already,
\* and may connect again at once.
mqtt_close(c) ==
  {Closed(c)} \cup
  (IF c.state # "disconnected" /\ c.connects < Connects
   THEN mqtt_client_connect(Closed(c)) ELSE {})

\* mqtt_disconnect tells nobody.
mqtt_disconnect(c) == IF c.state = "disconnected" THEN c ELSE Closed(c)

\* What the application does in a request's or data callback.
Callback(c) ==
  {c} \cup (IF c.ids < Calls THEN UNION {Request(c, FALSE, n) : n \in Lens} ELSE {})
      \cup (IF Nested THEN {mqtt_disconnect(c)} ELSE {})

\* mqtt_connection_cb of mqtt_example.c: two subscriptions.
Accepted(c) ==
  UNION {Request(d, FALSE, n) : d \in UNION {Request(c, FALSE, n) : n \in Lens},
                                n \in Lens}

-----------------------------------------------------------------------------
(* The cyclic timer.                                                        *)

RECURSIVE mqtt_request_time_elapsed(_, _)
mqtt_request_time_elapsed(c, t) ==
  IF t = 0 \/ c.reqs = <<>> THEN {c}
  ELSE LET q == Head(c.reqs)
           d == [c EXCEPT !.reqs = Tail(@), !.fired = q.age]
       IN  IF t >= q.diff
           THEN UNION {mqtt_request_time_elapsed(mqtt_delete_request(e), t - q.diff) :
                         e \in Callback(d)}
           ELSE {[c EXCEPT !.reqs[1].diff = @ - t]}

\* Every pending request has waited one interval more.
Aged(c) == [c EXCEPT !.reqs = [i \in DOMAIN @ |-> [@[i] EXCEPT !.age = @ + Interval]]]

Silent(c) == c.dog * Interval > KeepAlive + (KeepAlive \div 2)

\* The PINGREQ goes into the ring; mqtt_tcp_poll_cb sends it.
Ping(c) ==
  IF c.tick * Interval < KeepAlive THEN [c EXCEPT !.tick = @ + 1]
  ELSE IF mqtt_output_check_space(c, PingLen)
       THEN [Append_(c, PingLen) EXCEPT !.tick = 0] ELSE c

Restart(c) == [c EXCEPT !.timers = @ + 1]

Keep(c) ==
  LET d == [c EXCEPT !.dog = @ + 1]
  IN  IF KeepAlive = 0 THEN {Restart(c)}
      ELSE IF Silent(d) THEN {Ping(e) : e \in mqtt_close(d)}
      ELSE {Restart(Ping(d))}

mqtt_cyclic_timer(c) ==
  LET d == [c EXCEPT !.tick = @ + 1]
  IN  CASE c.state = "connecting" ->
             IF d.tick * Interval >= ConnTimeout THEN mqtt_close(d) ELSE {Restart(d)}
        [] c.state = "connected" ->
             UNION {Keep(e) : e \in mqtt_request_time_elapsed(Aged(c), Interval)}
        [] OTHER -> {c}

-----------------------------------------------------------------------------
(* What the server sends, one parsed message at a time.  A handler leaves a *)
(* client and says whether the connection is kept.                          *)

Kept(S) == {<<c, TRUE>> : c \in S}
Drop(c) == {<<c, FALSE>>}

pub_ack_rec_rel_response(c) ==
  IF mqtt_output_check_space(c, AckLen) THEN mqtt_output_send(Append_(c, AckLen))
  ELSE {c}

Publish(c, qos) ==
  UNION {IF qos > 0 THEN pub_ack_rec_rel_response(d) ELSE {d} :
           d \in IF c.inpub THEN Callback(c) ELSE {c}}

Reply(c, id, short) ==
  IF ~Pending(c, id) THEN Kept({c})
  ELSE IF short THEN Drop(mqtt_take_request(c, id))
  ELSE Kept({mqtt_delete_request(d) : d \in Callback(mqtt_take_request(c, id))})

Messages ==
  {[type |-> "connack", ok |-> b] : b \in BOOLEAN} \cup
  {[type |-> "publish", qos |-> q] : q \in 0..2} \cup
  {[type |-> "reply", id |-> i, short |-> b] : i \in 1..Calls, b \in BOOLEAN} \cup
  {[type |-> t] : t \in {"pingresp", "pubrec", "pubrel", "bad"}}

mqtt_message_received(c, m) ==
  CASE m.type = "connack" /\ c.state = "connecting" /\ m.ok ->
         Kept(Accepted([c EXCEPT !.tick = 0, !.state = "connected"]))
    [] m.type = "connack" /\ c.state = "connecting" /\ ~m.ok -> Drop(c)
    [] m.type = "connack" /\ c.state # "connecting" -> Kept({c})
    [] m.type = "pingresp" -> Kept({c})
    [] m.type = "publish" -> Kept(Publish(c, m.qos))
    [] m.type \in {"pubrec", "pubrel"} -> Kept(pub_ack_rec_rel_response(c))
    [] m.type = "reply" -> Reply(c, m.id, m.short)
    [] m.type = "bad" -> Drop(c)

-----------------------------------------------------------------------------
(* The steps.                                                               *)

Alive == ~client.crashed /\ client.asserts

Step(S) == Alive /\ client' \in S

Connect == /\ client.state = "disconnected" /\ client.connects < Connects
           /\ Step(mqtt_client_connect(client))

Disconnect == client.state # "disconnected" /\ Step({mqtt_disconnect(client)})

Ask == /\ client.state # "disconnected"
       /\ \E n \in Lens, qos0 \in BOOLEAN :
            /\ qos0 \/ client.ids < Calls
            /\ Step(Request(client, qos0, n))

mqtt_tcp_connect_cb ==
  /\ client.pcb = "syn"
  /\ Step(mqtt_output_send([client EXCEPT !.pcb = "open", !.state = "connecting",
                                          !.timers = @ + 1, !.tick = 0]))

\* A reset, or TCP giving up: the pcb is gone.
mqtt_tcp_err_cb == client.pcb # "none" /\ Step(mqtt_close(client))

\* mqtt_tcp_recv_cb with NULL: the server closed.
ServerClosed == client.pcb = "open" /\ Step(mqtt_close(client))

\* With keep-alive a message also resets the watchdog.
Fed(c) == IF KeepAlive = 0 THEN c ELSE [c EXCEPT !.dog = 0]

mqtt_tcp_recv_cb ==
  /\ client.pcb = "open"
  /\ \E m \in Messages :
       Step(UNION {{Fed(d) : d \in IF h[2] THEN {h[1]} ELSE mqtt_close(h[1])} :
                     h \in mqtt_message_received(client, m)})

RECURSIVE QosZero(_)
QosZero(c) ==
  IF ~Pending(c, 0) THEN {c}
  ELSE UNION {QosZero(mqtt_delete_request(d)) : d \in Callback(mqtt_take_request(c, 0))}

\* TCP has room again: QoS 0 publishes are complete, and the ring goes on.
mqtt_tcp_sent_cb ==
  /\ client.pcb = "open"
  /\ \E room \in client.space + 1 .. SndBuf :
       LET c == [client EXCEPT !.space = room]
       IN  Step(IF c.state # "connected" THEN {c}
                ELSE UNION {mqtt_output_send(d) :
                              d \in QosZero([c EXCEPT !.tick = 0, !.dog = 0])})

mqtt_tcp_poll_cb ==
  /\ client.pcb = "open" /\ client.state = "connected"
  /\ Step(mqtt_output_send(client))

Timer == /\ client.timers > 0
         /\ Step(mqtt_cyclic_timer([client EXCEPT !.timers = @ - 1]))

Next == \/ Connect \/ Disconnect \/ Ask \/ mqtt_tcp_connect_cb \/ mqtt_tcp_err_cb
        \/ ServerClosed \/ mqtt_tcp_recv_cb \/ mqtt_tcp_sent_cb
        \/ mqtt_tcp_poll_cb \/ Timer

Spec == Init /\ [][Next]_vars

-----------------------------------------------------------------------------
(* Properties.                                                              *)

\* What is left of a request's time: the sum of the differences up to it.
Left(c, i) == FoldLeft(LAMBDA a, q : a + q.diff, 0, SubSeq(c.reqs, 1, i))

(* Requests are timed right: however requests are answered out of order,     *)
(* time out and are made again from the callbacks of others, the relative    *)
(* timeouts of mqtt_append_request, mqtt_take_request and                    *)
(* mqtt_request_time_elapsed give each request MQTT_REQ_TIMEOUT seconds, to  *)
(* within one interval of the cyclic timer; the assertion on time_before     *)
(* holds; and exactly the queued requests hold entries of req_list.          *)
RequestsTimed ==
  /\ client.asserts
  /\ client.state # "disconnected" => client.used = Len(client.reqs)
  /\ client.fired \in ReqTimeout - Interval .. ReqTimeout + Interval
  /\ \A i \in DOMAIN client.reqs :
       /\ client.reqs[i].diff >= 0
       /\ Left(client, i) + client.reqs[i].age \in
            ReqTimeout - Interval .. ReqTimeout + Interval

(* The cyclic timer is "called every MQTT_CYCLIC_TIMER_INTERVAL seconds in   *)
(* MQTT_CONNECTING and MQTT_CONNECTED states" (mqtt.c:572): there is one     *)
(* timeout of it in those states.                                            *)
OneTimer == client.state \in {"connecting", "connected"} => client.timers = 1

(* The ring buffer holds what was put in it and not yet given to TCP:        *)
(* mqtt_output_check_space says a message fits only if it does.              *)
RingHolds == ~client.lost

(* mqtt_output_send is never called without a connection.                    *)
ConnectionThere == ~client.crashed

(* A connected client has the callbacks mqtt_set_inpub_callback gave it.     *)
CallbacksKept == client.state = "connected" => client.inpub
=============================================================================
