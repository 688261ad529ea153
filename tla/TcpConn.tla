------------------------------ MODULE TcpConn ------------------------------
(***************************************************************************)
(* A TCP connection of lwIP from the handshake to the last ACK: a client   *)
(* that connects and a server that listens, both running tcp_input,        *)
(* tcp_output and tcp_slowtmr over a network that reorders segments and    *)
(* need not deliver them.  A segment carries at most one unit of data (an  *)
(* MSS), sequence numbers count units and do not wrap: the receive queue,  *)
(* the window and the wrap are the subject of TcpReceive.                  *)
(* Retransmission timers may run out early, so that a segment and its      *)
(* retransmission cross; fast retransmission, which repeats a segment of   *)
(* the same queue, is not modelled apart from that.                        *)
(***************************************************************************)
EXTENDS Integers, Sequences, FiniteSets, SequencesExt

CONSTANTS Units,       \* each end: how many units its application writes
          Wnd,         \* TCP_WND in units
          MaxRtx,      \* TCP_MAXRTX
          SynMaxRtx,   \* TCP_SYNMAXRTX
          MaxPcbs,     \* bound: control blocks the listener can get
          Late,        \* bound: the ends whose retransmission timer may run out
          Shuts,       \* the ends whose application may shut its sending side
          Short        \* the ends that may find no memory for a FIN

WindowHolds == \A e \in {"c", "s"} : Units[e] + 2 < Wnd

VARIABLES pcb,   \* each end: its control block; CLOSED or LISTEN: none
          app,   \* each end: what its application wrote, got and asked for
          net,   \* segments on their way
          pcbs   \* control blocks the listener has got

vars == <<pcb, app, net, pcbs>>

Ends     == {"c", "s"}
Other(e) == IF e = "c" THEN "s" ELSE "c"
None(e)  == IF e = "c" THEN "CLOSED" ELSE "LISTEN"
Lowest(a, b) == IF a < b THEN a ELSE b

(* Initial sequence numbers lie so far apart that no two connections share *)
(* one.                                                                    *)
Iss(n) == 100 * n

TCP_TCPLEN(seg) == seg.len + (IF seg.flags \cap {"SYN", "FIN"} # {} THEN 1 ELSE 0)
Has(seg, flag)  == flag \in seg.flags
NoPcb(e) == [state |-> None(e), snd_nxt |-> 0, lastack |-> 0, snd_lbb |-> 0,
             unsent |-> <<>>, unacked |-> <<>>, rcv_nxt |-> 0, ooseq |-> {},
             flags |-> {}, nrtx |-> 0, cwnd |-> 1, held |-> 0, out |-> {}]
-----------------------------------------------------------------------------
(* Output.  p.out collects what a handler sends.                           *)

Emit(p, seq, ack, flags, len) ==
    [p EXCEPT !.out = @ \cup {[seq |-> seq, ack |-> ack, flags |-> flags, len |-> len]}]

tcp_rst(p, seq, ack) == Emit(p, seq, ack, {"RST", "ACK"}, 0)

tcp_send_empty_ack(p) ==
    [Emit(p, p.snd_nxt, p.rcv_nxt, {"ACK"}, 0)
        EXCEPT !.flags = @ \ {"ACK_NOW", "ACK_DELAY"}]

tcp_ack_now(p) == [p EXCEPT !.flags = @ \cup {"ACK_NOW"}]
tcp_ack(p) == IF "ACK_DELAY" \in p.flags
              THEN [p EXCEPT !.flags = (@ \ {"ACK_DELAY"}) \cup {"ACK_NOW"}]
              ELSE [p EXCEPT !.flags = @ \cup {"ACK_DELAY"}]

(* A queue of segments is kept in the order of sequence numbers.           *)
Insert(q, seg) == SelectSeq(q, LAMBDA x : x.seq < seg.seq) \o <<seg>>
                      \o SelectSeq(q, LAMBDA x : x.seq >= seg.seq)
Fits(p, seg)   == seg.seq - p.lastack + seg.len <= Lowest(Wnd, p.cwnd)

(* One turn of the loop of tcp_output.                                     *)
tcp_output_segment(p, turn) ==
    IF p.unsent = <<>> \/ ~ Fits(p, Head(p.unsent)) THEN p
    ELSE LET seg == Head(p.unsent)
             syn == p.state = "SYN_SENT"
             q   == Emit(p, seg.seq, IF syn THEN 0 ELSE p.rcv_nxt,
                         seg.flags \cup (IF syn THEN {} ELSE {"ACK"}), seg.len)
             nxt == seg.seq + TCP_TCPLEN(seg)
         IN  [q EXCEPT !.unsent = Tail(@), !.unacked = Insert(@, seg),
                       !.snd_nxt = IF @ < nxt THEN nxt ELSE @,
                       !.flags = IF syn THEN @ ELSE @ \ {"ACK_NOW", "ACK_DELAY"}]

tcp_output(p) ==
    IF p.unsent = <<>> \/ ~ Fits(p, Head(p.unsent))
    THEN IF "ACK_NOW" \in p.flags THEN tcp_send_empty_ack(p) ELSE p
    ELSE FoldLeft(tcp_output_segment, p, p.unsent)

Queue(p, flags, len) ==
    LET seg == [seq |-> p.snd_lbb, flags |-> flags, len |-> len]
    IN  [p EXCEPT !.unsent = Append(@, seg), !.snd_lbb = @ + TCP_TCPLEN(seg)]
tcp_enqueue_flags(p, flag) == Queue(p, {flag}, 0)

(* The FIN joins the last unsent segment, unless that is the SYN.          *)
tcp_send_fin(p) ==
    LET n == Len(p.unsent)
    IN  IF n > 0 /\ p.unsent[n].flags \cap {"SYN", "FIN"} = {}
        THEN [p EXCEPT !.unsent[n].flags = @ \cup {"FIN"}]
        ELSE tcp_enqueue_flags(p, "FIN")
-----------------------------------------------------------------------------
(* Retransmission.                                                         *)

(* Every unacknowledged segment goes back to the head of the unsent queue. *)
tcp_rexmit_rto(p) ==
    IF p.unacked = <<>> THEN p
    ELSE [p EXCEPT !.unsent = p.unacked \o @, !.unacked = <<>>,
                   !.nrtx = @ + 1]

(* The first unacknowledged segment only.                                  *)
tcp_rexmit(p) ==
    IF p.unacked = <<>> THEN p
    ELSE [p EXCEPT !.unacked = Tail(@), !.unsent = Insert(@, Head(p.unacked)),
                   !.nrtx = @ + 1]
-----------------------------------------------------------------------------
(* Input.  tcp_process works on a result record: the control block, the    *)
(* units received and the flags of recv_flags.                             *)

Result(p) == [p |-> p, got |-> {}, fin |-> FALSE, reset |-> FALSE, closed |-> FALSE]

tcp_free_acked_segments(q, ack) ==
    SelectSeq(q, LAMBDA seg : seg.seq + TCP_TCPLEN(seg) > ack)

(* The first half of tcp_receive.                                          *)
Acknowledge(p, seg) ==
    IF ~ Has(seg, "ACK") \/ seg.ack <= p.lastack THEN p
    ELSE IF seg.ack <= p.snd_nxt
         THEN [p EXCEPT !.lastack = seg.ack, !.nrtx = 0,
                        !.cwnd = Lowest(@ + 1, Wnd),
                        !.unacked = tcp_free_acked_segments(@, seg.ack),
                        !.unsent = tcp_free_acked_segments(@, seg.ack)]
         ELSE tcp_send_empty_ack(p)

Take(r, seg) ==
    [r EXCEPT !.p.rcv_nxt = @ + TCP_TCPLEN(seg),
              !.got = IF seg.len > 0 THEN @ \cup {seg.seq} ELSE @,
              !.fin = @ \/ Has(seg, "FIN")]

(* One turn of the loop over queued segments now in sequence.              *)
TakeNext(r, turn) ==
    LET in == {seg \in r.p.ooseq : seg.seq = r.p.rcv_nxt}
    IN  IF in = {} \/ r.fin THEN r
        ELSE LET seg == CHOOSE x \in in : TRUE
             IN  Take([r EXCEPT !.p.ooseq = @ \ {seg}], seg)

(* What has been received is cut off the front.                            *)
TrimFront(p, seg) ==
    IF seg.seq < p.rcv_nxt /\ p.rcv_nxt < seg.seq + TCP_TCPLEN(seg)
    THEN [seg EXCEPT !.seq = p.rcv_nxt, !.len = @ - (p.rcv_nxt - seg.seq)]
    ELSE seg

InWindow(p, seq) == p.rcv_nxt <= seq /\ seq < p.rcv_nxt + Wnd

(* The second half of tcp_receive.                                         *)
Receive(p, seg) ==
    LET in == TrimFront(p, seg)
    IN  IF TCP_TCPLEN(seg) = 0 \/ p.state \notin {"ESTABLISHED", "FIN_WAIT_1", "FIN_WAIT_2"}
        THEN Result(IF InWindow(p, seg.seq) THEN p ELSE tcp_ack_now(p))
        ELSE IF ~ InWindow(p, in.seq) THEN Result(tcp_send_empty_ack(p))
        ELSE IF in.seq = p.rcv_nxt
        THEN LET r == FoldSet(LAMBDA x, y : TakeNext(y, x), Take(Result(p), in), p.ooseq)
             IN  [r EXCEPT !.p = tcp_ack(@),
                           !.p.ooseq = {x \in @ : x.seq >= r.p.rcv_nxt /\ ~ r.fin}]
        ELSE Result(tcp_send_empty_ack(
                 IF \E x \in p.ooseq : x.seq = in.seq THEN p
                 ELSE [p EXCEPT !.ooseq = @ \cup {in}]))

tcp_receive(p, seg) == Receive(Acknowledge(p, seg), seg)

AllAcked(p, seg) == Has(seg, "ACK") /\ seg.ack = p.snd_nxt /\ p.unsent = <<>>

tcp_pcb_purge(p) == [p EXCEPT !.unsent = <<>>, !.unacked = <<>>, !.ooseq = {}]

(* A RST counts if it answers our SYN, or is exactly the next in sequence. *)
ProcessRst(p, seg) ==
    IF p.state = "SYN_SENT"
    THEN IF seg.ack = p.snd_nxt THEN [Result(p) EXCEPT !.reset = TRUE]
         ELSE Result(p)
    ELSE CASE seg.seq = p.rcv_nxt -> [Result(p) EXCEPT !.reset = TRUE]
           [] seg.seq # p.rcv_nxt /\ p.rcv_nxt <= seg.seq /\ seg.seq <= p.rcv_nxt + Wnd ->
                Result(tcp_ack_now(p))
           [] OTHER -> Result(p)

SynSent(p, seg) ==
    CASE Has(seg, "ACK") /\ Has(seg, "SYN") /\ seg.ack = p.lastack + 1 ->
           Result(tcp_ack_now([p EXCEPT !.rcv_nxt = seg.seq + 1, !.lastack = seg.ack,
                               !.state = "ESTABLISHED", !.cwnd = Wnd,
                               !.unacked = IF @ = <<>> THEN @ ELSE Tail(@),
                               !.unsent = IF p.unacked = <<>> THEN Tail(@) ELSE @,
                               !.nrtx = IF Len(p.unacked) > 1 THEN 0 ELSE @]))
      [] Has(seg, "ACK") /\ ~ (Has(seg, "SYN") /\ seg.ack = p.lastack + 1) ->
           LET r == tcp_rst(p, seg.ack, seg.seq + TCP_TCPLEN(seg))
           IN  Result(IF r.nrtx < SynMaxRtx THEN tcp_rexmit_rto(r) ELSE r)
      [] OTHER -> Result(p)

SynRcvd(p, seg) ==
    CASE Has(seg, "ACK") /\ p.lastack < seg.ack /\ seg.ack <= p.snd_nxt ->
           LET r == tcp_receive([p EXCEPT !.state = "ESTABLISHED"], seg)
               q == [r.p EXCEPT !.cwnd = Wnd]
           IN  [r EXCEPT !.p = IF r.fin THEN [tcp_ack_now(q) EXCEPT !.state = "CLOSE_WAIT"]
                               ELSE q]
      [] Has(seg, "ACK") /\ ~ (p.lastack < seg.ack /\ seg.ack <= p.snd_nxt) ->
           Result(tcp_rst(p, seg.ack, seg.seq + TCP_TCPLEN(seg)))
      [] OTHER -> Result(IF Has(seg, "SYN") /\ seg.seq = p.rcv_nxt - 1
                         THEN tcp_rexmit(p) ELSE p)

ToTimeWait(p) == [tcp_pcb_purge(p) EXCEPT !.state = "TIME_WAIT"]

Established(p, seg) ==
    LET r == tcp_receive(p, seg)
    IN  IF r.fin THEN [r EXCEPT !.p = [tcp_ack_now(@) EXCEPT !.state = "CLOSE_WAIT"]]
        ELSE r

FinWait1(p, seg) ==
    LET r == tcp_receive(p, seg)
        all == AllAcked(r.p, seg)
    IN  CASE r.fin /\ all -> [r EXCEPT !.p = ToTimeWait(tcp_ack_now(@))]
          [] r.fin /\ ~ all -> [r EXCEPT !.p = [tcp_ack_now(@) EXCEPT !.state = "CLOSING"]]
          [] ~ r.fin /\ all -> [r EXCEPT !.p.state = "FIN_WAIT_2"]
          [] OTHER -> r

FinWait2(p, seg) ==
    LET r == tcp_receive(p, seg)
    IN  IF r.fin THEN [r EXCEPT !.p = ToTimeWait(tcp_ack_now(@))] ELSE r

Closing(p, seg) ==
    LET r == tcp_receive(p, seg)
    IN  IF AllAcked(r.p, seg) THEN [r EXCEPT !.p = ToTimeWait(@)] ELSE r

(* Mutant of LastAck: any ACK will do.                                     *)
LastAckAny(p, seg) ==
    LET r == tcp_receive(p, seg)
    IN  [r EXCEPT !.closed = Has(seg, "ACK")]

LastAck(p, seg) ==
    LET r == tcp_receive(p, seg)
    IN  [r EXCEPT !.closed = AllAcked(r.p, seg)]

tcp_process(p, seg) ==
    CASE Has(seg, "RST") -> ProcessRst(p, seg)
      [] ~ Has(seg, "RST") /\ Has(seg, "SYN") /\ p.state \notin {"SYN_SENT", "SYN_RCVD"} ->
            Result(tcp_ack_now(p))
      [] OTHER ->
            CASE p.state = "SYN_SENT"   -> SynSent(p, seg)
              [] p.state = "SYN_RCVD"   -> SynRcvd(p, seg)
              [] p.state \in {"ESTABLISHED", "CLOSE_WAIT"} -> Established(p, seg)
              [] p.state = "FIN_WAIT_1" -> FinWait1(p, seg)
              [] p.state = "FIN_WAIT_2" -> FinWait2(p, seg)
              [] p.state = "CLOSING"    -> Closing(p, seg)
              [] p.state = "LAST_ACK"   -> LastAck(p, seg)

(* A delayed ACK goes out before the control block does.                   *)
tcp_pcb_remove(e, p) ==
    LET q == tcp_pcb_purge(p)
        o == IF "ACK_DELAY" \in q.flags THEN tcp_output(tcp_ack_now(q)) ELSE q
    IN  [NoPcb(e) EXCEPT !.out = o.out]

tcp_timewait_input(p, seg) ==
    IF Has(seg, "RST") THEN p
    ELSE IF Has(seg, "SYN") /\ p.rcv_nxt <= seg.seq /\ seg.seq <= p.rcv_nxt + Wnd
    THEN tcp_rst(p, seg.ack, seg.seq + TCP_TCPLEN(seg))
    ELSE IF TCP_TCPLEN(seg) > 0 THEN tcp_output(tcp_ack_now(p)) ELSE p

tcp_listen_input(p, seg) ==
    CASE Has(seg, "RST") -> p
      [] ~ Has(seg, "RST") /\ Has(seg, "ACK") ->
            tcp_rst(p, seg.ack, seg.seq + TCP_TCPLEN(seg))
      [] seg.flags = {"SYN"} /\ pcbs < MaxPcbs ->
            LET iss == Iss(pcbs + 2)
            IN  tcp_output(tcp_enqueue_flags(
                    [NoPcb("s") EXCEPT !.state = "SYN_RCVD", !.rcv_nxt = seg.seq + 1,
                        !.snd_nxt = iss, !.lastack = iss, !.snd_lbb = iss,
                        !.cwnd = Wnd], "SYN"))
      [] OTHER -> p

(* The application's end of a connection: what it wrote of this one, what  *)
(* it got, and how it ended: "done" when the closing handshake was         *)
(* completed, "error" when it was reset, given up or abandoned.            *)
NoApp == [wrote |-> {}, got |-> {}, end |-> "open", closed |-> FALSE]

(* A handler at e ends: what it sent goes to the network.                  *)
Finish(e, p, a, gone) ==
    /\ pcb' = [pcb EXCEPT ![e] = [p EXCEPT !.out = {}]]
    /\ app' = [app EXCEPT ![e] = a]
    /\ net' = (net \ gone) \cup {[seg |-> s, to |-> Other(e)] : s \in p.out}

Errored(a) == [a EXCEPT !.end = "error"]

tcp_abort(e, p) ==
    IF p.state = "TIME_WAIT" THEN [NoPcb(e) EXCEPT !.out = p.out]
    ELSE [NoPcb(e) EXCEPT !.out = tcp_rst(p, p.snd_nxt, p.rcv_nxt).out]

(* A segment for a connection that exists.                                 *)
Connected(e, seg, gone) ==
    LET r  == tcp_process(pcb[e], seg)
        rx == "RXCLOSED" \in r.p.flags
        a  == app[e]
    IN  CASE r.reset -> Finish(e, tcp_pcb_remove(e, [r.p EXCEPT !.flags = @ \ {"ACK_DELAY"}]),
                               Errored(a), gone)
          [] ~ r.reset /\ r.closed ->
                Finish(e, tcp_pcb_remove(e, r.p), [a EXCEPT !.end = "done"], gone)
          [] ~ r.reset /\ ~ r.closed /\ r.got # {} /\ rx ->
                Finish(e, tcp_abort(e, r.p), Errored(a), gone)
          [] OTHER ->
                Finish(e, tcp_output([r.p EXCEPT !.held = @ + Cardinality(r.got)]),
                       [a EXCEPT !.got = @ \cup r.got], gone)

tcp_input(e, seg, gone) ==
    CASE pcb[e].state = "CLOSED" ->
            /\ Finish(e, IF Has(seg, "RST") THEN pcb[e]
                         ELSE tcp_rst(pcb[e], seg.ack, seg.seq + TCP_TCPLEN(seg)),
                      app[e], gone)
            /\ UNCHANGED pcbs
      [] pcb[e].state = "LISTEN" ->
            LET p == tcp_listen_input(pcb[e], seg)
            IN  /\ Finish(e, p, IF p.state = "SYN_RCVD"
                                THEN [NoApp EXCEPT !.got = app[e].got] ELSE app[e], gone)
                /\ pcbs' = IF p.state = "SYN_RCVD" THEN pcbs + 1 ELSE pcbs
      [] pcb[e].state = "TIME_WAIT" ->
            Finish(e, tcp_timewait_input(pcb[e], seg), app[e], gone) /\ UNCHANGED pcbs
      [] OTHER -> Connected(e, seg, gone) /\ UNCHANGED pcbs
-----------------------------------------------------------------------------
(* The application's calls and the timers.                                 *)

tcp_connect ==
    /\ pcb["c"].state = "CLOSED" /\ app["c"].end = "none"
    /\ LET iss == Iss(1)
       IN  Finish("c", tcp_output([tcp_enqueue_flags(
               [NoPcb("c") EXCEPT !.snd_nxt = iss + 1, !.lastack = iss, !.snd_lbb = iss],
               "SYN") EXCEPT !.state = "SYN_SENT"]), NoApp, {})
    /\ UNCHANGED pcbs

tcp_write(e) ==
    /\ pcb[e].state \in {"SYN_SENT", "ESTABLISHED", "CLOSE_WAIT"}
    /\ ~ app[e].closed /\ Cardinality(app[e].wrote) < Units[e]
    /\ Finish(e, tcp_output(Queue(pcb[e], {}, 1)),
              [app[e] EXCEPT !.wrote = @ \cup {pcb[e].snd_lbb}], {})
    /\ UNCHANGED pcbs

(* fits: memory was found for the FIN; if not, tcp_fasttmr tries again.    *)
tcp_close_shutdown_fin(p, fits) ==
    IF p.state \notin {"ESTABLISHED", "CLOSE_WAIT"} THEN p
    ELSE IF ~ fits THEN [p EXCEPT !.flags = @ \cup {"CLOSEPEND"}]
    ELSE tcp_output([tcp_send_fin(p) EXCEPT
             !.state = IF @ = "ESTABLISHED" THEN "FIN_WAIT_1" ELSE "LAST_ACK"])

tcp_close(e, fits) ==
    /\ pcb[e].state \notin {None(e), "SYN_RCVD"} /\ ~ app[e].closed
    /\ LET p == [pcb[e] EXCEPT !.flags = @ \cup {"RXCLOSED"}]
           a == [app[e] EXCEPT !.closed = TRUE]
       IN  CASE p.state = "SYN_SENT" -> Finish(e, NoPcb(e), Errored(a), {})
             [] p.state \in {"ESTABLISHED", "CLOSE_WAIT"} /\ p.held > 0 ->
                  Finish(e, tcp_abort(e, p), Errored(a), {})
             [] OTHER -> Finish(e, tcp_close_shutdown_fin(p, fits), a, {})
    /\ UNCHANGED pcbs

(* tcp_shutdown of the sending side alone.                                 *)
tcp_shutdown(e, fits) ==
    /\ pcb[e].state \in {"ESTABLISHED", "CLOSE_WAIT"} /\ ~ app[e].closed /\ e \in Shuts
    /\ Finish(e, tcp_close_shutdown_fin(pcb[e], fits), app[e], {})
    /\ UNCHANGED pcbs

tcp_recved(e) ==
    /\ pcb[e].held > 0 /\ ~ app[e].closed
    /\ Finish(e, [pcb[e] EXCEPT !.held = 0], app[e], {})
    /\ UNCHANGED pcbs

tcp_fasttmr(e, fits) ==
    /\ pcb[e].flags \cap {"ACK_DELAY", "CLOSEPEND"} # {}
    /\ LET p == IF "ACK_DELAY" \in pcb[e].flags
                THEN [tcp_output(tcp_ack_now(pcb[e]))
                         EXCEPT !.flags = @ \ {"ACK_DELAY", "ACK_NOW"}]
                ELSE pcb[e]
       IN  Finish(e, IF "CLOSEPEND" \in p.flags
                     THEN tcp_close_shutdown_fin([p EXCEPT !.flags = @ \ {"CLOSEPEND"}], fits)
                     ELSE p, app[e], {})
    /\ UNCHANGED pcbs

(* Mutant of Stuck: FIN_WAIT_2 has no time limit.                          *)
StuckWaiting(p) == p.state \in {"SYN_RCVD", "LAST_ACK", "TIME_WAIT"}

(* Too long in this state, with nothing from the peer.                     *)
Stuck(p) == \/ p.state \in {"SYN_RCVD", "LAST_ACK", "TIME_WAIT"}
            \/ p.state = "FIN_WAIT_2" /\ "RXCLOSED" \in p.flags

(* A retransmission counts even if all that waits was never sent.          *)
Retransmit(p) ==
    LET r == IF p.unacked = <<>> THEN [p EXCEPT !.nrtx = @ + 1] ELSE tcp_rexmit_rto(p)
    IN  tcp_output([r EXCEPT !.cwnd = 1])

(* rto: the retransmission timer has run out; idle: the connection has     *)
(* been idle for the time that tcp_slowtmr allows.                         *)
tcp_slowtmr(e, rto, idle) ==
    /\ pcb[e].state # None(e)
    /\ LET p == pcb[e]
           tired == p.nrtx >= MaxRtx \/ (p.state = "SYN_SENT" /\ p.nrtx >= SynMaxRtx)
           late  == rto /\ ~ tired /\ (p.unacked # <<>> \/ p.unsent # <<>>)
           q     == IF late THEN Retransmit(p) ELSE p
       IN  /\ tired \/ late \/ (idle /\ (Stuck(p) \/ p.ooseq # {}))
           /\ IF tired \/ (idle /\ Stuck(p))
              THEN Finish(e, [NoPcb(e) EXCEPT !.out = q.out],
                          IF p.state = "TIME_WAIT" THEN [app[e] EXCEPT !.end = "done"]
                          ELSE Errored(app[e]), {})
              ELSE Finish(e, tcp_output([q EXCEPT !.ooseq = IF idle THEN {} ELSE @]),
                          app[e], {})
    /\ UNCHANGED pcbs
-----------------------------------------------------------------------------
Deliver(m) == tcp_input(m.to, m.seg, {m})

Init ==
    /\ pcb = [e \in Ends |-> NoPcb(e)]
    /\ app = [e \in Ends |-> [NoApp EXCEPT !.end = "none"]]
    /\ net = {} /\ pcbs = 0

Timer(e)  == IF e \in Late THEN BOOLEAN ELSE {FALSE}
Memory(e) == IF e \in Short THEN BOOLEAN ELSE {TRUE}

Next ==
    \/ tcp_connect
    \/ \E m \in net : Deliver(m)
    \/ \E e \in Ends :
          \/ tcp_write(e) \/ tcp_recved(e)
          \/ \E fits \in Memory(e) : tcp_close(e, fits) \/ tcp_shutdown(e, fits)
                                      \/ tcp_fasttmr(e, fits)
          \/ \E rto \in Timer(e), idle \in BOOLEAN : tcp_slowtmr(e, rto, idle)

Spec == Init /\ [][Next]_vars

(* The timers run and the applications close what they have opened; a      *)
(* segment may always be lost.  Each condition is WF_vars of its action,   *)
(* with what enables the action written out.                               *)
SlowDue(e) == \/ pcb[e].ooseq # {} \/ pcb[e].unacked # <<>> \/ pcb[e].unsent # <<>>
              \/ pcb[e].nrtx >= MaxRtx \/ Stuck(pcb[e])
MayClose(e) == /\ pcb[e].state \notin {None(e), "SYN_RCVD"}
               /\ ~ app[e].closed
Fairness ==
    \A e \in Ends :
       /\ []<> ~ SlowDue(e) \/ []<><<tcp_slowtmr(e, TRUE, TRUE)>>_vars
       /\ []<> ~ MayClose(e) \/ []<><<tcp_close(e, TRUE)>>_vars
       /\ \/ []<> (pcb[e].flags \cap {"ACK_DELAY", "CLOSEPEND"} = {})
          \/ []<><<tcp_fasttmr(e, TRUE)>>_vars

FairSpec == Spec /\ Fairness
-----------------------------------------------------------------------------
(* What TCP has acknowledged to an application, the other application has  *)
(* been given; and a connection that has been closed in order at one end   *)
(* (its FIN acknowledged) has given the other end everything written to it. *)
ClosedMeansDelivered ==
    \A e \in Ends :
       LET sent == app[e].wrote
           got  == app[Other(e)].got
       IN  /\ \A u \in sent : u < pcb[e].lastack => u \in got
           /\ pcb[e].state \in {"FIN_WAIT_2", "TIME_WAIT"} \/ app[e].end = "done"
                 => sent \subseteq got

(* Once the applications have closed, whatever the network loses, repeats  *)
(* or reorders, both ends give their control block back: no state of the   *)
(* closing handshake is a place where a connection stays for ever.         *)
AllFreed == <>[](\A e \in Ends : pcb[e].state = None(e))
=============================================================================
