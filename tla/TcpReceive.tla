----------------------------- MODULE TcpReceive -----------------------------
(***************************************************************************)
(* The receiving half of a TCP connection in lwIP: tcp_input and           *)
(* tcp_receive from an ESTABLISHED connection to the end of the peer's     *)
(* stream, with the queue of out-of-sequence segments (TCP_QUEUE_OOSEQ),   *)
(* data the application refuses, the announced window and delayed ACKs.    *)
(*                                                                         *)
(* The peer sends the bytes 1 .. Bytes and a FIN, cut into segments any    *)
(* way it likes and cut again when it retransmits; the network loses,      *)
(* repeats and reorders them, and loses ACKs.  A segment carries the bytes *)
(* it was cut from, so that what reaches the application can be compared   *)
(* with what was sent.  The peer keeps to the window announced to it,      *)
(* except for a probe of one byte when that window is closed.              *)
(***************************************************************************)
EXTENDS Integers, Sequences, FiniteSets, SequencesExt

CONSTANTS Wrap,          \* 2^32, the space of sequence numbers
          Base,          \* the sequence number of the first byte
          Bytes,         \* length of the peer's stream
          Wnd, Mss,      \* TCP_WND and the segment size, in bytes
          FinPastWindow  \* TRUE: the peer's FIN may lie just past the window

ASSUME WrapIsWide ==
    /\ {Wrap, Base, Bytes, Wnd, Mss} \subseteq Nat /\ Mss > 0 /\ Base < Wrap
    /\ 2 * (Bytes + 1 + Wnd) < Wrap
    /\ FinPastWindow \in BOOLEAN

VARIABLES pcb,   \* the receive half of the struct tcp_pcb
          app,   \* what the application got, and has not yet tcp_recved
          peer,  \* the last acknowledgement and window edge the peer knows
          step,  \* which kind of step was last taken, for the fairness
          ok     \* FALSE once an LWIP_ASSERT of tcp_receive has failed

vars == <<pcb, app, peer, step, ok>>

TCP_SEQ_GEQ(a, b) == (a - b) % Wrap < Wrap \div 2
TCP_SEQ_GT(a, b)  == a # b /\ TCP_SEQ_GEQ(a, b)
TCP_SEQ_LT(a, b)  == ~ TCP_SEQ_GEQ(a, b)
TCP_SEQ_BETWEEN(a, b, c) == TCP_SEQ_GEQ(a, b) /\ TCP_SEQ_GEQ(c, a)

Plus(seqno, n) == (seqno + n) % Wrap
Lowest(a, b)   == IF a < b THEN a ELSE b
Offset(seqno)  == (seqno - Base) % Wrap
TCP_TCPLEN(seg) == Len(seg.data) + (IF seg.fin THEN 1 ELSE 0)
DataEnd(seg)    == Plus(seg.seqno, Len(seg.data))
TrimTo(seg, n)  == [seg EXCEPT !.data = SubSeq(@, 1, n)]

(* Whether the right edge can move far enough to be worth announcing.      *)
WorthAnnouncing(p) == TCP_SEQ_GEQ(Plus(p.rcv_nxt, p.rcv_wnd),
                        Plus(p.rcv_ann_right_edge, Lowest(Wnd \div 2, Mss)))

(* Mutant of tcp_update_rcv_ann_wnd: without keeping the right edge.       *)
tcp_update_rcv_ann_wndRetracts(p) ==
    IF WorthAnnouncing(p)
    THEN [p EXCEPT !.rcv_ann_wnd = p.rcv_wnd]
    ELSE [p EXCEPT !.rcv_ann_wnd = 0]

tcp_update_rcv_ann_wnd(p) ==
    IF WorthAnnouncing(p)
    THEN [p EXCEPT !.rcv_ann_wnd = p.rcv_wnd]
    ELSE [p EXCEPT !.rcv_ann_wnd =
                IF TCP_SEQ_GT(p.rcv_nxt, p.rcv_ann_right_edge)
                THEN 0 ELSE (p.rcv_ann_right_edge - p.rcv_nxt) % Wrap]

(* The flags TF_ACK_DELAY and TF_ACK_NOW.                                  *)
tcp_ack_now(p) == [p EXCEPT !.flags = @ \cup {"ACK_NOW"}]
tcp_ack(p)     == [p EXCEPT !.flags = IF "ACK_DELAY" \in @
                                      THEN (@ \ {"ACK_DELAY"}) \cup {"ACK_NOW"}
                                      ELSE @ \cup {"ACK_DELAY"}]

(* fate says whether a pbuf for the ACK is to be had.                      *)
tcp_send_empty_ack(p, fate) ==
    IF fate = "nomem"
    THEN [p EXCEPT !.flags = {"ACK_DELAY", "ACK_NOW"}]
    ELSE [p EXCEPT !.flags = {}, !.acked = TRUE,
                   !.rcv_ann_right_edge = Plus(p.rcv_nxt, p.rcv_ann_wnd)]

(* With nothing of its own to send.                                        *)
tcp_output(p, fate) ==
    IF "ACK_NOW" \in p.flags THEN tcp_send_empty_ack(p, fate) ELSE p
-----------------------------------------------------------------------------
(* The queue of out-of-sequence segments.                                  *)

Covered(end, q) ==
    {i \in DOMAIN q : \A j \in 1 .. i : TCP_SEQ_GEQ(end, DataEnd(q[j]))}
DropFirst(q, n) == SubSeq(q, n + 1, Len(q))
HasFin(q, n)    == \E i \in 1 .. n : q[i].fin

(* cseg goes before the segments q: those it covers go, and it is trimmed  *)
(* to the first one left.                                                  *)
tcp_oos_insert_segment(cseg, q) ==
    IF cseg.fin THEN <<cseg>>
    ELSE LET n    == Cardinality(Covered(DataEnd(cseg), q))
             next == DropFirst(q, n)
             c    == [cseg EXCEPT !.fin = HasFin(q, n)]
         IN  <<IF next # <<>> /\ TCP_SEQ_GT(DataEnd(c), Head(next).seqno)
               THEN TrimTo(c, (Head(next).seqno - c.seqno) % Wrap)
               ELSE c>> \o next

(* Mutant of TrimPrev: the segment before the new one keeps its end.       *)
TrimPrevKeeps(prev, seqno) == prev

TrimPrev(prev, seqno) ==
    IF TCP_SEQ_GT(DataEnd(prev), seqno)
    THEN TrimTo(prev, (seqno - prev.seqno) % Wrap) ELSE prev

(* A segment put last must end inside the window.                          *)
FitLast(p, seg) ==
    IF TCP_SEQ_GT(Plus(seg.seqno, TCP_TCPLEN(seg)), Plus(p.rcv_nxt, p.rcv_wnd))
    THEN [TrimTo(seg, (p.rcv_nxt + p.rcv_wnd - seg.seqno) % Wrap)
             EXCEPT !.fin = FALSE]
    ELSE seg

(* The walk along pcb->ooseq stops at the first segment that does not      *)
(* start before the new one.  The queue is ordered (QueueSound), so that   *)
(* place is the only one that the code's comparisons can find.             *)
Queued(p, seg) ==
    LET q    == p.ooseq
        at   == CHOOSE i \in 1 .. Len(q) + 1 :
                    /\ \A j \in 1 .. i - 1 : TCP_SEQ_LT(q[j].seqno, seg.seqno)
                    /\ i <= Len(q) => ~ TCP_SEQ_LT(q[i].seqno, seg.seqno)
        before == SubSeq(q, 1, at - 1)
        after  == DropFirst(q, at - 1)
        trimmed == IF at = 1 THEN <<>>
                   ELSE [before EXCEPT ![at - 1] = TrimPrev(@, seg.seqno)]
    IN  CASE q = <<>> -> <<seg>>
          [] at <= Len(q) /\ q[at].seqno = seg.seqno ->
                IF Len(seg.data) > Len(q[at].data)
                THEN before \o tcp_oos_insert_segment(seg, after) ELSE q
          [] at <= Len(q) /\ q[at].seqno # seg.seqno ->
                trimmed \o tcp_oos_insert_segment(seg, after)
          [] OTHER -> IF q[Len(q)].fin THEN q
                      ELSE Append(trimmed, FitLast(p, seg))
-----------------------------------------------------------------------------
(* tcp_receive works on a result record: the control block, recv_data,     *)
(* TF_GOT_FIN of recv_flags, and whether the assertions held.              *)

(* tcplen bytes of sequence space leave the window; rcv_wnd is a u16_t.    *)
Taken(r, seg) ==
    [p    |-> tcp_update_rcv_ann_wnd(
                  [r.p EXCEPT !.rcv_nxt = Plus(@, TCP_TCPLEN(seg)),
                              !.rcv_wnd = (@ - TCP_TCPLEN(seg)) % 65536]),
     data |-> r.data \o seg.data,
     fin  |-> r.fin \/ seg.fin,
     ok   |-> r.ok /\ r.p.rcv_wnd >= TCP_TCPLEN(seg)]

(* One turn of the loop over segments that have become in-sequence.        *)
TakeNext(r, turn) ==
    IF r.p.ooseq # <<>> /\ Head(r.p.ooseq).seqno = r.p.rcv_nxt
    THEN Taken([r EXCEPT !.p.ooseq = Tail(@)], Head(r.p.ooseq))
    ELSE r

TrimToWindow(p, seg) ==
    IF TCP_TCPLEN(seg) > p.rcv_wnd
    THEN [TrimTo(seg, p.rcv_wnd) EXCEPT !.fin = FALSE] ELSE seg

InSequence(p, seg) ==
    LET in   == TrimToWindow(p, seg)
        end  == Plus(in.seqno, TCP_TCPLEN(in))
        n    == IF in.fin THEN Len(p.ooseq)
                ELSE Cardinality(Covered(end, p.ooseq))
        next == DropFirst(p.ooseq, n)
        got  == [in EXCEPT !.fin = @ \/ HasFin(p.ooseq, n)]
        cut  == IF next # <<>> /\ TCP_SEQ_GT(end, Head(next).seqno)
                THEN TrimTo(got, (Head(next).seqno - got.seqno) % Wrap) ELSE got
        r    == Taken([p |-> [p EXCEPT !.ooseq = next], data |-> <<>>,
                       fin |-> FALSE, ok |-> TRUE], cut)
    IN  [FoldLeft(TakeNext, r, next) EXCEPT !.p = tcp_ack(@)]

(* Mutant of TrimFront: the payload pointer is not moved.                  *)
TrimFrontKeeps(p, seg) ==
    IF TCP_SEQ_BETWEEN(p.rcv_nxt, Plus(seg.seqno, 1),
                       Plus(seg.seqno, TCP_TCPLEN(seg) - 1))
    THEN [seg EXCEPT !.seqno = p.rcv_nxt] ELSE seg

(* What has been received before is cut off the front of a segment.        *)
TrimFront(p, seg) ==
    IF TCP_SEQ_BETWEEN(p.rcv_nxt, Plus(seg.seqno, 1),
                       Plus(seg.seqno, TCP_TCPLEN(seg) - 1))
    THEN [seg EXCEPT !.seqno = p.rcv_nxt,
                     !.data = DropFirst(@, (p.rcv_nxt - seg.seqno) % Wrap)]
    ELSE seg

(* copied: tcp_seg_copy found memory for the queue.                        *)
tcp_receive(p, seg, copied, fate) ==
    LET in == TrimFront(p, seg)
        inWindow == TCP_SEQ_BETWEEN(in.seqno, p.rcv_nxt,
                                    Plus(p.rcv_nxt, p.rcv_wnd - 1))
        Just(q) == [p |-> q, data |-> <<>>, fin |-> FALSE, ok |-> TRUE]
    IN  CASE p.state # "ESTABLISHED" ->
               Just(IF TCP_SEQ_BETWEEN(seg.seqno, p.rcv_nxt,
                                       Plus(p.rcv_nxt, p.rcv_wnd - 1))
                    THEN p ELSE tcp_ack_now(p))
          [] p.state = "ESTABLISHED" /\ ~ inWindow ->
               Just(tcp_send_empty_ack(p, fate))
          [] p.state = "ESTABLISHED" /\ inWindow /\ in.seqno = p.rcv_nxt ->
               InSequence(p, in)
          [] OTHER ->
               Just(tcp_send_empty_ack(
                      IF copied THEN [p EXCEPT !.ooseq = Queued(p, in)] ELSE p,
                      fate))
-----------------------------------------------------------------------------
(* The receive callback takes the data, or refuses it.                     *)
TCP_EVENT_RECV(a, data) ==
    [a EXCEPT !.stream = @ \o data, !.held = @ + Len(data)]

TCP_EVENT_CLOSED(a) == [a EXCEPT !.eof = TRUE]

(* Mutant of CreditFin: the FIN's place in the window is never given back. *)
CreditFinNever(p) == p

(* The application will not tcp_recved the FIN.                            *)
CreditFin(p) == [p EXCEPT !.rcv_wnd = IF @ # Wnd THEN @ + 1 ELSE @]

(* Mutant of tcp_process_refused_data: the FIN kept with the data is lost. *)
tcp_process_refused_dataNoFin(s, accept) ==
    IF s.p.refused = <<>> \/ ~ accept THEN s
    ELSE [p |-> [s.p EXCEPT !.refused = <<>>, !.refusedFin = FALSE],
          a |-> TCP_EVENT_RECV(s.a, s.p.refused)]

tcp_process_refused_data(s, accept) ==
    IF s.p.refused = <<>> \/ ~ accept THEN s
    ELSE LET a == TCP_EVENT_RECV(s.a, s.p.refused)
             p == [s.p EXCEPT !.refused = <<>>, !.refusedFin = FALSE]
         IN  IF s.p.refusedFin
             THEN [p |-> CreditFin(p), a |-> TCP_EVENT_CLOSED(a)]
             ELSE [p |-> p, a |-> a]

(* tcp_input after tcp_process: the data and the end of the stream go to   *)
(* the application.                                                        *)
Deliver(p, a, data, fin, accept) ==
    LET refuses == data # <<>> /\ ~ accept
        p1 == IF refuses THEN [p EXCEPT !.refused = data] ELSE p
        a1 == IF refuses THEN a ELSE TCP_EVENT_RECV(a, data)
    IN  CASE ~ fin -> [p |-> p1, a |-> a1]
          [] fin /\ p1.refused # <<>> ->
                [p |-> [p1 EXCEPT !.refusedFin = TRUE], a |-> a1]
          [] OTHER -> [p |-> CreditFin(p1), a |-> TCP_EVENT_CLOSED(a1)]

(* What became of the ACK of a step: no memory, lost, or it arrived.       *)
Fates == {"nomem", "lost", "arrives"}
After(p, a, good, fate) ==
    /\ pcb' = [p EXCEPT !.acked = FALSE]
    /\ app' = a
    /\ ok' = (ok /\ good)
    /\ peer' = IF p.acked /\ fate = "arrives"
               THEN [una |-> Offset(p.rcv_nxt),
                     edge |-> Offset(p.rcv_ann_right_edge)]
               ELSE peer

tcp_input(seg, again, accept, copied, fate) ==
    LET s == tcp_process_refused_data([p |-> pcb, a |-> app], again)
        r == tcp_receive(s.p, seg, copied, fate)
        p == IF r.fin THEN [tcp_ack_now(r.p) EXCEPT !.state = "CLOSE_WAIT"]
             ELSE r.p
        d == Deliver(p, s.a, r.data, r.fin, accept)
    IN  IF s.p.refused # <<>>
        THEN After(IF s.p.rcv_ann_wnd = 0 THEN tcp_send_empty_ack(s.p, fate)
                   ELSE s.p, s.a, TRUE, fate)
        ELSE After(tcp_output(d.p, fate), d.a, r.ok, fate)

tcp_recved(len, fate) ==
    /\ len <= app.held
    /\ LET p == [pcb EXCEPT !.rcv_wnd = Lowest(@ + len, Wnd)]
           announced == tcp_update_rcv_ann_wnd(p)
           inflation == IF WorthAnnouncing(p)
                        THEN (p.rcv_nxt + p.rcv_wnd - p.rcv_ann_right_edge) % Wrap
                        ELSE 0
       IN  After(IF inflation >= Lowest(Wnd \div 4, Mss * 4)
                 THEN tcp_output(tcp_ack_now(announced), fate) ELSE announced,
                 [app EXCEPT !.held = @ - len], TRUE, fate)

(* A delayed ACK is tried once; data refused before is offered again.      *)
tcp_fasttmr(again, fate) ==
    LET p == IF "ACK_DELAY" \in pcb.flags
             THEN [tcp_output(tcp_ack_now(pcb), fate) EXCEPT !.flags = {}]
             ELSE pcb
        s == tcp_process_refused_data([p |-> p, a |-> app], again)
    IN  After(s.p, s.a, TRUE, fate)
-----------------------------------------------------------------------------
(* The segments of the peer's stream from the byte after the first from.   *)
Cut(from, len, fin) == [seqno |-> Plus(Base, from),
                        data |-> [i \in 1 .. len |-> from + i], fin |-> fin]

(* The peer may send what the window lets it: any stretch of bytes, the    *)
(* FIN after the last one, and a probe of one byte when it is shut.        *)
MaySend(from, len, fin) ==
    /\ len > 0 \/ fin
    /\ from + len <= Bytes /\ (fin => from + len = Bytes)
    /\ \/ from + len + (IF fin /\ ~ FinPastWindow THEN 1 ELSE 0) <= peer.edge
       \/ /\ from = peer.edge /\ from = peer.una
          /\ IF from = Bytes THEN len = 0 ELSE len = 1 /\ ~ fin

Arrives(from, len, fin, again, accept, copied, fate) ==
    /\ MaySend(from, len, fin)
    /\ tcp_input(Cut(from, len, fin), again, accept, copied, fate)

Init ==
    /\ pcb = [state |-> "ESTABLISHED", rcv_nxt |-> Base, rcv_wnd |-> Wnd,
              rcv_ann_wnd |-> Wnd, rcv_ann_right_edge |-> Plus(Base, Wnd),
              ooseq |-> <<>>, flags |-> {}, acked |-> FALSE,
              refused |-> <<>>, refusedFin |-> FALSE]
    /\ app = [stream |-> <<>>, held |-> 0, eof |-> FALSE]
    /\ peer = [una |-> 0, edge |-> Wnd]
    /\ step = [kind |-> "other", odd |-> FALSE]
    /\ ok = TRUE

(* Whether data that was refused is taken when it is offered again.        *)
Again == IF pcb.refused = <<>> THEN {TRUE} ELSE BOOLEAN

Took(kind) == step' = [kind |-> kind, odd |-> ~ step.odd]

(* The peer sends again what is not acknowledged, the application has room *)
(* for it, and the ACK arrives.                                            *)
Retransmission(from, again, accept, copied, fate) ==
    from = peer.una /\ again /\ accept /\ copied /\ fate = "arrives"

Next ==
    \/ \E from \in 0 .. Bytes, len \in 0 .. Mss, fin, accept, copied \in BOOLEAN,
          again \in Again, fate \in Fates :
          /\ Arrives(from, len, fin, again, accept, copied, fate)
          /\ Took(IF Retransmission(from, again, accept, copied, fate)
                  THEN "retransmission" ELSE "other")
    \/ \E len \in 1 .. Wnd, fate \in Fates :
          /\ tcp_recved(len, fate)
          /\ Took(IF len = app.held THEN "read" ELSE "other")
    \/ \E again \in Again, fate \in Fates :
          tcp_fasttmr(again, fate) /\ Took(IF again THEN "offer" ELSE "other")

(* Weak fairness, with the conditions under which the steps are enabled    *)
(* written out: the peer retransmits what is not acknowledged until all of *)
(* it is, and not always to an application without room or with the ACK    *)
(* lost; the timer offers refused data again, not always in vain; and the  *)
(* application reads what it is given.                                     *)
Fairness ==
    /\ []<>(peer.una > Bytes) \/ []<><<step'.kind = "retransmission">>_vars
    /\ []<><<step'.kind = "offer">>_vars
    /\ []<>(app.held = 0) \/ []<><<step'.kind = "read">>_vars

Spec == Init /\ [][Next]_vars /\ Fairness
-----------------------------------------------------------------------------
(* The application gets the peer's bytes in order, each once and none      *)
(* altered, whatever the order, the cutting and the repetition of the      *)
(* segments, and the end of the stream only after the last byte.           *)
StreamIntact ==
    /\ \A i \in DOMAIN app.stream : app.stream[i] = i
    /\ app.eof => Len(app.stream) = Bytes

(* pcb->ooseq is ordered and without overlap, lies beyond rcv_nxt and      *)
(* inside the window, and a FIN is on its last segment only; no LWIP_ASSERT *)
(* of tcp_receive about the window fails.                                  *)
QueueSound ==
    /\ ok
    /\ \A i \in DOMAIN pcb.ooseq :
          LET seg == pcb.ooseq[i]
          IN  /\ TCP_SEQ_GT(seg.seqno, pcb.rcv_nxt)
              /\ TCP_SEQ_GEQ(Plus(pcb.rcv_nxt, pcb.rcv_wnd),
                             Plus(seg.seqno, TCP_TCPLEN(seg)))
              /\ i < Len(pcb.ooseq) =>
                    ~ seg.fin /\ TCP_SEQ_GEQ(pcb.ooseq[i + 1].seqno, DataEnd(seg))

(* The receive window is conserved: every byte that rcv_wnd has given up   *)
(* is held by the application, refused, or the FIN not yet reported.  And  *)
(* the window announced never exceeds the one there is.                    *)
WindowConserved ==
    /\ pcb.rcv_wnd + app.held + Len(pcb.refused)
         + (IF pcb.state = "CLOSE_WAIT" /\ ~ app.eof THEN 1 ELSE 0) = Wnd
    /\ pcb.state = "ESTABLISHED" =>
          TCP_SEQ_GEQ(Plus(pcb.rcv_nxt, pcb.rcv_wnd), pcb.rcv_ann_right_edge)
             \/ pcb.rcv_ann_wnd = 0

(* All of it: the application, the queue and the window agree.             *)
ReceiverSound == StreamIntact /\ QueueSound /\ WindowConserved

(* The right edge of the window the peer was told of never moves back.     *)
EdgeKept == [][TCP_SEQ_GEQ(pcb'.rcv_ann_right_edge, pcb.rcv_ann_right_edge)]_vars

(* The whole stream and its end reach the application in the end.          *)
StreamCompletes == <>(app.eof /\ Len(app.stream) = Bytes)

(* tcp_receive never takes more than the window: the LWIP_ASSERTs about    *)
(* tcplen and rcv_wnd hold.                                                *)
AssertsHold == ok
=============================================================================
