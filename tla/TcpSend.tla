------------------------------- MODULE TcpSend -------------------------------
(***************************************************************************)
(* The sending half of a TCP connection: tcp_write, tcp_output,            *)
(* tcp_split_unsent_seg, the retransmissions and the zero-window probe of  *)
(* lwip-2.1.3/src/core/tcp_out.c, the acknowledgement part of tcp_receive  *)
(* (tcp_in.c) and the persist and retransmission timers of tcp_slowtmr     *)
(* (tcp.c).                                                                *)
(*                                                                         *)
(* The pcb is a record s, a C function an operator from a pcb to a pcb or  *)
(* to the set of results it may have: memory may be short, and the         *)
(* interface may refuse a segment.  The byte at position p of the stream   *)
(* is p, so data that is sent under the wrong sequence number shows.       *)
(*                                                                         *)
(* The peer is external.  What is transmitted reaches it at once or is     *)
(* lost; its acknowledgements take their time, may be lost and may overtake *)
(* each other.  It announces a window, opens it when its application reads,*)
(* and never takes back what it announced.  The peer sends no data, the    *)
(* sequence numbers do not wrap (TcpReceive is about both), and Nagle's    *)
(* algorithm is on.  The number of retransmissions is not counted.         *)
(***************************************************************************)
EXTENDS Integers, Sequences, FiniteSets, SequencesExt, FiniteSetsExt

CONSTANTS
  Mss,        \* pcb->mss
  SndBuf,     \* TCP_SND_BUF
  QueueLen,   \* TCP_SND_QUEUELEN
  DupThresh,  \* duplicate acknowledgements for a fast retransmit: 3
  CwndMax,    \* where cwnd saturates: 0xFFFF
  Total,      \* bytes the application writes
  Lens,       \* lengths of its writes
  Copies,     \* whether its writes have TCP_WRITE_FLAG_COPY
  Windows,    \* windows the peer may announce when it opens its window
  MaxAcks,    \* acknowledgements in flight
  Budget,     \* losses, failed allocations, refused segments, early timeouts
  FirstWindows, \* windows the peer may announce in the handshake
  RexmitRefused, \* whether the interface may refuse a fast retransmission
  CloseEarly  \* whether the application closes while data is unsent

TcpSendAssumption ==
  /\ {Mss, SndBuf, QueueLen, DupThresh, CwndMax, MaxAcks} \subseteq Nat \ {0}
  /\ {Total, Budget} \subseteq Nat /\ Lens \subseteq Nat \ {0}
  /\ Copies \union {RexmitRefused, CloseEarly} \subseteq BOOLEAN /\ Windows \union FirstWindows \subseteq Nat

VARIABLES
  pcb,    \* the sender
  peer,   \* the receiver
  acks,   \* acknowledgements on their way
  budget  \* what may still go wrong

vars == <<pcb, peer, acks, budget>>

Least(a, b) == IF a < b THEN a ELSE b
Most(a, b) == IF a < b THEN b ELSE a

-----------------------------------------------------------------------------
(* Segments.  pb is the chain of pbufs: how many bytes of data each holds   *)
(* and whether it references the application's memory (PBUF_ROM); left is   *)
(* oversize_left.                                                           *)

TCP_TCPLEN(g) == Len(g.data) + (IF g.flags = {} THEN 0 ELSE 1)
After(g) == g.seq + TCP_TCPLEN(g)
pbuf_clen(g) == Len(g.pb)

\* What a function does: the pcb, the segments handed to the interface, and
\* whether an allocation failed or the interface refused a segment.
Result(s, sent, failed) == [s |-> s, sent |-> sent, failed |-> failed]

\* The pcb of a connection that was just established.
Established ==
  [mss |-> Mss, unsent |-> <<>>, unacked |-> <<>>, over |-> 0,
   nxt |-> 1, lbb |-> 1, ack |-> 1, wnd |-> 0, wmax |-> 0, wl1 |-> 0, wl2 |-> -1,
   cwnd |-> Least(4 * Mss, CwndMax), ssth |-> SndBuf, acked |-> 0, dup |-> 0,
   infr |-> FALSE, rtime |-> FALSE, rto |-> FALSE, end |-> 0, persist |-> FALSE,
   buf |-> SndBuf, qlen |-> 0, mem |-> FALSE, fin |-> FALSE, asserts |-> TRUE,
   ticks |-> TRUE]

-----------------------------------------------------------------------------
(* tcp_write.                                                               *)

mss_local(s) == LET m == Least(s.mss, s.wmax \div 2) IN IF m = 0 THEN s.mss ELSE m

\* tcp_pbuf_prealloc: the usable bytes beyond the len asked for.
tcp_pbuf_prealloc(s, len, max, more, first) ==
  IF len < max /\ (more \/ ~first \/ s.unsent # <<>> \/ s.unacked # <<>>)
  THEN max - len ELSE 0

\* Phases 1 and 2: what goes into the last unsent segment.
Phases(s, n, copy, more) ==
  LET g == Last(s.unsent)
      room == mss_local(s) - Len(g.data)
      used == IF s.over > 0 THEN Least(room, Least(s.over, n)) ELSE 0
      ext == IF used < n /\ room > used /\ g.data # <<>>
             THEN Least(room - used, n - used) ELSE 0
      more_ == IF copy /\ ext > 0
               THEN tcp_pbuf_prealloc(s, ext, room - used, more, TRUE) ELSE 0
      extend == ext > 0 /\ ~copy /\ Last(g.pb).rom
      pb1 == [g.pb EXCEPT ![Len(g.pb)].n = @ + used]
      pb2 == IF ext = 0 THEN pb1
             ELSE IF extend THEN [pb1 EXCEPT ![Len(pb1)].n = @ + ext]
             ELSE Append(pb1, [n |-> ext, rom |-> ~copy])
  IN  IF s.unsent = <<>>
      THEN [pos |-> 0, over |-> 0, unsent |-> <<>>, clen |-> 0, ok |-> s.over = 0]
      ELSE [pos |-> used + ext,
            over |-> IF copy /\ ext > 0 THEN more_ ELSE s.over - used,
            unsent |-> Append(Front(s.unsent),
                         [g EXCEPT !.data = @ \o [i \in 1 .. used + ext |-> s.lbb + i - 1],
                                   !.pb = pb2, !.left = @ + more_ - used]),
            clen |-> Len(pb2) - Len(g.pb),
            ok |-> /\ room >= 0 /\ s.over = g.left
                   /\ s.over > 0 => s.over <= room
                   /\ s.over = used \/ used = n
                   /\ extend => used = 0]

\* Phase 3: the rest in new segments of mss_local bytes.
NewSegments(s, n, pos, copy, more) ==
  LET m == mss_local(s)
      len(i) == Least(m, n - pos - (i - 1) * m)
  IN  [i \in 1 .. (n - pos + m - 1) \div m |->
         [seq |-> s.lbb + pos + (i - 1) * m, flags |-> {},
          data |-> [j \in 1 .. len(i) |-> s.lbb + pos + (i - 1) * m + j - 1],
          pb |-> IF copy THEN <<[n |-> len(i), rom |-> FALSE]>>
                 ELSE <<[n |-> 0, rom |-> FALSE], [n |-> len(i), rom |-> TRUE]>>,
          left |-> IF copy THEN tcp_pbuf_prealloc(s, len(i), m, more, i = 1) ELSE 0]]

tcp_write_checks(s, n) == n <= s.buf /\ s.qlen < QueueLen

\* All phases succeeded: the pcb is updated.
Commit(s, n, w, q, qlen, copy) ==
  [s EXCEPT !.unsent = w.unsent \o q, !.lbb = @ + n, !.buf = @ - n, !.qlen = qlen,
            !.over = IF q # <<>> /\ copy THEN Last(q).left ELSE w.over,
            !.asserts = @ /\ (q # <<>> /\ ~copy => w.over = 0)]

\* The write, or ERR_MEM: too much data, too many pbufs, or no memory.
tcp_write(s, n, copy, more) ==
  LET w == Phases(s, n, copy, more)
      q == NewSegments(s, n, w.pos, copy, more)
      qlen == s.qlen + w.clen + FoldLeft(LAMBDA a, g : a + pbuf_clen(g), 0, q)
      memerr(failed) == Result([s EXCEPT !.mem = TRUE], <<>>, failed)
  IN  IF ~tcp_write_checks(s, n) THEN {memerr(FALSE)}
      ELSE IF ~w.ok THEN {Result([s EXCEPT !.asserts = FALSE], <<>>, FALSE)}
      ELSE IF q # <<>> /\ qlen > QueueLen THEN {memerr(FALSE)}
      ELSE {memerr(TRUE), Result(Commit(s, n, w, q, qlen, copy), <<>>, FALSE)}

-----------------------------------------------------------------------------
(* tcp_output.                                                              *)

Fits(s, g, w) == g.seq - s.ack + Len(g.data) <= w

\* tcp_do_output_nagle
Nagle(s) ==
  \/ s.unacked = <<>> \/ s.infr
  \/ Len(s.unsent) > 1 \/ Len(Head(s.unsent).data) >= s.mss
  \/ s.buf = 0 \/ s.qlen >= QueueLen

Insert(q, g) == SelectSeq(q, LAMBDA h : h.seq < g.seq) \o <<g>>
                  \o SelectSeq(q, LAMBDA h : h.seq >= g.seq)

\* tcp_output_segment succeeded.
Sent(s) ==
  LET g == [Head(s.unsent) EXCEPT !.left = 0]
  IN  [s EXCEPT !.unsent = Tail(@), !.unacked = Insert(@, g), !.rtime = TRUE,
                !.nxt = Most(@, After(g))]

RECURSIVE Transmit(_, _)
Transmit(s, sent) ==
  IF \/ s.unsent = <<>>
     \/ ~Fits(s, Head(s.unsent), Least(s.wnd, s.cwnd))
     \/ ~Nagle(s) /\ ~s.mem /\ ~s.fin
  THEN {Result([s EXCEPT !.over = IF s.unsent = <<>> THEN 0 ELSE @, !.mem = FALSE],
               sent, FALSE)}
  ELSE {Result([s EXCEPT !.rtime = TRUE, !.mem = TRUE], sent, TRUE)}
         \union Transmit(Sent(s), Append(sent, Head(s.unsent)))

\* Mutant of tcp_output: the persist timer is started for a closed window
\* only, not for one that is too small for the next segment.
tcp_outputClosedOnly(s) ==
  IF s.unsent = <<>> THEN {Result([s EXCEPT !.mem = FALSE], <<>>, FALSE)}
  ELSE IF ~Fits(s, Head(s.unsent), Least(s.wnd, s.cwnd))
  THEN {Result([s EXCEPT !.persist = @ \/ (s.wnd = 0 /\ s.unacked = <<>>),
                         !.mem = FALSE], <<>>, FALSE)}
  ELSE Transmit([s EXCEPT !.persist = FALSE], <<>>)

tcp_output(s) ==
  IF s.unsent = <<>> THEN {Result([s EXCEPT !.mem = FALSE], <<>>, FALSE)}
  ELSE IF ~Fits(s, Head(s.unsent), Least(s.wnd, s.cwnd))
  THEN {Result([s EXCEPT !.persist = @ \/ (s.wnd <= s.cwnd /\ s.unacked = <<>>),
                         !.mem = FALSE], <<>>, FALSE)}
  ELSE Transmit([s EXCEPT !.persist = FALSE], <<>>)

-----------------------------------------------------------------------------
(* Splitting the head of unsent, and probing a window that is closed.       *)

\* pbuf_realloc: the pbufs that hold the first n bytes.
Trim(pb, n) ==
  LET upTo(k) == FoldLeft(LAMBDA a, p : a + p.n, 0, SubSeq(pb, 1, k))
      k == CHOOSE i \in 1 .. Len(pb) : upTo(i) >= n /\ \A j \in 1 .. i - 1 : upTo(j) < n
  IN  [SubSeq(pb, 1, k) EXCEPT ![k].n = n - upTo(k - 1)]

\* Mutant of tcp_split_unsent_seg: the pbufs that trimming the head frees are
\* not taken out of snd_queuelen.
tcp_split_unsent_segMiscounts(s, split) ==
  LET g == Head(s.unsent)
      head == [g EXCEPT !.data = SubSeq(@, 1, split), !.pb = Trim(@, split), !.left = 0]
      rest == [g EXCEPT !.seq = @ + split, !.data = SubSeq(@, split + 1, Len(@)),
                        !.pb = <<[n |-> Len(g.data) - split, rom |-> FALSE]>>, !.left = 0]
  IN  IF Len(g.data) <= split THEN s
      ELSE [s EXCEPT !.unsent = <<head, rest>> \o Tail(@),
                     !.qlen = @ + pbuf_clen(rest),
                     !.over = IF Tail(s.unsent) = <<>> THEN 0 ELSE @,
                     !.asserts = @ /\ split <= s.mss]

\* TCPH_SET_FLAG at the end adds flags to the header's: it takes none away.
tcp_split_unsent_seg(s, split) ==
  LET g == Head(s.unsent)
      head == [g EXCEPT !.data = SubSeq(@, 1, split), !.pb = Trim(@, split), !.left = 0]
      rest == [g EXCEPT !.seq = @ + split, !.data = SubSeq(@, split + 1, Len(@)),
                        !.pb = <<[n |-> Len(g.data) - split, rom |-> FALSE]>>, !.left = 0]
  IN  IF Len(g.data) <= split THEN s
      ELSE [s EXCEPT !.unsent = <<head, rest>> \o Tail(@),
                     !.qlen = @ - pbuf_clen(g) + pbuf_clen(head) + pbuf_clen(rest),
                     !.over = IF Tail(s.unsent) = <<>> THEN 0 ELSE @,
                     !.asserts = @ /\ split <= s.mss]

tcp_zero_window_probe(s) ==
  LET g == Head(s.unsent)
      probe == IF g.data = <<>> THEN g
               ELSE [g EXCEPT !.data = <<Head(g.data)>>, !.flags = {}]
  IN  IF s.unsent = <<>> THEN {Result(s, <<>>, FALSE)}
      ELSE {Result(s, <<>>, TRUE),
            Result([s EXCEPT !.nxt = Most(@, g.seq + 1)], <<probe>>, FALSE)}

\* tcp_slowtmr while persist_backoff is set.  When memory is short the
\* probe or the split is left for the next time.
Persist(s0) ==
  LET s == [s0 EXCEPT !.ticks = s0.unsent # <<>>, !.asserts = @ /\ s0.unacked = <<>>]
  IN  IF s.wnd = 0 THEN tcp_zero_window_probe(s)
      ELSE {Result(s, <<>>, s.unsent # <<>>)} \union
           (IF s.unsent = <<>> THEN {} ELSE tcp_output(tcp_split_unsent_seg(s, s.wnd)))

-----------------------------------------------------------------------------
(* Retransmissions.                                                         *)

Halved(s) == Most(Least(s.cwnd, s.wnd) \div 2, 2 * s.mss)

tcp_rexmit_rto_prepare(s) ==
  IF s.unacked = <<>> THEN s
  ELSE [s EXCEPT !.unsent = s.unacked \o @, !.unacked = <<>>, !.rto = TRUE,
                 !.end = After(Last(s.unacked)),
                 !.over = IF s.unsent = <<>> THEN Last(s.unacked).left ELSE @]

\* tcp_slowtmr when rtime has reached rto.
Rto(s) ==
  IF s.unacked = <<>> /\ s.unsent = <<>> THEN {Result(s, <<>>, FALSE)}
  ELSE tcp_output([tcp_rexmit_rto_prepare(s)
                     EXCEPT !.rtime = TRUE, !.ssth = Halved(s), !.cwnd = s.mss, !.acked = 0])

tcp_rexmit(s) ==
  LET g == Head(s.unacked)
      q == Insert(s.unsent, g)
  IN  [s EXCEPT !.unacked = Tail(@), !.unsent = q, !.over = IF Last(q) = g THEN 0 ELSE @]

tcp_rexmit_fast(s) ==
  IF s.unacked = <<>> \/ s.infr THEN s
  ELSE [tcp_rexmit(s) EXCEPT !.ssth = Halved(s), !.infr = TRUE, !.rtime = TRUE,
                             !.cwnd = Least(Halved(s) + 3 * s.mss, CwndMax)]
-----------------------------------------------------------------------------
(* The ACK part of tcp_receive.  Every segment of the peer has the sequence *)
(* number 1.                                                                *)

WindowUpdate(s, a) ==
  IF s.wl1 < 1 \/ s.wl2 < a.ack \/ (s.wl2 = a.ack /\ a.wnd > s.wnd)
  THEN [s EXCEPT !.wnd = a.wnd, !.wmax = Most(@, a.wnd), !.wl1 = 1, !.wl2 = a.ack]
  ELSE s

\* s is the pcb after the window update, edge the right edge before it.
DuplicateAck(s, a, edge) ==
  LET dup == Least(s.dup + 1, DupThresh + 1)
      grown == IF dup > DupThresh THEN Least(s.cwnd + s.mss, CwndMax) ELSE s.cwnd
      t == [s EXCEPT !.dup = dup, !.cwnd = grown]
  IN  IF s.wl2 + s.wnd # edge \/ ~s.rtime \/ s.ack # a.ack THEN [s EXCEPT !.dup = 0]
      ELSE IF dup >= DupThresh THEN tcp_rexmit_fast(t) ELSE t

Congestion(s, acked) ==
  IF s.cwnd < s.ssth
  THEN [s EXCEPT !.cwnd = Least(@ + Least(acked, (IF s.rto THEN 1 ELSE 2) * s.mss), CwndMax)]
  ELSE IF s.acked + acked >= s.cwnd
  THEN [s EXCEPT !.acked = @ + acked - s.cwnd, !.cwnd = Least(@ + s.mss, CwndMax)]
  ELSE [s EXCEPT !.acked = @ + acked]

tcp_free_acked_segments(q, ack) == SelectSeq(q, LAMBDA g : After(g) > ack)

\* TF_RTO is cleared when the head of the queues is not part of the RTO.
RtoOver(s) ==
  LET q == s.unacked \o s.unsent IN q = <<>> \/ s.end <= Head(q).seq

NewAck(s0, a) ==
  LET s1 == IF s0.infr THEN [s0 EXCEPT !.infr = FALSE, !.cwnd = s0.ssth, !.acked = 0] ELSE s0
      s2 == [Congestion(s1, a.ack - s1.ack) EXCEPT !.dup = 0, !.ack = a.ack]
      unacked == tcp_free_acked_segments(s2.unacked, a.ack)
      unsent == tcp_free_acked_segments(s2.unsent, a.ack)
      freed == SelectSeq(s2.unacked \o s2.unsent, LAMBDA g : After(g) <= a.ack)
      qlen == s2.qlen - FoldLeft(LAMBDA n, g : n + pbuf_clen(g), 0, freed)
      s3 == [s2 EXCEPT !.unacked = unacked, !.unsent = unsent, !.qlen = qlen,
                       !.rtime = unacked # <<>>,
                       !.over = IF unsent = <<>> THEN 0 ELSE @,
                       !.buf = @ + FoldLeft(LAMBDA n, g : n + Len(g.data), 0, freed),
                       !.asserts = @ /\ qlen >= 0
                                     /\ (qlen # 0 => unacked # <<>> \/ unsent # <<>>)]
  IN  [s3 EXCEPT !.rto = @ /\ ~RtoOver(s3)]

\* tcp_receive, and the tcp_output at the end of tcp_input.
tcp_receive(s0, a) ==
  LET s == WindowUpdate(s0, a)
      t == IF a.ack <= s.ack THEN DuplicateAck(s, a, s0.wnd + s0.wl2)
           ELSE IF a.ack <= s.nxt THEN NewAck(s, a) ELSE s
  IN  tcp_output(t)

\* tcp_send_fin
tcp_send_fin(s) ==
  IF s.unsent # <<>>
  THEN [s EXCEPT !.unsent[Len(s.unsent)].flags = {"fin"}, !.fin = TRUE]
  ELSE [s EXCEPT !.unsent = <<[seq |-> s.lbb, data |-> <<>>, flags |-> {"fin"}, left |-> 0,
                               pb |-> <<[n |-> 0, rom |-> FALSE]>>]>>,
                 !.over = 0, !.lbb = @ + 1, !.qlen = @ + 1, !.fin = TRUE]

-----------------------------------------------------------------------------
(* The peer.  got are the bytes it holds beyond nxt; good says that every   *)
(* byte it took was the byte of that position.                              *)

RECURSIVE Advance(_, _)
Advance(nxt, got) == IF nxt \in got THEN Advance(nxt + 1, got \ {nxt}) ELSE [nxt |-> nxt, got |-> got]

Take(p, g) ==
  LET in == {i \in 1 .. Len(g.data) : g.seq + i - 1 >= p.nxt /\ g.seq + i - 1 < p.edge}
      m == Advance(p.nxt, p.got \union {g.seq + i - 1 : i \in in})
      ends == "fin" \in g.flags /\ m.nxt = g.seq + Len(g.data)
  IN  IF p.fin THEN p
      ELSE [p EXCEPT !.nxt = IF ends THEN m.nxt + 1 ELSE m.nxt, !.got = m.got, !.fin = ends,
                     !.good = @ /\ \A i \in in : g.data[i] = g.seq + i - 1]

AckOf(p) == [ack |-> p.nxt, wnd |-> Most(p.edge - p.nxt, 0)]

\* The network holds MaxAcks acknowledgements: a later one replaces the last.
Put(q, a) == IF Len(q) < MaxAcks THEN Append(q, a) ELSE Append(Front(q), a)

\* The segments that arrive, and the acknowledgement of each.
Arrive(q, sent, lost) ==
  LET one(x, i) == IF i \in lost THEN x
                   ELSE LET p == Take(x.p, sent[i]) IN [p |-> p, q |-> Put(x.q, AckOf(p))]
      x == FoldLeft(one, [p |-> peer, q |-> q], [i \in 1 .. Len(sent) |-> i])
  IN  peer' = x.p /\ acks' = x.q

\* One of the results, with some of its segments lost; q are the
\* acknowledgements still on their way.
Outcome(results, spent, q) ==
  \E r \in results : \E lost \in SUBSET (1 .. Len(r.sent)) :
    LET cost == spent + Cardinality(lost) + (IF r.failed THEN 1 ELSE 0)
    IN  /\ cost <= budget
        /\ budget' = budget - cost
        /\ pcb' = r.s
        /\ Arrive(q, r.sent, lost)

-----------------------------------------------------------------------------
Init ==
  \E w \in FirstWindows :
    /\ pcb = [Established EXCEPT !.wnd = w, !.wmax = w]
    /\ peer = [nxt |-> 1, got |-> {}, edge |-> 1 + w, fin |-> FALSE, good |-> TRUE]
    /\ acks = <<>>
    /\ budget = Budget

Running == pcb.asserts

Then(r, more) ==
  IF more THEN {r} ELSE {[o EXCEPT !.failed = @ \/ r.failed] : o \in tcp_output(r.s)}

\* The application writes, and calls tcp_output unless more is to come.
Write(n, copy, more) ==
  /\ Running /\ ~pcb.fin
  /\ pcb.lbb + n <= Total + (IF more THEN 0 ELSE 1)
  /\ \E r \in tcp_write(pcb, n, copy, more) : Outcome(Then(r, more), 0, acks)

\* tcp_close once everything is written: the FIN, and tcp_output.
Close ==
  /\ Running /\ ~pcb.fin /\ pcb.lbb = Total + 1
  /\ pcb.unsent = <<>> \/ CloseEarly
  /\ Outcome(tcp_output(tcp_send_fin(pcb)), 0, acks)

\* An acknowledgement arrives; one that overtakes another costs.
Ack(i) ==
  /\ Running
  /\ Outcome({r \in tcp_receive(pcb, acks[i]) : r.failed /\ r.s.infr => RexmitRefused},
             IF i = 1 THEN 0 ELSE 1, RemoveAt(acks, i))

LoseAck(i) ==
  /\ Running /\ budget > 0
  /\ budget' = budget - 1
  /\ acks' = RemoveAt(acks, i)
  /\ UNCHANGED <<pcb, peer>>

\* A timer that runs out before the answer under way has come costs.
tcp_slowtmr ==
  /\ Running /\ (pcb.persist \/ pcb.rtime)
  /\ Outcome(IF pcb.persist THEN Persist(pcb) ELSE Rto(pcb),
             IF acks = <<>> THEN 0 ELSE 1, acks)

\* The peer's application reads: the window opens.
PeerRead ==
  /\ Running /\ ~peer.fin
  /\ peer.nxt <= Total
  /\ \E w \in Windows :
       /\ peer.nxt + w > peer.edge
       /\ peer' = [peer EXCEPT !.edge = peer.nxt + w]
  /\ acks' = Put(acks, AckOf(peer'))
  /\ UNCHANGED <<pcb, budget>>

Next ==
  \/ \E n \in Lens, copy \in Copies, more \in BOOLEAN : Write(n, copy, more)
  \/ Close
  \/ \E i \in DOMAIN acks : Ack(i) \/ LoseAck(i)
  \/ tcp_slowtmr
  \/ PeerRead

\* What a write that is followed by tcp_output can do.
Writes ==
  {o \in UNION {Then(r, FALSE) :
                  r \in UNION {tcp_write(pcb, n, copy, FALSE) :
                               n \in {m \in Lens : pcb.lbb + m <= Total + 1}, copy \in Copies}} :
     ~o.failed}

\* Neither a write, which moves snd_lbb or fails, nor the peer's reading.
SystemStep ==
  /\ pcb'.lbb = pcb.lbb /\ peer'.edge = peer.edge
  /\ acks' # acks \/ [pcb' EXCEPT !.mem = pcb.mem] # pcb

AtRest == acks = <<>> /\ ~pcb.persist /\ ~pcb.rtime
NoneFits == \A o \in Writes : o.s.lbb = pcb.lbb
NoneHelps == \A o \in Writes : o.s = pcb
WriteStep == \E o \in Writes : pcb' = o.s

\* What the network, the interface and the allocator get wrong is bounded by
\* the budget, so that fairness only has to say: what is under way arrives or
\* the timer runs out, the application writes what it may and calls
\* tcp_output in the end, and the peer's application reads.
Fairness ==
  /\ []<>AtRest \/ []<><<SystemStep>>_vars
  /\ []<>NoneFits \/ []<><<pcb'.lbb > pcb.lbb>>_vars
  /\ []<>NoneHelps \/ []<><<WriteStep>>_vars
  /\ WF_vars(PeerRead)

Spec == Init /\ [][Next]_vars /\ Fairness

-----------------------------------------------------------------------------
Queue == pcb.unacked \o pcb.unsent

\* The two queues together hold the stream from the first byte that is not
\* acknowledged to the last that was written, in order and without a gap;
\* snd_buf and snd_queuelen count what they hold, unsent_oversize agrees with
\* the last segment, and no assertion of tcp_write, tcp_output or tcp_receive
\* fails: after any mix of writes, splits, fast and slow retransmissions.
\* And the peer never takes a byte at the wrong place.
SendQueues ==
  LET q == SortSeq(Queue, LAMBDA g, h : g.seq < h.seq)
  IN  /\ pcb.asserts
      /\ peer.good
      /\ \A i \in DOMAIN q :
           /\ \A j \in DOMAIN q[i].data : q[i].data[j] = q[i].seq + j - 1
           /\ i < Len(q) => q[i + 1].seq = After(q[i])
           /\ Len(q[i].data) <= pcb.mss
           /\ Len(q[i].data) = FoldLeft(LAMBDA a, p : a + p.n, 0, q[i].pb)
      /\ q # <<>> => q[1].seq <= pcb.ack /\ After(Last(q)) = pcb.lbb
      /\ q = <<>> => pcb.ack = pcb.lbb
      /\ pcb.buf = SndBuf - FoldLeft(LAMBDA a, g : a + Len(g.data), 0, q)
      /\ pcb.qlen = FoldLeft(LAMBDA a, g : a + pbuf_clen(g), 0, q)
      /\ pcb.over = IF pcb.unsent = <<>> THEN 0 ELSE Last(pcb.unsent).left
      /\ pcb.nxt <= pcb.lbb

\* Everything the application writes reaches the peer: no loss of segments,
\* of acknowledgements or of a window update, no failed allocation and no
\* refused segment leaves the sender with neither timer running.
AllDelivered == <>(peer.nxt > Total /\ pcb.ack > Total)

\* tcp.h says of unsent and unacked "These are ordered by sequence number":
\* the bytes of a segment are those of its sequence number, so that what is
\* retransmitted after three duplicate acknowledgements is what was sent.
OrderedBySequence ==
  \A i \in DOMAIN Queue :
    \A j \in DOMAIN Queue[i].data : Queue[i].data[j] = Queue[i].seq + j - 1

\* tcp_slowtmr asserts that the persist timer is not running with an empty
\* send buffer.
PersistHasData == pcb.ticks

\* tcp_write asserts that a segment on unsent is no longer than mss_local,
\* which is half the largest window the peer ever announced.
WriteAsserts == pcb.asserts

\* tcp_split_unsent_seg moves the FIN to the remainder: the peer takes the
\* end of the stream only after its last byte.
FinLast == peer.fin => peer.nxt = Total + 2
=============================================================================
