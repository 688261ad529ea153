------------------------------ MODULE Netconn ------------------------------
(***************************************************************************)
(* One blocking TCP netconn (lwIP's api_lib.c and api_msg.c): the          *)
(* application thread that connects, writes, reads, shuts down and deletes *)
(* it, and the core, which runs the callbacks of its pcb.                  *)
(*                                                                         *)
(* A function that api_lib.c passes to netconn_apimsg runs in the          *)
(* application's thread under the core lock (LWIP_TCPIP_CORE_LOCKING is    *)
(* 1).  When it cannot finish it gives up the lock, waits on the netconn's *)
(* op_completed semaphore, and takes the lock again.  Reading the receive  *)
(* mailbox, conn->flags and conn->pending_err needs no lock, so a read     *)
(* interleaves with the middle of a callback.                              *)
(*                                                                         *)
(* The pcb is TCP as api_msg.c sees it: a state, the free send buffer and  *)
(* one refused pbuf.  recv_timeout is 0, LWIP_NETCONN_FULLDUPLEX is 0 (one *)
(* thread uses the netconn) and a pbuf or a written unit is a number.      *)
(* tcp_close and tcp_shutdown never return ERR_MEM (tcp.c:446: the FIN is  *)
(* sent later by the timers), so a close never waits and NETCONN_CLOSE is  *)
(* never seen outside the core lock.                                       *)
(***************************************************************************)
EXTENDS Integers, FiniteSets, Sequences, SequencesExt

CONSTANTS
  SndBuf,     \* TCP_SND_BUF, in units
  BoxSize,    \* DEFAULT_TCP_RECVMBOX_SIZE
  Vectors,    \* what a write call may pass: sequences of vector lengths
  Writes,     \* bound: write calls
  Items,      \* bound: pbufs the peer sends
  MemErrors,  \* bound: times that tcp_write finds no memory
  Hows,       \* the shutdown calls the application makes
  More        \* whether a read with data may go on for more, as lwip_recv_tcp does

NetconnConstants ==
  /\ {SndBuf, BoxSize} \subseteq Nat \ {0}
  /\ {Writes, Items, MemErrors} \subseteq Nat
  /\ Vectors \subseteq Seq(Nat \ {0}) \ {<<>>}
  /\ Hows \subseteq {{"RD"}, {"WR"}, {"RD", "WR"}}
  /\ More \in BOOLEAN

VARIABLES
  conn,   \* struct netconn, with the events of its socket
  pcb,    \* the tcp_pcb behind it
  app,    \* the application thread and its api_msg
  core    \* the thread inside a callback, if any

vars == <<conn, pcb, app, core>>

-----------------------------------------------------------------------------
(* The four records.                                                       *)

Lowat == SndBuf - 1      \* TCP_SNDLOWAT

Idle == [pc |-> "idle"]

netconn_alloc ==
  [state |-> "NONE", pcb |-> TRUE, cur |-> FALSE, err |-> "OK", flags |-> {},
   box |-> <<>>, valid |-> TRUE, op_completed |-> 0,
   rcvevent |-> 0, sendevent |-> TRUE]

pcb_new ==
  [st |-> "CLOSED", buf |-> SndBuf, rxclosed |-> FALSE, refused |-> <<>>,
   sent |-> 0, fin |-> FALSE, writes |-> 0, short |-> 0]

Init ==
  /\ conn = netconn_alloc
  /\ pcb = pcb_new
  /\ app = Idle
  /\ core = Idle

\* The core lock is free: no callback is half done.  An application step
\* that takes the lock is one action.
Unlocked == core = Idle

Free == [pcb EXCEPT !.st = "freed", !.refused = <<>>, !.buf = SndBuf]

Sending == {"ESTABLISHED", "CLOSE_WAIT"}
Active == {"SYN_SENT", "FIN_WAIT", "CLOSING", "LAST_ACK"} \cup Sending


-----------------------------------------------------------------------------
(* Writing.                                                                *)

Total(v) == FoldLeft(LAMBDA a, b : a + b, 0, v)

\* Where a vector ends: a tcp_write never crosses one.
Ends(v) == {Total(SubSeq(v, 1, i)) : i \in 1 .. Len(v)}

\* What the do-while loop of lwip_netconn_do_writemore may have passed to
\* tcp_write when it ends, and the error it ends with: everything that the send
\* buffer takes, or whole vectors up to the call that found no memory.
\* tcp_write of nothing succeeds in a state that may send.
Loop(p, w) ==
  LET rest == Total(w.vec) - w.off
      most == IF p.buf < rest THEN p.buf ELSE rest
      stops == {n \in {e - w.off : e \in Ends(w.vec) \cup {w.off}} :
                  0 <= n /\ n < most /\ p.short < MemErrors}
  IN  IF p.st \in Sending
      THEN {[n |-> most, err |-> "OK"]} \cup {[n |-> n, err |-> "MEM"] : n \in stops}
      ELSE {[n |-> 0, err |-> "CONN"]}

\* The error that a finished write returns, "again" when it is not finished.
\* A write that must not block reports an empty one as ERR_WOULDBLOCK.  rte:
\* tcp_output found no route.
Outcome(w, l, rte) ==
  LET off == w.off + l.n
  IN  CASE l.err = "CONN"           -> "CONN"
        [] rte                      -> "RTE"
        [] w.nb /\ off = 0          -> "WOULDBLOCK"
        [] w.nb \/ off = Total(w.vec) -> "OK"
        [] OTHER                    -> "again"

\* tcp_output can miss a route only when something is queued, and is not
\* called after the jump to err_mem with nothing written.
NoRoute(p, w, l) ==
  {FALSE} \cup {rte \in {TRUE} : /\ l.err # "CONN"
                                 /\ p.buf - l.n < SndBuf
                                 /\ ~ (w.nb /\ l.err = "OK" /\ w.off + l.n = 0)}

\* Mutant of Unwritable: poll_tcp is not asked to look for room.
UnwritableUnasked(p, c, w, l) ==
  LET part == w.nb /\ w.off + l.n < Total(w.vec)
  IN  IF l.err \in {"OK", "MEM"} /\ (part \/ p.buf - l.n <= Lowat)
      THEN [c EXCEPT !.sendevent = FALSE] ELSE c

\* The events and the flag for the socket: a write that could not pass all it
\* must not block for, or one that leaves little room, makes it unwritable.
Unwritable(p, c, w, l) ==
  LET part == w.nb /\ w.off + l.n < Total(w.vec)
  IN  IF l.err \in {"OK", "MEM"} /\ (part \/ p.buf - l.n <= Lowat)
      THEN [c EXCEPT !.sendevent = FALSE,
                     !.flags = IF part THEN @ \cup {"CHECK_WRITESPACE"} ELSE @]
      ELSE c

\* Mutant of lwip_netconn_do_writemore: a finished write is signalled in every
\* case, also when the application's own call finished it.
lwip_netconn_do_writemoreSignals(p, c, w, l, rte, delayed) ==
  LET u == Unwritable(p, c, w, l)
      e == Outcome(w, l, rte)
  IN  IF e = "again" THEN u
      ELSE [u EXCEPT !.cur = FALSE, !.state = "NONE", !.op_completed = @ + 1]

\* The netconn after lwip_netconn_do_writemore: a finished write gives up the
\* message and the state, and wakes the application when it waits for it.
lwip_netconn_do_writemore(p, c, w, l, rte, delayed) ==
  LET u == Unwritable(p, c, w, l)
      e == Outcome(w, l, rte)
  IN  IF e = "again" THEN u
      ELSE [u EXCEPT !.cur = FALSE, !.state = "NONE",
                     !.op_completed = IF delayed THEN @ + 1 ELSE @]

\* The message and the pcb after it.
Passed(w, l, rte) == [w EXCEPT !.off = @ + l.n, !.err = Outcome(w, l, rte)]
Queued(p, l) ==
  [p EXCEPT !.buf = @ - l.n, !.short = IF l.err = "MEM" THEN @ + 1 ELSE @]

\* netconn_write_vectors_partly and lwip_netconn_do_write.
lwip_netconn_do_write(vec, nb) ==
  LET w == [pc |-> "sem", op |-> "write", vec |-> vec, off |-> 0, nb |-> nb,
            err |-> "again"]
      counted == [pcb EXCEPT !.writes = @ + 1]
  IN  /\ app = Idle /\ Unlocked /\ conn.state # "deleted"
      /\ pcb.writes < Writes
      /\ UNCHANGED core
      /\ \/ /\ conn.err # "OK" \/ conn.state # "NONE" \/ ~ conn.pcb
            /\ conn' = [conn EXCEPT !.err = "OK"]
            /\ pcb' = counted
            /\ UNCHANGED app
         \/ /\ conn.err = "OK" /\ conn.state = "NONE" /\ conn.pcb
            /\ \E l \in Loop(pcb, w) : \E rte \in NoRoute(pcb, w, l) :
                 LET c == [conn EXCEPT !.state = "WRITE", !.cur = TRUE]
                 IN  /\ conn' = lwip_netconn_do_writemore(pcb, c, w, l, rte, FALSE)
                     /\ pcb' = [Queued(pcb, l) EXCEPT !.writes = @ + 1]
                     /\ app' = IF Outcome(w, l, rte) = "again"
                               THEN Passed(w, l, rte) ELSE Idle

-----------------------------------------------------------------------------
(* Connecting, and waiting on op_completed.                                *)

\* netconn_connect and lwip_netconn_do_connect.  tcp_connect refuses a pcb
\* that is not CLOSED, and may find no memory, port or route: err.
lwip_netconn_do_connect(nb) ==
  /\ app = Idle /\ Unlocked /\ conn.state # "deleted"
  /\ conn.pcb /\ conn.state = "NONE" /\ pcb.st = "CLOSED"
  /\ pcb' = [pcb EXCEPT !.st = "SYN_SENT"]
  /\ conn' = [conn EXCEPT !.state = "CONNECT", !.cur = ~ nb,
                          !.flags = IF nb THEN @ \cup {"IN_NONBLOCKING_CONNECT"} ELSE @]
  /\ app' = IF nb THEN Idle ELSE [pc |-> "sem", op |-> "connect", err |-> "again"]
  /\ UNCHANGED core

\* lwip_netconn_do_connected: the handshake is complete.
lwip_netconn_do_connected ==
  /\ Unlocked /\ pcb.st = "SYN_SENT"
  /\ pcb' = [pcb EXCEPT !.st = "ESTABLISHED"]
  /\ conn' = [conn EXCEPT !.cur = FALSE, !.state = "NONE", !.sendevent = TRUE,
                          !.flags = @ \ {"IN_NONBLOCKING_CONNECT"},
                          !.op_completed = IF conn.cur THEN @ + 1 ELSE @]
  /\ app' = IF conn.cur THEN [app EXCEPT !.err = "OK"] ELSE app
  /\ UNCHANGED core

\* sys_arch_sem_wait returns.
SemWait ==
  /\ app.pc = "sem" /\ conn.op_completed > 0
  /\ conn' = [conn EXCEPT !.op_completed = @ - 1]
  /\ app' = [app EXCEPT !.pc = "woken"]
  /\ UNCHANGED <<pcb, core>>

\* LOCK_TCPIP_CORE, and the call returns.
Woken ==
  /\ app.pc = "woken" /\ Unlocked
  /\ app' = Idle
  /\ UNCHANGED <<conn, pcb, core>>

-----------------------------------------------------------------------------
(* The callbacks of the pcb.                                               *)

\* The pcb has room again: the socket becomes writable.
Writable(c, buf) ==
  IF c.pcb /\ buf > Lowat
  THEN [c EXCEPT !.sendevent = TRUE, !.flags = @ \ {"CHECK_WRITESPACE"}]
  ELSE c

\* The core goes on with the write that the application waits for.
Continue(p) ==
  IF conn.state # "WRITE" THEN {[c |-> conn, p |-> p, a |-> app]}
  ELSE UNION {{[c |-> lwip_netconn_do_writemore(p, conn, app, l, rte, TRUE),
                p |-> Queued(p, l), a |-> Passed(app, l, rte)]
                 : rte \in NoRoute(p, app, l)} : l \in Loop(p, app)}

\* sent_tcp: n units are acknowledged.  After shutdown(WR) the pcb has no sent
\* callback.
sent_tcp ==
  /\ Unlocked
  /\ pcb.st \in Active \ {"SYN_SENT"}
  /\ UNCHANGED core
  /\ \E n \in 1 .. SndBuf - pcb.buf :
       LET room == [pcb EXCEPT !.buf = @ + n] IN
       \/ /\ pcb.st \in Sending
          /\ \E r \in Continue(room) :
               conn' = Writable(r.c, r.p.buf) /\ pcb' = r.p /\ app' = r.a
       \/ /\ pcb.st \notin Sending
          /\ pcb' = room /\ UNCHANGED <<conn, app>>

\* Mutant of poll_tcp: it leaves a waiting write to sent_tcp.
poll_tcpIdle ==
  /\ Unlocked
  /\ pcb.st \in Active
  /\ conn' = IF "CHECK_WRITESPACE" \in conn.flags THEN Writable(conn, pcb.buf) ELSE conn
  /\ UNCHANGED <<pcb, app, core>>

\* poll_tcp, every second.
poll_tcp ==
  /\ Unlocked
  /\ pcb.st \in Active
  /\ UNCHANGED core
  /\ \E r \in Continue(pcb) :
       /\ conn' = IF "CHECK_WRITESPACE" \in r.c.flags
                  THEN Writable(r.c, r.p.buf) ELSE r.c
       /\ pcb' = r.p /\ app' = r.a

\* Mutant of err_tcp: the mailbox is not marked closed.
err_tcpOpen(err) ==
  /\ pcb' = Free
  /\ conn' = [conn EXCEPT !.pcb = FALSE, !.err = err, !.state = "NONE"]
  /\ core' = [pc |-> "err", err |-> err, old |-> conn.state]
  /\ UNCHANGED app

\* err_tcp up to SYS_ARCH_UNPROTECT: the pcb is gone.  Then the events, then
\* the message in the mailbox and the waiting call.
err_tcp(err) ==
  /\ pcb' = Free
  /\ conn' = [conn EXCEPT !.pcb = FALSE, !.err = err, !.state = "NONE",
                          !.flags = @ \cup {"MBOXCLOSED"}]
  /\ core' = [pc |-> "err", err |-> err, old |-> conn.state]
  /\ UNCHANGED app

ErrEvents ==
  /\ core.pc = "err"
  /\ conn' = [conn EXCEPT !.rcvevent = @ + 1, !.sendevent = TRUE]
  /\ core' = [core EXCEPT !.pc = "post"]
  /\ UNCHANGED <<pcb, app>>

\* sys_mbox_trypost: a full mailbox takes nothing.
trypost(c, m) ==
  IF c.valid /\ Len(c.box) < BoxSize THEN [c EXCEPT !.box = Append(@, m)] ELSE c

ErrPosts ==
  LET waits == core.old \in {"WRITE", "CONNECT"}
               /\ "IN_NONBLOCKING_CONNECT" \notin conn.flags
      c == trypost(conn, core.err)
  IN  /\ core.pc = "post"
      /\ conn' = [c EXCEPT !.flags = @ \ {"IN_NONBLOCKING_CONNECT"},
                           !.cur = IF waits THEN FALSE ELSE @,
                           !.op_completed = IF waits THEN @ + 1 ELSE @]
      /\ app' = IF waits THEN [app EXCEPT !.err = core.err] ELSE app
      /\ core' = Idle
      /\ UNCHANGED pcb

\* TCP gives up the connection or the peer resets it.
Reset ==
  /\ Unlocked /\ pcb.st \in Active
  /\ \E err \in {"RST", "ABRT"} : err_tcp(err)

-----------------------------------------------------------------------------
(* Receiving.                                                              *)

\* Mutant of recv_tcp: no event for the end of the stream.
recv_tcpSilent(m, fin) ==
  /\ conn' = trypost(conn, m)
  /\ core' = IF m = "CLSD" THEN Idle ELSE [pc |-> "plus", fin |-> fin]

\* recv_tcp of a pbuf or of the end of the stream ("CLSD") that the mailbox
\* has room for: the event follows.  fin: tcp_input reports the end of the
\* stream next.
recv_tcp(m, fin) ==
  /\ conn' = trypost(conn, m)
  /\ core' = [pc |-> "plus", fin |-> fin]

RcvPlus ==
  /\ core.pc = "plus"
  /\ conn' = [conn EXCEPT !.rcvevent = @ + 1]
  /\ core' = IF core.fin THEN [pc |-> "fin"] ELSE Idle
  /\ UNCHANGED <<pcb, app>>

Full == Len(conn.box) = BoxSize

\* TCP_EVENT_CLOSED: of what recv_tcp returns, its callers look only for
\* ERR_ABRT.  After shutdown(RD) the pcb has no recv callback.
Closed ==
  \/ /\ ~ Full /\ ~ pcb.rxclosed
     /\ recv_tcp("CLSD", FALSE)
  \/ /\ Full \/ pcb.rxclosed
     /\ core' = Idle /\ UNCHANGED conn

RecvClosed ==
  /\ core.pc = "fin"
  /\ Closed
  /\ UNCHANGED <<pcb, app>>

\* The states that the peer's FIN leads to.
AfterFin == IF pcb.st = "ESTABLISHED" THEN {"CLOSE_WAIT"} ELSE {"CLOSING", "TIME_WAIT"}

\* tcp_input of a segment with data, and with the FIN as well when fin.
Receive(fin) ==
  /\ Unlocked
  /\ pcb.st \in {"ESTABLISHED", "FIN_WAIT"} /\ ~ pcb.fin
  /\ pcb.sent < Items /\ pcb.refused = <<>>
  /\ \/ pcb.rxclosed /\ err_tcp("ABRT")
     \/ /\ ~ pcb.rxclosed
        /\ \E st \in IF fin THEN AfterFin ELSE {pcb.st} :
             pcb' = [pcb EXCEPT !.st = st, !.sent = @ + 1, !.fin = fin,
                                !.refused = IF Full THEN <<fin>> ELSE <<>>]
        /\ IF Full THEN UNCHANGED <<conn, core>> ELSE recv_tcp("data", fin)
        /\ UNCHANGED app

\* tcp_process_refused_data that the mailbox has room for.
RetryRefused ==
  /\ Unlocked
  /\ pcb.st \in Active /\ pcb.refused # <<>> /\ ~ Full
  /\ recv_tcp("data", pcb.refused[1])
  /\ pcb' = [pcb EXCEPT !.refused = <<>>]
  /\ UNCHANGED app

\* tcp_input of a FIN alone.  While data is refused it is dropped.
ReceiveFin ==
  /\ Unlocked
  /\ pcb.st \in {"ESTABLISHED", "FIN_WAIT"} /\ ~ pcb.fin /\ pcb.refused = <<>>
  /\ \E st \in AfterFin : pcb' = [pcb EXCEPT !.st = st, !.fin = TRUE]
  /\ Closed
  /\ UNCHANGED app

\* The acknowledgement of our FIN after the peer's.
FinAcked ==
  /\ Unlocked
  /\ \/ /\ pcb.st = "CLOSING"
        /\ pcb' = [pcb EXCEPT !.st = "TIME_WAIT"]
        /\ UNCHANGED <<conn, core, app>>
     \/ /\ pcb.st = "LAST_ACK" /\ ~ pcb.rxclosed
        /\ err_tcp("CLSD")

\* The pcb is freed and no callback says so: its two minutes in TIME_WAIT are
\* over, or the last ACK came after the application shut down both sides.
Reaped ==
  /\ Unlocked
  /\ pcb.st = "TIME_WAIT" \/ (pcb.st = "LAST_ACK" /\ pcb.rxclosed)
  /\ pcb' = Free
  /\ UNCHANGED <<conn, core, app>>

-----------------------------------------------------------------------------
(* Closing.                                                                *)

netconn_drain(c) == [c EXCEPT !.box = <<>>, !.valid = FALSE]

\* lwip_netconn_do_close_internal.  Shutting down the second side closes.
ShutClose(how) ==
  \/ how = {"RD", "WR"}
  \/ "RD" \in how /\ pcb.st \in {"FIN_WAIT", "CLOSING"}
  \/ "WR" \in how /\ pcb.rxclosed

ShutEvents(c, how) ==
  [c EXCEPT !.rcvevent = IF "RD" \in how THEN @ + 1 ELSE @,
            !.sendevent = @ \/ "WR" \in how]

lwip_netconn_do_close_internal(c, how) ==
  \/ /\ ShutClose(how)
     /\ pcb' = Free
     /\ conn' = ShutEvents([c EXCEPT !.pcb = FALSE], how)
  \/ /\ ~ ShutClose(how)
     /\ \/ /\ "RD" \in how
           /\ pcb' = [pcb EXCEPT !.rxclosed = TRUE, !.refused = <<>>]
           /\ conn' = ShutEvents(c, how)
        \/ /\ "WR" \in how /\ pcb.st \in Sending
           /\ pcb' = [pcb EXCEPT !.st = IF @ = "ESTABLISHED" THEN "FIN_WAIT" ELSE "LAST_ACK"]
           /\ conn' = ShutEvents(c, how)
        \/ /\ "WR" \in how /\ pcb.st \notin Sending
           /\ conn' = c /\ UNCHANGED pcb

\* netconn_close, netconn_shutdown and lwip_netconn_do_close.
lwip_netconn_do_close(how) ==
  IF conn.pcb /\ conn.state = "NONE"
  THEN lwip_netconn_do_close_internal(IF "RD" \in how THEN netconn_drain(conn) ELSE conn, how)
  ELSE UNCHANGED <<conn, pcb>>

\* Bound: the application shuts down the receiving side once.
Shutdown(how) ==
  /\ app = Idle /\ Unlocked /\ conn.state # "deleted" /\ pcb.st # "CLOSED"
  /\ "RD" \in how => conn.valid
  /\ lwip_netconn_do_close(how)
  /\ UNCHANGED <<app, core>>

\* netconn_delete, lwip_netconn_do_delconn and netconn_free.
netconn_delete ==
  /\ app = Idle /\ Unlocked /\ conn.state # "deleted"
  /\ conn' = [netconn_drain(netconn_alloc) EXCEPT !.state = "deleted", !.pcb = FALSE]
  /\ pcb' = Free
  /\ UNCHANGED <<app, core>>

-----------------------------------------------------------------------------
(* Reading: netconn_recv_data_tcp.  At "more", lwip_recv_tcp has data      *)
(* already and asks for more (NETCONN_DONTBLOCK | NETCONN_NOFIN).          *)

\* What a read does first.  Whether it may block is decided here.
RecvEnter ==
  /\ app.pc \in {"idle", "more"} /\ conn.valid /\ pcb.st # "CLOSED"
  /\ app' = IF "FIN_RX_PENDING" \in conn.flags
            THEN [pc |-> "clear", saved |-> conn.flags]
            ELSE [pc |-> IF app.pc = "more" \/ "MBOXCLOSED" \in conn.flags \/ conn.err # "OK"
                         THEN "tryfetch" ELSE "fetch",
                  more |-> app.pc = "more"]
  /\ UNCHANGED <<conn, pcb, core>>

\* sys_arch_mbox_fetch and sys_arch_mbox_tryfetch, of a message.  An error
\* ends the call, a pbuf is counted, the end of the stream is handled.
Fetch ==
  /\ app.pc \in {"fetch", "tryfetch"} /\ conn.box # <<>>
  /\ conn' = [conn EXCEPT !.box = Tail(@)]
  /\ app' = CASE Head(conn.box) = "data" -> [pc |-> "minus"]
              [] Head(conn.box) = "CLSD" -> [pc |-> IF app.more THEN "load" ELSE "fin"]
              [] OTHER -> Idle
  /\ UNCHANGED <<pcb, core>>

\* sys_arch_mbox_tryfetch of an empty mailbox: netconn_err.
FetchEmpty ==
  /\ app.pc = "tryfetch" /\ conn.box = <<>>
  /\ conn' = [conn EXCEPT !.err = "OK"]
  /\ app' = Idle
  /\ UNCHANGED <<pcb, core>>

RcvMinus ==
  /\ app.pc = "minus"
  /\ conn' = [conn EXCEPT !.rcvevent = @ - 1]
  /\ app' = Idle \/ (More /\ app' = [pc |-> "more"])
  /\ UNCHANGED <<pcb, core>>

\* netconn_set_flags and netconn_clear_flags read conn->flags and write it
\* back, without the core lock.
LoadFlags ==
  /\ app.pc = "load"
  /\ app' = [pc |-> "set", saved |-> conn.flags]
  /\ UNCHANGED <<conn, pcb, core>>

StoreFlags ==
  /\ app.pc \in {"set", "clear"}
  /\ conn' = [conn EXCEPT !.flags = IF app.pc = "set"
                                    THEN app.saved \cup {"FIN_RX_PENDING"}
                                    ELSE app.saved \ {"FIN_RX_PENDING"}]
  /\ app' = IF app.pc = "set" THEN Idle ELSE [pc |-> "fin"]
  /\ UNCHANGED <<pcb, core>>

\* handle_fin.
HandleFin ==
  /\ app.pc = "fin"
  /\ conn' = [conn EXCEPT !.rcvevent = @ - 1, !.err = IF conn.pcb THEN @ ELSE "OK"]
  /\ app' = IF conn.pcb THEN [pc |-> "shut"] ELSE Idle
  /\ UNCHANGED <<pcb, core>>

HandleFinShut ==
  /\ app.pc = "shut" /\ Unlocked
  /\ lwip_netconn_do_close({"RD"})
  /\ app' = Idle
  /\ UNCHANGED core

-----------------------------------------------------------------------------
AppCalls ==
  \/ \E vec \in Vectors, nb \in BOOLEAN : lwip_netconn_do_write(vec, nb)
  \/ \E nb \in BOOLEAN : lwip_netconn_do_connect(nb)
  \/ \E how \in Hows : Shutdown(how)
  \/ RecvEnter
  \/ netconn_delete

AppSteps ==
  \/ SemWait \/ Woken
  \/ Fetch \/ FetchEmpty \/ RcvMinus \/ HandleFin \/ HandleFinShut

FlagSteps == LoadFlags \/ StoreFlags

CoreSteps == ErrEvents \/ ErrPosts \/ RcvPlus \/ RecvClosed

Tcp ==
  \/ lwip_netconn_do_connected \/ sent_tcp \/ poll_tcp \/ Reset
  \/ \E fin \in BOOLEAN : Receive(fin)
  \/ ReceiveFin \/ RetryRefused \/ FinAcked

Next == AppCalls \/ AppSteps \/ CoreSteps \/ Tcp

Spec == Init /\ [][Next]_vars

\* With the reads that keep the end of the stream for later.
SpecMore == Init /\ [][Next \/ FlagSteps]_vars

\* With the pcb freed in silence.
SpecReaped == Init /\ [][Next \/ Reaped]_vars

HandshakeEnds == (lwip_netconn_do_connected \/ Reset) /\ pcb.st = "SYN_SENT"
Acknowledged == (sent_tcp \/ Reset) /\ pcb.buf < SndBuf

\* A call goes on when it can and the core ends its callbacks.  TCP ends a
\* handshake one way or the other, has its data acknowledged or resets the
\* connection, polls, and presents refused data again.
Fairness ==
  /\ WF_vars(AppSteps)
  /\ WF_vars(CoreSteps)
  /\ WF_vars(HandshakeEnds)
  /\ WF_vars(Acknowledged)
  /\ WF_vars(poll_tcp)
  /\ WF_vars(RetryRefused)

FairSpec == Spec /\ Fairness

-----------------------------------------------------------------------------
(* Properties.                                                             *)

\* A call that waits is woken exactly once, by the callback that finished its
\* own operation: op_completed never holds a signal that a later call would
\* take for its own, and conn->current_msg and conn->state are those of the
\* waiting call until then (the assertions "already writing or closing",
\* "conn->current_msg != NULL" and "state!" of api_msg.c, and "do_write failed
\* to write all bytes" of api_lib.c:1072).
WokenOnce ==
  LET waits == app.pc = "sem" /\ conn.op_completed = 0
  IN  /\ conn.op_completed \in {0, 1}
      /\ conn.op_completed = 1 => app.pc = "sem" /\ app.err # "again"
      /\ conn.cur <=> waits
      /\ conn.cur /\ Unlocked =>
           conn.state = (IF app.op = "write" THEN "WRITE" ELSE "CONNECT")
      /\ ~ conn.cur => conn.state # "WRITE"
      /\ app.pc = "woken" /\ app.op = "write" /\ app.err = "OK" =>
           app.off = Total(app.vec)

\* err_tcp says that it prevents application threads from blocking on the
\* mailbox: once it is done, no read waits on an empty mailbox, also when the
\* message did not fit and when the read made up its mind before the error.
DeadNeverBlocks ==
  ~ (~ conn.pcb /\ Unlocked /\ app.pc = "fetch" /\ conn.box = <<>>)

\* Between calls and callbacks, the socket's count of receive events covers
\* what is in the mailbox, so select reports a socket that has data, an error
\* or the end of the stream to read.
ReadableCounted ==
  (app = Idle /\ Unlocked /\ conn.valid) => conn.rcvevent >= Len(conn.box)

\* The application, the netconn and its mailbox agree at every step.
ConnectionSound == WokenOnce /\ DeadNeverBlocks /\ ReadableCounted

\* The netconn never refers to a pcb that TCP has freed: tcp_in.c:608 reports
\* the end of a connection to an application that shut down one side "to
\* ensure the application doesn't continue using the PCB".
PcbAlive == conn.pcb => pcb.st # "freed"

\* A blocking connect or write returns.
CallsReturn == (app.pc = "sem") ~> (app.pc = "idle")

\* A socket that select reports as not writable becomes writable, or is
\* deleted: after each write that SENDMINUS announces there is a callback left
\* that finds the room.
WritableAgain == (~ conn.sendevent) ~> conn.sendevent

\* The peer's end of stream reaches an application that waits for it: recv_tcp
\* says of what the mailbox refuses that it is presented again later.
EndSeen == (pcb.fin /\ conn.valid /\ app.pc = "fetch") ~> (app.pc # "fetch")
=============================================================================
