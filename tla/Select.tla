------------------------------- MODULE Select -------------------------------
(***************************************************************************)
(* Waiting for sockets: lwip_select and lwip_poll against event_callback   *)
(* (lwip-2.1.3/src/api/sockets.c).                                         *)
(*                                                                         *)
(* Application threads scan the sockets they are interested in one at a    *)
(* time, put themselves on select_cb_list, count themselves in each        *)
(* socket's select_waiting, scan again and sleep on a semaphore of their   *)
(* own.  The core reports what happens to a connection through             *)
(* event_callback, which updates the socket's event counters under         *)
(* SYS_ARCH_PROTECT and then, with the core lock but without the           *)
(* protection, walks the list and signals whoever waits for the event.     *)
(* LWIP_TCPIP_CORE_LOCKING is 1, so select_cb_list is protected by the     *)
(* core lock; LWIP_NETCONN_FULLDUPLEX is 0, so every index below           *)
(* NUM_SOCKETS is a valid socket to a scan, and closing a socket another   *)
(* thread waits for is the application's error: it is not modelled.        *)
(***************************************************************************)
EXTENDS Integers, FiniteSets

CONSTANTS
  NumSocks,  \* NUM_SOCKETS
  Selects,   \* threads that call lwip_select
  Polls,     \* threads that call lwip_poll
  SelWants,  \* what lwip_select may ask for: sequences of sets of "r", "w", "e"
  PollWants, \* what lwip_poll may ask for
  Kinds,     \* for each socket, the events its connection may report
  Accepts,   \* the sockets that lwip_accept makes; lwip_socket the others
  WaitMod,   \* select_waiting counts modulo this (2^8 for SELWAIT_T u8_t)
  BoxSize    \* messages a connection's receive mailbox holds

Threads == Selects \cup Polls
Socks == 1..NumSocks

ASSUME SelectAssumption ==
  /\ NumSocks \in Nat \ {0}
  /\ Selects \cap Polls = {} /\ IsFiniteSet(Selects \cup Polls)
  /\ WaitMod \in Nat \ {0, 1} /\ BoxSize \in Nat \ {0}
  /\ Accepts \subseteq Socks
  /\ Kinds \in [Socks -> SUBSET {"rcvplus", "sendplus", "sendminus", "error"}]
  /\ SelWants \cup PollWants \subseteq [Socks -> SUBSET {"r", "w", "e"}]

VARIABLES
  sock,     \* the sockets: their state, their event counters, their mailbox
  th,       \* what each thread is doing
  list,     \* select_cb_list: the threads on it (a walk visits them all, in any order)
  core,     \* event_callback: where it is; "free" when no one holds the lock
  aborted   \* an LWIP_ASSERT failed: the program stopped

vars == <<sock, th, list, core, aborted>>

-----------------------------------------------------------------------------
(* Sockets.  state is "none" (no connection), "new" (TCP accepted the       *)
(* connection, no socket yet), "alloc" (lwip_accept has the slot, the       *)
(* connection does not know it yet), "replay" and "open".  early is         *)
(* -1 - conn->socket while that is negative.                                *)

NoSock == [state |-> "none", rcv |-> 0, send |-> FALSE, err |-> FALSE,
           last |-> FALSE, waiting |-> 0, early |-> 0, box |-> 0,
           fetched |-> "no"]

IdleThread == [pc |-> "idle", want |-> [s \in Socks |-> {}], i |-> 1,
               ready |-> FALSE, limit |-> NumSocks, rescan |-> TRUE,
               signalled |-> FALSE, sem |-> 0]

FreeCore == [pc |-> "free", s |-> 1, evt |-> "none", has |-> {}, left |-> 0]

Init ==
  /\ sock = [s \in Socks |-> NoSock]
  /\ th = [t \in Threads |-> IdleThread]
  /\ list = {}
  /\ core = FreeCore
  /\ aborted = FALSE

Locked == core.pc # "free"

\* What a scan sees of a socket.
Events(k) == {e \in {"r", "w", "e"} :
                \/ e = "r" /\ k.rcv > 0
                \/ e = "w" /\ k.send
                \/ e = "e" /\ k.err}
Seen(k) == Events(k) \cup (IF k.last THEN {"r"} ELSE {})

\* POLLERR is reported whether it was asked for or not.
Asked(t, s) == th[t].want[s] \cup
               (IF t \in Polls /\ th[t].want[s] # {} THEN {"e"} ELSE {})

-----------------------------------------------------------------------------
(* event_callback.  Step one is under SYS_ARCH_PROTECT; the walk of the     *)
(* list follows outside it, still under the core lock.                      *)

\* The event applied to the socket, and whether the waiters are checked.
Apply(k, evt) ==
  CASE evt = "rcvplus"   -> [k EXCEPT !.rcv = @ + 1]
    [] evt = "sendplus"  -> [k EXCEPT !.send = TRUE]
    [] evt = "sendminus" -> [k EXCEPT !.send = FALSE]
    [] evt = "error"     -> [k EXCEPT !.err = TRUE]

Checks(k, evt) ==
  CASE evt = "rcvplus"   -> k.rcv + 1 <= 1
    [] evt = "sendplus"  -> ~k.send
    [] evt = "sendminus" -> FALSE
    [] evt = "error"     -> TRUE

\* Done with one callback: lwip_accept repeats it for the data that came
\* before the socket existed, and then the lock is released.
Done(c) == IF c.left > 0 THEN [c EXCEPT !.pc = "event", !.left = @ - 1]
                         ELSE FreeCore

event_callback ==
  /\ core.pc = "event"
  /\ LET k == sock[core.s]
         known == k.state \in {"replay", "open"}
         after == IF known THEN Apply(k, core.evt)
                  ELSE IF core.evt = "rcvplus" THEN [k EXCEPT !.early = @ + 1]
                  ELSE k
     IN  /\ sock' = [sock EXCEPT ![core.s] = after]
         /\ core' = IF known /\ after.waiting > 0 /\ Checks(k, core.evt)
                    THEN [core EXCEPT !.pc = "check", !.has = Events(after)]
                    ELSE Done(core)
  /\ UNCHANGED <<th, list, aborted>>

select_check_waiters ==
  /\ core.pc = "check"
  /\ th' = [t \in Threads |->
              IF /\ t \in list
                 /\ ~th[t].signalled
                 /\ Asked(t, core.s) \cap core.has # {}
              THEN [th[t] EXCEPT !.signalled = TRUE, !.sem = @ + 1]
              ELSE th[t]]
  /\ core' = Done(core)
  /\ UNCHANGED <<sock, list, aborted>>

-----------------------------------------------------------------------------
(* What happens to the connections.                                         *)

\* recv_tcp posts a message and then reports it.
Post(s) ==
  /\ ~Locked
  /\ "rcvplus" \in Kinds[s] /\ sock[s].state # "none" /\ sock[s].box < BoxSize
  /\ sock' = [sock EXCEPT ![s].box = @ + 1]
  /\ core' = [FreeCore EXCEPT !.pc = "event", !.s = s, !.evt = "rcvplus"]
  /\ UNCHANGED <<th, list, aborted>>

\* sent_tcp and poll_tcp, lwip_netconn_do_writemore, err_tcp.
Report(s, evt) ==
  /\ ~Locked
  /\ evt \in Kinds[s] /\ sock[s].state # "none"
  /\ core' = [FreeCore EXCEPT !.pc = "event", !.s = s, !.evt = evt]
  /\ UNCHANGED <<sock, th, list, aborted>>

\* lwip_socket: a TCP socket is not writable before it is connected.
lwip_socket(s) ==
  /\ s \notin Accepts /\ sock[s].state = "none"
  /\ aborted' = (sock[s].waiting # 0)
  /\ sock' = [sock EXCEPT ![s] = [NoSock EXCEPT !.state = "open",
                                                 !.waiting = sock[s].waiting]]
  /\ UNCHANGED <<th, list, core>>

\* A listener's new connection: conn->socket is -1.
Arrive(s) ==
  /\ s \in Accepts /\ sock[s].state = "none"
  /\ sock' = [sock EXCEPT ![s].state = "new", ![s].early = 0, ![s].box = 0]
  /\ UNCHANGED <<th, list, core, aborted>>

\* lwip_accept: take a slot of sockets[] ...
AcceptAlloc(s) ==
  /\ sock[s].state = "new"
  /\ aborted' = (sock[s].waiting # 0)
  /\ sock' = [sock EXCEPT ![s].state = "alloc", ![s].rcv = 0, ![s].send = TRUE,
                          ![s].err = FALSE, ![s].last = FALSE]
  /\ UNCHANGED <<th, list, core>>

\* ... tell the connection its number (protected) ...
AcceptNumber(s) ==
  /\ sock[s].state = "alloc"
  /\ sock' = [sock EXCEPT ![s].state = "replay"]
  /\ UNCHANGED <<th, list, core, aborted>>

\* ... and report what came in before, under the core lock.
AcceptReplay(s) ==
  /\ sock[s].state = "replay" /\ ~Locked
  /\ sock' = [sock EXCEPT ![s].state = "open", ![s].early = 0]
  /\ core' = IF sock[s].early = 0 THEN core
             ELSE [FreeCore EXCEPT !.pc = "event", !.s = s, !.evt = "rcvplus",
                                   !.left = sock[s].early - 1]
  /\ UNCHANGED <<th, list, aborted>>

\* lwip_recv: netconn_recv_data takes a message ...
Fetch(s) ==
  /\ sock[s].state = "open" /\ sock[s].box > 0
  /\ sock[s].fetched = "no" /\ ~sock[s].last
  /\ sock' = [sock EXCEPT ![s].box = @ - 1, ![s].fetched = "taken"]
  /\ UNCHANGED <<th, list, core, aborted>>

\* ... event_callback counts it down, without the core lock ...
RcvMinus(s) ==
  /\ sock[s].fetched = "taken"
  /\ sock' = [sock EXCEPT ![s].rcv = @ - 1, ![s].fetched = "counted"]
  /\ UNCHANGED <<th, list, core, aborted>>

\* ... it becomes lastdata ...
KeepLast(s) ==
  /\ sock[s].fetched = "counted"
  /\ sock' = [sock EXCEPT ![s].last = TRUE, ![s].fetched = "no"]
  /\ UNCHANGED <<th, list, core, aborted>>

\* ... until this call or a later one has copied all of it.
RecvRest(s) ==
  /\ sock[s].last
  /\ sock' = [sock EXCEPT ![s].last = FALSE]
  /\ UNCHANGED <<th, list, core, aborted>>

\* lwip_close, by an application no thread of which is using the socket.  The
\* counters are stale until alloc_socket clears them; nothing reads them.
lwip_close(s) ==
  /\ sock[s].state = "open" /\ sock[s].fetched = "no" /\ ~Locked
  /\ \A t \in Threads : th[t].want[s] = {}
  /\ sock' = [sock EXCEPT ![s] = [NoSock EXCEPT !.waiting = sock[s].waiting]]
  /\ UNCHANGED <<th, list, core, aborted>>
-----------------------------------------------------------------------------
(* lwip_select and lwip_poll.  A scan handles one socket at a time, each    *)
(* under SYS_ARCH_PROTECT.                                                  *)

Set(t, r) == th' = [th EXCEPT ![t] = r]

Watched(t) == th[t].want[th[t].i] # {}

\* One socket of a scan: the reader reads the events of socket i.
Saw(t) == th[t].ready \/ Asked(t, th[t].i) \cap Seen(sock[th[t].i]) # {}

Call(t) ==
  /\ th[t].pc = "idle"
  /\ \E w \in IF t \in Selects THEN SelWants ELSE PollWants :
       /\ \A s \in Socks : w[s] # {} => sock[s].state = "open"
       /\ Set(t, [IdleThread EXCEPT !.pc = "scan", !.want = w])
  /\ UNCHANGED <<sock, list, core, aborted>>

\* lwip_selscan, and lwip_pollscan with LWIP_POLLSCAN_CLEAR or no option.
Scan(t) ==
  /\ th[t].pc \in {"scan", "rescan", "result"} /\ th[t].i <= NumSocks
  /\ Set(t, [th[t] EXCEPT !.i = @ + 1, !.ready = Saw(t)])
  /\ UNCHANGED <<sock, list, core, aborted>>

\* After the first scan the call returns when a socket is ready, when its
\* timeout is zero or when there is no semaphore; else it gets on the list.
Scanned(t) ==
  /\ th[t].pc = "scan" /\ th[t].i > NumSocks
  /\ \/ Set(t, IdleThread)
     \/ ~th[t].ready /\ Set(t, [th[t] EXCEPT !.pc = "link"])
  /\ UNCHANGED <<sock, list, core, aborted>>

lwip_link_select_cb(t) ==
  /\ th[t].pc = "link" /\ ~Locked
  /\ list' = list \cup {t}
  /\ Set(t, [th[t] EXCEPT !.pc = "inc", !.i = 1])
  /\ UNCHANGED <<sock, core, aborted>>

\* Would counting one more thread in wrap the socket's select_waiting?
Full(t) == Watched(t) /\ (sock[th[t].i].waiting + 1) % WaitMod = 0

Counted(t) == [sock EXCEPT ![th[t].i].waiting = IF Watched(t) THEN @ + 1 ELSE @]
Uncounted(t) == [sock EXCEPT ![th[t].i].waiting = IF Watched(t) /\ @ > 0
                                                  THEN @ - 1 ELSE @]

\* lwip_select counts itself in; at a full socket it gives up, and uncounts
\* itself only below that one.
IncWaiting(t) ==
  /\ t \in Selects /\ th[t].pc = "inc" /\ th[t].i <= NumSocks
  /\ \/ /\ ~Full(t) /\ sock' = Counted(t)
        /\ Set(t, [th[t] EXCEPT !.i = @ + 1])
     \/ /\ Full(t) /\ sock' = sock
        /\ Set(t, [th[t] EXCEPT !.pc = "dec", !.i = 1, !.limit = th[t].i - 1,
                                !.rescan = FALSE])
  /\ UNCHANGED <<list, core, aborted>>

\* Mutant of Waiting: lwip_select does not scan a second time.
WaitingUnscanned(t) ==
  /\ t \in Selects /\ th[t].pc = "inc" /\ th[t].i > NumSocks
  /\ Set(t, [th[t] EXCEPT !.i = 1, !.pc = "wait"])
  /\ UNCHANGED <<sock, list, core, aborted>>

\* Counted in everywhere, it scans again.
Waiting(t) ==
  /\ t \in Selects /\ th[t].pc = "inc" /\ th[t].i > NumSocks
  /\ Set(t, [th[t] EXCEPT !.i = 1, !.pc = "rescan"])
  /\ UNCHANGED <<sock, list, core, aborted>>

\* lwip_pollscan with LWIP_POLLSCAN_INC_WAIT counts poll in and reads the
\* events; at a full socket it leaves the loop with nready = -1, which its
\* closing assertion forbids.
PollIncWait(t) ==
  /\ t \in Polls /\ th[t].pc = "inc" /\ th[t].i <= NumSocks
  /\ aborted' = Full(t)
  /\ sock' = IF Full(t) THEN sock ELSE Counted(t)
  /\ Set(t, [th[t] EXCEPT !.i = @ + 1, !.ready = Saw(t)])
  /\ UNCHANGED <<list, core>>

PollWaiting(t) ==
  /\ t \in Polls /\ th[t].pc = "inc" /\ th[t].i > NumSocks
  /\ Set(t, [th[t] EXCEPT !.i = 1, !.pc = IF th[t].ready THEN "dec" ELSE "wait"])
  /\ UNCHANGED <<sock, list, core, aborted>>

Rescanned(t) ==
  /\ th[t].pc = "rescan" /\ th[t].i > NumSocks
  /\ Set(t, [th[t] EXCEPT !.i = 1, !.pc = IF th[t].ready THEN "dec" ELSE "wait"])
  /\ UNCHANGED <<sock, list, core, aborted>>

\* Woken, or the timeout came first (a call without one is one whose timeout
\* never comes).
SemWait(t) ==
  /\ th[t].pc = "wait"
  /\ \/ th[t].sem > 0 /\ Set(t, [th[t] EXCEPT !.pc = "dec", !.sem = @ - 1])
     \/ th[t].sem = 0 /\ Set(t, [th[t] EXCEPT !.pc = "dec", !.rescan = FALSE])
  /\ UNCHANGED <<sock, list, core, aborted>>

DecWaiting(t) ==
  /\ t \in Selects /\ th[t].pc = "dec" /\ th[t].i <= th[t].limit
  /\ aborted' = (Watched(t) /\ sock[th[t].i].waiting = 0)
  /\ sock' = Uncounted(t)
  /\ Set(t, [th[t] EXCEPT !.i = @ + 1])
  /\ UNCHANGED <<list, core>>

\* lwip_pollscan with LWIP_POLLSCAN_DEC_WAIT reads the events once more.
PollDecWait(t) ==
  /\ t \in Polls /\ th[t].pc = "dec" /\ th[t].i <= NumSocks
  /\ aborted' = (Watched(t) /\ sock[th[t].i].waiting = 0)
  /\ sock' = Uncounted(t)
  /\ Set(t, [th[t] EXCEPT !.i = @ + 1, !.ready = Saw(t)])
  /\ UNCHANGED <<list, core>>

\* Off the list; a select that was woken looks at the sockets again.
lwip_unlink_select_cb(t) ==
  /\ th[t].pc = "dec" /\ th[t].i > th[t].limit /\ ~Locked
  /\ list' = list \ {t}
  /\ Set(t, IF t \in Polls \/ ~th[t].rescan THEN IdleThread
            ELSE [th[t] EXCEPT !.pc = "result", !.i = 1, !.ready = FALSE])
  /\ UNCHANGED <<sock, core, aborted>>

Return(t) ==
  /\ th[t].pc = "result" /\ th[t].i > NumSocks
  /\ Set(t, IdleThread)
  /\ UNCHANGED <<sock, list, core, aborted>>

-----------------------------------------------------------------------------
ThreadStep(t) ==
  \/ Call(t) \/ Scan(t) \/ Scanned(t) \/ lwip_link_select_cb(t)
  \/ IncWaiting(t) \/ Waiting(t) \/ Rescanned(t) \/ SemWait(t) \/ DecWaiting(t)
  \/ PollIncWait(t) \/ PollWaiting(t) \/ PollDecWait(t) \/ lwip_unlink_select_cb(t) \/ Return(t)

SocketStep(s) ==
  \/ Post(s) \/ (\E evt \in {"sendplus", "sendminus", "error"} : Report(s, evt))
  \/ lwip_socket(s) \/ Arrive(s) \/ AcceptAlloc(s) \/ AcceptNumber(s)
  \/ AcceptReplay(s) \/ Fetch(s) \/ RcvMinus(s) \/ KeepLast(s) \/ RecvRest(s) \/ lwip_close(s)

\* abort() ends the program.
Next ==
  /\ ~aborted
  /\ \/ event_callback \/ select_check_waiters
     \/ \E t \in Threads : ThreadStep(t)
     \/ \E s \in Socks : SocketStep(s)

Spec == Init /\ [][Next]_vars

-----------------------------------------------------------------------------
(* Properties.                                                              *)

(* No lost wake-up: a thread that sleeps in lwip_select or lwip_poll and has *)
(* not been signalled waits for sockets none of which has an event it asked  *)
(* for, once the event_callback that reported it has returned -- although    *)
(* the event may have come between any two of its scans, its linking and     *)
(* its counting itself in, and although another thread consumes events.      *)
(* (lastdata is no event: what another thread's lwip_recv leaves there is    *)
(* seen by a scan but wakes nobody.)                                         *)
NoLostWakeup ==
  \A t \in Threads :
    (th[t].pc = "wait" /\ th[t].sem = 0 /\ ~Locked /\ ~aborted) =>
      \A s \in Socks : Asked(t, s) \cap Events(sock[s]) = {}

(* The assertions of the waiting code hold: a poll that meets a full         *)
(* select_waiting reports it (sockets.c:2279 asserts nready >= 0), no thread *)
(* uncounts itself from a socket nobody is counted in, and a socket is       *)
(* allocated with select_waiting = 0.                                        *)
AssertsHold == ~aborted
=============================================================================
