------------------------------ MODULE Timeouts ------------------------------
(***************************************************************************)
(* The timeout list of core/timeouts.c and the thread that serves it, the  *)
(* tcpip thread of api/tcpip.c: it sleeps in its mailbox for as long as    *)
(* the first timer allows, without the core lock, and runs handlers with   *)
(* it.  Other threads start and cancel timers under the core lock while    *)
(* the tcpip thread sleeps (the netconn and socket calls do, with          *)
(* LWIP_TCPIP_CORE_LOCKING), which does not wake it up.                    *)
(*                                                                         *)
(* Times are u32_t: they wrap at Wrap, and are compared by the sign of     *)
(* their difference.  left is the true time each timer has left, negative  *)
(* when it is overdue: the model's own record, which the code cannot see.  *)
(***************************************************************************)
EXTENDS Integers, FiniteSets

CONSTANTS Wrap,      \* 2^32: one past the largest u32_t
          Cyclic,    \* the interval of each of lwip_cyclic_timers but TCP's
          TcpInterval,
          Shots,     \* other timers: one handler and argument each
          Delays,    \* the delays these are started with
          MaxBusy    \* bound: time the tcpip thread takes between two sleeps

TimesFit ==
    \A d \in Delays \cup {TcpInterval} \cup {Cyclic[c] : c \in DOMAIN Cyclic} :
        d \in 1 .. (Wrap - 1) \div 4

VARIABLES now,      \* sys_now()
          q,        \* the list: next pointers (q.next[Head] is next_timeout), times
          left, armed,    \* the timers started and not yet fired or cancelled
          pc,       \* where the tcpip thread is
          t0,       \* now in sys_check_timeouts
          due,      \* current_timeout_due_time
          firing,   \* the timer whose handler runs
          wake,     \* time until the tcpip thread's fetch returns
          busy,     \* time since it last slept
          active,   \* tcpip_tcp_timer_active
          pcbs,     \* tcp_active_pcbs or tcp_tw_pcbs not empty
          app       \* a sys_timeout in progress in another thread

vars == <<now, q, left, armed, pc, t0, due, firing, wake, busy, active, pcbs, app>>

Head    == "next_timeout"
Nil     == "NULL"
Forever == -1       \* SYS_TIMEOUTS_SLEEPTIME_INFINITE
Tcp     == "tcp"
Timers  == DOMAIN Cyclic \cup {Tcp} \cup Shots
Nodes   == Timers \cup {Head}

(* Mutant of TIME_LESS_THAN: the plain comparison, which knows no wrap.    *)
TIME_LESS_THANPlain(t, than) == t < than

TIME_LESS_THAN(t, than) == (t - than) % Wrap > Wrap \div 2 - 1

(***************************************************************************)
(* The list.                                                               *)
(***************************************************************************)
(* The node after which the loop of sys_timeout_abs puts a timer.          *)
Place(l, time) ==
    LET from[p \in Nodes] ==
            IF l.next[p] = Nil \/ TIME_LESS_THAN(time, l.time[l.next[p]])
            THEN p ELSE from[l.next[p]]
    IN  from[Head]

Link(l, t, time, p, succ) ==
    [next |-> [l.next EXCEPT ![t] = succ, ![p] = t],
     time |-> [l.time EXCEPT ![t] = time]]

sys_timeout_abs(l, t, time) ==
    LET p == Place(l, time) IN Link(l, t, time, p, l.next[p])

sys_untimeout(l, t) ==
    LET before == {p \in Nodes : l.next[p] = t}
    IN  [l EXCEPT !.next = [p \in Nodes |-> IF p = t THEN Nil
                                            ELSE IF p \in before THEN l.next[t]
                                            ELSE l.next[p]]]

(* Mutant of sys_timeouts_sleeptime: the time of the first timer, from 0.  *)
sys_timeouts_sleeptimeAbsolute ==
    IF q.next[Head] = Nil THEN Forever
    ELSE LET time == q.time[q.next[Head]]
         IN  IF TIME_LESS_THAN(time, now) THEN 0 ELSE time

sys_timeouts_sleeptime ==
    IF q.next[Head] = Nil THEN Forever
    ELSE LET time == q.time[q.next[Head]]
         IN  IF TIME_LESS_THAN(time, now) THEN 0 ELSE (time - now) % Wrap

(* Start timer t, ms from now: the list and the model's record of it.      *)
sys_timeout(l, ms, t) == sys_timeout_abs(l, t, (now + ms) % Wrap)
Started(t, ms) ==
    /\ armed' = armed \cup {t}
    /\ left' = [left EXCEPT ![t] = ms]

(***************************************************************************)
(* Init is the state after sys_timeouts_init, at any time of the clock.    *)
(***************************************************************************)
sys_timeouts_init(start) ==
    LET none  == [next |-> [p \in Nodes |-> Nil], time |-> [t \in Timers |-> 0]]
        Add[S \in SUBSET DOMAIN Cyclic] ==
            IF S = {} THEN none
            ELSE LET c == CHOOSE x \in S : TRUE
                 IN  sys_timeout_abs(Add[S \ {c}], c, (start + Cyclic[c]) % Wrap)
    IN  Add[DOMAIN Cyclic]

Idle == [t |-> Nil]

Init ==
    /\ now \in 0 .. Wrap - 1
    /\ q = sys_timeouts_init(now)
    /\ left = [t \in Timers |-> IF t \in DOMAIN Cyclic THEN Cyclic[t] ELSE 0]
    /\ armed = DOMAIN Cyclic
    /\ pc = "look" /\ t0 = 0 /\ due = 0 /\ firing = Nil /\ wake = 0 /\ busy = 0
    /\ active = FALSE /\ pcbs = FALSE /\ app = Idle

(***************************************************************************)
(* The tcpip thread: tcpip_timeouts_mbox_fetch, sys_check_timeouts and the *)
(* handlers, which take time.  It holds the core lock except in "sleep".   *)
(* A local variable is reset to 0 where the code no longer reads it.       *)
(***************************************************************************)
Sleep(time) == pc' = "sleep" /\ wake' = time /\ busy' = 0 /\ UNCHANGED t0
Check       == pc' = "check" /\ t0' = now /\ wake' = 0 /\ UNCHANGED busy

Look ==
    /\ pc = "look"
    /\ IF sys_timeouts_sleeptime = 0 THEN Check ELSE Sleep(sys_timeouts_sleeptime)
    /\ UNCHANGED <<now, q, left, armed, due, firing, active, pcbs, app>>

FetchTimesOut ==
    /\ pc = "sleep" /\ wake = 0
    /\ Check
    /\ UNCHANGED <<now, q, left, armed, due, firing, active, pcbs, app>>

FetchMessage ==
    /\ pc = "sleep"
    /\ pc' = "handle" /\ wake' = 0
    /\ UNCHANGED <<now, q, left, armed, t0, due, firing, busy, active, pcbs, app>>

Handled ==
    /\ pc = "handle"
    /\ pc' = "look"
    /\ UNCHANGED <<now, q, left, armed, t0, due, firing, wake, busy, active, pcbs, app>>

(* One round of the loop of sys_check_timeouts, up to the handler's call.  *)
sys_check_timeouts ==
    /\ pc = "check"
    /\ LET t == q.next[Head]
       IN  IF t = Nil \/ TIME_LESS_THAN(t0, q.time[t])
           THEN /\ pc' = "look" /\ t0' = 0
                /\ UNCHANGED <<q, armed, due, firing>>
           ELSE /\ q' = [q EXCEPT !.next[Head] = q.next[t], !.next[t] = Nil]
                /\ due' = q.time[t]
                /\ firing' = t
                /\ armed' = armed \ {t}
                /\ pc' = "fire" /\ UNCHANGED t0
    /\ UNCHANGED <<now, left, wake, busy, active, pcbs, app>>

Fired == /\ pc' = "check" /\ firing' = Nil /\ due' = 0
         /\ UNCHANGED <<now, t0, wake, busy, app>>

(* left[firing] is how late the timer is by now, as a negative number.     *)
lwip_cyclic_timer ==
    /\ pc = "fire" /\ firing \in DOMAIN Cyclic
    /\ LET next == (due + Cyclic[firing]) % Wrap
       IN  IF TIME_LESS_THAN(next, now)
           THEN /\ q' = sys_timeout_abs(q, firing, (now + Cyclic[firing]) % Wrap)
                /\ Started(firing, Cyclic[firing])
           ELSE /\ q' = sys_timeout_abs(q, firing, next)
                /\ Started(firing, left[firing] + Cyclic[firing])
    /\ Fired
    /\ UNCHANGED <<active, pcbs>>

(* tcp_tmr may end the last connection.                                    *)
tcpip_tcp_timer ==
    /\ pc = "fire" /\ firing = Tcp
    /\ pcbs' \in {pcbs, FALSE}
    /\ IF pcbs'
       THEN /\ q' = sys_timeout(q, TcpInterval, Tcp)
            /\ Started(Tcp, TcpInterval)
            /\ UNCHANGED active
       ELSE /\ active' = FALSE
            /\ left' = [left EXCEPT ![Tcp] = 0]
            /\ UNCHANGED <<q, armed>>
    /\ Fired

(* Another timer's handler, which may start its timer again.               *)
ShotFires ==
    /\ pc = "fire" /\ firing \in Shots
    /\ \/ left' = [left EXCEPT ![firing] = 0] /\ UNCHANGED <<q, armed>>
       \/ \E ms \in Delays : q' = sys_timeout(q, ms, firing) /\ Started(firing, ms)
    /\ Fired
    /\ UNCHANGED <<active, pcbs>>

(***************************************************************************)
(* Calls into the stack: from a message the tcpip thread handles, or from  *)
(* another thread that holds the core lock while the tcpip thread sleeps.  *)
(***************************************************************************)
MayCall == pc \in {"handle", "sleep"}

Start(t, ms) ==
    /\ MayCall /\ t \notin armed \cup {app.t}
    /\ q' = sys_timeout(q, ms, t)
    /\ Started(t, ms)
    /\ UNCHANGED <<now, pc, t0, due, firing, wake, busy, active, pcbs, app>>

Cancel(t) ==
    /\ MayCall /\ t \in armed
    /\ q' = sys_untimeout(q, t)
    /\ armed' = armed \ {t}
    /\ left' = [left EXCEPT ![t] = 0]
    /\ UNCHANGED <<now, pc, t0, due, firing, wake, busy, active, pcbs, app>>

(* TCP_REG puts a pcb on its list, then calls tcp_timer_needed.            *)
tcp_timer_needed ==
    /\ MayCall
    /\ pcbs' = TRUE
    /\ IF ~active
       THEN /\ active' = TRUE
            /\ q' = sys_timeout(q, TcpInterval, Tcp)
            /\ Started(Tcp, TcpInterval)
       ELSE UNCHANGED <<active, q, armed, left>>
    /\ UNCHANGED <<now, pc, t0, due, firing, wake, busy, app>>

(* TCP_RMV of the last pcb leaves the timer to find out.                   *)
LastPcbRemoved ==
    /\ MayCall /\ pcbs
    /\ pcbs' = FALSE
    /\ UNCHANGED <<now, q, left, armed, pc, t0, due, firing, wake, busy, active, app>>

(***************************************************************************)
(* The same sys_timeout in a thread without the core lock, which           *)
(* pppos_example_connect calls: the place is found first and written to    *)
(* later, and the tcpip thread runs in between.                            *)
(***************************************************************************)
FindPlace(t, ms) ==
    /\ app = Idle /\ t \notin armed \cup {firing}
    /\ LET p == Place(q, (now + ms) % Wrap)
       IN  app' = [t |-> t, time |-> (now + ms) % Wrap, p |-> p, succ |-> q.next[p]]
    /\ left' = [left EXCEPT ![t] = ms]
    /\ UNCHANGED <<now, q, armed, pc, t0, due, firing, wake, busy, active, pcbs>>

PutThere ==
    /\ app # Idle
    /\ q' = Link(q, app.t, app.time, app.p, app.succ)
    /\ armed' = armed \cup {app.t}
    /\ app' = Idle
    /\ UNCHANGED <<now, left, pc, t0, due, firing, wake, busy, active, pcbs>>

(* Time passes, while the tcpip thread sleeps or while it works.           *)
Running == armed \cup ({firing, app.t} \ {Nil})
Tick ==
    /\ \/ pc = "sleep" /\ wake # 0
       \/ pc # "sleep" /\ busy < MaxBusy
    /\ now' = (now + 1) % Wrap
    /\ left' = [t \in Timers |-> IF t \in Running THEN left[t] - 1 ELSE left[t]]
    /\ wake' = IF pc = "sleep" /\ wake > 0 THEN wake - 1 ELSE wake
    /\ busy' = IF pc = "sleep" THEN busy ELSE busy + 1
    /\ UNCHANGED <<q, armed, pc, t0, due, firing, active, pcbs, app>>

Next ==
    \/ Look \/ FetchTimesOut \/ FetchMessage \/ Handled
    \/ sys_check_timeouts \/ lwip_cyclic_timer \/ tcpip_tcp_timer \/ ShotFires
    \/ \E t \in Shots, ms \in Delays : Start(t, ms)
    \/ \E t \in Shots : Cancel(t)
    \/ tcp_timer_needed \/ LastPcbRemoved
    \/ Tick

NextUnlocked ==
    \/ Next
    \/ \E t \in Shots, ms \in Delays : FindPlace(t, ms)
    \/ PutThere

Spec         == Init /\ [][Next]_vars
SpecUnlocked == Init /\ [][NextUnlocked]_vars

(***************************************************************************)
(* Properties.                                                             *)
(***************************************************************************)
(* What sys_check_timeouts finds by walking the list.                      *)
Listed ==
    LET at[i \in 0 .. Cardinality(Nodes)] ==
            IF i = 0 THEN Head
            ELSE IF at[i - 1] = Nil THEN Nil ELSE q.next[at[i - 1]]
    IN  {at[i] : i \in 1 .. Cardinality(Nodes)} \ {Nil}

(* The list of next_timeout holds every timer that was started and has not *)
(* fired or been cancelled, and no other; it is in the order in which they *)
(* come due even where the clock wraps; the handler that sys_check_timeouts*)
(* calls is that of the timer due first, and it is due.  A TCP pcb always  *)
(* has tcp_tmr scheduled, though it is started on demand and stops itself. *)
TimersKept ==
    /\ Listed = armed
    /\ \A t \in armed : /\ q.time[t] = (now + left[t]) % Wrap
                        /\ q.next[t] # Nil => left[t] <= left[q.next[t]]
    /\ pc = "fire" => left[firing] <= 0
                      /\ \A t \in armed : left[firing] <= left[t]
    /\ active <=> Tcp \in armed \cup {firing}
    /\ pcbs => active

(* No timer is overdue by more than the longest cyclic interval and the    *)
(* time the thread takes: a timer another thread starts under the core lock*)
(* does not shorten tcpip_timeouts_mbox_fetch's sleep, only the cyclic     *)
(* timers bound it.                                                        *)
LateAtMost ==
    \A t \in armed : \E c \in DOMAIN Cyclic : -left[t] < Cyclic[c] + MaxBusy

(* The list is right, and nothing on it is overdue for long.               *)
TimersSound == TimersKept /\ LateAtMost

(* A handler runs when its time has elapsed, up to the time the tcpip      *)
(* thread takes for what it is doing (the contract of sys_timeout).        *)
OnTime == \A t \in armed : -left[t] <= MaxBusy
=============================================================================
