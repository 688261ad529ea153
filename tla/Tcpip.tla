------------------------------- MODULE Tcpip -------------------------------
(***************************************************************************)
(* How threads enter the stack: api/tcpip.c over the mailbox and the mutex *)
(* of lwip_port/sys_arch.c.  A thread may pass a packet to the tcpip       *)
(* thread (tcpip_inpkt, which pppos_input_tcpip and the interfaces use),   *)
(* have it run a function (tcpip_callback, which blocks while the mailbox  *)
(* is full, and tcpip_try_callback, which does not), or run the function   *)
(* itself under the core lock (tcpip_api_call, tcpip_send_msg_wait_sem).   *)
(* A function that runs in the stack may itself call tcpip_callback.       *)
(***************************************************************************)
EXTENDS Naturals, Sequences, FiniteSets

CONSTANTS Callers,    \* threads other than the tcpip thread
          MboxSize,   \* TCPIP_MBOX_SIZE
          NumApi,     \* MEMP_NUM_TCPIP_MSG_API
          NumInpkt,   \* MEMP_NUM_TCPIP_MSG_INPKT
          MaxCalls    \* bound: the calls a thread makes

(* 8 + 8 messages (opt.h) and a mailbox of 32 (lwipopts.h).                *)
ASSUME PoolsFitMbox ==
    /\ {NumApi, NumInpkt, MboxSize} \subseteq Nat
    /\ NumApi + NumInpkt <= MboxSize

VARIABLES mbox,   \* tcpip_mbox
          used,   \* elements taken from the two pools
          lock,   \* lock_tcpip_core: who holds it, and how often
          pc,     \* where each thread is
          msg,    \* the message each thread is about to post
          cur,    \* the message the tcpip thread handles
          owed,   \* packets passed to tcpip_inpkt and not yet freed
          twice,  \* has a packet been freed twice?
          calls   \* calls made so far

vars == <<mbox, used, lock, pc, msg, cur, owed, twice, calls>>

tcpip_thread == "tcpip"
Threads == Callers \cup {tcpip_thread}
None    == [type |-> "none"]
PoolSize    == [api |-> NumApi, inpkt |-> NumInpkt]

ASSUME CallersAreOthers == IsFiniteSet(Callers) /\ tcpip_thread \notin Callers

Pool(m) == IF m.type = "packet" THEN "inpkt" ELSE "api"

Init ==
    /\ mbox = <<>>
    /\ used = [p \in DOMAIN PoolSize |-> 0]
    /\ lock = [by |-> tcpip_thread, n |-> 1]
    /\ pc = [t \in Threads |-> IF t = tcpip_thread THEN "fetch" ELSE "out"]
    /\ msg = [t \in Threads |-> None]
    /\ cur = None /\ owed = {} /\ twice = FALSE
    /\ calls = [t \in Callers |-> 0]

(***************************************************************************)
(* sys_arch.c: a bounded queue and a recursive mutex.                      *)
(***************************************************************************)
(* Mutant of sys_mbox_new: a queue of one element fewer.                   *)
sys_mbox_newShort == MboxSize - 1

sys_mbox_new == MboxSize

Full         == Len(mbox) >= sys_mbox_new
Posts(m)     == mbox' = Append(mbox, m)

sys_mutex_lock(t) ==
    /\ lock.n = 0 \/ lock.by = t
    /\ lock' = [by |-> t, n |-> lock.n + 1]
sys_mutex_unlock(t) ==
    /\ lock.by = t
    /\ lock' = [lock EXCEPT !.n = @ - 1]

memp_malloc(p) == used[p] < PoolSize[p] /\ used' = [used EXCEPT ![p] = @ + 1]
memp_free(p)   == used' = [used EXCEPT ![p] = @ - 1]

Go(t, there) == pc' = [pc EXCEPT ![t] = there]
Takes(t, m)  == msg' = [msg EXCEPT ![t] = m]
pbuf_free(m) == owed' = owed \ {m.of} /\ twice' = (twice \/ m.of \notin owed)

(***************************************************************************)
(* The calls of other threads.  The thread that got ERR_MEM for a packet   *)
(* frees the packet.                                                       *)
(***************************************************************************)
Enter(t) ==
    /\ t # tcpip_thread => calls[t] < MaxCalls
    /\ calls' = IF t = tcpip_thread THEN calls ELSE [calls EXCEPT ![t] = @ + 1]

(* What a thread returns to: the function it runs under the core lock, if  *)
(* it is in one.                                                           *)
Back(t) == IF t = tcpip_thread THEN "handle"
           ELSE IF lock.n > 0 /\ lock.by = t THEN "in" ELSE "out"

tcpip_callback(t) ==
    /\ pc[t] \in (IF t = tcpip_thread THEN {"handle"} ELSE {"out", "in"})
    /\ Enter(t)
    /\ \/ /\ memp_malloc("api")
          /\ Takes(t, [type |-> "callback"])
          /\ Go(t, "post")
       \/ used["api"] = NumApi /\ UNCHANGED <<used, msg, pc>>
    /\ UNCHANGED <<mbox, lock, cur, owed, twice>>

sys_mbox_post(t) ==
    /\ pc[t] = "post" /\ ~Full
    /\ Posts(msg[t])
    /\ Takes(t, None)
    /\ Go(t, Back(t))
    /\ UNCHANGED <<used, lock, cur, owed, twice, calls>>

tcpip_try_callback(t) ==
    /\ pc[t] \in {"out", "in"}
    /\ Enter(t)
    /\ \/ /\ memp_malloc("api")
          /\ Takes(t, [type |-> "callback"])
          /\ Go(t, "try")
       \/ used["api"] = NumApi /\ UNCHANGED <<used, msg, pc>>
    /\ UNCHANGED <<mbox, lock, cur, owed, twice>>

(* A packet is named by the call that passes it on.                        *)
tcpip_inpkt(t) ==
    /\ pc[t] = "out"
    /\ Enter(t)
    /\ LET m == [type |-> "packet", of |-> <<t, calls'[t]>>]
       IN  /\ memp_malloc("inpkt")
           /\ Takes(t, m)
           /\ owed' = owed \cup {m.of}
    /\ Go(t, "try")
    /\ UNCHANGED <<mbox, lock, cur, twice>>

NoMessageLeft(t) ==
    /\ pc[t] = "out" /\ used["inpkt"] = NumInpkt
    /\ Enter(t)
    /\ UNCHANGED <<mbox, used, lock, pc, msg, cur, owed, twice>>

(* sys_mbox_trypost and what follows it in tcpip_inpkt, tcpip_try_callback *)
sys_mbox_trypost(t) ==
    /\ pc[t] = "try"
    /\ Takes(t, None)
    /\ Go(t, Back(t))
    /\ IF ~Full THEN Posts(msg[t]) /\ UNCHANGED <<used, owed, twice>>
       ELSE /\ memp_free(Pool(msg[t]))
            /\ IF msg[t].type = "packet" THEN pbuf_free(msg[t]) ELSE UNCHANGED <<owed, twice>>
            /\ UNCHANGED mbox
    /\ UNCHANGED <<lock, cur, calls>>

tcpip_api_call(t) ==
    /\ pc[t] = "out"
    /\ Enter(t)
    /\ Go(t, "lock")
    /\ UNCHANGED <<mbox, used, lock, msg, cur, owed, twice>>

Locked(t) ==
    /\ pc[t] = "lock"
    /\ sys_mutex_lock(t)
    /\ Go(t, IF t = tcpip_thread THEN "handle" ELSE "in")
    /\ UNCHANGED <<mbox, used, msg, cur, owed, twice, calls>>

Unlocked(t) ==
    /\ pc[t] = "in"
    /\ sys_mutex_unlock(t)
    /\ Go(t, "out")
    /\ UNCHANGED <<mbox, used, msg, cur, owed, twice, calls>>

(***************************************************************************)
(* The tcpip thread.                                                       *)
(***************************************************************************)
(* tcpip_timeouts_mbox_fetch: UNLOCK_TCPIP_CORE, sys_arch_mbox_fetch.      *)
Fetch ==
    /\ pc[tcpip_thread] = "fetch"
    /\ sys_mutex_unlock(tcpip_thread)
    /\ Go(tcpip_thread, "wait")
    /\ UNCHANGED <<mbox, used, msg, cur, owed, twice, calls>>

sys_arch_mbox_fetch ==
    /\ pc[tcpip_thread] = "wait" /\ mbox # <<>>
    /\ cur' = Head(mbox)
    /\ mbox' = Tail(mbox)
    /\ Go(tcpip_thread, "lock")
    /\ UNCHANGED <<used, lock, msg, owed, twice, calls>>

(* SYS_ARCH_TIMEOUT: timeouts are run under the lock, then it waits again. *)
FetchTimesOut ==
    /\ pc[tcpip_thread] = "wait" /\ mbox = <<>>
    /\ Go(tcpip_thread, "lock")
    /\ UNCHANGED <<mbox, used, lock, msg, cur, owed, twice, calls>>

(* Mutant of tcpip_thread_handle_msg: a packet's message is not given back *)
tcpip_thread_handle_msgLeaks ==
    /\ pc[tcpip_thread] = "handle"
    /\ IF cur.type = "callback" THEN memp_free("api") ELSE UNCHANGED used
    /\ IF cur.type = "packet" THEN pbuf_free(cur) ELSE UNCHANGED <<owed, twice>>
    /\ cur' = None
    /\ Go(tcpip_thread, "fetch")
    /\ UNCHANGED <<mbox, lock, msg, calls>>

(* The end of tcpip_thread_handle_msg: the packet was consumed by its      *)
(* input function, or is freed after that failed.                          *)
tcpip_thread_handle_msg ==
    /\ pc[tcpip_thread] = "handle"
    /\ IF cur = None THEN UNCHANGED used ELSE memp_free(Pool(cur))
    /\ IF cur.type = "packet" THEN pbuf_free(cur) ELSE UNCHANGED <<owed, twice>>
    /\ cur' = None
    /\ Go(tcpip_thread, "fetch")
    /\ UNCHANGED <<mbox, lock, msg, calls>>

Caller(t) ==
    \/ tcpip_callback(t) \/ tcpip_try_callback(t) \/ tcpip_inpkt(t) \/ NoMessageLeft(t)
    \/ tcpip_api_call(t) \/ Unlocked(t)
    \/ sys_mbox_post(t) \/ sys_mbox_trypost(t) \/ Locked(t)

Thread ==
    \/ Fetch \/ sys_arch_mbox_fetch \/ FetchTimesOut \/ tcpip_thread_handle_msg
    \/ tcpip_callback(tcpip_thread) \/ sys_mbox_post(tcpip_thread)
    \/ Locked(tcpip_thread)

Next == Thread \/ \E t \in Callers : Caller(t)

(* Each thread runs on; a thread that waits for the core lock gets it in   *)
(* the end, because every holder blocks or gives it back.                  *)
Spec ==
    /\ Init /\ [][Next]_vars
    /\ WF_vars(Thread) /\ SF_vars(Locked(tcpip_thread))
    /\ \A t \in Callers : /\ WF_vars(sys_mbox_post(t)) /\ WF_vars(sys_mbox_trypost(t))
                          /\ SF_vars(Unlocked(t)) /\ SF_vars(Locked(t))

(***************************************************************************)
(* Properties.                                                             *)
(***************************************************************************)
InFlight == {mbox[i] : i \in DOMAIN mbox} \cup {cur} \cup {msg[t] : t \in Threads}
Holding(p) ==
    Cardinality({i \in DOMAIN mbox : Pool(mbox[i]) = p})
    + Cardinality({t \in Threads : msg[t] # None /\ Pool(msg[t]) = p})
    + (IF cur # None /\ Pool(cur) = p THEN 1 ELSE 0)

(* Every message taken from a pool is in the mailbox, about to be posted   *)
(* or being handled, so that a pool never runs dry for good; every packet  *)
(* given to tcpip_inpkt is in exactly one such message until it is freed,  *)
(* and is freed once, whichever of tcpip_inpkt's error paths it took.      *)
MessagesOwned ==
    /\ \A p \in DOMAIN PoolSize : used[p] = Holding(p)
    /\ owed = {m.of : m \in {n \in InFlight : n.type = "packet"}}
    /\ ~twice

(* A thread that has got a message finds room in the mailbox: as the pools *)
(* fit it, sys_mbox_post never blocks and sys_mbox_trypost never fails.    *)
RoomToPost == \A t \in Threads : msg[t] # None => ~Full

(* One thread at a time is in the stack: the core lock excludes the others *)
(* although the tcpip thread gives it up to wait and a callback may post.  *)
Inside(t) == pc[t] \in IF t = tcpip_thread THEN {"fetch", "handle", "post"} ELSE {"in"}
OneInside == \A t, u \in Threads : Inside(t) /\ Inside(u) => t = u

(* What tcpip.c promises its callers: no message or packet is lost or      *)
(* freed twice, posting does not block, and the stack has one thread.      *)
EntrySound == MessagesOwned /\ RoomToPost /\ OneInside

(* Every call returns: tcpip_callback, which waits while the box is full,  *)
(* and may be called from a callback or under the core lock, and a call    *)
(* that waits for the core lock; and a packet that tcpip_inpkt accepted    *)
(* reaches the stack.                                                      *)
TcpipCallsReturn ==
    \A t \in Callers :
        /\ pc[t] # "out" ~> pc[t] = "out"
        /\ \A n \in 1 .. MaxCalls : <<t, n>> \in owed ~> <<t, n>> \notin owed
=============================================================================
