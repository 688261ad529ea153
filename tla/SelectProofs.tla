---------------------------- MODULE SelectProofs ----------------------------
(***************************************************************************)
(* Proof that select and poll lose no wake-up, for any sockets, threads    *)
(* and requests.                                                           *)
(***************************************************************************)
EXTENDS Select, FiniteSetTheorems, TLAPS

(***************************************************************************)
(* The inductive invariant.                                                *)
(***************************************************************************)
EventSet == {"r", "w", "e"}

SockType ==
    [state : {"none", "new", "alloc", "replay", "open"}, rcv : Int, send : BOOLEAN,
     err : BOOLEAN, last : BOOLEAN, waiting : Nat, early : Nat, box : Nat,
     fetched : {"no", "taken", "counted"}]
ThreadType ==
    [pc : {"idle", "scan", "link", "inc", "rescan", "wait", "dec", "result"},
     want : [Socks -> SUBSET EventSet], i : 1 .. NumSocks + 1, ready : BOOLEAN,
     limit : 0 .. NumSocks, rescan : BOOLEAN, signalled : BOOLEAN, sem : Nat]
CoreType ==
    [pc : {"free", "event", "check"}, s : Socks,
     evt : {"none", "rcvplus", "sendplus", "sendminus", "error"},
     has : SUBSET EventSet, left : Nat]

TypeOK ==
    /\ sock \in [Socks -> SockType]
    /\ th \in [Threads -> ThreadType]
    /\ list \subseteq Threads
    /\ core \in CoreType
    /\ core.pc # "free" => core.evt # "none"
    /\ aborted \in BOOLEAN

(* What a thread's place says of it: whether it is on the list, and        *)
(* whether its semaphore was signalled since it got there.                 *)
PlaceOK(t, r) ==
    /\ t \in list <=> r.pc \in {"inc", "rescan", "wait", "dec"}
    /\ r.pc \in {"idle", "scan", "link"} => ~r.signalled /\ r.sem = 0
    /\ r.pc \in {"inc", "rescan", "wait"} => (r.sem = 0 <=> ~r.signalled)
    /\ r.pc = "wait" => ~r.ready /\ r.i = 1
    /\ r.pc # "dec" \/ t \in Polls \/ r.rescan => r.limit = NumSocks

(* The sockets a thread is counted in.                                     *)
CountedIn(r, s) ==
    /\ r.want[s] # {}
    /\ \/ r.pc = "inc" /\ s < r.i
       \/ r.pc \in {"rescan", "wait"}
       \/ r.pc = "dec" /\ r.i <= s /\ s <= r.limit
Counters(s) == {t \in Threads : CountedIn(th[t], s)}

(* The sockets whose events a thread has read since it was counted in.     *)
Read(t, r, s) ==
    \/ r.pc = "rescan" /\ s < r.i
    \/ r.pc = "inc" /\ t \in Polls /\ s < r.i
    \/ r.pc = "wait"

(* What event_callback is about to signal.                                 *)
Pending(c, s) == IF c.pc = "check" /\ c.s = s THEN c.has ELSE {}

(* A socket a thread has read has no event it asked for, unless it saw it, *)
(* was signalled, or is about to be.                                       *)
AskedBy(t, r, s) == r.want[s] \cup (IF t \in Polls /\ r.want[s] # {} THEN {"e"} ELSE {})
Told(t, r, s) ==
    Read(t, r, s) => \/ r.signalled \/ r.ready
                     \/ AskedBy(t, r, s) \cap Events(sock[s]) \subseteq Pending(core, s)

Places == \A t \in Threads : PlaceOK(t, th[t])
Opened == \A t \in Threads, s \in Socks : th[t].want[s] # {} => sock[s].state = "open"
Counts == \A s \in Socks : sock[s].waiting = Cardinality(Counters(s))
AllTold == \A t \in Threads, s \in Socks : Told(t, th[t], s)

IInv == TypeOK /\ (~aborted => Places /\ Opened /\ Counts /\ AllTold)

LEMMA CountersFinite ==
  ASSUME NEW s \in Socks
  PROVE  IsFiniteSet(Counters(s)) /\ Cardinality(Counters(s)) \in Nat
<1>1. IsFiniteSet(Threads)
  BY Zenon, SelectAssumption DEF Threads
<1>2. Counters(s) \subseteq Threads
  BY Zenon DEF Counters
<1>3. IsFiniteSet(Counters(s))
  BY Zenon, <1>1, <1>2, FS_Subset
<1>. QED
  BY Zenon, <1>3, FS_CardinalityType

(* A socket a thread is counted in has a positive select_waiting.          *)
LEMMA CountedMeansWaiting ==
  ASSUME IInv, ~aborted, NEW t \in Threads, NEW s \in Socks, CountedIn(th[t], s)
  PROVE  sock[s].waiting > 0
<1>1. t \in Counters(s)
  BY Zenon DEF Counters
<1>2. Counters(s) # {}
  BY Zenon, <1>1
<1>3. Cardinality(Counters(s)) # 0
  BY Zenon, <1>2, CountersFinite, FS_EmptySet
<1>. QED
  BY <1>3, CountersFinite DEF IInv, Counts

(***************************************************************************)
(* What the connections and the sockets' owners do.                        *)
(***************************************************************************)
LEMMA AskedNothing ==
  ASSUME NEW t \in Threads, NEW s \in Socks, th[t].want[s] = {}
  PROVE  AskedBy(t, th[t], s) = {}
  BY Zenon DEF AskedBy

(* A step of sockets and the core keeps the invariant when it counts       *)
(* nobody in or out and adds no event to a socket, unless nobody is        *)
(* counted in it or the event is about to be signalled.                    *)
LEMMA SocketSide ==
  ASSUME IInv, ~aborted, TypeOK', UNCHANGED <<th, list>>,
         \A s \in Socks : sock'[s].waiting = sock[s].waiting,
         \A s \in Socks : \/ sock[s].state # "open"
                          \/ /\ sock'[s].state = "open" \/ \A t \in Threads : th[t].want[s] = {}
                             /\ \/ Events(sock'[s]) \subseteq Events(sock[s])
                                \/ sock[s].waiting = 0
                                \/ Events(sock'[s]) \subseteq Pending(core', s),
         core' = core \/ core.pc # "check"
  PROVE  IInv'
<1>1. Places' /\ Opened'
  BY Zenon DEF IInv, Places, PlaceOK, Opened
<1>2. Counts'
  <2>1. \A s \in Socks : Counters(s)' = Counters(s)
    BY Zenon DEF Counters, CountedIn
  <2>. QED
    BY Zenon, <2>1 DEF IInv, Counts
<1>3. AllTold'
  <2> SUFFICES ASSUME NEW t \in Threads, NEW s \in Socks, Read(t, th[t], s), ~th[t].signalled, ~th[t].ready
               PROVE  AskedBy(t, th[t], s) \cap Events(sock'[s]) \subseteq Pending(core', s)
    BY ZenonT(60) DEF AllTold, Told, AskedBy, Read
  <2>1. AskedBy(t, th[t], s) \cap Events(sock[s]) \subseteq Pending(core, s)
    BY Zenon DEF IInv, AllTold, Told
  <2>2. CASE th[t].want[s] = {}
    BY Zenon, <2>2, AskedNothing
  <2>3. CASE th[t].want[s] # {}
    <3>1. CountedIn(th[t], s)
      BY Zenon, <2>3 DEF Read, CountedIn
    <3>2. sock[s].waiting # 0
      BY <3>1, CountedMeansWaiting
    <3>3. \/ Events(sock'[s]) \subseteq Events(sock[s])
          \/ Events(sock'[s]) \subseteq Pending(core', s)
      BY Zenon, <2>3, <3>2 DEF IInv, Opened
    <3>4. Pending(core, s) \subseteq Pending(core', s)
      BY Zenon DEF Pending
    <3>. QED
      BY Zenon, <2>1, <3>3, <3>4
  <2>. QED
    BY Zenon, <2>2, <2>3
<1>. QED
  BY Zenon, <1>1, <1>2, <1>3 DEF IInv

(* One socket is given a new record.                                       *)
LEMMA OneSocket ==
  ASSUME TypeOK, NEW s \in Socks, NEW k \in SockType, sock' = [sock EXCEPT ![s] = k]
  PROVE  /\ sock' \in [Socks -> SockType] /\ sock'[s] = k
         /\ \A r \in Socks \ {s} : sock'[r] = sock[r]
  BY Zenon DEF TypeOK

(* The same, with its core.                                                *)
LEMMA OneSocketSide ==
  ASSUME IInv, ~aborted, UNCHANGED <<th, list>>, aborted' \in BOOLEAN,
         NEW s \in Socks, NEW k \in SockType, sock' = [sock EXCEPT ![s] = k],
         k.waiting = sock[s].waiting,
         \/ sock[s].state # "open"
         \/ /\ k.state = "open" \/ \A t \in Threads : th[t].want[s] = {}
            /\ \/ Events(k) \subseteq Events(sock[s])
               \/ sock[s].waiting = 0
               \/ Events(k) \subseteq Pending(core', s),
         \/ core' = core
         \/ core.pc # "check" /\ core' \in CoreType /\ (core'.pc # "free" => core'.evt # "none")
  PROVE  IInv'
<1>1. /\ sock' \in [Socks -> SockType] /\ sock'[s] = k
      /\ \A r \in Socks \ {s} : sock'[r] = sock[r]
  BY Zenon, OneSocket DEF IInv
<1>2. TypeOK'
  BY Zenon, <1>1 DEF IInv, TypeOK
<1>3. \A r \in Socks : sock'[r].waiting = sock[r].waiting
  BY Zenon, <1>1
<1>4. \A r \in Socks : \/ sock[r].state # "open"
                       \/ /\ sock'[r].state = "open" \/ \A t \in Threads : th[t].want[r] = {}
                          /\ \/ Events(sock'[r]) \subseteq Events(sock[r])
                             \/ sock[r].waiting = 0
                             \/ Events(sock'[r]) \subseteq Pending(core', r)
  BY Zenon, <1>1
<1>. QED
  BY Zenon, <1>2, <1>3, <1>4, SocketSide

LEMMA CoreFacts == \A s \in Socks, e \in {"rcvplus", "sendplus", "sendminus", "error"}, n \in Nat :
    /\ FreeCore \in CoreType
    /\ [FreeCore EXCEPT !.pc = "event", !.s = s, !.evt = e] \in CoreType
    /\ [FreeCore EXCEPT !.pc = "event", !.s = s, !.evt = e].evt = e
    /\ [FreeCore EXCEPT !.pc = "event", !.s = s, !.evt = e, !.left = n] \in CoreType
    /\ [FreeCore EXCEPT !.pc = "event", !.s = s, !.evt = e, !.left = n].evt = e
<1> TAKE s \in Socks, e \in {"rcvplus", "sendplus", "sendminus", "error"}, n \in Nat
<1>1. 1 \in Socks /\ {} \in SUBSET EventSet
  BY SelectAssumption DEF Socks
<1>2. FreeCore \in CoreType
  BY Zenon, <1>1 DEF FreeCore, CoreType
<1>. QED
  BY ZenonT(60), <1>2 DEF CoreType

LEMMA SocketSteps ==
  ASSUME IInv, ~aborted, NEW s \in Socks, SocketStep(s)
  PROVE  IInv'
<1> DEFINE k == sock[s]
<1>0. k \in SockType
  BY Zenon DEF IInv, TypeOK
<1>0a. k.rcv \in Int /\ k.early \in Nat /\ k.box \in Nat /\ k.waiting \in Nat
  BY Zenon, <1>0 DEF SockType
<1>0b. NoSock \in SockType
  BY DEF NoSock, SockType
<1>1. CASE Post(s)
  <2>1. [k EXCEPT !.box = @ + 1] \in SockType
    BY <1>0 DEF SockType
  <2>2. sock' = [sock EXCEPT ![s] = [k EXCEPT !.box = @ + 1]]
    BY Zenon, <1>1 DEF Post
  <2>3. Events([k EXCEPT !.box = @ + 1]) = Events(k)
    BY Zenon, <1>0 DEF Events, SockType
  <2>4. core.pc # "check" /\ core' \in CoreType /\ core'.evt # "none"
    BY Zenon, <1>1, CoreFacts DEF Post, Locked
  <2>. QED
    BY ZenonT(60), <1>0, <1>1, <2>1, <2>2, <2>3, <2>4, OneSocketSide DEF Post, SockType, IInv, TypeOK
<1>2. ASSUME NEW e \in {"sendplus", "sendminus", "error"}, Report(s, e)
      PROVE  IInv'
  <2>1. core.pc # "check" /\ core' \in CoreType /\ core'.evt # "none"
    BY ZenonT(60), <1>2, CoreFacts DEF Report, Locked
  <2>2. TypeOK'
    BY Zenon, <1>2, <2>1 DEF Report, IInv, TypeOK
  <2>3. \A r \in Socks : sock'[r] = sock[r]
    BY Zenon, <1>2 DEF Report
  <2>. QED
    BY Zenon, <1>2, <2>1, <2>2, <2>3, SocketSide DEF Report, IInv, Opened
<1>3. CASE lwip_socket(s)
  <2> DEFINE n == [NoSock EXCEPT !.state = "open", !.waiting = k.waiting]
  <2>1. n \in SockType /\ n.waiting = k.waiting
    BY Zenon, <1>0a, <1>0b DEF SockType
  <2>2. sock' = [sock EXCEPT ![s] = n]
    BY Zenon, <1>3, <1>0 DEF lwip_socket, SockType, IInv, TypeOK
  <2>3. /\ k.state # "open" /\ UNCHANGED <<th, list, core>> /\ aborted' \in BOOLEAN
    BY Zenon, <1>3 DEF lwip_socket, IInv, TypeOK
  <2> HIDE DEF n
  <2>. QED
    BY Zenon, <2>1, <2>2, <2>3, OneSocketSide
<1>4. CASE Arrive(s)
  <2> DEFINE n == [k EXCEPT !.state = "new", !.early = 0, !.box = 0]
  <2>1. n \in SockType /\ n.waiting = k.waiting
    BY Zenon, <1>0 DEF SockType
  <2>2. sock' = [sock EXCEPT ![s] = n]
    BY Zenon, <1>4, <1>0 DEF Arrive, SockType, IInv, TypeOK
  <2>3. /\ k.state # "open" /\ UNCHANGED <<th, list, core>> /\ aborted' \in BOOLEAN
    BY Zenon, <1>4 DEF Arrive, IInv, TypeOK
  <2> HIDE DEF n
  <2>. QED
    BY Zenon, <2>1, <2>2, <2>3, OneSocketSide
<1>5. CASE AcceptAlloc(s)
  <2> DEFINE m == [[k EXCEPT !.state = "alloc", !.rcv = 0] EXCEPT !.send = TRUE]
             n == [m EXCEPT !.err = FALSE, !.last = FALSE]
  <2>0. [k EXCEPT !.state = "alloc", !.rcv = 0] \in SockType
    <3>1. 0 \in Int
      OBVIOUS
    <3>2. [k EXCEPT !.state = "alloc"] \in SockType
      BY Zenon, <1>0 DEF SockType
    <3>. QED
      BY Zenon, <3>1, <3>2 DEF SockType
  <2>0a. m \in SockType /\ m.waiting = k.waiting
    BY Zenon, <1>0, <2>0 DEF SockType
  <2>1. n \in SockType /\ n.waiting = k.waiting
    BY Zenon, <2>0a DEF SockType
  <2>2. sock' = [sock EXCEPT ![s] = n]
    BY Zenon, <1>5, <1>0 DEF AcceptAlloc, SockType, IInv, TypeOK
  <2>3. /\ k.state # "open" /\ UNCHANGED <<th, list, core>> /\ aborted' \in BOOLEAN
    BY Zenon, <1>5 DEF AcceptAlloc, IInv, TypeOK
  <2> HIDE DEF n
  <2>. QED
    BY Zenon, <2>1, <2>2, <2>3, OneSocketSide
<1>6. CASE AcceptNumber(s)
  <2> DEFINE n == [k EXCEPT !.state = "replay"]
  <2>1. n \in SockType /\ n.waiting = k.waiting
    BY Zenon, <1>0 DEF SockType
  <2>2. sock' = [sock EXCEPT ![s] = n]
    BY Zenon, <1>6, <1>0 DEF AcceptNumber, SockType, IInv, TypeOK
  <2>3. /\ k.state # "open" /\ UNCHANGED <<th, list, core>> /\ aborted' \in BOOLEAN
    BY Zenon, <1>6 DEF AcceptNumber, IInv, TypeOK
  <2> HIDE DEF n
  <2>. QED
    BY Zenon, <2>1, <2>2, <2>3, OneSocketSide
<1>7. CASE AcceptReplay(s)
  <2> DEFINE n == [k EXCEPT !.state = "open", !.early = 0]
  <2>1. n \in SockType /\ n.waiting = k.waiting
    BY Zenon, <1>0 DEF SockType
  <2>2. sock' = [sock EXCEPT ![s] = n]
    BY Zenon, <1>7, <1>0 DEF AcceptReplay, SockType, IInv, TypeOK
  <2>3. k.state # "open" /\ UNCHANGED <<th, list, aborted>> /\ core.pc # "check"
    BY Zenon, <1>7 DEF AcceptReplay, Locked
  <2>4. core' = core \/ (core' \in CoreType /\ core'.evt # "none")
    <3>1. CASE k.early = 0
      BY Zenon, <1>7, <3>1 DEF AcceptReplay
    <3>2. CASE k.early # 0
      <4>1. k.early - 1 \in Nat
        BY SMTT(60), <1>0a, <3>2
      <4> DEFINE c == [FreeCore EXCEPT !.pc = "event", !.s = s, !.evt = "rcvplus", !.left = k.early - 1]
      <4>2. FreeCore \in CoreType
        BY Zenon, <4>1, CoreFacts
      <4>2a. c \in CoreType /\ c.evt = "rcvplus"
        BY Zenon, <4>1, <4>2 DEF CoreType
      <4>3. core' = c
        BY Zenon, <1>7, <3>2 DEF AcceptReplay
      <4> HIDE DEF c
      <4>. QED
        BY Zenon, <4>2a, <4>3
    <3>. QED
      BY Zenon, <3>1, <3>2
  <2> HIDE DEF n
  <2>. QED
    BY Zenon, <2>1, <2>2, <2>3, <2>4, OneSocketSide DEF IInv, TypeOK
<1>8. CASE Fetch(s)
  <2> DEFINE n == [k EXCEPT !.box = @ - 1, !.fetched = "taken"]
  <2>1. n \in SockType /\ n.waiting = k.waiting /\ n.state = k.state
    <3>1. k.box - 1 \in Nat
      BY <1>0a, <1>8 DEF Fetch
    <3>. QED
      BY Zenon, <1>0, <3>1 DEF SockType
  <2>2. sock' = [sock EXCEPT ![s] = n]
    BY Zenon, <1>8, <1>0 DEF Fetch, SockType, IInv, TypeOK
  <2>3. Events(n) \subseteq Events(k)
    BY Zenon, <1>0, <1>0a DEF Events, SockType
  <2>4. UNCHANGED <<th, list, core, aborted>>
    BY Zenon, <1>8 DEF Fetch
  <2> HIDE DEF n
  <2>. QED
    BY Zenon, <2>1, <2>2, <2>3, <2>4, OneSocketSide DEF IInv, TypeOK
<1>9. CASE RcvMinus(s)
  <2> DEFINE n == [k EXCEPT !.rcv = @ - 1, !.fetched = "counted"]
  <2>1. n \in SockType /\ n.waiting = k.waiting /\ n.state = k.state
    <3>1. k.rcv - 1 \in Int
      BY <1>0a
    <3>. QED
      BY Zenon, <1>0, <3>1 DEF SockType
  <2>2. sock' = [sock EXCEPT ![s] = n]
    BY Zenon, <1>9, <1>0 DEF RcvMinus, SockType, IInv, TypeOK
  <2>3. Events(n) \subseteq Events(k)
    BY <1>0, <1>0a DEF Events, SockType
  <2>4. UNCHANGED <<th, list, core, aborted>>
    BY Zenon, <1>9 DEF RcvMinus
  <2> HIDE DEF n
  <2>. QED
    BY Zenon, <2>1, <2>2, <2>3, <2>4, OneSocketSide DEF IInv, TypeOK
<1>10. CASE KeepLast(s)
  <2> DEFINE n == [k EXCEPT !.last = TRUE, !.fetched = "no"]
  <2>1. n \in SockType /\ n.waiting = k.waiting /\ n.state = k.state
    BY Zenon, <1>0, <1>0a, <1>10 DEF SockType, KeepLast
  <2>2. sock' = [sock EXCEPT ![s] = n]
    BY Zenon, <1>10, <1>0 DEF KeepLast, SockType, IInv, TypeOK
  <2>3. Events(n) \subseteq Events(k)
    BY Zenon, <1>0, <1>0a DEF Events, SockType
  <2>4. UNCHANGED <<th, list, core, aborted>>
    BY Zenon, <1>10 DEF KeepLast
  <2> HIDE DEF n
  <2>. QED
    BY Zenon, <2>1, <2>2, <2>3, <2>4, OneSocketSide DEF IInv, TypeOK
<1>11. CASE RecvRest(s)
  <2> DEFINE n == [k EXCEPT !.last = FALSE]
  <2>1. n \in SockType /\ n.waiting = k.waiting /\ n.state = k.state
    BY Zenon, <1>0, <1>0a, <1>11 DEF SockType, RecvRest
  <2>2. sock' = [sock EXCEPT ![s] = n]
    BY Zenon, <1>11, <1>0 DEF RecvRest, SockType, IInv, TypeOK
  <2>3. Events(n) \subseteq Events(k)
    BY Zenon, <1>0, <1>0a DEF Events, SockType
  <2>4. UNCHANGED <<th, list, core, aborted>>
    BY Zenon, <1>11 DEF RecvRest
  <2> HIDE DEF n
  <2>. QED
    BY Zenon, <2>1, <2>2, <2>3, <2>4, OneSocketSide DEF IInv, TypeOK
<1>12. CASE lwip_close(s)
  <2> DEFINE n == [NoSock EXCEPT !.waiting = k.waiting]
  <2>1. n \in SockType /\ n.waiting = k.waiting
    BY Zenon, <1>0a, <1>0b DEF SockType
  <2>2. sock' = [sock EXCEPT ![s] = n]
    BY Zenon, <1>12 DEF lwip_close
  <2>3. Events(n) \subseteq Events(k)
    BY DEF Events, NoSock
  <2>4. UNCHANGED <<th, list, core, aborted>> /\ \A t \in Threads : th[t].want[s] = {}
    BY Zenon, <1>12 DEF lwip_close
  <2> HIDE DEF n
  <2>. QED
    BY Zenon, <2>1, <2>2, <2>3, <2>4, OneSocketSide DEF IInv, TypeOK
<1>. QED
  BY Zenon, <1>1, <1>2, <1>3, <1>4, <1>5, <1>6, <1>7, <1>8, <1>9, <1>10, <1>11, <1>12 DEF SocketStep

(***************************************************************************)
(* What the threads do.                                                    *)
(***************************************************************************)
(* One thread takes a step: it is counted in and out as it should be, and  *)
(* stays told of what it has read.                                         *)
LEMMA ThreadSide ==
  ASSUME IInv, ~aborted, TypeOK', NEW t \in Threads, UNCHANGED core,
         \A u \in Threads \ {t} : th'[u] = th[u] /\ (u \in list' <=> u \in list),
         \A s \in Socks : sock'[s].state = sock[s].state /\ Events(sock'[s]) = Events(sock[s]),
         PlaceOK(t, th[t])',
         \A s \in Socks : th'[t].want[s] # {} => sock[s].state = "open",
         \A s \in Socks :
            \/ (CountedIn(th'[t], s) <=> CountedIn(th[t], s)) /\ sock'[s].waiting = sock[s].waiting
            \/ CountedIn(th'[t], s) /\ ~CountedIn(th[t], s) /\ sock'[s].waiting = sock[s].waiting + 1
            \/ ~CountedIn(th'[t], s) /\ CountedIn(th[t], s) /\ sock'[s].waiting = sock[s].waiting - 1,
         \A s \in Socks : Told(t, th'[t], s)
  PROVE  IInv'
<1>1. Places'
  <2> SUFFICES ASSUME NEW u \in Threads, u # t PROVE PlaceOK(u, th[u])'
    BY Zenon DEF Places
  <2>. QED
    BY SMTT(60) DEF IInv, Places, PlaceOK
<1>2. Opened'
  BY DEF IInv, Opened
<1>3. Counts'
  <2> SUFFICES ASSUME NEW s \in Socks PROVE sock'[s].waiting = Cardinality(Counters(s)')
    BY Zenon DEF Counts
  <2>1. sock[s].waiting = Cardinality(Counters(s)) /\ IsFiniteSet(Counters(s))
    BY Zenon, CountersFinite DEF IInv, Counts
  <2>2. \A u \in Threads \ {t} : u \in Counters(s)' <=> u \in Counters(s)
    BY Zenon DEF Counters
  <2>3. (t \in Counters(s)' <=> CountedIn(th'[t], s)) /\ (t \in Counters(s) <=> CountedIn(th[t], s))
    BY Zenon DEF Counters
  <2>4. Counters(s)' \subseteq Threads /\ Counters(s) \subseteq Threads
    BY Zenon DEF Counters
  <2>5. CASE CountedIn(th'[t], s) <=> CountedIn(th[t], s)
    <3>1. Counters(s)' = Counters(s)
      BY SMTT(60), <2>2, <2>3, <2>4, <2>5
    <3>. QED
      BY Zenon, <2>1, <2>5, <3>1
  <2>6. CASE CountedIn(th'[t], s) /\ ~CountedIn(th[t], s)
    <3>1. Counters(s)' = Counters(s) \cup {t} /\ t \notin Counters(s)
      BY Zenon, <2>2, <2>3, <2>4, <2>6
    <3>2. Cardinality(Counters(s) \cup {t}) = Cardinality(Counters(s)) + 1
      BY Zenon, <2>1, <3>1, FS_AddElement
    <3>. QED
      BY Zenon, <2>1, <2>6, <3>1, <3>2
  <2>7. CASE ~CountedIn(th'[t], s) /\ CountedIn(th[t], s)
    <3>1. Counters(s)' = Counters(s) \ {t} /\ t \in Counters(s)
      BY Zenon, <2>2, <2>3, <2>4, <2>7
    <3>2. Cardinality(Counters(s) \ {t}) = Cardinality(Counters(s)) - 1
      BY Zenon, <2>1, <3>1, FS_RemoveElement
    <3>. QED
      BY Zenon, <2>1, <2>7, <3>1, <3>2
  <2>. QED
    BY Zenon, <2>5, <2>6, <2>7
<1>4. AllTold'
  <2> SUFFICES ASSUME NEW u \in Threads, NEW s \in Socks PROVE Told(u, th[u], s)'
    BY Zenon DEF AllTold
  <2>1. CASE u = t
    BY Zenon, <2>1 DEF Told, Read, AskedBy, Pending
  <2>2. CASE u # t
    BY SMTT(60), <2>2 DEF IInv, AllTold, Told, Read, AskedBy, Pending
  <2>. QED
    BY Zenon, <2>1, <2>2
<1>. QED
  BY Zenon, <1>1, <1>2, <1>3, <1>4 DEF IInv

LEMMA SetFacts ==
  ASSUME TypeOK, NEW t \in Threads, NEW r \in ThreadType, Set(t, r)
  PROVE  /\ th' \in [Threads -> ThreadType] /\ th'[t] = r
         /\ \A u \in Threads \ {t} : th'[u] = th[u]
  BY Zenon DEF TypeOK, Set

(* A thread takes a step on its own record alone.                          *)
LEMMA ThreadAlone ==
  ASSUME IInv, ~aborted, NEW t \in Threads, NEW r \in ThreadType, Set(t, r),
         UNCHANGED <<sock, list, core, aborted>>,
         PlaceOK(t, r),
         \A s \in Socks : r.want[s] # {} => sock[s].state = "open",
         \A s \in Socks : CountedIn(r, s) <=> CountedIn(th[t], s),
         \A s \in Socks : Told(t, r, s)
  PROVE  IInv'
<1>1. /\ th' \in [Threads -> ThreadType] /\ th'[t] = r
      /\ \A u \in Threads \ {t} : th'[u] = th[u]
  BY Zenon, SetFacts DEF IInv
<1>2. TypeOK'
  BY Zenon, <1>1 DEF IInv, TypeOK
<1>3. PlaceOK(t, th[t])'
  BY Zenon, <1>1 DEF PlaceOK
<1>. QED
  BY Zenon, <1>1, <1>2, <1>3, ThreadSide

LEMMA IdleFacts ==
  /\ IdleThread \in ThreadType /\ ~IdleThread.signalled /\ IdleThread.sem = 0 /\ IdleThread.pc = "idle"
  /\ IdleThread.limit = NumSocks /\ \A s \in Socks : IdleThread.want[s] = {}
<1>1. 1 \in 1 .. NumSocks + 1 /\ NumSocks \in 0 .. NumSocks
  BY SMTT(60), SelectAssumption
<1>. QED
  BY Zenon, <1>1 DEF IdleThread, ThreadType

LEMMA SawBool == \A t \in Threads : TypeOK => Saw(t) \in BOOLEAN
  BY Zenon DEF Saw, TypeOK, ThreadType

(* A thread that reads one more socket has seen its events, or there are   *)
(* none it asked for.                                                      *)
LEMMA ReadMore ==
  ASSUME IInv, ~aborted, NEW t \in Threads, NEW r, th[t].i \in Socks,
         r.pc = th[t].pc, r.want = th[t].want, r.i = th[t].i + 1, r.ready <=> Saw(t),
         r.signalled = th[t].signalled, th[t].pc # "wait", NEW s \in Socks
  PROVE  Told(t, r, s)
<1> SUFFICES ASSUME Read(t, r, s), ~r.signalled, ~r.ready
             PROVE  AskedBy(t, r, s) \cap Events(sock[s]) \subseteq Pending(core, s)
  BY Zenon DEF Told
<1>1. ~Saw(t) /\ ~th[t].ready /\ ~th[t].signalled /\ AskedBy(t, r, s) = AskedBy(t, th[t], s)
  BY Zenon DEF Saw, AskedBy
<1>2. CASE s = th[t].i
  <2>1. AskedBy(t, th[t], s) = Asked(t, s) /\ Events(sock[s]) \subseteq Seen(sock[s])
    BY Zenon DEF AskedBy, Asked, Seen
  <2>. QED
    BY Zenon, <1>1, <1>2, <2>1 DEF Saw
<1>3. CASE s # th[t].i
  <2>1. s \in Int /\ th[t].i \in Int
    BY SMTT(60) DEF Socks
  <2>2. Read(t, th[t], s)
    BY <1>3, <2>1 DEF Read
  <2>. QED
    BY Zenon, <1>1, <2>2 DEF IInv, AllTold, Told
<1>. QED
  BY Zenon, <1>2, <1>3

(* The scans, and what follows them.                                       *)
LEMMA ScanSteps ==
  ASSUME IInv, ~aborted, NEW t \in Threads,
         Call(t) \/ Scan(t) \/ Scanned(t) \/ Return(t)
  PROVE  IInv'
<1> DEFINE o == th[t]
<1>0. o \in ThreadType /\ PlaceOK(t, o) /\ \A s \in Socks : o.want[s] # {} => sock[s].state = "open"
  BY Zenon DEF IInv, TypeOK, Places, Opened
<1>1. IdleThread \in ThreadType /\ ~IdleThread.signalled /\ IdleThread.sem = 0 /\ IdleThread.pc = "idle"
      /\ IdleThread.limit = NumSocks /\ \A s \in Socks : IdleThread.want[s] = {}
  BY Zenon, IdleFacts
<1>2. ASSUME Set(t, IdleThread), o.pc \in {"scan", "result"}, UNCHANGED <<sock, list, core, aborted>>
      PROVE  IInv'
  <2>1. PlaceOK(t, IdleThread)
    BY Zenon, <1>0, <1>1, <1>2 DEF PlaceOK
  <2>2. \A s \in Socks : CountedIn(IdleThread, s) <=> CountedIn(o, s)
    BY Zenon, <1>1, <1>2 DEF CountedIn
  <2>3. \A s \in Socks : Told(t, IdleThread, s)
    BY Zenon, <1>1 DEF Told, Read
  <2>. QED
    BY Zenon, <1>1, <1>2, <2>1, <2>2, <2>3, ThreadAlone
<1>3. CASE Call(t)
  <2>1. PICK w \in SelWants \cup PollWants :
               /\ \A s \in Socks : w[s] # {} => sock[s].state = "open"
               /\ Set(t, [IdleThread EXCEPT !.pc = "scan", !.want = w])
    BY Zenon, <1>3 DEF Call
  <2> DEFINE r == [IdleThread EXCEPT !.pc = "scan", !.want = w]
  <2>2. w \in [Socks -> SUBSET EventSet]
    BY Zenon, SelectAssumption DEF EventSet
  <2>3. /\ r \in ThreadType /\ r.pc = "scan" /\ r.want = w /\ ~r.signalled /\ r.sem = 0
        /\ r.limit = NumSocks
    BY Zenon, <1>1, <2>2 DEF ThreadType
  <2>4. o.pc = "idle" /\ UNCHANGED <<sock, list, core, aborted>>
    BY Zenon, <1>3 DEF Call
  <2> HIDE DEF r
  <2>5. PlaceOK(t, r)
    BY Zenon, <1>0, <2>3, <2>4 DEF PlaceOK
  <2>6. \A s \in Socks : CountedIn(r, s) <=> CountedIn(o, s)
    BY Zenon, <2>3, <2>4 DEF CountedIn
  <2>7. \A s \in Socks : Told(t, r, s)
    BY Zenon, <2>3 DEF Told, Read
  <2>8. Set(t, r)
    BY Zenon, <2>1 DEF r
  <2>. QED
    BY Zenon, <2>1, <2>3, <2>4, <2>5, <2>6, <2>7, <2>8, ThreadAlone
<1>4. CASE Scan(t)
  <2> DEFINE r == [o EXCEPT !.i = @ + 1, !.ready = Saw(t)]
  <2>0. o.i \in 1 .. NumSocks /\ NumSocks \in Nat /\ o.i \in Socks
    BY SMTT(60), <1>0, <1>4, SelectAssumption DEF Scan, ThreadType, Socks
  <2>1. /\ r \in ThreadType /\ r.pc = o.pc /\ r.want = o.want /\ r.i = o.i + 1
        /\ (r.ready <=> Saw(t)) /\ r.limit = o.limit /\ r.sem = o.sem /\ r.signalled = o.signalled
    <3>1. o.i + 1 \in 1 .. NumSocks + 1 /\ Saw(t) \in BOOLEAN
      BY <2>0, SawBool DEF IInv
    <3>. QED
      BY Zenon, <1>0, <3>1 DEF ThreadType
  <2>2. /\ o.pc \in {"scan", "rescan", "result"} /\ Set(t, r) /\ UNCHANGED <<sock, list, core, aborted>>
    BY Zenon, <1>4 DEF Scan
  <2> HIDE DEF r
  <2>3. PlaceOK(t, r)
    BY Zenon, <1>0, <2>1, <2>2 DEF PlaceOK
  <2>4. \A s \in Socks : CountedIn(r, s) <=> CountedIn(o, s)
    BY Zenon, <2>1, <2>2 DEF CountedIn
  <2>5. \A s \in Socks : Told(t, r, s)
    BY Zenon, <2>0, <2>1, <2>2, ReadMore
  <2>6. \A s \in Socks : r.want[s] # {} => sock[s].state = "open"
    BY Zenon, <1>0, <2>1
  <2>. QED
    BY Zenon, <2>1, <2>2, <2>3, <2>4, <2>5, <2>6, ThreadAlone
<1>5. CASE Scanned(t)
  <2>1. o.pc = "scan" /\ UNCHANGED <<sock, list, core, aborted>>
    BY Zenon, <1>5 DEF Scanned
  <2>2. CASE Set(t, IdleThread)
    BY Zenon, <1>2, <2>1, <2>2
  <2>3. CASE Set(t, [o EXCEPT !.pc = "link"])
    <3> DEFINE r == [o EXCEPT !.pc = "link"]
    <3>1. /\ r \in ThreadType /\ r.pc = "link" /\ r.want = o.want /\ r.limit = o.limit
          /\ r.sem = o.sem /\ r.signalled = o.signalled
      BY Zenon, <1>0 DEF ThreadType
    <3> HIDE DEF r
    <3>2. PlaceOK(t, r)
      BY Zenon, <1>0, <2>1, <3>1 DEF PlaceOK
    <3>3. \A s \in Socks : CountedIn(r, s) <=> CountedIn(o, s)
      BY Zenon, <2>1, <3>1 DEF CountedIn
    <3>4. \A s \in Socks : Told(t, r, s)
      BY Zenon, <3>1 DEF Told, Read
    <3>5. Set(t, r) /\ \A s \in Socks : r.want[s] # {} => sock[s].state = "open"
      BY Zenon, <1>0, <2>3, <3>1 DEF r
    <3>. QED
      BY Zenon, <2>1, <3>1, <3>2, <3>3, <3>4, <3>5, ThreadAlone
  <2>. QED
    BY Zenon, <1>5, <2>2, <2>3 DEF Scanned
<1>6. CASE Return(t)
  BY Zenon, <1>2, <1>6 DEF Return
<1>. QED
  BY Zenon, <1>3, <1>4, <1>5, <1>6

(* Getting ready to sleep, and waking up.                                  *)
LEMMA SleepSteps ==
  ASSUME IInv, ~aborted, NEW t \in Threads,
         Waiting(t) \/ PollWaiting(t) \/ Rescanned(t) \/ SemWait(t)
  PROVE  IInv'
<1> DEFINE o == th[t]
<1>0. o \in ThreadType /\ PlaceOK(t, o) /\ \A s \in Socks : o.want[s] # {} => sock[s].state = "open"
  BY Zenon DEF IInv, TypeOK, Places, Opened
<1>1. /\ NumSocks \in Nat \ {0} /\ o.i \in Int /\ 1 \in 1 .. NumSocks + 1 /\ o.sem \in Nat
      /\ \A s \in Socks : s \in Int /\ 1 <= s /\ s <= NumSocks
  BY <1>0, SelectAssumption DEF ThreadType, Socks
<1>1a. UNCHANGED <<sock, list, core, aborted>>
  BY Zenon DEF Waiting, PollWaiting, Rescanned, SemWait
<1>2. CASE Waiting(t)
  <2> DEFINE r == [o EXCEPT !.i = 1, !.pc = "rescan"]
  <2>1. /\ r \in ThreadType /\ r.pc = "rescan" /\ r.i = 1 /\ r.want = o.want /\ r.limit = o.limit
        /\ r.sem = o.sem /\ r.signalled = o.signalled
    BY Zenon, <1>0, <1>1 DEF ThreadType
  <2>2. o.pc = "inc" /\ o.i > NumSocks /\ Set(t, r)
    BY Zenon, <1>2 DEF Waiting
  <2> HIDE DEF r
  <2>3. PlaceOK(t, r)
    BY Zenon, <1>0, <2>1, <2>2 DEF PlaceOK
  <2>4. \A s \in Socks : CountedIn(r, s) <=> CountedIn(o, s)
    BY SMTT(60), <1>1, <2>1, <2>2 DEF CountedIn
  <2>5. \A s \in Socks : Told(t, r, s)
    BY SMTT(60), <1>1, <2>1 DEF Told, Read
  <2>. QED
    BY Zenon, <1>0, <1>1a, <2>1, <2>2, <2>3, <2>4, <2>5, ThreadAlone
<1>3. CASE PollWaiting(t) \/ Rescanned(t)
  <2> DEFINE r == [o EXCEPT !.i = 1, !.pc = IF o.ready THEN "dec" ELSE "wait"]
  <2>1. /\ r \in ThreadType /\ r.i = 1 /\ r.want = o.want /\ r.limit = o.limit
        /\ r.sem = o.sem /\ r.signalled = o.signalled /\ r.ready = o.ready
        /\ r.pc = IF o.ready THEN "dec" ELSE "wait"
    BY Zenon, <1>0, <1>1 DEF ThreadType
  <2>2. /\ o.i > NumSocks /\ Set(t, r)
        /\ o.pc = "rescan" \/ (o.pc = "inc" /\ t \in Polls)
    BY Zenon, <1>3 DEF PollWaiting, Rescanned
  <2> HIDE DEF r
  <2>3. PlaceOK(t, r)
    BY Zenon, <1>0, <2>1, <2>2 DEF PlaceOK
  <2>4. o.limit = NumSocks
    BY Zenon, <1>0, <2>2 DEF PlaceOK
  <2>5. \A s \in Socks : CountedIn(r, s) <=> CountedIn(o, s)
    BY SMTT(60), <1>1, <2>1, <2>2, <2>4 DEF CountedIn
  <2>6. \A s \in Socks : Told(t, r, s)
    <3> SUFFICES ASSUME NEW s \in Socks, Read(t, r, s) PROVE Told(t, r, s)
      BY Zenon DEF Told
    <3>1. Read(t, o, s)
      BY <1>1, <2>2 DEF Read
    <3>2. Told(t, o, s)
      BY Zenon DEF IInv, AllTold
    <3>. QED
      BY Zenon, <2>1, <3>1, <3>2 DEF Told, AskedBy
  <2>. QED
    BY Zenon, <1>0, <1>1a, <2>1, <2>2, <2>3, <2>5, <2>6, ThreadAlone
<1>4. ASSUME NEW r \in ThreadType, Set(t, r), o.pc = "wait", r.pc = "dec", r.i = o.i, r.limit = o.limit,
             r.want = o.want
      PROVE  IInv'
  <2>1. o.i = 1 /\ o.limit = NumSocks
    BY Zenon, <1>0, <1>4 DEF PlaceOK
  <2>2. PlaceOK(t, r)
    BY Zenon, <1>0, <1>4, <2>1 DEF PlaceOK
  <2>3. \A s \in Socks : CountedIn(r, s) <=> CountedIn(o, s)
    BY Zenon, <1>1, <1>4, <2>1 DEF CountedIn
  <2>4. \A s \in Socks : Told(t, r, s)
    BY Zenon, <1>4 DEF Told, Read
  <2>. QED
    BY Zenon, <1>0, <1>1a, <1>4, <2>2, <2>3, <2>4, ThreadAlone
<1>5. CASE SemWait(t)
  <2>1. CASE o.sem > 0 /\ Set(t, [o EXCEPT !.pc = "dec", !.sem = @ - 1])
    <3> DEFINE r == [o EXCEPT !.pc = "dec", !.sem = @ - 1]
    <3>1. r \in ThreadType /\ r.pc = "dec" /\ r.i = o.i /\ r.limit = o.limit /\ r.want = o.want
      <4>1. o.sem - 1 \in Nat
        BY <1>1, <2>1
      <4>. QED
        BY Zenon, <1>0, <4>1 DEF ThreadType
    <3>. QED
      BY Zenon, <1>4, <1>5, <2>1, <3>1 DEF SemWait
  <2>2. CASE Set(t, [o EXCEPT !.pc = "dec", !.rescan = FALSE])
    <3> DEFINE r == [o EXCEPT !.pc = "dec", !.rescan = FALSE]
    <3>1. r \in ThreadType /\ r.pc = "dec" /\ r.i = o.i /\ r.limit = o.limit /\ r.want = o.want
      BY Zenon, <1>0 DEF ThreadType
    <3>. QED
      BY Zenon, <1>4, <1>5, <2>2, <3>1 DEF SemWait
  <2>. QED
    BY Zenon, <1>5, <2>1, <2>2 DEF SemWait
<1>. QED
  BY Zenon, <1>2, <1>3, <1>5

(* Getting on the list and off it.                                         *)
LEMMA ListSteps ==
  ASSUME IInv, ~aborted, NEW t \in Threads, lwip_link_select_cb(t) \/ lwip_unlink_select_cb(t)
  PROVE  IInv'
<1> DEFINE o == th[t]
<1>0. o \in ThreadType /\ PlaceOK(t, o) /\ \A s \in Socks : o.want[s] # {} => sock[s].state = "open"
  BY Zenon DEF IInv, TypeOK, Places, Opened
<1>1. /\ NumSocks \in Nat \ {0} /\ o.i \in Int /\ 1 \in 1 .. NumSocks + 1 /\ o.limit \in Int
      /\ \A s \in Socks : s \in Int /\ 1 <= s /\ s <= NumSocks
  BY <1>0, SelectAssumption DEF ThreadType, Socks
<1>2. ASSUME NEW r \in ThreadType, Set(t, r), UNCHANGED <<sock, core, aborted>>,
             list' \in {list \cup {t}, list \ {t}},
             PlaceOK(t, r)', \A s \in Socks : r.want[s] # {} => sock[s].state = "open",
             \A s \in Socks : CountedIn(r, s) <=> CountedIn(o, s),
             \A s \in Socks : Told(t, r, s)
      PROVE  IInv'
  <2>1. /\ th' \in [Threads -> ThreadType] /\ th'[t] = r
        /\ \A u \in Threads \ {t} : th'[u] = th[u] /\ (u \in list' <=> u \in list)
    BY Zenon, <1>2, SetFacts DEF IInv
  <2>2. TypeOK'
    BY Zenon, <1>2, <2>1 DEF IInv, TypeOK
  <2>3. PlaceOK(t, th[t])'
    BY Zenon, <1>2, <2>1 DEF PlaceOK
  <2>. QED
    BY Zenon, <1>2, <2>1, <2>2, <2>3, ThreadSide
<1>3. CASE lwip_link_select_cb(t)
  <2>1. PICK r \in ThreadType :
              /\ r = [o EXCEPT !.pc = "inc", !.i = 1]
              /\ r.pc = "inc" /\ r.i = 1 /\ r.want = o.want /\ r.limit = o.limit
              /\ r.sem = o.sem /\ r.signalled = o.signalled
    <3>1. /\ [o EXCEPT !.pc = "inc", !.i = 1] \in ThreadType
          /\ [o EXCEPT !.pc = "inc", !.i = 1].pc = "inc" /\ [o EXCEPT !.pc = "inc", !.i = 1].i = 1
          /\ [o EXCEPT !.pc = "inc", !.i = 1].want = o.want /\ [o EXCEPT !.pc = "inc", !.i = 1].limit = o.limit
          /\ [o EXCEPT !.pc = "inc", !.i = 1].sem = o.sem
          /\ [o EXCEPT !.pc = "inc", !.i = 1].signalled = o.signalled
      BY Zenon, <1>0, <1>1 DEF ThreadType
    <3>. QED
      BY <3>1, Zenon
  <2>2. o.pc = "link" /\ Set(t, r) /\ list' = list \cup {t} /\ UNCHANGED <<sock, core, aborted>>
    BY Zenon, <1>3, <2>1 DEF lwip_link_select_cb
  <2>3. PlaceOK(t, r)'
    BY Zenon, <1>0, <2>1, <2>2 DEF PlaceOK
  <2>4. \A s \in Socks : CountedIn(r, s) <=> CountedIn(o, s)
    BY <1>1, <2>1, <2>2 DEF CountedIn
  <2>5. \A s \in Socks : Told(t, r, s)
    BY <1>1, <2>1 DEF Told, Read
  <2>. QED
    BY Zenon, <1>0, <1>2, <2>1, <2>2, <2>3, <2>4, <2>5
<1>4. CASE lwip_unlink_select_cb(t)
  <2>1. o.pc = "dec" /\ o.i > o.limit /\ list' = list \ {t} /\ UNCHANGED <<sock, core, aborted>>
    BY Zenon, <1>4 DEF lwip_unlink_select_cb
  <2>2. ASSUME NEW r \in ThreadType, Set(t, r), r.pc \in {"idle", "result"},
               r.pc = "idle" => ~r.signalled /\ r.sem = 0, r.limit = NumSocks,
               \A s \in Socks : r.want[s] \in {{}, o.want[s]}
        PROVE  IInv'
    <3>1. PlaceOK(t, r)'
      BY Zenon, <1>0, <2>1, <2>2 DEF PlaceOK
    <3>2. \A s \in Socks : CountedIn(r, s) <=> CountedIn(o, s)
      BY <1>1, <2>1, <2>2 DEF CountedIn
    <3>3. \A s \in Socks : Told(t, r, s)
      BY Zenon, <2>2 DEF Told, Read
    <3>. QED
      BY Zenon, <1>0, <1>2, <2>1, <2>2, <3>1, <3>2, <3>3
  <2>3. CASE Set(t, IdleThread)
    BY Zenon, <2>2, <2>3, IdleFacts
  <2>4. CASE t \notin Polls /\ o.rescan /\ Set(t, [o EXCEPT !.pc = "result", !.i = 1, !.ready = FALSE])
    <3> DEFINE r == [o EXCEPT !.pc = "result", !.i = 1, !.ready = FALSE]
    <3>1. r \in ThreadType /\ r.pc = "result" /\ r.want = o.want /\ r.limit = o.limit
      BY Zenon, <1>0, <1>1 DEF ThreadType
    <3>2. o.limit = NumSocks
      BY Zenon, <1>0, <2>4 DEF PlaceOK
    <3> HIDE DEF r
    <3>3. Set(t, r)
      BY Zenon, <2>4 DEF r
    <3>. QED
      BY Zenon, <2>2, <3>1, <3>2, <3>3
  <2>. QED
    BY Zenon, <1>4, <2>3, <2>4 DEF lwip_unlink_select_cb
<1>. QED
  BY Zenon, <1>3, <1>4

(* One socket's select_waiting is changed, and nothing else of a socket.   *)
LEMMA OneWaiting ==
  ASSUME TypeOK, NEW s \in Socks, NEW n \in Nat, sock' = [sock EXCEPT ![s].waiting = n]
  PROVE  /\ sock' \in [Socks -> SockType] /\ sock'[s].waiting = n
         /\ \A r \in Socks \ {s} : sock'[r] = sock[r]
         /\ \A r \in Socks : sock'[r].state = sock[r].state /\ Events(sock'[r]) = Events(sock[r])
<1> DEFINE k == [sock[s] EXCEPT !.waiting = n]
<1>1. sock[s] \in SockType
  BY Zenon DEF TypeOK
<1>2. /\ k \in SockType /\ k.waiting = n /\ k.state = sock[s].state
      /\ k.rcv = sock[s].rcv /\ k.send = sock[s].send /\ k.err = sock[s].err
  BY Zenon, <1>1 DEF SockType
<1>3. Events(k) = Events(sock[s])
  BY Zenon, <1>2 DEF Events
<1>4. sock' = [sock EXCEPT ![s] = k]
  BY Zenon
<1> HIDE DEF k
<1>5. /\ sock' \in [Socks -> SockType] /\ sock'[s] = k
      /\ \A r \in Socks \ {s} : sock'[r] = sock[r]
  BY Zenon, <1>2, <1>4, OneSocket
<1>. QED
  BY Zenon, <1>2, <1>3, <1>5

(* Counting in and out, one socket at a time.                              *)
LEMMA CountSide ==
  ASSUME IInv, ~aborted, NEW t \in Threads, th[t].i \in Socks,
         NEW r \in ThreadType, Set(t, r), UNCHANGED <<list, core>>, aborted' \in BOOLEAN, NEW n \in Nat,
         sock' = [sock EXCEPT ![th[t].i].waiting = n],
         PlaceOK(t, r), r.want = th[t].want,
         \A s \in Socks \ {th[t].i} : CountedIn(r, s) <=> CountedIn(th[t], s),
         \/ (CountedIn(r, th[t].i) <=> CountedIn(th[t], th[t].i)) /\ n = sock[th[t].i].waiting
         \/ CountedIn(r, th[t].i) /\ ~CountedIn(th[t], th[t].i) /\ n = sock[th[t].i].waiting + 1
         \/ ~CountedIn(r, th[t].i) /\ CountedIn(th[t], th[t].i) /\ n = sock[th[t].i].waiting - 1,
         \A s \in Socks : Told(t, r, s)
  PROVE  IInv'
<1> DEFINE i == th[t].i
<1>1. /\ sock' \in [Socks -> SockType] /\ sock'[i].waiting = n
      /\ \A s \in Socks \ {i} : sock'[s] = sock[s]
      /\ \A s \in Socks : sock'[s].state = sock[s].state /\ Events(sock'[s]) = Events(sock[s])
  BY Zenon, OneWaiting DEF IInv
<1>2. /\ th' \in [Threads -> ThreadType] /\ th'[t] = r
      /\ \A u \in Threads \ {t} : th'[u] = th[u]
  BY Zenon, SetFacts DEF IInv
<1>3. TypeOK'
  BY Zenon, <1>1, <1>2 DEF IInv, TypeOK
<1>4. PlaceOK(t, th[t])'
  BY Zenon, <1>2 DEF PlaceOK
<1>5. \A s \in Socks : th'[t].want[s] # {} => sock[s].state = "open"
  BY Zenon, <1>2 DEF IInv, Opened
<1>6. \A s \in Socks :
          \/ (CountedIn(th'[t], s) <=> CountedIn(th[t], s)) /\ sock'[s].waiting = sock[s].waiting
          \/ CountedIn(th'[t], s) /\ ~CountedIn(th[t], s) /\ sock'[s].waiting = sock[s].waiting + 1
          \/ ~CountedIn(th'[t], s) /\ CountedIn(th[t], s) /\ sock'[s].waiting = sock[s].waiting - 1
  BY ZenonT(60), <1>1, <1>2
<1>7. core' = core /\ \A u \in Threads \ {t} : th'[u] = th[u] /\ (u \in list' <=> u \in list)
  BY Zenon, <1>2
<1>8. \A s \in Socks : Told(t, th'[t], s)
  BY Zenon, <1>2
<1>9. \A s \in Socks : sock'[s].state = sock[s].state /\ Events(sock'[s]) = Events(sock[s])
  BY Zenon, <1>1
<1>. QED
  BY ZenonT(60), <1>3, <1>4, <1>5, <1>6, <1>7, <1>8, <1>9, ThreadSide

LEMMA CountSteps ==
  ASSUME IInv, ~aborted, NEW t \in Threads,
         IncWaiting(t) \/ PollIncWait(t) \/ DecWaiting(t) \/ PollDecWait(t)
  PROVE  IInv'
<1> DEFINE o == th[t]
           k == sock[o.i]
<1>0. o \in ThreadType /\ PlaceOK(t, o)
  BY Zenon DEF IInv, TypeOK, Places
<1>1. /\ NumSocks \in Nat \ {0} /\ o.i \in Int /\ 1 <= o.i /\ o.limit \in Int /\ o.limit <= NumSocks
      /\ \A s \in Socks : s \in Int /\ 1 <= s /\ s <= NumSocks
  BY <1>0, SelectAssumption DEF ThreadType, Socks
<1>2. o.i \in Socks /\ o.i <= NumSocks
  BY <1>1 DEF IncWaiting, PollIncWait, DecWaiting, PollDecWait, Socks
<1>3. k.waiting \in Nat
  BY Zenon, <1>2 DEF IInv, TypeOK, SockType
<1>4. UNCHANGED <<list, core>> /\ aborted' \in BOOLEAN
  BY Zenon DEF IncWaiting, PollIncWait, DecWaiting, PollDecWait, Full, Watched, IInv, TypeOK
<1>5. CASE IncWaiting(t) /\ ~Full(t)
  <2> DEFINE r == [o EXCEPT !.i = @ + 1]
             n == IF Watched(t) THEN k.waiting + 1 ELSE k.waiting
  <2>1. /\ r \in ThreadType /\ r.pc = o.pc /\ r.i = o.i + 1 /\ r.want = o.want /\ r.limit = o.limit
        /\ r.sem = o.sem /\ r.signalled = o.signalled /\ r.ready = o.ready /\ r.rescan = o.rescan
    BY SMTT(60), <1>0, <1>1, <1>2 DEF ThreadType
  <2>2. /\ o.pc = "inc" /\ t \notin Polls /\ Set(t, r) /\ ~aborted' /\ n \in Nat
        /\ sock' = [sock EXCEPT ![o.i].waiting = n]
    BY <1>3, <1>5, SelectAssumption DEF IncWaiting, Counted
  <2>3. n = IF o.want[o.i] # {} THEN k.waiting + 1 ELSE k.waiting
    BY Zenon DEF Watched
  <2> HIDE DEF r, n
  <2>4. PlaceOK(t, r)
    BY Zenon, <1>0, <2>1, <2>2 DEF PlaceOK
  <2>5. \A s \in Socks \ {o.i} : CountedIn(r, s) <=> CountedIn(o, s)
    BY SMTT(60), <1>1, <2>1, <2>2 DEF CountedIn
  <2>6. ~CountedIn(o, o.i) /\ (CountedIn(r, o.i) <=> o.want[o.i] # {})
    BY <1>1, <2>1, <2>2 DEF CountedIn
  <2>7. \A s \in Socks : Told(t, r, s)
    BY Zenon, <2>1, <2>2 DEF Told, Read
  <2>. QED
    BY ZenonT(60), <1>2, <1>4, <2>1, <2>2, <2>3, <2>4, <2>5, <2>6, <2>7, CountSide
<1>6. CASE IncWaiting(t) /\ Full(t)
  <2> DEFINE r == [o EXCEPT !.pc = "dec", !.i = 1, !.limit = o.i - 1, !.rescan = FALSE]
  <2>1. /\ r \in ThreadType /\ r.pc = "dec" /\ r.i = 1 /\ r.want = o.want /\ r.limit = o.i - 1 /\ ~r.rescan
    <3>1. o.i - 1 \in 0 .. NumSocks /\ 1 \in 1 .. NumSocks + 1
      BY <1>1, <1>2
    <3>. QED
      BY Zenon, <1>0, <3>1 DEF ThreadType
  <2>2. /\ o.pc = "inc" /\ t \notin Polls /\ Set(t, r) /\ UNCHANGED <<sock, aborted>>
    BY Zenon, <1>6, SelectAssumption DEF IncWaiting
  <2> HIDE DEF r
  <2>3. PlaceOK(t, r)
    BY Zenon, <1>0, <2>1, <2>2 DEF PlaceOK
  <2>4. \A s \in Socks : CountedIn(r, s) <=> CountedIn(o, s)
    BY <1>1, <2>1, <2>2 DEF CountedIn
  <2>5. \A s \in Socks : Told(t, r, s)
    BY Zenon, <2>1 DEF Told, Read
  <2>6. \A s \in Socks : r.want[s] # {} => sock[s].state = "open"
    BY Zenon, <2>1 DEF IInv, Opened
  <2>. QED
    BY Zenon, <1>4, <2>1, <2>2, <2>3, <2>4, <2>5, <2>6, ThreadAlone
<1>7. CASE PollIncWait(t)
  <2> DEFINE r == [o EXCEPT !.i = @ + 1, !.ready = Saw(t)]
             n == IF Watched(t) THEN k.waiting + 1 ELSE k.waiting
  <2>1. /\ r \in ThreadType /\ r.pc = o.pc /\ r.i = o.i + 1 /\ r.want = o.want /\ r.limit = o.limit
        /\ r.sem = o.sem /\ r.signalled = o.signalled /\ (r.ready <=> Saw(t)) /\ r.rescan = o.rescan
    <3>1. o.i + 1 \in 1 .. NumSocks + 1 /\ Saw(t) \in BOOLEAN
      BY SMTT(60), <1>1, <1>2, SawBool DEF IInv
    <3>. QED
      BY Zenon, <1>0, <3>1 DEF ThreadType
  <2>2. o.pc = "inc" /\ t \in Polls /\ Set(t, r) /\ n \in Nat /\ aborted' = Full(t)
    BY <1>3, <1>7 DEF PollIncWait
  <2>3. CASE Full(t)
    <3>1. th' \in [Threads -> ThreadType]
      BY Zenon, <2>1, <2>2, SetFacts DEF IInv
    <3>2. UNCHANGED sock
      BY Zenon, <1>7, <2>3 DEF PollIncWait
    <3>. QED
      BY Zenon, <1>4, <2>2, <2>3, <3>1, <3>2 DEF IInv, TypeOK
  <2>4. CASE ~Full(t)
    <3>1. ~aborted' /\ sock' = [sock EXCEPT ![o.i].waiting = n]
      BY Zenon, <1>7, <2>4 DEF PollIncWait, Counted
    <3>2. n = IF o.want[o.i] # {} THEN k.waiting + 1 ELSE k.waiting
      BY Zenon DEF Watched
    <3> HIDE DEF r, n
    <3>3. PlaceOK(t, r)
      BY Zenon, <1>0, <2>1, <2>2 DEF PlaceOK
    <3>4. \A s \in Socks \ {o.i} : CountedIn(r, s) <=> CountedIn(o, s)
      BY SMTT(60), <1>1, <2>1, <2>2 DEF CountedIn
    <3>5. ~CountedIn(o, o.i) /\ (CountedIn(r, o.i) <=> o.want[o.i] # {})
      BY <1>1, <2>1, <2>2 DEF CountedIn
    <3>6. \A s \in Socks : Told(t, r, s)
      BY Zenon, <1>2, <2>1, <2>2, ReadMore
    <3>. QED
      BY ZenonT(60), <1>2, <1>4, <2>1, <2>2, <3>1, <3>2, <3>3, <3>4, <3>5, <3>6, CountSide
  <2>. QED
    BY Zenon, <2>3, <2>4
<1>8. ASSUME NEW r \in ThreadType, Set(t, r), o.pc = "dec", o.i <= o.limit, sock' = Uncounted(t),
             aborted' = (Watched(t) /\ k.waiting = 0),
             r.pc = o.pc, r.i = o.i + 1, r.want = o.want, r.limit = o.limit, r.rescan = o.rescan
      PROVE  IInv'
  <2> DEFINE n == IF o.want[o.i] # {} THEN k.waiting - 1 ELSE k.waiting
  <2>1. CountedIn(o, o.i) <=> o.want[o.i] # {}
    BY <1>1, <1>8 DEF CountedIn
  <2>2. o.want[o.i] # {} => k.waiting > 0
    BY Zenon, <1>2, <2>1, CountedMeansWaiting
  <2>3. n \in Nat /\ sock' = [sock EXCEPT ![o.i].waiting = n]
    <3>1. CASE o.want[o.i] # {}
      <4>1. sock' = [sock EXCEPT ![o.i].waiting = sock[o.i].waiting - 1]
        BY Zenon, <1>8, <2>2, <3>1 DEF Uncounted, Watched
      <4>2. k.waiting - 1 \in Nat
        BY <1>3, <2>2, <3>1
      <4>. QED
        BY Zenon, <3>1, <4>1, <4>2
    <3>2. CASE o.want[o.i] = {}
      <4>1. sock' = [sock EXCEPT ![o.i].waiting = sock[o.i].waiting]
        BY Zenon, <1>8, <3>2 DEF Uncounted, Watched
      <4>. QED
        BY Zenon, <1>3, <3>2, <4>1
    <3>. QED
      BY Zenon, <3>1, <3>2
  <2> HIDE DEF n
  <2>4. PlaceOK(t, r)
    BY ZenonT(60), <1>0, <1>8 DEF PlaceOK
  <2>5. \A s \in Socks \ {o.i} : CountedIn(r, s) <=> CountedIn(o, s)
    BY SMTT(60), <1>1, <1>8 DEF CountedIn
  <2>6. ~CountedIn(r, o.i)
    BY SMTT(60), <1>1, <1>8 DEF CountedIn
  <2>7. \A s \in Socks : Told(t, r, s)
    BY Zenon, <1>8 DEF Told, Read
  <2>8. \/ (CountedIn(r, o.i) <=> CountedIn(o, o.i)) /\ n = k.waiting
        \/ ~CountedIn(r, o.i) /\ CountedIn(o, o.i) /\ n = k.waiting - 1
    BY Zenon, <2>1, <2>6 DEF n
  <2>. QED
    BY ZenonT(60), <1>2, <1>4, <1>8, <2>3, <2>4, <2>5, <2>7, <2>8, CountSide
<1>9. CASE DecWaiting(t)
  <2> DEFINE r == [o EXCEPT !.i = @ + 1]
  <2>1. /\ r \in ThreadType /\ r.pc = o.pc /\ r.i = o.i + 1 /\ r.want = o.want /\ r.limit = o.limit
        /\ r.rescan = o.rescan
    BY <1>0, <1>1, <1>2 DEF ThreadType
  <2> HIDE DEF r
  <2>2. Set(t, r)
    BY Zenon, <1>9 DEF DecWaiting, r
  <2>. QED
    BY Zenon, <1>8, <1>9, <2>1, <2>2 DEF DecWaiting
<1>10. CASE PollDecWait(t)
  <2> DEFINE r == [o EXCEPT !.i = @ + 1, !.ready = Saw(t)]
  <2>1. /\ r \in ThreadType /\ r.pc = o.pc /\ r.i = o.i + 1 /\ r.want = o.want /\ r.limit = o.limit
        /\ r.rescan = o.rescan
    <3>1. o.i + 1 \in 1 .. NumSocks + 1 /\ Saw(t) \in BOOLEAN
      BY <1>1, <1>2, SawBool DEF IInv
    <3>. QED
      BY Zenon, <1>0, <3>1 DEF ThreadType
  <2>2. o.limit = NumSocks
    BY Zenon, <1>0, <1>10 DEF PollDecWait, PlaceOK
  <2> HIDE DEF r
  <2>3. Set(t, r)
    BY Zenon, <1>10 DEF PollDecWait, r
  <2>. QED
    BY Zenon, <1>2, <1>8, <1>10, <2>1, <2>2, <2>3 DEF PollDecWait
<1>. QED
  BY Zenon, <1>5, <1>6, <1>7, <1>9, <1>10

(***************************************************************************)
(* What event_callback does.                                               *)
(***************************************************************************)
LEMMA DoneFacts ==
  ASSUME NEW c \in CoreType, c.evt # "none"
  PROVE  /\ Done(c) \in CoreType /\ (Done(c).pc # "free" => Done(c).evt # "none")
         /\ Done(c).pc # "check"
<1>1. FreeCore \in CoreType /\ FreeCore.pc = "free"
  <2>1. 1 \in Socks /\ {} \in SUBSET EventSet
    BY SelectAssumption DEF Socks
  <2>. QED
    BY Zenon, <2>1 DEF FreeCore, CoreType
<1>2. CASE c.left > 0
  <2> DEFINE d == [c EXCEPT !.pc = "event", !.left = @ - 1]
  <2>1. d \in CoreType /\ d.evt = c.evt /\ d.pc = "event"
    <3>1. c.left - 1 \in Nat
      BY <1>2 DEF CoreType
    <3>. QED
      BY Zenon, <3>1 DEF CoreType
  <2>2. Done(c) = d
    BY Zenon, <1>2 DEF Done
  <2> HIDE DEF d
  <2>. QED
    BY Zenon, <2>1, <2>2
<1>3. CASE ~(c.left > 0)
  BY Zenon, <1>1, <1>3 DEF Done
<1>. QED
  BY Zenon, <1>2, <1>3

(* What an event does to a socket: it keeps all but one of its counters,   *)
(* and where the waiters are not checked it adds nothing a scan would see. *)
LEMMA ApplyFacts ==
  ASSUME NEW k \in SockType, NEW e \in {"rcvplus", "sendplus", "sendminus", "error"}
  PROVE  /\ Apply(k, e) \in SockType /\ Apply(k, e).waiting = k.waiting /\ Apply(k, e).state = k.state
         /\ ~Checks(k, e) => Events(Apply(k, e)) \subseteq Events(k)
<1>1. CASE e = "rcvplus"
  <2> DEFINE n == [k EXCEPT !.rcv = @ + 1]
  <2>1. n \in SockType /\ n.waiting = k.waiting /\ n.state = k.state /\ k.rcv \in Int
    BY DEF SockType
  <2>2. n.rcv = k.rcv + 1 /\ n.send = k.send /\ n.err = k.err
    BY Zenon DEF SockType
  <2>3. Apply(k, e) = n /\ (Checks(k, e) <=> k.rcv + 1 <= 1)
    BY Zenon, <1>1 DEF Apply, Checks
  <2> HIDE DEF n
  <2>4. k.rcv + 1 > 1 => Events(n) \subseteq Events(k)
    BY <2>1, <2>2 DEF Events
  <2>. QED
    BY <2>1, <2>3, <2>4
<1>2. CASE e = "sendplus"
  <2> DEFINE n == [k EXCEPT !.send = TRUE]
  <2>1. n \in SockType /\ n.waiting = k.waiting /\ n.state = k.state
    BY Zenon DEF SockType
  <2>2. n.rcv = k.rcv /\ n.err = k.err
    BY Zenon DEF SockType
  <2>3. Apply(k, e) = n /\ (Checks(k, e) <=> ~k.send)
    BY Zenon, <1>2 DEF Apply, Checks
  <2> HIDE DEF n
  <2>4. k.send => Events(n) \subseteq Events(k)
    BY Zenon, <2>2 DEF Events
  <2>. QED
    BY Zenon, <2>1, <2>3, <2>4
<1>3. CASE e = "sendminus"
  <2> DEFINE n == [k EXCEPT !.send = FALSE]
  <2>1. n \in SockType /\ n.waiting = k.waiting /\ n.state = k.state
    BY Zenon DEF SockType
  <2>2. n.rcv = k.rcv /\ n.err = k.err /\ ~n.send
    BY Zenon DEF SockType
  <2>3. Apply(k, e) = n
    BY Zenon, <1>3 DEF Apply
  <2> HIDE DEF n
  <2>4. Events(n) \subseteq Events(k)
    BY Zenon, <2>2 DEF Events
  <2>. QED
    BY Zenon, <2>1, <2>3, <2>4
<1>4. CASE e = "error"
  <2> DEFINE n == [k EXCEPT !.err = TRUE]
  <2>1. n \in SockType /\ n.waiting = k.waiting /\ n.state = k.state
    BY Zenon DEF SockType
  <2>2. Apply(k, e) = n /\ Checks(k, e)
    BY Zenon, <1>4 DEF Apply, Checks
  <2>. QED
    BY Zenon, <2>1, <2>2
<1>. QED
  BY Zenon, <1>1, <1>2, <1>3, <1>4

LEMMA EventStep ==
  ASSUME IInv, ~aborted, event_callback
  PROVE  IInv'
<1> DEFINE s == core.s
           k == sock[s]
           known == k.state \in {"replay", "open"}
           after == IF known THEN Apply(k, core.evt)
                    ELSE IF core.evt = "rcvplus" THEN [k EXCEPT !.early = @ + 1]
                    ELSE k
           check == known /\ after.waiting > 0 /\ Checks(k, core.evt)
           told == [core EXCEPT !.pc = "check", !.has = Events(after)]
<1>1. /\ core \in CoreType /\ core.pc = "event" /\ s \in Socks /\ k \in SockType
      /\ core.evt \in {"rcvplus", "sendplus", "sendminus", "error"}
  BY Zenon DEF event_callback, IInv, TypeOK, CoreType
<1>2. after \in SockType /\ after.waiting = k.waiting /\ after.state = k.state
  <2>1. CASE known
    BY Zenon, <1>1, <2>1, ApplyFacts
  <2>2. CASE ~known
    BY <1>1, <2>2 DEF SockType
  <2>. QED
    BY Zenon, <2>1, <2>2
<1>3. /\ sock' = [sock EXCEPT ![s] = after] /\ UNCHANGED <<th, list, aborted>>
      /\ core' = IF check THEN told ELSE Done(core)
  BY Zenon DEF event_callback
<1>4. Events(after) \subseteq EventSet
  BY Zenon DEF Events, EventSet
<1>5. /\ told \in CoreType /\ told.pc = "check" /\ told.evt # "none" /\ told.s = s
      /\ told.has = Events(after)
  BY ZenonT(60), <1>1, <1>4 DEF CoreType
<1>6. ~check => \/ k.state # "open"
                \/ Events(after) \subseteq Events(k)
                \/ k.waiting = 0
  <2>1. ASSUME known, ~Checks(k, core.evt) PROVE Events(after) \subseteq Events(k)
    BY Zenon, <1>1, <2>1, ApplyFacts
  <2>2. k.waiting \in Nat
    BY Zenon, <1>1 DEF SockType
  <2>. QED
    BY <1>2, <2>1, <2>2
<1>7. aborted' \in BOOLEAN
  BY Zenon, <1>3 DEF IInv, TypeOK
<1> HIDE DEF after, told, check, known
<1>8. CASE check
  <2>1. Pending(core', s) = Events(after)
    BY Zenon, <1>3, <1>5, <1>8 DEF Pending
  <2>2. core.pc # "check" /\ core' \in CoreType /\ core'.evt # "none"
    BY Zenon, <1>1, <1>3, <1>5, <1>8
  <2>. QED
    BY Zenon, <1>1, <1>2, <1>3, <1>7, <2>1, <2>2, OneSocketSide
<1>9. CASE ~check
  <2>1. core.pc # "check" /\ core' \in CoreType /\ (core'.pc # "free" => core'.evt # "none")
    BY Zenon, <1>1, <1>3, <1>9, DoneFacts
  <2>. QED
    BY Zenon, <1>1, <1>2, <1>3, <1>6, <1>7, <1>9, <2>1, OneSocketSide
<1>. QED
  BY Zenon, <1>8, <1>9

LEMMA CheckStep ==
  ASSUME IInv, ~aborted, select_check_waiters
  PROVE  IInv'
<1> DEFINE wakes(t) == t \in list /\ ~th[t].signalled /\ AskedBy(t, th[t], core.s) \cap core.has # {}
           woken(r) == [r EXCEPT !.signalled = TRUE, !.sem = @ + 1]
<1>1. /\ core.pc = "check" /\ core' = Done(core) /\ UNCHANGED <<sock, list, aborted>>
      /\ th' = [t \in Threads |-> IF wakes(t) THEN woken(th[t]) ELSE th[t]]
  BY Zenon DEF select_check_waiters, Asked, AskedBy
<1>2. \A t \in Threads : th[t] \in ThreadType
  BY Zenon DEF IInv, TypeOK
<1>3. \A r \in ThreadType :
         /\ woken(r) \in ThreadType /\ woken(r).signalled /\ woken(r).sem # 0
         /\ woken(r).pc = r.pc /\ woken(r).want = r.want /\ woken(r).i = r.i /\ woken(r).ready = r.ready
         /\ woken(r).limit = r.limit /\ woken(r).rescan = r.rescan
  <2> TAKE r \in ThreadType
  <2>1. r.sem \in Nat /\ r.sem + 1 \in Nat /\ r.sem + 1 # 0
    BY DEF ThreadType
  <2>2. woken(r) \in ThreadType
    BY Zenon, <2>1 DEF ThreadType
  <2>3. woken(r).signalled /\ woken(r).sem = r.sem + 1
    BY Zenon, <2>1 DEF ThreadType
  <2>4. /\ woken(r).pc = r.pc /\ woken(r).want = r.want /\ woken(r).i = r.i /\ woken(r).ready = r.ready
        /\ woken(r).limit = r.limit /\ woken(r).rescan = r.rescan
    BY Zenon DEF ThreadType
  <2>. QED
    BY Zenon, <2>1, <2>2, <2>3, <2>4
<1> HIDE DEF woken, wakes
<1>4. \A t \in Threads :
         /\ th'[t] \in ThreadType
         /\ th'[t].pc = th[t].pc /\ th'[t].want = th[t].want /\ th'[t].i = th[t].i
         /\ th'[t].ready = th[t].ready /\ th'[t].limit = th[t].limit /\ th'[t].rescan = th[t].rescan
         /\ wakes(t) => th'[t].signalled /\ th'[t].sem # 0
         /\ ~wakes(t) => th'[t] = th[t]
  BY Zenon, <1>1, <1>2, <1>3
<1>5. /\ core' \in CoreType /\ (core'.pc # "free" => core'.evt # "none") /\ core'.pc # "check"
  BY Zenon, <1>1, DoneFacts DEF IInv, TypeOK
<1>6. TypeOK'
  <2>1. th' \in [Threads -> ThreadType]
    BY Zenon, <1>1, <1>4
  <2>. QED
    BY Zenon, <1>1, <1>5, <2>1 DEF IInv, TypeOK
<1>7. Places'
  <2> SUFFICES ASSUME NEW t \in Threads PROVE PlaceOK(t, th[t])'
    BY Zenon DEF Places
  <2>1. PlaceOK(t, th[t])
    BY Zenon DEF IInv, Places
  <2>2. CASE wakes(t)
    <3>1. t \in list
      BY Zenon, <2>2 DEF wakes
    <3>. QED
      BY Zenon, <1>1, <1>4, <2>1, <2>2, <3>1 DEF PlaceOK
  <2>3. CASE ~wakes(t)
    BY Zenon, <1>1, <1>4, <2>1, <2>3 DEF PlaceOK
  <2>. QED
    BY Zenon, <2>2, <2>3
<1>8. Opened'
  BY Zenon, <1>1, <1>4 DEF IInv, Opened
<1>9. Counts'
  <2>1. \A s \in Socks : Counters(s)' = Counters(s)
    BY <1>4 DEF Counters, CountedIn
  <2>. QED
    BY Zenon, <1>1, <2>1 DEF IInv, Counts
<1>10. AllTold'
  <2> SUFFICES ASSUME NEW t \in Threads, NEW s \in Socks, Read(t, th'[t], s), ~th'[t].signalled, ~th'[t].ready
               PROVE  AskedBy(t, th'[t], s) \cap Events(sock'[s]) \subseteq Pending(core', s)
    BY Zenon DEF AllTold, Told, Read, AskedBy
  <2>1. ~wakes(t) /\ th'[t] = th[t]
    BY Zenon, <1>4
  <2>2. AskedBy(t, th[t], s) \cap Events(sock[s]) \subseteq Pending(core, s)
    BY Zenon, <2>1 DEF IInv, AllTold, Told
  <2>3. t \in list
    BY Zenon, <2>1 DEF IInv, Places, PlaceOK, Read
  <2>4. AskedBy(t, th[t], core.s) \cap core.has = {}
    BY Zenon, <2>1, <2>3 DEF wakes
  <2>5. AskedBy(t, th[t], s) \cap Events(sock[s]) = {}
    BY Zenon, <2>2, <2>4 DEF Pending
  <2>. QED
    BY Zenon, <1>1, <2>1, <2>5
<1>. QED
  BY Zenon, <1>6, <1>7, <1>8, <1>9, <1>10 DEF IInv

(***************************************************************************)
(* The theorem.                                                            *)
(***************************************************************************)
LEMMA InitInvariant == Init => IInv
<1> SUFFICES ASSUME Init PROVE IInv
  BY Zenon
<1>1. /\ IdleThread \in ThreadType /\ ~IdleThread.signalled /\ IdleThread.sem = 0 /\ IdleThread.pc = "idle"
      /\ IdleThread.limit = NumSocks /\ \A s \in Socks : IdleThread.want[s] = {}
  BY Zenon, IdleFacts
<1>2. NoSock \in SockType /\ NoSock.waiting = 0
  BY DEF NoSock, SockType
<1>3. FreeCore \in CoreType /\ FreeCore.pc = "free"
  <2>1. 1 \in Socks /\ {} \in SUBSET EventSet
    BY SelectAssumption DEF Socks
  <2>. QED
    BY Zenon, <2>1 DEF FreeCore, CoreType
<1>4. TypeOK
  BY Zenon, <1>1, <1>2, <1>3 DEF Init, TypeOK
<1>5. Places /\ Opened /\ AllTold
  BY Zenon, <1>1 DEF Init, Places, PlaceOK, Opened, AllTold, Told, Read
<1>6. Counts
  <2>1. \A s \in Socks : Counters(s) = {} /\ sock[s].waiting = 0
    BY Zenon, <1>1, <1>2 DEF Init, Counters, CountedIn
  <2>. QED
    BY Zenon, <2>1, FS_EmptySet DEF Counts
<1>. QED
  BY Zenon, <1>4, <1>5, <1>6 DEF IInv

LEMMA NextInvariant == IInv /\ [Next]_vars => IInv'
<1> SUFFICES ASSUME IInv, [Next]_vars PROVE IInv'
  BY Zenon
<1>1. CASE UNCHANGED vars
  <2>1. TypeOK' = TypeOK /\ Places' = Places /\ Opened' = Opened
    BY ZenonT(60), <1>1 DEF vars, TypeOK, Places, PlaceOK, Opened
  <2>2. Counts' = Counts
    BY ZenonT(60), <1>1 DEF vars, Counts, Counters, CountedIn
  <2>3. AllTold' = AllTold
    BY <1>1 DEF vars, AllTold, Told, Read, AskedBy, Pending
  <2>. QED
    BY Zenon, <1>1, <2>1, <2>2, <2>3 DEF IInv, vars
<1>2. CASE Next
  <2>1. ~aborted
    BY Zenon, <1>2 DEF Next
  <2>2. ASSUME NEW t \in Threads, ThreadStep(t) PROVE IInv'
    BY Zenon, <2>1, <2>2, ScanSteps, SleepSteps, ListSteps, CountSteps DEF ThreadStep
  <2>. QED
    BY Zenon, <1>2, <2>1, <2>2, SocketSteps, EventStep, CheckStep DEF Next
<1>. QED
  BY Zenon, <1>1, <1>2

LEMMA InvariantSuffices == IInv => NoLostWakeup
<1> SUFFICES ASSUME IInv, NEW t \in Threads, th[t].pc = "wait", th[t].sem = 0, ~Locked, ~aborted,
                    NEW s \in Socks
             PROVE  Asked(t, s) \cap Events(sock[s]) = {}
  BY Zenon DEF NoLostWakeup
<1>1. ~th[t].signalled /\ ~th[t].ready
  BY Zenon DEF IInv, Places, PlaceOK
<1>2. Read(t, th[t], s) /\ Pending(core, s) = {}
  BY Zenon DEF Read, Pending, Locked
<1>3. AskedBy(t, th[t], s) \cap Events(sock[s]) \subseteq Pending(core, s)
  BY Zenon, <1>1, <1>2 DEF IInv, AllTold, Told
<1>. QED
  BY Zenon, <1>2, <1>3 DEF AskedBy, Asked

(* No wake-up is lost, whatever the number of sockets, the threads and     *)
(* what they ask for: a thread asleep in lwip_select or lwip_poll that has *)
(* not been signalled waits for sockets without an event it asked for.     *)
THEOREM NoWakeupIsLost == Spec => []NoLostWakeup
  BY InitInvariant, NextInvariant, InvariantSuffices, PTL DEF Spec

(* The assertions of the waiting code that hold: the program stops only    *)
(* where a poll counts itself in at a socket whose select_waiting is full  *)
(* (sockets.c:2279).  Nobody uncounts itself from a socket nobody is       *)
(* counted in, and a socket is allocated with select_waiting = 0.          *)
OnlyFullPollAborts ==
    [][~aborted /\ aborted' =>
         \E t \in Polls : th[t].pc = "inc" /\ th[t].i <= NumSocks /\ Full(t)]_vars

LEMMA AbortStep ==
  ASSUME IInv, ~aborted, Next, aborted'
  PROVE  \E t \in Polls : th[t].pc = "inc" /\ th[t].i <= NumSocks /\ Full(t)
<1>1. ASSUME NEW s \in Socks, lwip_socket(s) \/ AcceptAlloc(s) PROVE FALSE
  <2>1. sock[s].state # "open" /\ sock[s].waiting # 0
    BY Zenon, <1>1 DEF lwip_socket, AcceptAlloc
  <2>2. \A t \in Threads : th[t].want[s] = {}
    BY Zenon, <2>1 DEF IInv, Opened
  <2>3. Counters(s) = {}
    BY Zenon, <2>2 DEF Counters, CountedIn
  <2>. QED
    BY Zenon, <2>1, <2>3, FS_EmptySet DEF IInv, Counts
<1>2. ASSUME NEW t \in Threads, DecWaiting(t) \/ PollDecWait(t) PROVE FALSE
  <2>1. th[t] \in ThreadType /\ PlaceOK(t, th[t])
    BY Zenon DEF IInv, TypeOK, Places
  <2>2. th[t].pc = "dec" /\ Watched(t) /\ sock[th[t].i].waiting = 0
    BY Zenon, <1>2 DEF DecWaiting, PollDecWait
  <2>3. th[t].i <= th[t].limit
    BY Zenon, <1>2, <2>1 DEF DecWaiting, PollDecWait, PlaceOK
  <2>4. th[t].i \in Socks /\ th[t].i <= th[t].i
    BY <2>1, <2>3, SelectAssumption DEF ThreadType, Socks
  <2>5. CountedIn(th[t], th[t].i)
    BY Zenon, <2>2, <2>3, <2>4 DEF CountedIn, Watched
  <2>. QED
    BY <2>2, <2>4, <2>5, CountedMeansWaiting
<1>3. ASSUME NEW t \in Threads, PollIncWait(t)
      PROVE  t \in Polls /\ th[t].pc = "inc" /\ th[t].i <= NumSocks /\ Full(t)
  BY Zenon, <1>3 DEF PollIncWait
<1>4. ~event_callback /\ ~select_check_waiters
  BY Zenon DEF event_callback, select_check_waiters
<1>5. ASSUME NEW s \in Socks, SocketStep(s) PROVE FALSE
  BY Zenon, <1>1, <1>5 DEF SocketStep, Post, Report, Arrive, AcceptNumber, AcceptReplay, Fetch, RcvMinus,
     KeepLast, RecvRest, lwip_close
<1>6. ASSUME NEW t \in Threads, ThreadStep(t) PROVE PollIncWait(t)
  BY Zenon, <1>2, <1>6 DEF ThreadStep, Call, Scan, Scanned, lwip_link_select_cb, IncWaiting, Waiting,
     Rescanned, SemWait, PollWaiting, lwip_unlink_select_cb, Return
<1>. QED
  BY Zenon, <1>3, <1>4, <1>5, <1>6 DEF Next

(* The only assertion of select and poll that can fail is the one a poll   *)
(* meets at a full select_waiting: the other two, which count a thread out *)
(* and allocate a socket, hold in every execution.                         *)
THEOREM AssertionsAreSafe == Spec => OnlyFullPollAborts
<1>1. IInv /\ [Next]_vars =>
         [~aborted /\ aborted' => \E t \in Polls : th[t].pc = "inc" /\ th[t].i <= NumSocks /\ Full(t)]_vars
  BY Zenon, AbortStep DEF vars
<1>. QED
  BY <1>1, InitInvariant, NextInvariant, PTL DEF Spec, OnlyFullPollAborts
=============================================================================
