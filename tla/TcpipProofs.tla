---------------------------- MODULE TcpipProofs ----------------------------
(***************************************************************************)
(* Proof that tcpip.c keeps what EntrySound says, for any threads, pools   *)
(* that fit the mailbox, and any number of calls.                          *)
(***************************************************************************)
EXTENDS Tcpip, FiniteSetTheorems, TLAPS

(***************************************************************************)
(* The inductive invariant.                                                *)
(***************************************************************************)
Pools    == {"api", "inpkt"}
Messages == [type : {"callback"}] \cup [type : {"packet"}, of : Callers \X Nat]

TypeOK ==
    /\ mbox \in Seq(Messages)
    /\ used \in [Pools -> Nat]
    /\ lock \in [by : Threads, n : {0, 1}]
    /\ pc \in [Threads -> {"out", "in", "post", "try", "lock", "fetch", "wait", "handle"}]
    /\ msg \in [Threads -> Messages \cup {None}]
    /\ cur \in Messages \cup {None}
    /\ owed \subseteq Callers \X Nat
    /\ calls \in [Callers -> Nat]

(* Where a thread is tells what it carries.                                *)
Control ==
    /\ \A t \in Threads : msg[t] # None <=> pc[t] \in {"post", "try"}
    /\ \A t \in Callers : pc[t] \notin {"fetch", "wait", "handle"}
    /\ pc[tcpip_thread] \notin {"out", "in", "try"}
    /\ cur # None => pc[tcpip_thread] \in {"lock", "handle", "post"}

(* Where a thread is tells whether it has the core lock; a caller that     *)
(* posts may have it or not.                                               *)
Holds(t) == lock.n = 1 /\ lock.by = t
LockInv ==
    \A t \in Threads :
        /\ Inside(t) => Holds(t)
        /\ pc[t] \in {"out", "lock", "wait"} => ~Holds(t)

(* The messages of a pool, counted by where they are.                      *)
Slots(box, p)   == {i \in DOMAIN box : Pool(box[i]) = p}
Posters(m, p)   == {t \in Threads : m[t] # None /\ Pool(m[t]) = p}
AtWork(m, p)    == IF m # None /\ Pool(m) = p THEN 1 ELSE 0
PoolInv ==
    \A p \in Pools :
        /\ used[p] = Cardinality(Slots(mbox, p)) + Cardinality(Posters(msg, p)) + AtWork(cur, p)
        /\ used[p] <= PoolSize[p]

(* A packet is owed exactly as long as some message carries it, and was    *)
(* named by a call that was made.                                          *)
Carries(m, o) == m.type = "packet" /\ m.of = o
OwedInv ==
    /\ \A o \in owed : \/ \E i \in DOMAIN mbox : Carries(mbox[i], o)
                       \/ \E t \in Threads : Carries(msg[t], o)
                       \/ Carries(cur, o)
    /\ \A o \in owed : o[2] <= calls[o[1]]
    /\ \A i \in DOMAIN mbox : mbox[i].type = "packet" => mbox[i].of \in owed
    /\ \A t \in Threads : msg[t].type = "packet" => msg[t].of \in owed
    /\ cur.type = "packet" => cur.of \in owed
    /\ ~twice

(* No two messages carry the same packet.                                  *)
Same(m, n) == m.type = "packet" /\ n.type = "packet" /\ m.of = n.of
Unique ==
    /\ \A i, j \in DOMAIN mbox : Same(mbox[i], mbox[j]) => i = j
    /\ \A i \in DOMAIN mbox, t \in Threads : ~Same(mbox[i], msg[t])
    /\ \A i \in DOMAIN mbox : ~Same(mbox[i], cur)
    /\ \A t, u \in Threads : Same(msg[t], msg[u]) => t = u
    /\ \A t \in Threads : ~Same(msg[t], cur)

IInv == TypeOK /\ Control /\ LockInv /\ PoolInv /\ OwedInv /\ Unique

(***************************************************************************)
(* Lemmas on messages and on counting them.                                *)
(***************************************************************************)
(* A message is a callback or a packet, and is taken from that pool.       *)
LEMMA MessageFacts ==
    /\ None \notin Messages /\ None.type = "none"
    /\ [type |-> "callback"] \in Messages
    /\ \A o \in Callers \X Nat : [type |-> "packet", of |-> o] \in Messages
    /\ \A m \in Messages : /\ m.type \in {"callback", "packet"} /\ m # None
                           /\ m.type = "packet" => m.of \in Callers \X Nat
                           /\ Pool(m) \in Pools
  BY DEF None, Messages, Pool, Pools

(* Appending a message to the mailbox adds one to its pool's count.        *)
LEMMA CountAppend ==
  ASSUME NEW s \in Seq(Messages), NEW m \in Messages, NEW p \in Pools
  PROVE  /\ IsFiniteSet(Slots(s, p))
         /\ Cardinality(Slots(Append(s, m), p)) = Cardinality(Slots(s, p)) + AtWork(m, p)
<1>1. DOMAIN s = 1 .. Len(s) /\ Len(s) \in Nat
  OBVIOUS
<1>2. Slots(s, p) \subseteq 1 .. Len(s)
  BY Zenon, <1>1 DEF Slots
<1>3. IsFiniteSet(Slots(s, p))
  <2>1. IsFiniteSet(1 .. Len(s))
    BY <1>1, FS_Interval
  <2>. QED
    BY Zenon, <1>2, <2>1, FS_Subset
<1>4. CASE Pool(m) = p
  <2>1. Slots(Append(s, m), p) = Slots(s, p) \cup {Len(s) + 1}
    BY <1>1, <1>4 DEF Slots
  <2>2. Len(s) + 1 \notin Slots(s, p)
    BY <1>1, <1>2
  <2>3. Cardinality(Slots(s, p) \cup {Len(s) + 1}) = Cardinality(Slots(s, p)) + 1
    BY Zenon, <1>3, <2>2, FS_AddElement
  <2>. QED
    <3>1. AtWork(m, p) = 1
      BY Zenon, <1>4, MessageFacts DEF AtWork
    <3>. QED
      BY Zenon, <1>3, <2>1, <2>3, <3>1
<1>5. CASE Pool(m) # p
  <2>1. Slots(Append(s, m), p) = Slots(s, p)
    BY <1>1, <1>5 DEF Slots
  <2>. QED
    BY <1>3, <1>5, <2>1, FS_CardinalityType DEF AtWork
<1>. QED
  BY Zenon, <1>4, <1>5, <1>3

(* Taking the first message away takes one from its pool's count.          *)
LEMMA CountTail ==
  ASSUME NEW s \in Seq(Messages), s # <<>>, NEW p \in Pools
  PROVE  Cardinality(Slots(s, p)) = Cardinality(Slots(Tail(s), p)) + AtWork(Head(s), p)
<1>1. /\ DOMAIN s = 1 .. Len(s) /\ Len(s) \in Nat \ {0}
      /\ Tail(s) \in Seq(Messages) /\ DOMAIN Tail(s) = 1 .. (Len(s) - 1)
      /\ \A i \in 1 .. (Len(s) - 1) : Tail(s)[i] = s[i + 1]
      /\ Head(s) = s[1] /\ Head(s) \in Messages
  OBVIOUS
<1> DEFINE S == Slots(Tail(s), p)
           T == Slots(s, p) \ {1}
           f == [i \in S |-> i + 1]
<1>2. S \subseteq 1 .. (Len(s) - 1) /\ T \subseteq 2 .. Len(s)
  BY <1>1 DEF Slots
<1>3. IsFiniteSet(S) /\ IsFiniteSet(Slots(s, p))
  BY Zenon, <1>1, CountAppend, MessageFacts
<1>4. f \in Bijection(S, T)
  <2>1. \A i \in S : i + 1 \in T
    BY <1>1, <1>2 DEF Slots
  <2>2. \A j \in T : j - 1 \in S /\ (j - 1) + 1 = j
    BY <1>1, <1>2 DEF Slots
  <2>3. f \in Injection(S, T)
    BY <2>1, <1>2 DEF Injection, IsInjective
  <2>4. f \in Surjection(S, T)
    BY Zenon, <2>1, <2>2 DEF Surjection
  <2>. QED
    BY Zenon, <2>3, <2>4 DEF Bijection
<1>5. Cardinality(T) = Cardinality(S)
  <2>1. ExistsBijection(S, T)
    BY Zenon, <1>4 DEF ExistsBijection
  <2>. QED
    BY Zenon, <1>3, <2>1, FS_Bijection
<1>6. 1 \in Slots(s, p) <=> Pool(Head(s)) = p
  BY <1>1 DEF Slots
<1>7. AtWork(Head(s), p) = IF 1 \in Slots(s, p) THEN 1 ELSE 0
  BY Zenon, <1>1, <1>6, MessageFacts DEF AtWork
<1>8. Cardinality(T) = IF 1 \in Slots(s, p) THEN Cardinality(Slots(s, p)) - 1 ELSE Cardinality(Slots(s, p))
  BY Zenon, <1>3, FS_RemoveElement
<1>. QED
  BY <1>3, <1>5, <1>7, <1>8, FS_CardinalityType

(* Every message in the mailbox is of one of the pools.                    *)
LEMMA BoxCount ==
  ASSUME NEW s \in Seq(Messages)
  PROVE  Len(s) = Cardinality(Slots(s, "api")) + Cardinality(Slots(s, "inpkt"))
<1> DEFINE A == Slots(s, "api")
           B == Slots(s, "inpkt")
<1>1. DOMAIN s = 1 .. Len(s) /\ Len(s) \in Nat
  OBVIOUS
<1>2. IsFiniteSet(A) /\ IsFiniteSet(B)
  BY Zenon, CountAppend, MessageFacts DEF Pools
<1>3. A \cup B = 1 .. Len(s) /\ A \cap B = {}
  BY <1>1, MessageFacts DEF Slots, Pools
<1>4. Cardinality(A \cup B) = Cardinality(A) + Cardinality(B) - Cardinality(A \cap B)
  BY Zenon, <1>2, FS_Union
<1>5. Cardinality(A \cap B) = 0
  BY Zenon, <1>3, FS_EmptySet
<1>6. Cardinality(1 .. Len(s)) = Len(s)
  BY SMTT(60), <1>1, FS_Interval
<1>7. Cardinality(A \cup B) = Len(s)
  BY Zenon, <1>3, <1>6
<1>8. Cardinality(A) \in Nat /\ Cardinality(B) \in Nat
  BY Zenon, <1>2, FS_CardinalityType
<1>. QED
  BY <1>1, <1>4, <1>5, <1>7, <1>8

(* A thread that takes a message to post joins its pool's posters.         *)
LEMMA CountTakes ==
  ASSUME NEW m \in [Threads -> Messages \cup {None}], NEW t \in Threads,
         m[t] = None, NEW n \in Messages, NEW p \in Pools
  PROVE  /\ IsFiniteSet(Posters(m, p))
         /\ Cardinality(Posters([m EXCEPT ![t] = n], p)) = Cardinality(Posters(m, p)) + AtWork(n, p)
<1>1. IsFiniteSet(Threads)
  BY Zenon, CallersAreOthers, FS_AddElement DEF Threads
<1>2. IsFiniteSet(Posters(m, p))
  BY Zenon, <1>1, FS_Subset DEF Posters
<1>3. t \notin Posters(m, p)
  BY Zenon DEF Posters
<1>4. CASE Pool(n) = p
  <2>1. Posters([m EXCEPT ![t] = n], p) = Posters(m, p) \cup {t}
    BY Zenon, <1>4, MessageFacts DEF Posters
  <2>2. Cardinality(Posters(m, p) \cup {t}) = Cardinality(Posters(m, p)) + 1
    BY Zenon, <1>2, <1>3, FS_AddElement
  <2>. QED
    <3>1. AtWork(n, p) = 1
      BY Zenon, <1>4, MessageFacts DEF AtWork
    <3>. QED
      BY Zenon, <1>2, <2>1, <2>2, <3>1
<1>5. CASE Pool(n) # p
  <2>1. Posters([m EXCEPT ![t] = n], p) = Posters(m, p)
    BY Zenon, <1>5 DEF Posters
  <2>. QED
    BY <1>2, <1>5, <2>1, FS_CardinalityType DEF AtWork
<1>. QED
  BY Zenon, <1>2, <1>4, <1>5

(* And leaves them when it has posted it.                                  *)
LEMMA CountPosted ==
  ASSUME NEW m \in [Threads -> Messages \cup {None}], NEW t \in Threads,
         m[t] # None, NEW p \in Pools
  PROVE  /\ IsFiniteSet(Posters(m, p))
         /\ Cardinality(Posters(m, p)) = Cardinality(Posters([m EXCEPT ![t] = None], p)) + AtWork(m[t], p)
<1> DEFINE k == [m EXCEPT ![t] = None]
<1>1. k \in [Threads -> Messages \cup {None}] /\ k[t] = None /\ m[t] \in Messages
  BY Zenon
<1>2. m = [k EXCEPT ![t] = m[t]]
  BY Zenon, <1>1
<1>3. Cardinality(Posters([k EXCEPT ![t] = m[t]], p)) = Cardinality(Posters(k, p)) + AtWork(m[t], p)
  BY ZenonT(60), <1>1, CountTakes
<1>4. IsFiniteSet(Threads)
  BY Zenon, CallersAreOthers, FS_AddElement DEF Threads
<1>. QED
  BY Zenon, <1>2, <1>3, <1>4, FS_Subset DEF Posters

(* A thread with a message finds room: the messages in the mailbox and its *)
(* own come from pools that fit the mailbox together.                      *)
LEMMA HasRoom ==
  ASSUME IInv, NEW t \in Threads, msg[t] # None
  PROVE  ~Full
<1>1. /\ mbox \in Seq(Messages) /\ msg \in [Threads -> Messages \cup {None}]
      /\ cur \in Messages \cup {None}
  BY Zenon DEF IInv, TypeOK
<1>2. msg[t] \in Messages /\ Pool(msg[t]) \in Pools
  BY Zenon, <1>1, MessageFacts
<1> DEFINE A(p) == Cardinality(Slots(mbox, p))
           B(p) == Cardinality(Posters(msg, p))
           C(p) == AtWork(cur, p)
<1>3. \A p \in Pools : A(p) \in Nat /\ B(p) \in Nat /\ C(p) \in Nat
  <2>1. \A p \in Pools : IsFiniteSet(Slots(mbox, p)) /\ IsFiniteSet(Posters(msg, p))
    BY Zenon, <1>1, <1>2, CountAppend, CountPosted
  <2>2. \A p \in Pools : AtWork(cur, p) \in Nat
    BY Zenon DEF AtWork
  <2>. QED
    BY Zenon, <2>1, <2>2, FS_CardinalityType
<1>4. B(Pool(msg[t])) >= 1
  <2> DEFINE q == Pool(msg[t])
             k == [msg EXCEPT ![t] = None]
  <2>1. Cardinality(Posters(msg, q)) = Cardinality(Posters(k, q)) + AtWork(msg[t], q)
    BY Zenon, <1>1, <1>2, CountPosted
  <2>2. AtWork(msg[t], q) = 1
    BY Zenon, <1>2, MessageFacts DEF AtWork
  <2>3. k \in [Threads -> Messages \cup {None}] /\ k[t] = None
    BY Zenon, <1>1
  <2>4. IsFiniteSet(Posters(k, q))
    BY Zenon, <1>2, <2>3, CountTakes
  <2>5. Cardinality(Posters(k, q)) \in Nat
    BY Zenon, <2>4, FS_CardinalityType
  <2>. QED
    BY <2>1, <2>2, <2>5
<1>5. Len(mbox) = A("api") + A("inpkt")
  BY Zenon, <1>1, BoxCount
<1>6. /\ A("api") + B("api") + C("api") <= NumApi
      /\ A("inpkt") + B("inpkt") + C("inpkt") <= NumInpkt
  BY Zenon DEF IInv, PoolInv, Pools, PoolSize
<1>7. NumApi \in Nat /\ NumInpkt \in Nat /\ MboxSize \in Nat /\ NumApi + NumInpkt <= MboxSize
  BY Zenon, PoolsFitMbox
<1>8. \/ B("api") >= 1
      \/ B("inpkt") >= 1
  BY Zenon, <1>2, <1>4 DEF Pools
<1>9. /\ A("api") \in Nat /\ B("api") \in Nat /\ C("api") \in Nat
      /\ A("inpkt") \in Nat /\ B("inpkt") \in Nat /\ C("inpkt") \in Nat
  BY Zenon, <1>3 DEF Pools
<1> HIDE DEF A, B, C
<1>10. Len(mbox) < MboxSize
  BY SMTT(60), <1>5, <1>6, <1>7, <1>8, <1>9
<1>. QED
  BY <1>7, <1>10 DEF Full, sys_mbox_new

(***************************************************************************)
(* The pools.                                                              *)
(***************************************************************************)
(* memp_malloc for the message a thread takes.                             *)
LEMMA PoolTakes ==
  ASSUME TypeOK, PoolInv, NEW t \in Threads, msg[t] = None, NEW n \in Messages,
         memp_malloc(Pool(n)), Takes(t, n), UNCHANGED <<mbox, cur>>
  PROVE  PoolInv'
<1>1. /\ msg \in [Threads -> Messages \cup {None}] /\ used \in [Pools -> Nat]
      /\ Pool(n) \in Pools /\ PoolSize \in [Pools -> Nat]
  BY SMTT(60), MessageFacts, PoolsFitMbox DEF TypeOK, PoolSize, Pools
<1>2. SUFFICES ASSUME NEW p \in Pools
               PROVE  /\ used'[p] = Cardinality(Slots(mbox, p)) + Cardinality(Posters(msg', p)) + AtWork(cur, p)
                      /\ used'[p] <= PoolSize[p]
  BY ZenonT(60) DEF PoolInv, Slots, Posters, AtWork, PoolSize, Pool
<1>3. Cardinality(Posters(msg', p)) = Cardinality(Posters(msg, p)) + AtWork(n, p)
  BY Zenon, <1>1, CountTakes DEF Takes
<1>4. used'[p] = used[p] + AtWork(n, p)
  BY <1>1, MessageFacts DEF memp_malloc, AtWork
<1>5. used'[p] <= PoolSize[p]
  BY SMTT(60), <1>1 DEF memp_malloc, PoolInv
<1>6. used[p] = Cardinality(Slots(mbox, p)) + Cardinality(Posters(msg, p)) + AtWork(cur, p)
  BY Zenon DEF PoolInv
<1>7. /\ Cardinality(Slots(mbox, p)) \in Nat /\ Cardinality(Posters(msg, p)) \in Nat
      /\ AtWork(cur, p) \in Nat /\ AtWork(n, p) \in Nat
  <2>1. IsFiniteSet(Slots(mbox, p)) /\ IsFiniteSet(Posters(msg, p))
    BY Zenon, <1>1, CountAppend, CountTakes DEF TypeOK
  <2>. QED
    BY Zenon, <2>1, FS_CardinalityType DEF AtWork
<1>. QED
  BY <1>3, <1>4, <1>5, <1>6, <1>7

(* A message moves from its thread to the mailbox.                         *)
LEMMA PoolPosts ==
  ASSUME TypeOK, PoolInv, NEW t \in Threads, msg[t] # None,
         Posts(msg[t]), Takes(t, None), UNCHANGED <<used, cur>>
  PROVE  PoolInv'
<1>1. /\ msg \in [Threads -> Messages \cup {None}] /\ mbox \in Seq(Messages)
      /\ msg[t] \in Messages
  BY Zenon DEF TypeOK
<1>2. SUFFICES ASSUME NEW p \in Pools
               PROVE  used[p] = Cardinality(Slots(mbox', p)) + Cardinality(Posters(msg', p)) + AtWork(cur, p)
  BY Zenon DEF PoolInv, Slots, Posters, AtWork, PoolSize, Pool
<1>3. Cardinality(Posters(msg, p)) = Cardinality(Posters(msg', p)) + AtWork(msg[t], p)
  BY Zenon, <1>1, CountPosted DEF Takes
<1>4. Cardinality(Slots(mbox', p)) = Cardinality(Slots(mbox, p)) + AtWork(msg[t], p)
  BY Zenon, <1>1, CountAppend DEF Posts
<1>5. used[p] = Cardinality(Slots(mbox, p)) + Cardinality(Posters(msg, p)) + AtWork(cur, p)
  BY Zenon DEF PoolInv
<1>6. /\ Cardinality(Slots(mbox, p)) \in Nat /\ Cardinality(Posters(msg', p)) \in Nat
      /\ AtWork(cur, p) \in Nat /\ AtWork(msg[t], p) \in Nat
  <2>1. msg' \in [Threads -> Messages \cup {None}] /\ msg'[t] = None
    BY Zenon, <1>1 DEF Takes
  <2>2. IsFiniteSet(Slots(mbox, p)) /\ IsFiniteSet(Posters(msg', p))
    BY Zenon, <1>1, <2>1, CountAppend, CountTakes
  <2>. QED
    BY Zenon, <2>2, FS_CardinalityType DEF AtWork
<1>. QED
  BY <1>3, <1>4, <1>5, <1>6

(* The tcpip thread takes the first message of the mailbox.                *)
LEMMA PoolFetches ==
  ASSUME TypeOK, PoolInv, cur = None, mbox # <<>>, cur' = Head(mbox), mbox' = Tail(mbox),
         UNCHANGED <<used, msg>>
  PROVE  PoolInv'
<1>1. mbox \in Seq(Messages) /\ msg \in [Threads -> Messages \cup {None}]
  BY Zenon DEF TypeOK
<1>2. SUFFICES ASSUME NEW p \in Pools
               PROVE  /\ used'[p] = Cardinality(Slots(mbox', p)) + Cardinality(Posters(msg', p)) + AtWork(cur', p)
                      /\ used'[p] <= PoolSize[p]
  BY Zenon DEF PoolInv, Slots, Posters, AtWork, PoolSize, Pool
<1>3. Cardinality(Slots(mbox, p)) = Cardinality(Slots(mbox', p)) + AtWork(cur', p)
  BY Zenon, <1>1, CountTail
<1>4. used[p] = Cardinality(Slots(mbox, p)) + Cardinality(Posters(msg, p)) + AtWork(cur, p)
  BY Zenon DEF PoolInv
<1>5. AtWork(cur, p) = 0
  BY Zenon DEF AtWork
<1>6. Cardinality(Slots(mbox', p)) \in Nat /\ Cardinality(Posters(msg, p)) \in Nat /\ AtWork(cur', p) \in Nat
  <2>1. mbox' \in Seq(Messages)
    BY SMTT(60), <1>1
  <2>2. IsFiniteSet(Slots(mbox', p))
    BY Zenon, <2>1, CountAppend, MessageFacts
  <2>3. IsFiniteSet(Posters(msg, p))
    BY Zenon, CallersAreOthers, FS_AddElement, FS_Subset DEF Threads, Posters
  <2>. QED
    BY Zenon, <2>2, <2>3, FS_CardinalityType DEF AtWork
<1>7. used' = used /\ msg' = msg /\ used[p] <= PoolSize[p]
  BY Zenon DEF PoolInv
<1>. QED
  BY SMTT(60), <1>3, <1>4, <1>5, <1>6, <1>7

(* The message the tcpip thread handled goes back to its pool.             *)
LEMMA PoolFrees ==
  ASSUME TypeOK, PoolInv, cur' = None, UNCHANGED <<mbox, msg>>,
         IF cur = None THEN UNCHANGED used ELSE memp_free(Pool(cur))
  PROVE  PoolInv' /\ used' \in [Pools -> Nat]
<1>1. used \in [Pools -> Nat] /\ PoolSize \in [Pools -> Nat] /\ cur \in Messages \cup {None}
  BY SMTT(60), PoolsFitMbox DEF TypeOK, PoolSize, Pools
<1>0. used' = [q \in Pools |-> used'[q]]
  BY Zenon, <1>1 DEF memp_free
<1>2. SUFFICES ASSUME NEW p \in Pools
               PROVE  /\ used'[p] \in Nat
                      /\ used'[p] = Cardinality(Slots(mbox, p)) + Cardinality(Posters(msg, p)) + AtWork(cur', p)
                      /\ used'[p] <= PoolSize[p]
  <2>1. used' \in [Pools -> Nat]
    BY Zenon, <1>0
  <2>. QED
    BY SMTT(60), <2>1 DEF PoolInv, Slots, Posters, AtWork, PoolSize, Pool
<1>3. used[p] = Cardinality(Slots(mbox, p)) + Cardinality(Posters(msg, p)) + AtWork(cur, p)
      /\ used[p] <= PoolSize[p]
  BY Zenon DEF PoolInv
<1>4. used'[p] = used[p] - AtWork(cur, p) /\ AtWork(cur, p) \in {0, 1} /\ AtWork(cur', p) = 0
  <2>1. CASE cur = None
    BY SMTT(60), <1>1, <2>1 DEF AtWork
  <2>2. CASE cur # None
    BY SMTT(60), <1>1, <2>2 DEF AtWork, memp_free
  <2>. QED
    BY Zenon, <2>1, <2>2
<1>5. Cardinality(Slots(mbox, p)) \in Nat /\ Cardinality(Posters(msg, p)) \in Nat
  <2>1. IsFiniteSet(Slots(mbox, p))
    BY Zenon, CountAppend, MessageFacts DEF TypeOK
  <2>2. IsFiniteSet(Posters(msg, p))
    BY Zenon, CallersAreOthers, FS_AddElement, FS_Subset DEF Threads, Posters
  <2>. QED
    BY Zenon, <2>1, <2>2, FS_CardinalityType
<1>6. used[p] \in Nat /\ PoolSize[p] \in Nat
  BY Zenon, <1>1
<1>. QED
  BY SMTT(60), <1>3, <1>4, <1>5, <1>6

(***************************************************************************)
(* The packets.                                                            *)
(***************************************************************************)
(* What calls counts never goes down.                                      *)
Grow == calls' \in [Callers -> Nat] /\ \A c \in Callers : calls[c] <= calls'[c]

(* Nothing moves.                                                          *)
LEMMA PacketsStay ==
  ASSUME TypeOK, OwedInv, Unique, Grow, UNCHANGED <<mbox, msg, cur, owed, twice>>
  PROVE  OwedInv' /\ Unique'
<1>1. Unique'
  BY Zenon DEF Unique, Same
<1>2. \A o \in owed : o[2] <= calls'[o[1]]
  <2> TAKE o \in owed
  <2>1. o[1] \in Callers /\ o[2] \in Nat /\ o[2] <= calls[o[1]]
    BY Zenon DEF TypeOK, OwedInv
  <2>2. calls[o[1]] \in Nat /\ calls'[o[1]] \in Nat /\ calls[o[1]] <= calls'[o[1]]
    BY Zenon, <2>1 DEF TypeOK, Grow
  <2>. QED
    BY SMTT(60), <2>1, <2>2
<1>3. OwedInv'
  BY Zenon, <1>2 DEF OwedInv, Carries
<1>. QED
  BY Zenon, <1>1, <1>3

(* A thread takes a message without a packet.                              *)
LEMMA PacketsCallback ==
  ASSUME TypeOK, OwedInv, Unique, Grow, NEW t \in Threads, msg[t] = None,
         Takes(t, [type |-> "callback"]), UNCHANGED <<mbox, cur, owed, twice>>
  PROVE  OwedInv' /\ Unique'
<1>1. /\ \A u \in Threads : msg'[u] = IF u = t THEN [type |-> "callback"] ELSE msg[u]
      /\ msg[t].type = "none"
  BY Zenon, MessageFacts DEF TypeOK, Takes
<1>2. \A u \in Threads : msg'[u].type = "packet" => msg[u].type = "packet" /\ msg'[u] = msg[u]
  BY SMTT(60), <1>1
<1>3. \A u \in Threads : msg[u].type = "packet" => msg'[u] = msg[u]
  BY Zenon, <1>1
<1>4. Unique'
  BY <1>2 DEF Unique, Same
<1>5. \A o \in owed : o[2] <= calls'[o[1]]
  <2> TAKE o \in owed
  <2>1. o[1] \in Callers /\ o[2] \in Nat /\ o[2] <= calls[o[1]]
    BY Zenon DEF TypeOK, OwedInv
  <2>2. calls[o[1]] \in Nat /\ calls'[o[1]] \in Nat /\ calls[o[1]] <= calls'[o[1]]
    BY Zenon, <2>1 DEF TypeOK, Grow
  <2>. QED
    BY <2>1, <2>2
<1>6. OwedInv'
  BY <1>2, <1>3, <1>5 DEF OwedInv, Carries
<1>. QED
  BY Zenon, <1>4, <1>6

(* A thread takes a message for a packet that no call has named before.    *)
LEMMA PacketsTaken ==
  ASSUME TypeOK, OwedInv, Unique, Grow, NEW t \in Callers, msg[t] = None,
         NEW o, o = <<t, calls'[t]>>, calls'[t] = calls[t] + 1,
         Takes(t, [type |-> "packet", of |-> o]), owed' = owed \cup {o},
         UNCHANGED <<mbox, cur, twice>>
  PROVE  OwedInv' /\ Unique'
<1>1. o \notin owed
  <2>1. o \in owed => o[2] <= calls[o[1]]
    BY Zenon DEF OwedInv
  <2>2. o[1] = t /\ o[2] = calls[t] + 1 /\ calls[t] \in Nat
    BY Zenon DEF TypeOK
  <2>. QED
    BY <2>1, <2>2
<1> DEFINE n == [type |-> "packet", of |-> o]
<1>2. /\ \A u \in Threads : msg'[u] = IF u = t THEN n ELSE msg[u]
      /\ t \in Threads /\ n.type = "packet" /\ n.of = o
      /\ msg[t].type = "none"
  BY Zenon, MessageFacts DEF TypeOK, Takes, Threads
<1> HIDE DEF n
<1>3. \A p \in owed' : p[2] <= calls'[p[1]]
  <2> TAKE p \in owed'
  <2>1. CASE p = o
    BY <2>1 DEF TypeOK, Grow
  <2>2. CASE p \in owed
    <3>1. p[1] \in Callers /\ p[2] \in Nat /\ p[2] <= calls[p[1]]
      BY Zenon, <2>2 DEF TypeOK, OwedInv
    <3>2. calls[p[1]] \in Nat /\ calls'[p[1]] \in Nat /\ calls[p[1]] <= calls'[p[1]]
      BY Zenon, <3>1 DEF TypeOK, Grow
    <3>. QED
      BY <3>1, <3>2
  <2>. QED
    BY Zenon, <2>1, <2>2
<1>4. Unique'
  BY SMTT(60), <1>1, <1>2 DEF Unique, Same, OwedInv
<1>5. \A u \in Threads : msg'[u].type = "packet" => msg'[u].of \in owed'
  BY Zenon, <1>2 DEF OwedInv
<1>6. \A p \in owed' : \/ \E i \in DOMAIN mbox : Carries(mbox[i], p)
                       \/ \E u \in Threads : Carries(msg'[u], p)
                       \/ Carries(cur, p)
  <2> TAKE p \in owed'
  <2>1. CASE p = o
    BY Zenon, <1>2, <2>1 DEF Carries
  <2>2. CASE p \in owed /\ \E u \in Threads : Carries(msg[u], p)
    BY Zenon, <1>2, <2>2 DEF Carries
  <2>3. CASE p \in owed /\ ~\E u \in Threads : Carries(msg[u], p)
    BY Zenon, <2>3 DEF OwedInv
  <2>. QED
    BY Zenon, <2>1, <2>2, <2>3
<1>7. OwedInv'
  BY Zenon, <1>3, <1>5, <1>6 DEF OwedInv, Carries
<1>. QED
  BY Zenon, <1>4, <1>7

(* A message moves from its thread to the end of the mailbox.              *)
LEMMA PacketsPosted ==
  ASSUME TypeOK, OwedInv, Unique, NEW t \in Threads, msg[t] # None,
         Posts(msg[t]), Takes(t, None), UNCHANGED <<cur, owed, twice, calls>>
  PROVE  OwedInv' /\ Unique'
<1> DEFINE n == msg[t]
           e == Len(mbox) + 1
<1>1. /\ mbox \in Seq(Messages) /\ n \in Messages /\ DOMAIN mbox = 1 .. Len(mbox) /\ e \notin DOMAIN mbox
      /\ DOMAIN mbox' = DOMAIN mbox \cup {e} /\ mbox'[e] = n
      /\ \A i \in DOMAIN mbox : mbox'[i] = mbox[i]
  BY DEF TypeOK, Posts
<1>2. \A u \in Threads : msg'[u] = IF u = t THEN None ELSE msg[u]
  BY Zenon DEF TypeOK, Takes
<1> HIDE DEF e
<1>3. Unique'
  <2>1. \A i, j \in DOMAIN mbox' : Same(mbox'[i], mbox'[j]) => i = j
    BY SMTT(60), <1>1 DEF Unique, Same
  <2>2. \A i \in DOMAIN mbox', u \in Threads : ~Same(mbox'[i], msg'[u])
    BY <1>1, <1>2, MessageFacts DEF Unique, Same
  <2>3. \A i \in DOMAIN mbox' : ~Same(mbox'[i], cur)
    BY Zenon, <1>1 DEF Unique, Same
  <2>4. \A u, v \in Threads : Same(msg'[u], msg'[v]) => u = v
    BY <1>2, MessageFacts DEF Unique, Same
  <2>5. \A u \in Threads : ~Same(msg'[u], cur)
    BY Zenon, <1>2, MessageFacts DEF Unique, Same
  <2>. QED
    BY Zenon, <2>1, <2>2, <2>3, <2>4, <2>5 DEF Unique, Same
<1>4. \A o \in owed : \/ \E i \in DOMAIN mbox' : Carries(mbox'[i], o)
                      \/ \E u \in Threads : Carries(msg'[u], o)
                      \/ Carries(cur, o)
  <2> TAKE o \in owed
  <2>1. CASE \E i \in DOMAIN mbox : Carries(mbox[i], o)
    BY Zenon, <1>1, <2>1
  <2>2. CASE Carries(msg[t], o)
    BY Zenon, <1>1, <2>2
  <2>3. CASE \E u \in Threads \ {t} : Carries(msg[u], o)
    BY Zenon, <1>2, <2>3
  <2>4. CASE Carries(cur, o)
    BY Zenon, <2>4
  <2>. QED
    BY Zenon, <2>1, <2>2, <2>3, <2>4 DEF OwedInv
<1>5. /\ \A i \in DOMAIN mbox' : mbox'[i].type = "packet" => mbox'[i].of \in owed
      /\ \A u \in Threads : msg'[u].type = "packet" => msg'[u].of \in owed
  BY Zenon, <1>1, <1>2, MessageFacts DEF OwedInv
<1>6. OwedInv'
  BY Zenon, <1>4, <1>5 DEF OwedInv, Carries
<1>. QED
  BY Zenon, <1>3, <1>6

(* The first message of the mailbox becomes the one being handled.         *)
LEMMA PacketsFetched ==
  ASSUME TypeOK, OwedInv, Unique, cur = None, mbox # <<>>,
         cur' = Head(mbox), mbox' = Tail(mbox), UNCHANGED <<msg, owed, twice, calls>>
  PROVE  OwedInv' /\ Unique'
<1>1. /\ DOMAIN mbox = 1 .. Len(mbox) /\ Len(mbox) \in Nat \ {0} /\ cur' = mbox[1]
      /\ DOMAIN mbox' = 1 .. (Len(mbox) - 1)
      /\ \A i \in DOMAIN mbox' : mbox'[i] = mbox[i + 1]
  BY DEF TypeOK
<1>2. /\ 1 \in DOMAIN mbox
      /\ \A i \in DOMAIN mbox' : i + 1 \in DOMAIN mbox /\ i + 1 # 1
      /\ \A i, j \in DOMAIN mbox' : i + 1 = j + 1 => i = j
      /\ \A i \in DOMAIN mbox : i = 1 \/ (i - 1 \in DOMAIN mbox' /\ (i - 1) + 1 = i)
  BY <1>1
<1>3. Unique'
  <2>1. \A i, j \in DOMAIN mbox' : Same(mbox'[i], mbox'[j]) => i = j
    BY <1>1, <1>2 DEF Unique
  <2>2. \A i \in DOMAIN mbox', u \in Threads : ~Same(mbox'[i], msg[u])
    BY ZenonT(60), <1>1, <1>2 DEF Unique
  <2>3. \A i \in DOMAIN mbox' : ~Same(mbox'[i], cur')
    BY <1>1, <1>2 DEF Unique
  <2>4. \A u \in Threads : ~Same(msg[u], cur')
    <3>1. \A u \in Threads : ~Same(mbox[1], msg[u])
      BY Zenon, <1>2 DEF Unique
    <3>. QED
      BY Zenon, <1>1, <3>1 DEF Same
  <2>. QED
    BY Zenon, <2>1, <2>2, <2>3, <2>4 DEF Unique, Same
<1>4. \A o \in owed : \/ \E i \in DOMAIN mbox' : Carries(mbox'[i], o)
                      \/ \E u \in Threads : Carries(msg[u], o)
                      \/ Carries(cur', o)
  <2> TAKE o \in owed
  <2>1. CASE \E i \in DOMAIN mbox : Carries(mbox[i], o)
    <3>1. PICK i \in DOMAIN mbox : Carries(mbox[i], o)
      BY Zenon, <2>1
    <3>2. CASE i = 1
      BY Zenon, <1>1, <3>1, <3>2
    <3>3. CASE i - 1 \in DOMAIN mbox' /\ (i - 1) + 1 = i
      BY Zenon, <1>1, <3>1, <3>3
    <3>. QED
      BY Zenon, <1>2, <3>2, <3>3
  <2>2. CASE \E u \in Threads : Carries(msg[u], o)
    BY Zenon, <2>2
  <2>3. ~Carries(cur, o)
    BY Zenon, MessageFacts DEF Carries
  <2>. QED
    BY Zenon, <2>1, <2>2, <2>3 DEF OwedInv
<1>5. /\ \A i \in DOMAIN mbox' : mbox'[i].type = "packet" => mbox'[i].of \in owed
      /\ cur'.type = "packet" => cur'.of \in owed
  BY <1>1, <1>2 DEF OwedInv
<1>6. OwedInv'
  BY Zenon, <1>4, <1>5 DEF OwedInv, Carries
<1>. QED
  BY Zenon, <1>3, <1>6

(* The packet that was handled is freed, and nothing else carries it.      *)
LEMMA PacketsFreed ==
  ASSUME TypeOK, OwedInv, Unique, cur' = None, UNCHANGED <<mbox, msg, calls>>,
         IF cur.type = "packet" THEN pbuf_free(cur) ELSE UNCHANGED <<owed, twice>>
  PROVE  OwedInv' /\ Unique'
<1>1. None.type = "none"
  BY Zenon, MessageFacts
<1>2. Unique'
  BY Zenon, <1>1 DEF Unique, Same
<1>3. CASE cur.type = "packet"
  <2>1. owed' = owed \ {cur.of} /\ ~twice'
    BY Zenon, <1>3 DEF pbuf_free, OwedInv
  <2>2. /\ \A i \in DOMAIN mbox : mbox[i].type = "packet" => mbox[i].of # cur.of
        /\ \A u \in Threads : msg[u].type = "packet" => msg[u].of # cur.of
    BY Zenon, <1>3 DEF Unique, Same
  <2>3. \A o \in owed' : (\E i \in DOMAIN mbox : Carries(mbox[i], o)) \/ \E u \in Threads : Carries(msg[u], o)
    BY Zenon, <2>1 DEF OwedInv, Carries
  <2>4. OwedInv'
    BY Zenon, <1>1, <2>1, <2>2, <2>3 DEF OwedInv, Carries
  <2>. QED
    BY Zenon, <1>2, <2>4
<1>4. CASE cur.type # "packet"
  <2>1. \A o \in owed : (\E i \in DOMAIN mbox : Carries(mbox[i], o)) \/ \E u \in Threads : Carries(msg[u], o)
    BY Zenon, <1>4 DEF OwedInv, Carries
  <2>2. OwedInv'
    BY Zenon, <1>1, <1>4, <2>1 DEF OwedInv, Carries
  <2>. QED
    BY Zenon, <1>2, <2>2
<1>. QED
  BY Zenon, <1>3, <1>4

(***************************************************************************)
(* The actions.                                                            *)
(***************************************************************************)
Flight == PoolInv /\ OwedInv /\ Unique

(* A step that takes no message and moves none.                            *)
LEMMA NothingMoves ==
  ASSUME IInv, Grow, UNCHANGED <<mbox, used, msg, cur, owed, twice>>
  PROVE  Flight'
<1>1. PoolInv'
  BY ZenonT(60) DEF IInv, PoolInv, Slots, Posters, AtWork, Pool, PoolSize
<1>. QED
  BY Zenon, <1>1, PacketsStay DEF IInv, Flight

(* Entering a call counts it.                                              *)
LEMMA EnterGrows ==
  ASSUME IInv, NEW t \in Threads, Enter(t)
  PROVE  Grow /\ (t \in Callers => calls'[t] = calls[t] + 1)
<1>1. calls \in [Callers -> Nat] /\ (t \in Callers <=> t # tcpip_thread)
  BY Zenon, CallersAreOthers DEF IInv, TypeOK, Threads
<1>2. CASE t = tcpip_thread
  BY <1>1, <1>2 DEF Enter, Grow
<1>3. CASE t # tcpip_thread
  BY <1>1, <1>3 DEF Enter, Grow
<1>. QED
  BY Zenon, <1>2, <1>3

LEMMA CallsStay == ASSUME IInv, UNCHANGED calls PROVE Grow
  BY DEF IInv, TypeOK, Grow

(* Every step keeps the account of messages and packets.                   *)
LEMMA FlightStep ==
  ASSUME IInv, Next
  PROVE  Flight'
<1> USE DEF IInv
<1>1. ASSUME NEW t \in Threads, tcpip_callback(t) \/ tcpip_try_callback(t)
      PROVE  Flight'
  <2>1. Grow
    BY Zenon, <1>1, EnterGrows DEF tcpip_callback, tcpip_try_callback
  <2>2. msg[t] = None
    BY Zenon, <1>1 DEF tcpip_callback, tcpip_try_callback, Control
  <2>3. CASE memp_malloc("api") /\ Takes(t, [type |-> "callback"])
    <3>1. UNCHANGED <<mbox, cur, owed, twice>>
      BY Zenon, <1>1 DEF tcpip_callback, tcpip_try_callback
    <3>2. [type |-> "callback"] \in Messages /\ Pool([type |-> "callback"]) = "api"
      BY Zenon, MessageFacts DEF Pool
    <3>3. PoolInv'
      BY Zenon, <2>2, <2>3, <3>1, <3>2, PoolTakes
    <3>4. OwedInv' /\ Unique'
      BY Zenon, <2>1, <2>2, <2>3, <3>1, PacketsCallback
    <3>. QED
      BY Zenon, <3>3, <3>4 DEF Flight
  <2>4. CASE UNCHANGED <<used, msg, pc>>
    BY Zenon, <1>1, <2>1, <2>4, NothingMoves DEF tcpip_callback, tcpip_try_callback
  <2>. QED
    BY Zenon, <1>1, <2>3, <2>4 DEF tcpip_callback, tcpip_try_callback
<1>2. ASSUME NEW t \in Callers, tcpip_inpkt(t)
      PROVE  Flight'
  <2> DEFINE o == <<t, calls'[t]>>
             n == [type |-> "packet", of |-> o]
  <2>1. t \in Threads /\ msg[t] = None
    BY Zenon, <1>2 DEF tcpip_inpkt, Control, Threads
  <2>2. Grow /\ calls'[t] = calls[t] + 1
    BY Zenon, <1>2, <2>1, EnterGrows DEF tcpip_inpkt
  <2>3. o \in Callers \X Nat
    BY Zenon, <2>2 DEF Grow
  <2>4. n \in Messages /\ Pool(n) = "inpkt" /\ n.of = o
    BY Zenon, <2>3, MessageFacts DEF Pool
  <2>5. /\ memp_malloc("inpkt") /\ Takes(t, n) /\ owed' = owed \cup {o}
        /\ UNCHANGED <<mbox, cur, twice>>
    BY Zenon, <1>2 DEF tcpip_inpkt
  <2>6. PoolInv'
    BY Zenon, <2>1, <2>4, <2>5, PoolTakes
  <2>7. OwedInv' /\ Unique'
    BY Zenon, <2>1, <2>2, <2>5, PacketsTaken
  <2>. QED
    BY Zenon, <2>6, <2>7 DEF Flight
<1>3. ASSUME NEW t \in Threads, sys_mbox_post(t) \/ sys_mbox_trypost(t)
      PROVE  Flight'
  <2>1. msg[t] # None
    BY Zenon, <1>3 DEF sys_mbox_post, sys_mbox_trypost, Control
  <2>2. ~Full
    BY Zenon, <2>1, HasRoom
  <2>3. Posts(msg[t]) /\ Takes(t, None) /\ UNCHANGED <<used, cur, owed, twice, calls>>
    BY Zenon, <1>3, <2>2 DEF sys_mbox_post, sys_mbox_trypost
  <2>4. PoolInv'
    BY Zenon, <2>1, <2>3, PoolPosts
  <2>5. OwedInv' /\ Unique'
    BY Zenon, <2>1, <2>3, PacketsPosted
  <2>. QED
    BY Zenon, <2>4, <2>5 DEF Flight
<1>4. ASSUME NEW t \in Threads, NoMessageLeft(t) \/ tcpip_api_call(t)
      PROVE  Flight'
  BY Zenon, <1>4, EnterGrows, NothingMoves DEF NoMessageLeft, tcpip_api_call
<1>5. ASSUME NEW t \in Threads, Locked(t) \/ Unlocked(t) \/ Fetch \/ FetchTimesOut
      PROVE  Flight'
  <2>1. UNCHANGED <<mbox, used, msg, cur, owed, twice, calls>>
    BY Zenon, <1>5 DEF Locked, Unlocked, Fetch, FetchTimesOut
  <2>. QED
    BY Zenon, <2>1, CallsStay, NothingMoves
<1>6. CASE sys_arch_mbox_fetch
  <2>1. /\ cur = None /\ mbox # <<>> /\ cur' = Head(mbox) /\ mbox' = Tail(mbox)
        /\ UNCHANGED <<used, msg, owed, twice, calls>>
    BY Zenon, <1>6 DEF sys_arch_mbox_fetch, Control
  <2>2. PoolInv'
    BY Zenon, <2>1, PoolFetches
  <2>3. OwedInv' /\ Unique'
    BY Zenon, <2>1, PacketsFetched
  <2>. QED
    BY Zenon, <2>2, <2>3 DEF Flight
<1>7. CASE tcpip_thread_handle_msg
  <2>1. PoolInv'
    BY Zenon, <1>7, PoolFrees DEF tcpip_thread_handle_msg
  <2>2. OwedInv' /\ Unique'
    BY Zenon, <1>7, PacketsFreed DEF tcpip_thread_handle_msg
  <2>. QED
    BY Zenon, <2>1, <2>2 DEF Flight
<1>8. tcpip_thread \in Threads /\ \A t \in Callers : t \in Threads
  BY Zenon DEF Threads
<1>. QED
  BY Zenon, <1>1, <1>2, <1>3, <1>4, <1>5, <1>6, <1>7, <1>8 DEF Next, Thread, Caller

(* What a step that sends thread t elsewhere leaves as it was.             *)
LEMMA Goes ==
  ASSUME TypeOK, NEW t \in Threads, NEW there, Go(t, there)
  PROVE  /\ pc'[t] = there
         /\ \A u \in Threads \ {t} : pc'[u] = pc[u]
         /\ there \in {"out", "in", "post", "try", "lock", "fetch", "wait", "handle"}
                => pc' \in [Threads -> {"out", "in", "post", "try", "lock", "fetch", "wait", "handle"}]
  BY Zenon DEF TypeOK, Go

LEMMA MessageTaken ==
  ASSUME TypeOK, NEW t \in Threads, NEW m \in Messages \cup {None}, Takes(t, m)
  PROVE  /\ msg'[t] = m
         /\ \A u \in Threads \ {t} : msg'[u] = msg[u]
         /\ msg' \in [Threads -> Messages \cup {None}]
  BY Zenon DEF TypeOK, Takes

(* Where a thread returns to after posting agrees with the core lock.      *)
LEMMA BackFacts ==
  ASSUME IInv, NEW t \in Threads, pc[t] \in {"post", "try"}
  PROVE  /\ t = tcpip_thread => Back(t) = "handle" /\ Holds(t)
         /\ t # tcpip_thread => \/ Back(t) = "in" /\ Holds(t)
                                \/ Back(t) = "out" /\ ~Holds(t)
<1>1. lock.n \in {0, 1}
  BY Zenon DEF IInv, TypeOK
<1>2. CASE t = tcpip_thread
  BY Zenon, <1>2 DEF IInv, Control, LockInv, Inside, Back
<1>3. CASE t # tcpip_thread
  BY <1>1, <1>3 DEF Back, Holds
<1>. QED
  BY Zenon, <1>2, <1>3

(* Every step keeps the types, what a thread's place says of its message,  *)
(* and what it says of the core lock.                                      *)
Place == TypeOK /\ Control /\ LockInv

(* A thread takes a message from a pool and goes to post it.               *)
LEMMA PlaceTakes ==
  ASSUME IInv, NEW t \in Threads, NEW n \in Messages, NEW there \in {"post", "try"},
         pc[t] \in {"out", "in", "handle"}, t = tcpip_thread => there = "post",
         memp_malloc(Pool(n)), Takes(t, n), Go(t, there), Grow,
         owed' \subseteq Callers \X Nat, UNCHANGED <<mbox, lock, cur>>
  PROVE  Place'
<1> USE DEF IInv
<1>1. pc'[t] = there /\ \A u \in Threads \ {t} : pc'[u] = pc[u]
  BY Zenon, Goes
<1>2. msg'[t] = n /\ n # None /\ \A u \in Threads \ {t} : msg'[u] = msg[u]
  BY Zenon, MessageTaken, MessageFacts
<1>3. TypeOK'
  <2>1. pc' \in [Threads -> {"out", "in", "post", "try", "lock", "fetch", "wait", "handle"}]
    BY Zenon, Goes
  <2>2. msg' \in [Threads -> Messages \cup {None}]
    BY Zenon, MessageTaken
  <2>3. used' \in [Pools -> Nat]
    <3>1. Pool(n) \in Pools
      BY Zenon, MessageFacts
    <3>. QED
      BY <3>1 DEF memp_malloc, TypeOK
  <2>. QED
    BY Zenon, <2>1, <2>2, <2>3 DEF TypeOK, Grow
<1>4. Control'
  BY Zenon, <1>1, <1>2 DEF Control, Threads
<1>5. LockInv'
  <2>1. t = tcpip_thread => Holds(t)
    BY Zenon DEF Control, LockInv, Inside
  <2>. QED
    BY Zenon, <1>1, <2>1 DEF LockInv, Inside, Holds
<1>. QED
  BY Zenon, <1>3, <1>4, <1>5 DEF Place

(* A thread has posted its message and returns from the call.              *)
LEMMA PlacePosts ==
  ASSUME IInv, NEW t \in Threads, pc[t] \in {"post", "try"},
         Posts(msg[t]), Takes(t, None), Go(t, Back(t)),
         UNCHANGED <<used, lock, cur, owed, calls>>
  PROVE  Place'
<1> USE DEF IInv
<1>1. pc'[t] = Back(t) /\ \A u \in Threads \ {t} : pc'[u] = pc[u]
  BY Zenon, Goes
<1>2. msg'[t] = None /\ \A u \in Threads \ {t} : msg'[u] = msg[u]
  BY Zenon, MessageTaken
<1>3. /\ t = tcpip_thread => Back(t) = "handle" /\ Holds(t)
      /\ t # tcpip_thread => \/ Back(t) = "in" /\ Holds(t)
                             \/ Back(t) = "out" /\ ~Holds(t)
  BY Zenon, BackFacts
<1>4. TypeOK'
  <2>1. pc' \in [Threads -> {"out", "in", "post", "try", "lock", "fetch", "wait", "handle"}]
    BY Zenon, <1>3, Goes
  <2>2. msg' \in [Threads -> Messages \cup {None}]
    BY Zenon, MessageTaken
  <2>3. msg[t] \in Messages
    BY Zenon DEF TypeOK, Control
  <2>4. mbox' \in Seq(Messages)
    BY SMTT(60), <2>3 DEF Posts, TypeOK
  <2>. QED
    BY Zenon, <2>1, <2>2, <2>4 DEF TypeOK
<1>5. Control'
  BY Zenon, <1>1, <1>2, <1>3, CallersAreOthers DEF Control, Threads
<1>6. LockInv'
  BY Zenon, <1>1, <1>3 DEF LockInv, Inside, Holds
<1>. QED
  BY Zenon, <1>4, <1>5, <1>6 DEF Place

(* A thread moves on with no message; what it does to the lock agrees with *)
(* where it goes.                                                          *)
LEMMA PlaceMoves ==
  ASSUME IInv, NEW t \in Threads, NEW there, pc[t] \notin {"post", "try"}, Go(t, there),
         there \in IF t = tcpip_thread THEN {"fetch", "wait", "lock", "handle"} ELSE {"out", "in", "lock"},
         Inside(t)' <=> Holds(t)', \A u \in Threads \ {t} : Holds(u)' <=> Holds(u),
         TypeOK', UNCHANGED msg,
         t = tcpip_thread => (cur' # None => there \in {"lock", "handle"}),
         t # tcpip_thread => UNCHANGED cur
  PROVE  Place'
<1> USE DEF IInv
<1>1. pc'[t] = there /\ \A u \in Threads \ {t} : pc'[u] = pc[u]
  BY Zenon, Goes
<1>2. Control'
  BY Zenon, <1>1, CallersAreOthers DEF Control, Threads
<1>3. LockInv'
  BY Zenon, <1>1 DEF LockInv, Inside
<1>. QED
  BY Zenon, <1>2, <1>3 DEF Place

(* A step that changes no thread's place.                                  *)
LEMMA PlaceStays ==
  ASSUME IInv, Grow, UNCHANGED <<mbox, used, lock, pc, msg, cur, owed>>
  PROVE  Place'
<1>1. TypeOK'
  BY Zenon DEF IInv, TypeOK, Grow
<1>. QED
  BY Zenon, <1>1 DEF IInv, Place, Control, LockInv, Inside, Holds

LEMMA PlaceStep ==
  ASSUME IInv, Next
  PROVE  Place'
<1> USE DEF IInv
<1>0. /\ \A t \in Callers : t \in Threads /\ t # tcpip_thread
      /\ tcpip_thread \in Threads
      /\ lock.by \in Threads /\ lock.n \in {0, 1}
      /\ owed \subseteq Callers \X Nat
  BY Zenon, CallersAreOthers DEF Threads, TypeOK
<1>1. ASSUME NEW t \in Threads, tcpip_callback(t)
      PROVE  Place'
  <2>1. Grow
    BY Zenon, <1>1, EnterGrows DEF tcpip_callback
  <2>2. CASE memp_malloc("api") /\ Takes(t, [type |-> "callback"]) /\ Go(t, "post")
    <3>1. [type |-> "callback"] \in Messages /\ Pool([type |-> "callback"]) = "api"
      BY Zenon, MessageFacts DEF Pool
    <3>2. pc[t] \in {"out", "in", "handle"} /\ UNCHANGED <<mbox, lock, cur, owed>>
      BY Zenon, <1>1 DEF tcpip_callback
    <3>. QED
      BY Zenon, <1>0, <2>1, <2>2, <3>1, <3>2, PlaceTakes
  <2>3. CASE UNCHANGED <<used, msg, pc>>
    BY Zenon, <1>1, <2>1, <2>3, PlaceStays DEF tcpip_callback
  <2>. QED
    BY Zenon, <1>1, <2>2, <2>3 DEF tcpip_callback
<1>2. ASSUME NEW t \in Callers, tcpip_try_callback(t)
      PROVE  Place'
  <2>1. Grow
    BY Zenon, <1>0, <1>2, EnterGrows DEF tcpip_try_callback
  <2>2. CASE memp_malloc("api") /\ Takes(t, [type |-> "callback"]) /\ Go(t, "try")
    <3>1. [type |-> "callback"] \in Messages /\ Pool([type |-> "callback"]) = "api"
      BY Zenon, MessageFacts DEF Pool
    <3>2. pc[t] \in {"out", "in", "handle"} /\ UNCHANGED <<mbox, lock, cur, owed>>
      BY Zenon, <1>2 DEF tcpip_try_callback
    <3>. QED
      BY Zenon, <1>0, <2>1, <2>2, <3>1, <3>2, PlaceTakes
  <2>3. CASE UNCHANGED <<used, msg, pc>>
    BY Zenon, <1>2, <2>1, <2>3, PlaceStays DEF tcpip_try_callback
  <2>. QED
    BY Zenon, <1>2, <2>2, <2>3 DEF tcpip_try_callback
<1>3. ASSUME NEW t \in Callers, tcpip_inpkt(t)
      PROVE  Place'
  <2> DEFINE o == <<t, calls'[t]>>
             n == [type |-> "packet", of |-> o]
  <2>1. Grow
    BY Zenon, <1>0, <1>3, EnterGrows DEF tcpip_inpkt
  <2>2. o \in Callers \X Nat
    BY Zenon, <2>1 DEF Grow
  <2>3. n \in Messages /\ Pool(n) = "inpkt"
    BY Zenon, <2>2, MessageFacts DEF Pool
  <2>4. /\ pc[t] = "out" /\ memp_malloc("inpkt") /\ Takes(t, n) /\ Go(t, "try")
        /\ owed' = owed \cup {o} /\ UNCHANGED <<mbox, lock, cur>>
    BY Zenon, <1>3 DEF tcpip_inpkt
  <2>5. owed' \subseteq Callers \X Nat
    BY Zenon, <1>0, <2>2, <2>4
  <2> HIDE DEF n
  <2>. QED
    BY Zenon, <1>0, <2>1, <2>3, <2>4, <2>5, PlaceTakes
<1>4. ASSUME NEW t \in Threads, sys_mbox_post(t) \/ sys_mbox_trypost(t)
      PROVE  Place'
  <2>1. msg[t] # None
    BY Zenon, <1>4 DEF sys_mbox_post, sys_mbox_trypost, Control
  <2>2. ~Full
    BY Zenon, <2>1, HasRoom
  <2>3. /\ pc[t] \in {"post", "try"} /\ Posts(msg[t]) /\ Takes(t, None) /\ Go(t, Back(t))
        /\ UNCHANGED <<used, lock, cur, owed, calls>>
    BY Zenon, <1>4, <2>2 DEF sys_mbox_post, sys_mbox_trypost
  <2>. QED
    BY Zenon, <2>3, PlacePosts
<1>5. ASSUME NEW t \in Callers, NoMessageLeft(t)
      PROVE  Place'
  BY Zenon, <1>0, <1>5, EnterGrows, PlaceStays DEF NoMessageLeft
<1>6. ASSUME NEW t \in Callers, tcpip_api_call(t)
      PROVE  Place'
  <2>1. Grow
    BY Zenon, <1>0, <1>6, EnterGrows DEF tcpip_api_call
  <2>2. /\ pc[t] = "out" /\ Go(t, "lock") /\ UNCHANGED <<mbox, used, lock, msg, cur, owed>>
    BY Zenon, <1>6 DEF tcpip_api_call
  <2>3. TypeOK' /\ pc'[t] = "lock"
    BY Zenon, <1>0, <2>1, <2>2, Goes DEF TypeOK, Grow
  <2>4. ~Holds(t)
    BY Zenon, <1>0, <2>2 DEF LockInv
  <2>5. (Inside(t)' <=> Holds(t)') /\ \A u \in Threads \ {t} : Holds(u)' <=> Holds(u)
    BY Zenon, <1>0, <2>2, <2>3, <2>4 DEF Inside, Holds
  <2>. QED
    BY Zenon, <1>0, <2>2, <2>3, <2>5, PlaceMoves
<1>7. ASSUME NEW t \in Threads, Locked(t)
      PROVE  Place'
  <2> DEFINE there == IF t = tcpip_thread THEN "handle" ELSE "in"
  <2>1. /\ pc[t] = "lock" /\ sys_mutex_lock(t) /\ Go(t, there)
        /\ UNCHANGED <<mbox, used, msg, cur, owed, calls>>
    BY Zenon, <1>7 DEF Locked
  <2>2. ~Holds(t)
    BY Zenon, <2>1 DEF LockInv
  <2>3. lock.n = 0 /\ lock' = [by |-> t, n |-> 1]
    BY <1>0, <2>1, <2>2 DEF sys_mutex_lock, Holds
  <2>4. pc'[t] = there
    BY Zenon, <2>1, Goes
  <2>5. TypeOK'
    <3>1. pc' \in [Threads -> {"out", "in", "post", "try", "lock", "fetch", "wait", "handle"}]
      BY Zenon, <2>1, Goes
    <3>2. lock' \in [by : Threads, n : {0, 1}]
      BY Zenon, <2>3
    <3>. QED
      BY Zenon, <2>1, <3>1, <3>2 DEF TypeOK
  <2>6. (Inside(t)' <=> Holds(t)') /\ \A u \in Threads \ {t} : Holds(u)' <=> Holds(u)
    BY <2>3, <2>4 DEF Inside, Holds
  <2>. QED
    BY Zenon, <2>1, <2>5, <2>6, PlaceMoves
<1>8. ASSUME NEW t \in Threads, NEW there, pc[t] \in {"in", "fetch"}, Inside(t),
             sys_mutex_unlock(t), Go(t, there), there = IF t = tcpip_thread THEN "wait" ELSE "out",
             t = tcpip_thread => cur = None,
             UNCHANGED <<mbox, used, msg, cur, owed, calls>>
      PROVE  Place'
  <2>1. Holds(t)
    BY Zenon, <1>8 DEF LockInv
  <2>2. lock' = [by |-> t, n |-> 0]
    BY <1>8, <2>1 DEF sys_mutex_unlock, Holds, TypeOK
  <2>3. pc'[t] = there
    BY Zenon, <1>8, Goes
  <2>4. TypeOK'
    <3>1. pc' \in [Threads -> {"out", "in", "post", "try", "lock", "fetch", "wait", "handle"}]
      BY Zenon, <1>8, Goes
    <3>2. lock' \in [by : Threads, n : {0, 1}]
      BY Zenon, <2>2
    <3>. QED
      BY Zenon, <1>8, <3>1, <3>2 DEF TypeOK
  <2>5. (Inside(t)' <=> Holds(t)') /\ \A u \in Threads \ {t} : Holds(u)' <=> Holds(u)
    BY SMTT(60), <1>8, <2>1, <2>2, <2>3 DEF Inside, Holds
  <2>. QED
    BY Zenon, <1>8, <2>4, <2>5, PlaceMoves
<1>9. ASSUME NEW t \in Callers, Unlocked(t)
      PROVE  Place'
  <2>1. Inside(t)
    BY Zenon, <1>0, <1>9 DEF Inside, Unlocked
  <2>. QED
    BY <1>0, <1>8, <1>9, <2>1 DEF Unlocked
<1>10. CASE Fetch
  <2>1. Inside(tcpip_thread) /\ cur = None
    BY Zenon, <1>10 DEF Inside, Fetch, Control
  <2>. QED
    BY <1>0, <1>8, <1>10, <2>1 DEF Fetch
<1>11. CASE sys_arch_mbox_fetch \/ FetchTimesOut
  <2> DEFINE t == tcpip_thread
  <2>1. /\ pc[t] = "wait" /\ Go(t, "lock") /\ UNCHANGED <<used, lock, msg, owed, calls>>
        /\ mbox' \in Seq(Messages) /\ cur' \in Messages \cup {None}
    <3>1. mbox \in Seq(Messages) /\ cur \in Messages \cup {None}
      BY Zenon DEF TypeOK
    <3>2. CASE sys_arch_mbox_fetch
      BY <3>1, <3>2 DEF sys_arch_mbox_fetch
    <3>3. CASE FetchTimesOut
      BY Zenon, <3>1, <3>3 DEF FetchTimesOut
    <3>. QED
      BY Zenon, <1>11, <3>2, <3>3
  <2>2. ~Holds(t)
    BY Zenon, <1>0, <2>1 DEF LockInv
  <2>3. pc'[t] = "lock" /\ TypeOK'
    BY Zenon, <1>0, <2>1, Goes DEF TypeOK
  <2>4. (Inside(t)' <=> Holds(t)') /\ \A u \in Threads \ {t} : Holds(u)' <=> Holds(u)
    BY Zenon, <2>1, <2>2, <2>3 DEF Inside, Holds
  <2>. QED
    BY Zenon, <1>0, <2>1, <2>3, <2>4, PlaceMoves
<1>12. CASE tcpip_thread_handle_msg
  <2> DEFINE t == tcpip_thread
  <2>1. /\ pc[t] = "handle" /\ Go(t, "fetch") /\ UNCHANGED <<mbox, lock, msg, calls>> /\ cur' = None
    BY Zenon, <1>12 DEF tcpip_thread_handle_msg
  <2>2. Holds(t)
    BY Zenon, <1>0, <2>1 DEF LockInv, Inside
  <2>3. pc'[t] = "fetch" /\ pc' \in [Threads -> {"out", "in", "post", "try", "lock", "fetch", "wait", "handle"}]
    BY Zenon, <1>0, <2>1, Goes
  <2>4. TypeOK'
    <3>1. used' \in [Pools -> Nat]
      BY Zenon, <1>12, PoolFrees DEF tcpip_thread_handle_msg
    <3>2. owed' \subseteq Callers \X Nat
      BY Zenon, <1>0, <1>12 DEF tcpip_thread_handle_msg, pbuf_free
    <3>. QED
      BY Zenon, <2>1, <2>3, <3>1, <3>2 DEF TypeOK
  <2>5. (Inside(t)' <=> Holds(t)') /\ \A u \in Threads \ {t} : Holds(u)' <=> Holds(u)
    BY Zenon, <2>1, <2>2, <2>3 DEF Inside, Holds
  <2>. QED
    BY Zenon, <1>0, <2>1, <2>4, <2>5, PlaceMoves
<1>. QED
  BY SMTT(60), <1>0, <1>1, <1>2, <1>3, <1>4, <1>5, <1>6, <1>7, <1>9, <1>10, <1>11, <1>12
  DEF Next, Thread, Caller

(***************************************************************************)
(* The theorem.                                                            *)
(***************************************************************************)
LEMMA InitHolds == Init => IInv
<1> SUFFICES ASSUME Init PROVE IInv
  BY Zenon
<1>0. /\ tcpip_thread \in Threads /\ tcpip_thread \notin Callers /\ Callers \subseteq Threads
      /\ mbox = <<>> /\ DOMAIN mbox = {} /\ msg = [t \in Threads |-> None] /\ cur = None
      /\ None.type = "none"
  BY SMTT(60), CallersAreOthers DEF Init, Threads, None
<1>1. TypeOK
  BY <1>0 DEF Init, TypeOK, PoolSize, Pools
<1>2. Control /\ LockInv
  BY Zenon, <1>0 DEF Init, Control, LockInv, Inside, Holds
<1>3. PoolInv
  <2> SUFFICES ASSUME NEW p \in Pools
               PROVE  /\ used[p] = Cardinality(Slots(mbox, p)) + Cardinality(Posters(msg, p)) + AtWork(cur, p)
                      /\ used[p] <= PoolSize[p]
    BY Zenon DEF PoolInv
  <2>1. Slots(mbox, p) = {} /\ Posters(msg, p) = {} /\ AtWork(cur, p) = 0
    BY Zenon, <1>0 DEF Slots, Posters, AtWork
  <2>2. Cardinality({}) = 0
    BY Zenon, FS_EmptySet
  <2>3. used[p] = 0 /\ PoolSize[p] \in Nat
    BY SMTT(60), PoolsFitMbox DEF Init, PoolSize, Pools
  <2>. QED
    BY SMTT(60), <2>1, <2>2, <2>3
<1>4. OwedInv /\ Unique
  BY Zenon, <1>0 DEF Init, OwedInv, Unique, Same
<1>. QED
  BY Zenon, <1>1, <1>2, <1>3, <1>4 DEF IInv

LEMMA StepHolds == IInv /\ [Next]_vars => IInv'
<1> SUFFICES ASSUME IInv, [Next]_vars PROVE IInv'
  BY Zenon
<1>1. CASE Next
  BY Zenon, <1>1, FlightStep, PlaceStep DEF IInv, Flight, Place
<1>2. CASE UNCHANGED vars
  <2>1. Grow /\ UNCHANGED <<mbox, used, lock, pc, msg, cur, owed, twice, calls>>
    BY Zenon, <1>2, CallsStay DEF vars
  <2>. QED
    BY Zenon, <2>1, NothingMoves, PlaceStays DEF IInv, Flight, Place
<1>. QED
  BY Zenon, <1>1, <1>2

LEMMA InvariantIsSound == IInv => EntrySound
<1> SUFFICES ASSUME IInv PROVE EntrySound
  BY Zenon
<1> USE DEF IInv
<1>1. \A p \in DOMAIN PoolSize : used[p] = Holding(p)
  <2>1. DOMAIN PoolSize = Pools
    BY Zenon DEF PoolSize, Pools
  <2>. QED
    BY Zenon, <2>1 DEF PoolInv, Holding, Slots, Posters, AtWork
<1>2. owed = {m.of : m \in {n \in InFlight : n.type = "packet"}}
  BY DEF OwedInv, Carries, InFlight
<1>3. RoomToPost
  BY Zenon, HasRoom DEF RoomToPost
<1>4. OneInside
  BY Zenon DEF LockInv, Holds, OneInside
<1>. QED
  BY Zenon, <1>1, <1>2, <1>3, <1>4 DEF EntrySound, MessagesOwned, OwedInv

(* For any threads, and pools that fit the mailbox: no message or packet   *)
(* given to tcpip.c is lost or freed twice, a thread with a message always *)
(* finds room to post it, and one thread at a time is in the stack.        *)
THEOREM EntryIsSound == Spec => []EntrySound
<1>1. IInv /\ [Next]_vars => IInv'
  BY Zenon, StepHolds
<1>. QED
  BY <1>1, InitHolds, InvariantIsSound, PTL DEF Spec
=============================================================================
