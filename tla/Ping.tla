-------------------------------- MODULE Ping --------------------------------
(***************************************************************************)
(* The ping command: ping_cmd.c, run by the command-line task, and ping.c  *)
(* in its socket variant, one task per command.  The tasks share           *)
(* ping_target, a pointer to a variable of the command's stack frame, and  *)
(* ping_seq_num.  The network delays, reorders, duplicates and loses       *)
(* replies, but keeps none longer than MaxAge requests.                    *)
(***************************************************************************)
EXTENDS Naturals, Sequences

CONSTANTS Addrs,     \* addresses a user may give
          Tasks,     \* ping_thread instances, in the order they are started
          SeqSpace,  \* 2^16: ping_seq_num is a u16_t
          RecvMbox,  \* DEFAULT_RAW_RECVMBOX_SIZE
          MaxAge     \* bound: requests sent while a reply is on its way

(* One request more may go out while a reply waits in the mailbox.         *)
AgeBelowWrap == MaxAge \in Nat /\ SeqSpace \in Nat /\ MaxAge + 1 < SeqSpace

VARIABLES param,    \* uxParameterNumber
          frame,    \* the value of the stack slot of pingCmd's addr
          given,    \* the addresses given so far
          seq,      \* ping_seq_num
          pc, recv, \* each task: where it is, the mailbox of its socket
          net,      \* replies on their way: sequence number and age
          sent,     \* where the last request went
          got       \* the age of the reply a task last took for its answer

vars == <<param, frame, given, seq, pc, recv, net, sent, got>>

Junk    == "junk"
Nothing == "nothing"
NewTask == CHOOSE i \in 1 .. Len(Tasks) + 1 :
               i > Len(Tasks) \/ (pc[Tasks[i]] = "none"
                                  /\ \A j \in 1 .. i - 1 : pc[Tasks[j]] # "none")
TaskSet == {Tasks[i] : i \in DOMAIN Tasks}

Init ==
    /\ param = 0 /\ frame = Junk /\ given = {}
    /\ seq = 0
    /\ pc = [t \in TaskSet |-> "none"]
    /\ recv = [t \in TaskSet |-> <<>>]
    /\ net = {} /\ sent = Nothing /\ got = 0

(***************************************************************************)
(* The command.  The first call asks to be called again, the second parses *)
(* the address and starts a task, for which ping_target is the address of  *)
(* frame.  (An address that does not parse would leave frame as it was.)   *)
(***************************************************************************)
pingCmdFirst ==
    /\ param = 0
    /\ param' = 1
    /\ UNCHANGED <<frame, given, seq, pc, recv, net, sent, got>>

pingCmdSecond(a) ==
    /\ param = 1 /\ NewTask <= Len(Tasks)
    /\ param' = 0
    /\ frame' = a
    /\ given' = given \cup {a}
    /\ pc' = [pc EXCEPT ![Tasks[NewTask]] = "start"]
    /\ UNCHANGED <<seq, recv, net, sent, got>>

(* The command has returned: its frame is the next function's.             *)
FrameReused ==
    /\ param = 0
    /\ frame' = Junk
    /\ UNCHANGED <<param, given, seq, pc, recv, net, sent, got>>

(***************************************************************************)
(* ping_thread.                                                            *)
(***************************************************************************)
lwip_socket(t) ==
    /\ pc[t] = "start"
    /\ pc' = [pc EXCEPT ![t] = "send"]
    /\ UNCHANGED <<param, frame, given, seq, recv, net, sent, got>>

(* s < 0: the task function returns.                                       *)
NoSocket(t) ==
    /\ pc[t] = "start"
    /\ pc' = [pc EXCEPT ![t] = "returned"]
    /\ UNCHANGED <<param, frame, given, seq, recv, net, sent, got>>

(* ping_send: lwip_sendto's -1 counts as success (err ? ERR_OK : ERR_VAL), *)
(* so that the task waits for a reply whether or not a request went out.   *)
(* Every reply on its way grows one request older.                         *)
Older == {[r EXCEPT !.age = @ + 1] : r \in {x \in net : x.age < MaxAge}}
ping_send(t) ==
    /\ pc[t] = "send"
    /\ seq' = (seq + 1) % SeqSpace
    /\ \/ sent' = frame /\ net' = Older \cup {[seq |-> seq', age |-> 0]}
       \/ UNCHANGED sent /\ net' = Older
    /\ recv' = [u \in TaskSet |-> [i \in DOMAIN recv[u] |->
                                      [recv[u][i] EXCEPT !.age = @ + 1]]]
    /\ pc' = [pc EXCEPT ![t] = "recv"]
    /\ UNCHANGED <<param, frame, given, got>>

(* mem_malloc fails: ERR_MEM, and the task sleeps.                         *)
NoMemory(t) ==
    /\ pc[t] = "send"
    /\ pc' = [pc EXCEPT ![t] = "sleep"]
    /\ UNCHANGED <<param, frame, given, seq, recv, net, sent, got>>

(* Mutant of ping_recv: any reply is the answer.                           *)
ping_recvAny(t) ==
    /\ pc[t] = "recv" /\ recv[t] # <<>>
    /\ recv' = [recv EXCEPT ![t] = Tail(@)]
    /\ got' = Head(recv[t]).age
    /\ pc' = [pc EXCEPT ![t] = "sleep"]
    /\ UNCHANGED <<param, frame, given, seq, net, sent>>

(* One round of the loop of ping_recv: a reply with another number than    *)
(* the current one is dropped and the wait starts again.                   *)
ping_recv(t) ==
    /\ pc[t] = "recv" /\ recv[t] # <<>>
    /\ recv' = [recv EXCEPT ![t] = Tail(@)]
    /\ IF Head(recv[t]).seq = seq
       THEN got' = Head(recv[t]).age /\ pc' = [pc EXCEPT ![t] = "sleep"]
       ELSE UNCHANGED <<got, pc>>
    /\ UNCHANGED <<param, frame, given, seq, net, sent>>

RecvTimesOut(t) ==
    /\ pc[t] = "recv" /\ recv[t] = <<>>
    /\ pc' = [pc EXCEPT ![t] = "sleep"]
    /\ UNCHANGED <<param, frame, given, seq, recv, net, sent, got>>

sys_msleep(t) ==
    /\ pc[t] = "sleep"
    /\ pc' = [pc EXCEPT ![t] = "send"]
    /\ UNCHANGED <<param, frame, given, seq, recv, net, sent, got>>

(* A reply arrives, perhaps not for the last time, at every raw socket     *)
(* with room in its mailbox.                                               *)
Arrives ==
    /\ \E r \in net, twice \in BOOLEAN :
           /\ recv' = [t \in TaskSet |->
                  IF pc[t] \in {"send", "recv", "sleep"} /\ Len(recv[t]) < RecvMbox
                  THEN Append(recv[t], r) ELSE recv[t]]
           /\ net' = IF twice THEN net ELSE net \ {r}
    /\ UNCHANGED <<param, frame, given, seq, pc, sent, got>>

Next ==
    \/ pingCmdFirst \/ FrameReused \/ Arrives
    \/ \E a \in Addrs : pingCmdSecond(a)
    \/ \E t \in TaskSet : \/ lwip_socket(t) \/ NoSocket(t) \/ ping_send(t) \/ NoMemory(t)
                          \/ ping_recv(t) \/ RecvTimesOut(t) \/ sys_msleep(t)

Spec == Init /\ [][Next]_vars

(***************************************************************************)
(* Properties.                                                             *)
(***************************************************************************)
(* What ping_recv takes for the answer is the reply to the request just    *)
(* sent, although replies to earlier requests wait in the mailbox of the   *)
(* socket and ping_seq_num wraps: no reply outlives the numbers.           *)
AnswersThisRequest == got = 0

(* "ping <ip>": a request goes to an address a user gave.                  *)
PingsTheAddress == sent \in given \cup {Nothing}
=============================================================================
