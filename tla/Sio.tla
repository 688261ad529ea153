-------------------------------- MODULE Sio ---------------------------------
(***************************************************************************)
(* lwip_port/sio.c: bringing up a 4G modem over a UART and carrying PPP    *)
(* frames over it.  Actors: the task mobile_network_task (priority 5)      *)
(* which sends AT commands and reboots the modem; the receive thread of    *)
(* pppos_example.c (priority 4), inside sio_read, which parses the answers *)
(* and later cuts the PPP byte stream into pieces; the UART interrupt; the *)
(* PPP stack that calls sio_write.  The modem is external: what it can     *)
(* send is taken from what the code sends to it and waits for.             *)
(*                                                                         *)
(* The two threads share m.rnsm without a lock.  The task runs from one    *)
(* vTaskDelay to the next without blocking and with the higher priority,   *)
(* so each such stretch is one step; the receive thread can be preempted   *)
(* between any two statements.                                             *)
(*                                                                         *)
(* What arrives is a sequence of tokens, each one unit of buffer space:    *)
(* the start of an answer the code looks for, other text, the end of a     *)
(* line, the PPP flag 0x7e and other PPP bytes.                            *)
(***************************************************************************)
EXTENDS Integers, Sequences

CONSTANTS FirstTimeout,    \* 1000/100, turns waited for OK before the first reboot
          LaterTimeout,    \* 60000/100, after it
          StepTimeout,     \* 60, turns waited in the later states
          QueueLen,        \* 260, length of recvQueue
          BufferLen,       \* 1500, sizeof(arrRxChar)
          FrameLen,        \* 128, the length pppos_rx_thread passes to sio_read
          MaxOwed,         \* bound on the tokens under way from the modem
          Prompt           \* the modem answers at once, and is heard before the delay ends

ASSUME SioAssumption ==
    /\ {FirstTimeout, LaterTimeout, StepTimeout, QueueLen, MaxOwed} \subseteq Nat \ {0}
    /\ FrameLen \in Nat \ {0} /\ BufferLen \in Nat /\ FrameLen < BufferLen
    /\ Prompt \in BOOLEAN

States == {"at_reset", "at_ok", "at_cgreg", "at_atd", "at_enter_ppp", "at_reboot"}
Tokens == {"OK", "CGREG", "CONNECT", "text", "eol", "flag", "byte"}

VARIABLES rnsm, m_reboot_count,     \* m; the count is only compared with 0 and stops at 1
          recvQueue,
          mntAt, count,             \* the loop in which the task sleeps, and its counter
          rxPc, target,             \* receive thread: position, argument of m_state_change
          arrRxCharNb, lineStart,   \* fill level of arrRxChar, token at its start
          pppStarted, written,      \* ppp_connect was called; outcome of the last sio_write
          modem, registered, owed   \* external: the modem

m == <<rnsm, m_reboot_count>>
rxVars == <<rxPc, target, arrRxCharNb, lineStart>>
pppVars == <<pppStarted, written>>
modemVars == <<modem, registered, owed>>
vars == <<m, recvQueue, mntAt, count, rxVars, pppVars, modemVars>>

\* mobile_network_module_register_up.  The modem may be running already, even in the
\* data mode of an earlier connection.
Init ==
    /\ rnsm = "at_reset" /\ m_reboot_count = 0
    /\ recvQueue = <<>>
    /\ mntAt = "start" /\ count = 0
    /\ rxPc = "receive" /\ target = "none"
    /\ arrRxCharNb = 0 /\ lineStart = "none"
    /\ pppStarted = FALSE /\ written = "none"
    /\ modem \in {"command", "data"}
    /\ registered = FALSE /\ owed = <<>>

-----------------------------------------------------------------------------
\* The modem (external).

Command == [at_reset |-> "AT", at_ok |-> "CGREG?", at_cgreg |-> "CGDCONT", at_atd |-> "ATD"]

Answer(cmd) ==
    CASE cmd = "AT" -> <<"OK", "eol">>
      [] cmd = "CGREG?" -> <<IF registered THEN "CGREG" ELSE "text", "eol", "OK", "eol">>
      [] cmd = "CGDCONT" -> <<"OK", "eol">>
      [] cmd = "ATD" -> <<IF registered THEN "CONNECT" ELSE "text", "text", "eol">>

\* In command mode it answers, or the command or the answer is lost.
Send(cmd) ==
    \/ /\ modem = "command"
       /\ Len(owed) + Len(Answer(cmd)) <= MaxOwed
       /\ owed' = owed \o Answer(cmd)
       /\ modem' = IF cmd = "ATD" /\ registered THEN "data" ELSE modem
       /\ UNCHANGED registered
    \/ /\ modem # "command" \/ ~Prompt
       /\ UNCHANGED modemVars

PowerOff == modem' = "off" /\ registered' = FALSE /\ owed' = <<>>

Register ==
    /\ modem = "command" /\ ~registered
    /\ registered' = TRUE
    /\ UNCHANGED <<m, recvQueue, mntAt, count, rxVars, pppVars, modem, owed>>

\* Unsolicited text in command mode, PPP bytes in data mode.
Unsolicited ==
    /\ owed = <<>>
    /\ \/ modem = "command" /\ ~Prompt /\ owed' \in {<<"text">>, <<"text", "eol">>}
       \/ modem = "data" /\ (Prompt => rnsm = "at_enter_ppp") /\ owed' \in {<<"byte">>, <<"flag">>}
    /\ UNCHANGED <<m, recvQueue, mntAt, count, rxVars, pppVars, modem, registered>>

\* The UART interrupt puts what arrives into recvQueue, or drops it when that is full.
Interrupt ==
    /\ owed # <<>>
    /\ owed' = Tail(owed)
    /\ recvQueue' = IF Len(recvQueue) < QueueLen THEN Append(recvQueue, Head(owed)) ELSE recvQueue
    /\ UNCHANGED <<m, mntAt, count, rxVars, pppVars, modem, registered>>

-----------------------------------------------------------------------------
\* mobile_network_task, from the end of one vTaskDelay to the start of the next.

\* A delay is over; a prompt modem has been heard by then, and boots two turns
\* before the later timeout: an OK in the last turn would be overwritten (TimeoutReboot).
DelayOver ==
    Prompt => /\ owed = <<>> /\ recvQueue = <<>> /\ rxPc = "receive"
              /\ modem = "booting" => count + 1 < LaterTimeout

\* The task reaches the loop of state s: one more turn of it, the n-th.
LoopTurn(s, n) ==
    /\ mntAt' = s
    /\ CASE s \in DOMAIN Command -> count' = n /\ Send(Command[s])
         [] s = "at_reboot" -> count' = 0 /\ PowerOff
         [] s = "at_enter_ppp" -> count' = 0 /\ UNCHANGED modemVars

ResetTimedOut == count > (IF m_reboot_count = 0 THEN FirstTimeout ELSE LaterTimeout)

\* Mutant of TimeoutReboot: dialling times out in the same way.
TimeoutRebootDialling ==
    /\ \/ mntAt = "at_reset" /\ ResetTimedOut
       \/ mntAt = "at_atd" /\ count > StepTimeout
    /\ DelayOver
    /\ m_reboot_count' = 1
    /\ rnsm' = "at_reboot"
    /\ LoopTurn("at_reboot", 0)
    /\ UNCHANGED <<recvQueue, rxVars, pppVars>>

\* m_state_change(at_reboot), called in the loop of at_reset without looking at m.rnsm
\* again after the delay; the next loop switches the modem off.
TimeoutReboot ==
    /\ mntAt = "at_reset"
    /\ DelayOver
    /\ ResetTimedOut
    /\ m_reboot_count' = 1
    /\ rnsm' = "at_reboot"
    /\ LoopTurn("at_reboot", 0)
    /\ UNCHANGED <<recvQueue, rxVars, pppVars>>

\* Mutant of Rebooted: the modem is not switched on again.
RebootedOff ==
    /\ mntAt = "at_reboot"
    /\ DelayOver
    /\ rnsm' = "at_reset"
    /\ mntAt' = "at_reset" /\ count' = 1
    /\ UNCHANGED <<m_reboot_count, recvQueue, rxVars, pppVars, modemVars>>

\* The delay of module_reboot is over: the modem is switched on, m_state_change(at_reset),
\* first AT command.  The modem is still booting and does not hear it.
Rebooted ==
    /\ mntAt = "at_reboot"
    /\ DelayOver
    /\ rnsm' = "at_reset"
    /\ mntAt' = "at_reset" /\ count' = 1
    /\ modem' = "booting"
    /\ UNCHANGED <<m_reboot_count, recvQueue, rxVars, pppVars, registered, owed>>

Booted ==
    /\ modem = "booting"
    /\ modem' = "command"
    /\ UNCHANGED <<m, recvQueue, mntAt, count, rxVars, pppVars, registered, owed>>

\* Every other end of a delay: one more turn if m.rnsm is what it was, the loop of the
\* new state otherwise.  The timeouts of at_ok, at_cgreg and at_atd only leave the loop,
\* and enter it again with the counter at 0.
TaskTurn ==
    /\ mntAt # "at_reboot"
    /\ DelayOver
    /\ ~(mntAt = "at_reset" /\ ResetTimedOut)
    /\ LoopTurn(rnsm, IF rnsm # mntAt \/ (rnsm # "at_reset" /\ count > StepTimeout)
                      THEN 1 ELSE count + 1)
    /\ UNCHANGED <<m, recvQueue, rxVars, pppVars>>

-----------------------------------------------------------------------------
\* mobile_network_rx, called by sio_read in the loop of pppos_rx_thread.

\* Mutant of ReceiveAT: the size of the buffer is not tested.
ReceiveATUnbounded ==
    /\ rxPc = "receive" /\ recvQueue # <<>>
    /\ rnsm # "at_enter_ppp"
    /\ recvQueue' = Tail(recvQueue)
    /\ arrRxCharNb' = arrRxCharNb + 1
    /\ lineStart' = IF arrRxCharNb = 0 THEN Head(recvQueue) ELSE lineStart
    /\ rxPc' = IF Head(recvQueue) = "eol" THEN "line" ELSE "receive"
    /\ UNCHANGED <<m, mntAt, count, target, pppVars, modemVars>>

\* One byte in an AT state: it goes into arrRxChar; a full buffer is emptied, and the byte
\* lost.  The end of a line ends the answer.
ReceiveAT ==
    /\ rxPc = "receive" /\ recvQueue # <<>>
    /\ rnsm # "at_enter_ppp"
    /\ recvQueue' = Tail(recvQueue)
    /\ arrRxCharNb' = IF arrRxCharNb < BufferLen THEN arrRxCharNb + 1 ELSE 0
    /\ lineStart' = IF arrRxCharNb = 0 THEN Head(recvQueue) ELSE lineStart
    /\ rxPc' = IF Head(recvQueue) = "eol" THEN "line" ELSE "receive"
    /\ UNCHANGED <<m, mntAt, count, target, pppVars, modemVars>>

FrameEnds(c, nb) == (nb # 1 /\ c = "flag") \/ nb = FrameLen

\* One byte of PPP: a flag other than at the start, or len bytes, complete a piece, which
\* goes to pppos_input_tcpip.
ReceivePPP ==
    /\ rxPc = "receive" /\ recvQueue # <<>>
    /\ rnsm = "at_enter_ppp"
    /\ recvQueue' = Tail(recvQueue)
    /\ arrRxCharNb' = IF FrameEnds(Head(recvQueue), arrRxCharNb + 1) THEN 0 ELSE arrRxCharNb + 1
    /\ lineStart' = "none"
    /\ UNCHANGED <<m, mntAt, count, rxPc, target, pppVars, modemVars>>

\* Mutant of Advances: OK is taken for the answer to the dial command.
AdvancesOnOK ==
    [at_reset |-> [answer |-> "OK", to |-> "at_ok"],
     at_ok |-> [answer |-> "CGREG", to |-> "at_cgreg"],
     at_cgreg |-> [answer |-> "OK", to |-> "at_atd"],
     at_atd |-> [answer |-> "OK", to |-> "at_enter_ppp"]]

\* The answer each state waits for, and the state it leads to.
Advances ==
    [at_reset |-> [answer |-> "OK", to |-> "at_ok"],
     at_ok |-> [answer |-> "CGREG", to |-> "at_cgreg"],
     at_cgreg |-> [answer |-> "OK", to |-> "at_atd"],
     at_atd |-> [answer |-> "CONNECT", to |-> "at_enter_ppp"]]

\* A line is complete: it is compared with the answer the state waits for.
Line ==
    LET heard == rnsm \in DOMAIN Advances /\ Advances[rnsm].answer = lineStart IN
    /\ rxPc = "line"
    /\ target' = IF heard THEN Advances[rnsm].to ELSE "none"
    /\ rxPc' = CASE ~heard -> "clear"
                 [] heard /\ target' = "at_enter_ppp" -> "connect"
                 [] OTHER -> "store"
    /\ UNCHANGED <<m, recvQueue, mntAt, count, arrRxCharNb, lineStart, pppVars, modemVars>>

\* m_state_change(at_enter_ppp): ppp_connect comes before the state is stored.
Connect ==
    /\ rxPc = "connect"
    /\ pppStarted' = TRUE
    /\ rxPc' = "store"
    /\ UNCHANGED <<m, recvQueue, mntAt, count, target, arrRxCharNb, lineStart, written, modemVars>>

\* The last statement of m_state_change.
Store ==
    /\ rxPc = "store"
    /\ rnsm' = target
    /\ target' = "none"
    /\ rxPc' = "clear"
    /\ UNCHANGED <<m_reboot_count, recvQueue, mntAt, count, arrRxCharNb, lineStart, pppVars, modemVars>>

\* Mutant of Clear: the buffer is not emptied after a line.
ClearNothing ==
    /\ rxPc = "clear"
    /\ rxPc' = "receive"
    /\ UNCHANGED <<m, recvQueue, mntAt, count, target, arrRxCharNb, lineStart, pppVars, modemVars>>

Clear ==
    /\ rxPc = "clear"
    /\ arrRxCharNb' = 0
    /\ lineStart' = "none"
    /\ rxPc' = "receive"
    /\ UNCHANGED <<m, recvQueue, mntAt, count, target, pppVars, modemVars>>

\* sio_write, called by the PPP stack once it was started: refused in the AT states.
SioWrite ==
    /\ pppStarted
    /\ written' = IF rnsm = "at_enter_ppp" THEN "sent" ELSE "refused"
    /\ UNCHANGED <<m, recvQueue, mntAt, count, rxVars, pppStarted, modemVars>>

-----------------------------------------------------------------------------
Task == TimeoutReboot \/ Rebooted \/ TaskTurn
Receiver == ReceiveAT \/ ReceivePPP \/ Line \/ Connect \/ Store \/ Clear
Modem == Register \/ Booted \/ Unsolicited

Next == Task \/ Receiver \/ Modem \/ Interrupt \/ SioWrite

Spec == Init /\ [][Next]_vars

\* Delays end, the receive thread and the interrupt run, a modem boots and registers, PPP
\* repeats what was refused.
Fairness ==
    /\ WF_vars(Task) /\ WF_vars(Receiver) /\ WF_vars(Interrupt)
    /\ WF_vars(Register) /\ WF_vars(Booted) /\ WF_vars(SioWrite)
FairSpec == Spec /\ Fairness
-----------------------------------------------------------------------------
\* Every variable has its type; the queue and the line buffer stay within their sizes.
TypeOK ==
    /\ rnsm \in States /\ m_reboot_count \in {0, 1}
    /\ recvQueue \in Seq(Tokens) /\ Len(recvQueue) <= QueueLen
    /\ mntAt \in States \cup {"start"} /\ count \in Nat
    /\ rxPc \in {"receive", "line", "connect", "store", "clear"}
    /\ target \in States \cup {"none"}
    /\ arrRxCharNb \in 0 .. BufferLen
    /\ lineStart \in Tokens \cup {"none"}
    /\ pppStarted \in BOOLEAN /\ written \in {"none", "refused", "sent"}
    /\ modem \in {"off", "booting", "command", "data"}
    /\ registered \in BOOLEAN
    /\ owed \in Seq(Tokens)

\* In PPP mode the receive thread always has room for the next byte in the caller's
\* buffer of len bytes: the test arrRxCharNb==len (sio.c:371) is an equality, and would
\* never stop a count that started beyond it.  The count is the one the AT states use.
FrameFits == (rnsm = "at_enter_ppp" /\ rxPc = "receive") => arrRxCharNb < FrameLen

\* PPP is only entered, and never outlived, while the modem is in data mode: no stale or
\* reordered answer, and no reboot that crosses an answer, makes the code take the AT
\* channel for a PPP link.
PPPMeansData == rnsm = "at_enter_ppp" => modem = "data"

\* What the PPP stack relies on below it.
ChannelSound == FrameFits /\ PPPMeansData

\* The store of at_reboot after a delay, which does not look at m.rnsm again, never
\* takes the link down: at_enter_ppp is final.
PPPIsFinal == [][rnsm = "at_enter_ppp" => rnsm' = "at_enter_ppp"]_vars

\* With a modem that answers in time the link comes up, and a frame of the PPP stack
\* gets out, even if the modem was left in data mode by an earlier connection.
LinkComesUp == <>(rnsm = "at_enter_ppp" /\ written = "sent")

\* The modem is rebooted only if it has not returned OK, as the comment at sio.c:152 says.
RebootOnlyWithoutOK == [][m_reboot_count' # m_reboot_count => rnsm = "at_reset"]_vars

\* The first reboot comes after 5 seconds, 50 delays of 100 ms, without OK (sio.c:152).
FirstRebootAfter5s == [][m_reboot_count' # m_reboot_count => count >= 50]_vars
=============================================================================
