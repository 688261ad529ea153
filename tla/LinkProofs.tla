----------------------------- MODULE LinkProofs -----------------------------
(***************************************************************************)
(* Proof that the serial channel of sio.c is what the PPP stack takes it   *)
(* for: the receive thread always has room for a byte of PPP, PPP is only  *)
(* spoken to a modem in data mode, and once entered it is never left --    *)
(* for any timeouts, buffer and queue lengths, and a modem that answers    *)
(* late, not at all, or was left in data mode; and that the ping command   *)
(* takes no reply but the one to its last request.                         *)
(***************************************************************************)
EXTENDS MCLink, TLAPS

(* The inductive invariant: CONNECT is heard, or PPP entered, only after   *)
(* the task dialled, and then the task is past the loop that may reboot.   *)
Dialled == modem = "data" /\ mntAt \in {"at_atd", "at_enter_ppp"}
HasConnect(s) == \E i \in DOMAIN s : s[i] = "CONNECT"

DialInv ==
    /\ HasConnect(owed) \/ HasConnect(recvQueue) \/ lineStart = "CONNECT" => Dialled
    /\ "at_enter_ppp" \in {rnsm, target} => Dialled
    /\ mntAt \in {"at_atd", "at_enter_ppp"} => rnsm \in {"at_atd", "at_enter_ppp"}
    /\ target # "none" => \/ rnsm \in {"at_reset", "at_reboot"}
                          \/ rnsm \in DOMAIN Advances /\ target = Advances[rnsm].to
    /\ target # "none" <=> rxPc \in {"connect", "store"}

IInv == TypeOK /\ DialInv /\ FrameFits

(***************************************************************************)
(* Lemmas on what is under way.                                            *)
(***************************************************************************)
(* Joining, taking from and adding to sequences of tokens.                 *)
LEMMA ConnectJoins ==
  ASSUME NEW s \in Seq(Tokens), NEW r \in Seq(Tokens)
  PROVE  s \o r \in Seq(Tokens) /\ (HasConnect(s \o r) => HasConnect(s) \/ HasConnect(r))
<1>1. /\ s \o r \in Seq(Tokens) /\ Len(s) \in Nat /\ Len(r) \in Nat
      /\ DOMAIN s = 1 .. Len(s) /\ DOMAIN r = 1 .. Len(r)
      /\ DOMAIN (s \o r) = 1 .. (Len(s) + Len(r))
      /\ \A i \in 1 .. (Len(s) + Len(r)) : (s \o r)[i] = IF i <= Len(s) THEN s[i] ELSE r[i - Len(s)]
  OBVIOUS
<1>2. ASSUME NEW i \in DOMAIN (s \o r), (s \o r)[i] = "CONNECT"
      PROVE  HasConnect(s) \/ HasConnect(r)
  <2>1. CASE i <= Len(s)
    BY <1>1, <1>2, <2>1 DEF HasConnect
  <2>2. CASE ~(i <= Len(s))
    <3>1. i - Len(s) \in DOMAIN r /\ r[i - Len(s)] = "CONNECT"
      BY <1>1, <1>2, <2>2
    <3>. QED
      BY Zenon, <3>1 DEF HasConnect
  <2>. QED
    BY Zenon, <2>1, <2>2
<1>. QED
  BY Zenon, <1>1, <1>2 DEF HasConnect

LEMMA ConnectTaken ==
  ASSUME NEW s \in Seq(Tokens), s # <<>>
  PROVE  /\ Tail(s) \in Seq(Tokens) /\ Head(s) \in Tokens /\ Len(Tail(s)) = Len(s) - 1
         /\ HasConnect(Tail(s)) => HasConnect(s)
         /\ Head(s) = "CONNECT" => HasConnect(s)
<1>1. /\ Tail(s) \in Seq(Tokens) /\ Len(s) \in Nat \ {0} /\ DOMAIN s = 1 .. Len(s)
      /\ DOMAIN Tail(s) = 1 .. (Len(s) - 1) /\ Head(s) = s[1] /\ Head(s) \in Tokens
      /\ \A i \in 1 .. (Len(s) - 1) : Tail(s)[i] = s[i + 1]
      /\ Len(Tail(s)) = Len(s) - 1
  OBVIOUS
<1>2. \A i \in 1 .. (Len(s) - 1) : i + 1 \in DOMAIN s
  BY <1>1
<1>3. 1 \in DOMAIN s
  BY <1>1
<1>. QED
  BY Zenon, <1>1, <1>2, <1>3 DEF HasConnect

LEMMA ConnectAdded ==
  ASSUME NEW s \in Seq(Tokens), NEW c \in Tokens
  PROVE  /\ Append(s, c) \in Seq(Tokens) /\ Len(Append(s, c)) = Len(s) + 1
         /\ HasConnect(Append(s, c)) => HasConnect(s) \/ c = "CONNECT"
  BY DEF HasConnect

LEMMA EmptyFacts == <<>> \in Seq(Tokens) /\ Len(<<>>) = 0 /\ ~HasConnect(<<>>)
  BY DEF HasConnect

(* The modem says CONNECT only to ATD, once it is registered.              *)
LEMMA AnswerFacts ==
  ASSUME registered \in BOOLEAN, NEW cmd \in {"AT", "CGREG?", "CGDCONT", "ATD"}
  PROVE  /\ Answer(cmd) \in Seq(Tokens)
         /\ HasConnect(Answer(cmd)) => cmd = "ATD" /\ registered
<1>1. CASE cmd = "AT"
  BY <1>1 DEF Answer, Tokens, HasConnect
<1>2. CASE cmd = "CGREG?"
  BY <1>2 DEF Answer, Tokens, HasConnect
<1>3. CASE cmd = "CGDCONT"
  BY <1>3 DEF Answer, Tokens, HasConnect
<1>4. CASE cmd = "ATD"
  BY <1>4 DEF Answer, Tokens, HasConnect
<1>. QED
  BY Zenon, <1>1, <1>2, <1>3, <1>4

(* What sending a command may do to the modem.                             *)
LEMMA SendFacts ==
  ASSUME TypeOK, NEW cmd \in {"AT", "CGREG?", "CGDCONT", "ATD"}, Send(cmd)
  PROVE  /\ modem' \in {"off", "booting", "command", "data"} /\ registered' = registered
         /\ owed' \in Seq(Tokens)
         /\ modem = "data" => modem' = "data"
         /\ HasConnect(owed') => HasConnect(owed) \/ (cmd = "ATD" /\ modem' = "data")
<1>1. CASE UNCHANGED modemVars
  BY Zenon, <1>1 DEF TypeOK, modemVars
<1>2. CASE /\ modem = "command" /\ owed' = owed \o Answer(cmd)
           /\ modem' = IF cmd = "ATD" /\ registered THEN "data" ELSE modem
           /\ UNCHANGED registered
  <2>1. /\ Answer(cmd) \in Seq(Tokens)
        /\ HasConnect(Answer(cmd)) => cmd = "ATD" /\ registered
    BY Zenon, AnswerFacts DEF TypeOK
  <2>2. /\ owed \o Answer(cmd) \in Seq(Tokens)
        /\ HasConnect(owed \o Answer(cmd)) => HasConnect(owed) \/ HasConnect(Answer(cmd))
    BY Zenon, <2>1, ConnectJoins DEF TypeOK
  <2>. QED
    BY Zenon, <1>2, <2>1, <2>2 DEF TypeOK
<1>. QED
  BY Zenon, <1>1, <1>2 DEF Send

(***************************************************************************)
(* The steps.                                                              *)
(***************************************************************************)
LEMMA InitHolds == Init => IInv
<1> SUFFICES ASSUME Init PROVE IInv
  BY Zenon
<1>1. TypeOK
  <2>1. QueueLen \in Nat /\ 0 \in 0 .. BufferLen
    BY SioAssumption
  <2>2. recvQueue \in Seq(Tokens) /\ Len(recvQueue) <= QueueLen /\ owed \in Seq(Tokens)
    BY <2>1, EmptyFacts DEF Init
  <2>. QED
    BY Zenon, <2>1, <2>2 DEF Init, TypeOK, States
<1>. QED
  BY <1>1, SioAssumption DEF Init, IInv, DialInv, FrameFits, HasConnect

(* The task reboots the modem only before it has dialled.                  *)
LEMMA TaskHolds ==
  ASSUME IInv, Task
  PROVE  IInv'
<1> USE DEF IInv
<1>1. CASE TimeoutReboot
  <2>1. /\ mntAt = "at_reset" /\ mntAt' = "at_reboot" /\ rnsm' = "at_reboot" /\ m_reboot_count' = 1
        /\ count' = 0 /\ modem' = "off" /\ registered' = FALSE /\ owed' = <<>>
        /\ UNCHANGED <<recvQueue, rxPc, target, arrRxCharNb, lineStart, pppStarted, written>>
    BY Zenon, <1>1 DEF TimeoutReboot, LoopTurn, Command, PowerOff, rxVars, pppVars
  <2>2. TypeOK'
    BY ZenonT(60), <2>1, EmptyFacts DEF TypeOK, States
  <2>. QED
    BY <2>1, <2>2 DEF DialInv, FrameFits, Dialled, HasConnect
<1>2. CASE Rebooted
  <2>1. /\ mntAt = "at_reboot" /\ mntAt' = "at_reset" /\ rnsm' = "at_reset" /\ count' = 1
        /\ modem' = "booting"
        /\ UNCHANGED <<m_reboot_count, recvQueue, rxPc, target, arrRxCharNb, lineStart, pppStarted,
                       written, registered, owed>>
    BY Zenon, <1>2 DEF Rebooted, rxVars, pppVars
  <2>2. TypeOK'
    BY <2>1 DEF TypeOK, States
  <2>. QED
    BY Zenon, <2>1, <2>2 DEF DialInv, FrameFits, Dialled, HasConnect
<1>3. CASE TaskTurn
  <2> DEFINE n == IF rnsm # mntAt \/ (rnsm # "at_reset" /\ count > StepTimeout) THEN 1 ELSE count + 1
  <2>1. /\ mntAt # "at_reboot" /\ LoopTurn(rnsm, n)
        /\ UNCHANGED <<rnsm, m_reboot_count, recvQueue, rxPc, target, arrRxCharNb, lineStart, pppStarted, written>>
    BY Zenon, <1>3 DEF TaskTurn, rxVars, pppVars, m
  <2>2. n \in Nat
    BY DEF TypeOK
  <2>3. CASE rnsm \in {"at_reset", "at_ok", "at_cgreg", "at_atd"}
    <3> DEFINE cmd == Command[rnsm]
    <3>1. /\ cmd \in {"AT", "CGREG?", "CGDCONT", "ATD"} /\ (cmd = "ATD" <=> rnsm = "at_atd")
          /\ rnsm \in DOMAIN Command
      BY <2>3 DEF Command
    <3>2. mntAt' = rnsm /\ count' = n /\ Send(cmd)
      BY Zenon, <2>1, <2>3, <3>1 DEF LoopTurn
    <3>3. /\ modem' \in {"off", "booting", "command", "data"} /\ registered' = registered
          /\ owed' \in Seq(Tokens)
          /\ modem = "data" => modem' = "data"
          /\ HasConnect(owed') => HasConnect(owed) \/ (cmd = "ATD" /\ modem' = "data")
      BY Zenon, <3>1, <3>2, SendFacts
    <3>4. TypeOK'
      BY ZenonT(60), <2>1, <2>2, <3>2, <3>3 DEF TypeOK
    <3>5. DialInv'
      BY Zenon, <2>1, <2>3, <3>1, <3>2, <3>3 DEF DialInv, Dialled, HasConnect
    <3>. QED
      BY Zenon, <2>1, <3>4, <3>5 DEF FrameFits
  <2>4. CASE rnsm = "at_enter_ppp"
    <3>1. mntAt' = rnsm /\ count' = 0 /\ UNCHANGED <<modem, registered, owed>>
      BY Zenon, <2>1, <2>4 DEF LoopTurn, Command, modemVars
    <3>2. TypeOK'
      BY <2>1, <2>4, <3>1 DEF TypeOK
    <3>. QED
      BY Zenon, <2>1, <2>4, <3>1, <3>2 DEF DialInv, FrameFits, Dialled, HasConnect
  <2>5. CASE rnsm = "at_reboot"
    <3>1. /\ mntAt' = rnsm /\ count' = 0 /\ modem' = "off" /\ registered' = FALSE /\ owed' = <<>>
      BY Zenon, <2>1, <2>5 DEF LoopTurn, Command, PowerOff
    <3>2. TypeOK'
      BY ZenonT(60), <2>1, <2>5, <3>1, EmptyFacts DEF TypeOK
    <3>3. ~Dialled
      BY Zenon, <2>5 DEF DialInv, Dialled
    <3>. QED
      BY <2>1, <2>5, <3>1, <3>2, <3>3 DEF DialInv, FrameFits, Dialled, HasConnect
  <2>. QED
    BY Zenon, <2>3, <2>4, <2>5 DEF TypeOK, States
<1>. QED
  BY Zenon, <1>1, <1>2, <1>3 DEF Task

(* What the receive thread stores follows from what it heard.              *)
LEMMA ReceiverHolds ==
  ASSUME IInv, Receiver
  PROVE  IInv'
<1> USE DEF IInv
<1>0. /\ DOMAIN Advances = {"at_reset", "at_ok", "at_cgreg", "at_atd"}
      /\ Advances["at_reset"] = [answer |-> "OK", to |-> "at_ok"]
      /\ Advances["at_ok"] = [answer |-> "CGREG", to |-> "at_cgreg"]
      /\ Advances["at_cgreg"] = [answer |-> "OK", to |-> "at_atd"]
      /\ Advances["at_atd"] = [answer |-> "CONNECT", to |-> "at_enter_ppp"]
  BY Zenon DEF Advances
<1>1. ASSUME rxPc = "receive", recvQueue # <<>>, recvQueue' = Tail(recvQueue),
             arrRxCharNb' \in 0 .. BufferLen, rxPc' \in {"line", "receive"},
             lineStart' \in {"none", lineStart, Head(recvQueue)},
             rnsm = "at_enter_ppp" => arrRxCharNb' < FrameLen,
             UNCHANGED <<rnsm, m_reboot_count, mntAt, count, target, pppStarted, written, modem, registered, owed>>
      PROVE  IInv'
  <2>1. /\ Tail(recvQueue) \in Seq(Tokens) /\ Head(recvQueue) \in Tokens
        /\ Len(Tail(recvQueue)) = Len(recvQueue) - 1
        /\ HasConnect(Tail(recvQueue)) => HasConnect(recvQueue)
        /\ Head(recvQueue) = "CONNECT" => HasConnect(recvQueue)
    BY Zenon, <1>1, ConnectTaken DEF TypeOK
  <2>2. Len(recvQueue) \in Nat /\ QueueLen \in Nat /\ Len(recvQueue) <= QueueLen
    BY SioAssumption DEF TypeOK
  <2>3. Len(recvQueue') <= QueueLen
    BY <1>1, <2>1, <2>2
  <2>4. TypeOK'
    BY SMTT(60), <1>1, <2>1, <2>3 DEF TypeOK
  <2>5. DialInv'
    BY Zenon, <1>1, <2>1 DEF DialInv, Dialled, HasConnect
  <2>. QED
    BY Zenon, <1>1, <2>4, <2>5 DEF FrameFits
<1>2. CASE ReceiveAT
  <2>1. arrRxCharNb' \in 0 .. BufferLen
    BY <1>2, SioAssumption DEF ReceiveAT, TypeOK
  <2>. QED
    BY Zenon, <1>1, <1>2, <2>1 DEF ReceiveAT, m, pppVars, modemVars
<1>3. CASE ReceivePPP
  <2>1. arrRxCharNb < FrameLen /\ arrRxCharNb \in Nat
    BY <1>3 DEF ReceivePPP, FrameFits, TypeOK
  <2>2. arrRxCharNb' \in 0 .. BufferLen /\ arrRxCharNb' < FrameLen
    BY <1>3, <2>1, SioAssumption DEF ReceivePPP, FrameEnds
  <2>. QED
    BY Zenon, <1>1, <1>3, <2>2 DEF ReceivePPP, m, pppVars, modemVars
<1>4. CASE Line
  <2>1. /\ rxPc = "line" /\ target = "none"
        /\ UNCHANGED <<rnsm, m_reboot_count, recvQueue, mntAt, count, arrRxCharNb, lineStart,
                       pppStarted, written, modem, registered, owed>>
    BY Zenon, <1>4 DEF Line, DialInv, m, pppVars, modemVars
  <2>2. CASE rnsm \in DOMAIN Advances /\ Advances[rnsm].answer = lineStart
    <3>1. target' = Advances[rnsm].to /\ rxPc' = IF target' = "at_enter_ppp" THEN "connect" ELSE "store"
      BY Zenon, <1>4, <2>2 DEF Line
    <3>2. target' \in {"at_ok", "at_cgreg", "at_atd", "at_enter_ppp"}
      BY <2>2, <3>1 DEF Advances
    <3>3. target' = "at_enter_ppp" => lineStart = "CONNECT"
      BY SMTT(60), <2>2, <3>1 DEF Advances
    <3>4. TypeOK'
      BY <2>1, <3>1, <3>2 DEF TypeOK, States
    <3>5. DialInv'
      BY Zenon, <2>1, <2>2, <3>1, <3>2, <3>3 DEF DialInv, Dialled, HasConnect, Advances
    <3>. QED
      BY Zenon, <2>1, <3>1, <3>4, <3>5 DEF FrameFits
  <2>3. CASE ~(rnsm \in DOMAIN Advances /\ Advances[rnsm].answer = lineStart)
    <3>1. target' = "none" /\ rxPc' = "clear"
      BY Zenon, <1>4, <2>3 DEF Line
    <3>2. TypeOK'
      BY ZenonT(60), <2>1, <3>1 DEF TypeOK
    <3>. QED
      BY Zenon, <2>1, <3>1, <3>2 DEF DialInv, FrameFits, Dialled, HasConnect
  <2>. QED
    BY Zenon, <2>2, <2>3
<1>5. CASE Connect
  <2>1. TypeOK'
    BY ZenonT(60), <1>5 DEF Connect, TypeOK, m, modemVars
  <2>. QED
    BY Zenon, <1>5, <2>1 DEF Connect, DialInv, FrameFits, Dialled, HasConnect, Advances, m, modemVars
<1>6. CASE Store
  <2>1. /\ rxPc = "store" /\ target # "none" /\ rnsm' = target /\ target' = "none" /\ rxPc' = "clear"
        /\ UNCHANGED <<m_reboot_count, recvQueue, mntAt, count, arrRxCharNb, lineStart,
                       pppStarted, written, modem, registered, owed>>
    BY Zenon, <1>6 DEF Store, DialInv, pppVars, modemVars
  <2>2. TypeOK'
    BY Zenon, <2>1 DEF TypeOK
  <2>3. mntAt \in {"at_atd", "at_enter_ppp"} => target = "at_enter_ppp"
    BY <1>0, <2>1 DEF DialInv
  <2>4. DialInv'
    BY Zenon, <2>1, <2>3 DEF DialInv, Dialled, HasConnect
  <2>. QED
    BY Zenon, <2>1, <2>2, <2>4 DEF FrameFits
<1>7. CASE Clear
  <2>1. TypeOK'
    BY <1>7, SioAssumption DEF Clear, TypeOK, m, pppVars, modemVars
  <2>. QED
    BY SMTT(60), <1>7, <2>1, SioAssumption DEF Clear, DialInv, FrameFits, Dialled, HasConnect, Advances, m, modemVars
<1>. QED
  BY Zenon, <1>2, <1>3, <1>4, <1>5, <1>6, <1>7 DEF Receiver

(* The modem and the interrupt pass on what was said.                      *)
LEMMA OthersHold ==
  ASSUME IInv, Modem \/ Interrupt \/ SioWrite \/ UNCHANGED vars
  PROVE  IInv'
<1> USE DEF IInv
<1>1. CASE Register \/ Booted \/ SioWrite \/ UNCHANGED vars
  <2>1. /\ UNCHANGED <<rnsm, m_reboot_count, recvQueue, mntAt, count, rxPc, target, arrRxCharNb,
                       lineStart, pppStarted, owed>>
        /\ modem' \in {"off", "booting", "command", "data"} /\ (modem = "data" => modem' = "data")
        /\ registered' \in BOOLEAN /\ written' \in {"none", "refused", "sent"}
    BY Zenon, <1>1 DEF Register, Booted, SioWrite, vars, m, rxVars, pppVars, modemVars, TypeOK
  <2>2. TypeOK'
    BY Zenon, <2>1 DEF TypeOK
  <2>. QED
    BY Zenon, <2>1, <2>2 DEF DialInv, FrameFits, Dialled, HasConnect, Advances
<1>2. CASE Unsolicited
  <2>1. owed' \in Seq(Tokens) /\ ~HasConnect(owed')
    <3>1. owed' \in {<<"text">>, <<"text", "eol">>, <<"byte">>, <<"flag">>}
      BY Zenon, <1>2 DEF Unsolicited
    <3>2. \A s \in {<<"text">>, <<"text", "eol">>, <<"byte">>, <<"flag">>} : s \in Seq(Tokens) /\ ~HasConnect(s)
      <4>1. <<"text">> \in Seq(Tokens) /\ ~HasConnect(<<"text">>)
        BY DEF Tokens, HasConnect
      <4>2. <<"text", "eol">> \in Seq(Tokens) /\ ~HasConnect(<<"text", "eol">>)
        BY DEF Tokens, HasConnect
      <4>3. <<"byte">> \in Seq(Tokens) /\ ~HasConnect(<<"byte">>)
        BY DEF Tokens, HasConnect
      <4>4. <<"flag">> \in Seq(Tokens) /\ ~HasConnect(<<"flag">>)
        BY DEF Tokens, HasConnect
      <4>. QED
        BY Zenon, <4>1, <4>2, <4>3, <4>4
    <3>. QED
      BY Zenon, <3>1, <3>2
  <2>2. UNCHANGED <<rnsm, m_reboot_count, recvQueue, mntAt, count, rxPc, target, arrRxCharNb,
                    lineStart, pppStarted, written, modem, registered>>
    BY Zenon, <1>2 DEF Unsolicited, m, rxVars, pppVars
  <2>3. TypeOK'
    BY <2>1, <2>2 DEF TypeOK
  <2>. QED
    BY Zenon, <2>1, <2>2, <2>3 DEF DialInv, FrameFits, Dialled, HasConnect, Advances
<1>3. CASE Interrupt
  <2>1. /\ owed # <<>> /\ owed' = Tail(owed)
        /\ recvQueue' = IF Len(recvQueue) < QueueLen THEN Append(recvQueue, Head(owed)) ELSE recvQueue
        /\ UNCHANGED <<rnsm, m_reboot_count, mntAt, count, rxPc, target, arrRxCharNb,
                       lineStart, pppStarted, written, modem, registered>>
    BY Zenon, <1>3 DEF Interrupt, m, rxVars, pppVars
  <2>2. /\ Tail(owed) \in Seq(Tokens) /\ Head(owed) \in Tokens
        /\ HasConnect(Tail(owed)) => HasConnect(owed)
        /\ Head(owed) = "CONNECT" => HasConnect(owed)
    BY Zenon, <2>1, ConnectTaken DEF TypeOK
  <2>3. /\ Append(recvQueue, Head(owed)) \in Seq(Tokens)
        /\ Len(Append(recvQueue, Head(owed))) = Len(recvQueue) + 1
        /\ HasConnect(Append(recvQueue, Head(owed))) => HasConnect(recvQueue) \/ Head(owed) = "CONNECT"
    BY Zenon, <2>2, ConnectAdded DEF TypeOK
  <2>4. recvQueue' \in Seq(Tokens) /\ Len(recvQueue') <= QueueLen
    <3>1. Len(recvQueue) \in Nat /\ QueueLen \in Nat /\ Len(recvQueue) <= QueueLen /\ recvQueue \in Seq(Tokens)
      BY SioAssumption DEF TypeOK
    <3>. QED
      BY <2>1, <2>3, <3>1
  <2>5. HasConnect(recvQueue') => HasConnect(recvQueue) \/ HasConnect(owed)
    BY Zenon, <2>1, <2>2, <2>3
  <2>6. TypeOK'
    BY SMTT(60), <2>1, <2>2, <2>4 DEF TypeOK
  <2>7. DialInv'
    BY Zenon, <2>1, <2>2, <2>5 DEF DialInv, Dialled, HasConnect, Advances
  <2>. QED
    BY Zenon, <2>1, <2>6, <2>7 DEF FrameFits
<1>. QED
  BY Zenon, <1>1, <1>2, <1>3 DEF Modem

LEMMA StepHolds == IInv /\ [Next]_vars => IInv'
  BY Zenon, TaskHolds, ReceiverHolds, OthersHold DEF Next

(* For any timeouts and buffer sizes, whatever the modem says and when:    *)
(* sio.c takes the line for a PPP link only while the modem is in data     *)
(* mode, and a piece of PPP never outgrows the caller's buffer.            *)
THEOREM ChannelIsSound == Spec => []ChannelSound
<1>1. IInv /\ [Next]_vars => IInv'
  BY Zenon, StepHolds
<1>2. IInv => ChannelSound
  BY Zenon DEF IInv, DialInv, Dialled, ChannelSound, PPPMeansData
<1>. QED
  BY <1>1, <1>2, InitHolds, PTL DEF Spec

(* The reboot that does not look at m.rnsm again never takes a link down.  *)
THEOREM LinkIsFinal == Spec => PPPIsFinal
<1>1. IInv /\ [Next]_vars => IInv'
  BY Zenon, StepHolds
<1>2. IInv /\ [Next]_vars => [rnsm = "at_enter_ppp" => rnsm' = "at_enter_ppp"]_vars
  <2> SUFFICES ASSUME IInv, [Next]_vars, rnsm = "at_enter_ppp"
               PROVE  rnsm' = "at_enter_ppp"
    BY Zenon
  <2>1. mntAt \in {"at_atd", "at_enter_ppp"}
    BY Zenon DEF IInv, DialInv, Dialled
  <2>2. target \notin {"at_ok", "at_cgreg", "at_atd"} /\ rxPc # "store"
    BY Zenon DEF IInv, DialInv, Advances
  <2>. QED
    BY Zenon, <2>1, <2>2 DEF Next, Task, TimeoutReboot, Rebooted, TaskTurn, Receiver, ReceiveAT, ReceivePPP,
       Line, Connect, Store, Clear, Modem, Register, Booted, Unsolicited, Interrupt, SioWrite, m, vars
<1>. QED
  BY <1>1, <1>2, InitHolds, PTL DEF Spec, PPPIsFinal

-----------------------------------------------------------------------------
(***************************************************************************)
(* The ping command.  A reply is known by the number of requests sent      *)
(* since the one it answers: its age.  While the task reads its mailbox,   *)
(* what has waited there since before the last request is one request      *)
(* older than the network allows, and lies before everything newer.        *)
(***************************************************************************)
Numbers == 0 .. SeqSpace - 1
Replies == [seq : Numbers, age : Nat]

\* The number of the request sent n requests ago, while the last was number s.
Ago(s, n) == IF n <= s THEN s - n ELSE s - n + SeqSpace

Aged(s, r, limit) == r.age <= limit /\ r.seq = Ago(s, r.age)

Mail(s, where, box) ==
    IF where = "recv"
    THEN \A i \in 1 .. Len(box) :
            /\ Aged(s, box[i], MaxAge + 1)
            /\ box[i].age = MaxAge + 1 => \A j \in 1 .. i : box[j].age >= 1
    ELSE \A i \in 1 .. Len(box) : Aged(s, box[i], MaxAge)

PingStates == {"none", "start", "returned", "send", "recv", "sleep"}

PingInv ==
    /\ seq \in Numbers /\ got = 0
    /\ net \subseteq Replies /\ \A r \in net : Aged(seq, r, MaxAge)
    /\ pc \in [{"t1"} -> PingStates] /\ recv \in [{"t1"} -> Seq(Replies)]
    /\ Mail(seq, pc["t1"], recv["t1"])

\* The command has one task in this instance.
LEMMA OneTask == Ping!TaskSet = {"t1"}
  BY DEF Ping!TaskSet

\* A request makes everything before it one request older, also where the numbers wrap.
LEMMA AgoNext ==
    ASSUME NEW s \in Numbers, NEW n \in Nat, n <= MaxAge
    PROVE  /\ (s + 1) % SeqSpace \in Numbers
           /\ Ago((s + 1) % SeqSpace, n + 1) = Ago(s, n)
<1>1. SeqSpace \in Nat /\ MaxAge \in Nat /\ MaxAge + 1 < SeqSpace
  BY Zenon, RepliesAge DEF Ping!AgeBelowWrap
<1>2. CASE s = SeqSpace - 1
  <2>1. (s + 1) % SeqSpace = 0
    BY <1>1, <1>2
  <2>. QED  BY <1>1, <1>2, <2>1 DEF Ago, Numbers
<1>3. CASE s < SeqSpace - 1
  <2>1. (s + 1) % SeqSpace = s + 1
    BY <1>1, <1>3 DEF Numbers
  <2>. QED  BY <1>1, <1>3, <2>1 DEF Ago, Numbers
<1>. QED  BY <1>1, <1>2, <1>3 DEF Numbers

\* Only the reply to the last request carries its number.
LEMMA OnlyTheLast ==
    ASSUME NEW s \in Numbers, NEW r \in Replies, Aged(s, r, MaxAge + 1), r.seq = s
    PROVE  r.age = 0
  BY RepliesAge DEF Ping!AgeBelowWrap, Numbers, Replies, Aged, Ago

LEMMA PingInit == Ping!Init => PingInv
<1> SUFFICES ASSUME Ping!Init PROVE PingInv
  BY Zenon
<1>1. seq \in Numbers /\ got = 0 /\ net = {}
  BY RepliesAge DEF Ping!Init, Ping!AgeBelowWrap, Numbers
<1>2. pc \in [{"t1"} -> PingStates] /\ recv = [t \in {"t1"} |-> <<>>]
  BY Zenon, OneTask DEF Ping!Init, PingStates
<1>3. recv \in [{"t1"} -> Seq(Replies)] /\ Len(recv["t1"]) = 0
  BY <1>2
<1>. QED  BY <1>1, <1>2, <1>3 DEF PingInv, Mail

\* The commands start a task that has not run, and change no reply.
LEMMA CommandKeeps ==
    ASSUME PingInv,
           Ping!pingCmdFirst \/ Ping!FrameReused \/ \E a \in Addrs : Ping!pingCmdSecond(a)
    PROVE  PingInv'
<1>1. UNCHANGED <<seq, recv, net, got>>
  BY Zenon DEF Ping!pingCmdFirst, Ping!FrameReused, Ping!pingCmdSecond
<1>2. pc' = pc \/ (pc["t1"] = "none" /\ pc' = [pc EXCEPT !["t1"] = "start"])
  <2>1. CASE Ping!pingCmdFirst \/ Ping!FrameReused
    BY Zenon, <2>1 DEF Ping!pingCmdFirst, Ping!FrameReused
  <2>2. ASSUME NEW a \in Addrs, Ping!pingCmdSecond(a)
        PROVE  pc["t1"] = "none" /\ pc' = [pc EXCEPT !["t1"] = "start"]
    <3> DEFINE One == <<"t1">>
               Free(i) == i > Len(One) \/ (pc[One[i]] = "none"
                                           /\ \A j \in 1 .. i - 1 : pc[One[j]] # "none")
               n == CHOOSE i \in 1 .. Len(One) + 1 : Free(i)
    <3>0. Len(One) = 1 /\ One[1] = "t1"
      BY Zenon
    <3>1. n \in 1 .. Len(One) + 1 /\ Free(n)
      <4>1. 2 \in 1 .. Len(One) + 1 /\ Free(2)
        BY <3>0
      <4> HIDE DEF Free, One
      <4>. QED  BY Zenon, <4>1
    <3>2. Ping!NewTask = n
      BY Zenon DEF Ping!NewTask
    <3>3. n <= Len(One) /\ pc' = [pc EXCEPT ![One[n]] = "start"]
      BY Zenon, <2>2, <3>2 DEF Ping!pingCmdSecond
    <3> HIDE DEF n, One
    <3>4. n = 1
      BY <3>0, <3>1, <3>3
    <3>5. One[n] = "t1"
      BY Zenon, <3>0, <3>4
    <3>6. pc["t1"] = "none"
      BY <3>0, <3>1, <3>4, <3>5
    <3>7. pc' = [pc EXCEPT !["t1"] = "start"]
      BY <3>3, <3>5, Zenon
    <3>. QED  BY Zenon, <3>6, <3>7
  <2>. QED  BY Zenon, <2>1, <2>2
<1>3. CASE pc' = pc
  BY Zenon, <1>1, <1>3 DEF PingInv
<1>4. CASE pc["t1"] = "none" /\ pc' = [pc EXCEPT !["t1"] = "start"]
  <2>1. pc' \in [{"t1"} -> PingStates] /\ pc'["t1"] = "start"
    BY Zenon, <1>4 DEF PingInv, PingStates
  <2>2. Mail(seq, "start", recv["t1"])
    BY Zenon, <1>4 DEF PingInv, Mail
  <2>. QED  BY Zenon, <1>1, <2>1, <2>2 DEF PingInv
<1>. QED  BY Zenon, <1>2, <1>3, <1>4

\* Steps of the task that leave replies alone and do not enter or leave ping_recv.
LEMMA TaskMoves ==
    ASSUME PingInv,
           Ping!lwip_socket("t1") \/ Ping!NoSocket("t1") \/ Ping!NoMemory("t1")
             \/ Ping!RecvTimesOut("t1") \/ Ping!sys_msleep("t1")
    PROVE  PingInv'
<1>1. UNCHANGED <<seq, recv, net, got>>
  BY Zenon DEF Ping!lwip_socket, Ping!NoSocket, Ping!NoMemory, Ping!RecvTimesOut, Ping!sys_msleep
<1>2. PICK x \in PingStates \ {"recv"} : pc' = [pc EXCEPT !["t1"] = x]
  BY Zenon DEF Ping!lwip_socket, Ping!NoSocket, Ping!NoMemory, Ping!RecvTimesOut, Ping!sys_msleep, PingStates
<1>3. pc["t1"] # "recv" \/ recv["t1"] = <<>>
  BY Zenon DEF Ping!lwip_socket, Ping!NoSocket, Ping!NoMemory, Ping!RecvTimesOut, Ping!sys_msleep
<1>4. pc' \in [{"t1"} -> PingStates] /\ pc'["t1"] = x
  BY Zenon, <1>2 DEF PingInv
<1>5. Mail(seq, x, recv["t1"])
  BY <1>2, <1>3 DEF PingInv, Mail
<1>. QED  BY Zenon, <1>1, <1>4, <1>5 DEF PingInv

LEMMA SendKeeps == ASSUME PingInv, Ping!ping_send("t1") PROVE PingInv'
<1>0. SeqSpace \in Nat /\ MaxAge \in Nat /\ MaxAge + 1 < SeqSpace
  BY Zenon, RepliesAge DEF Ping!AgeBelowWrap
<1> DEFINE now == (seq + 1) % SeqSpace
           box == recv["t1"]
           old == [i \in DOMAIN box |-> [box[i] EXCEPT !.age = @ + 1]]
<1>1. seq' = now /\ now \in Numbers /\ got' = got
  BY AgoNext, <1>0 DEF Ping!ping_send, PingInv
<1>2. /\ pc["t1"] = "send" /\ pc' = [pc EXCEPT !["t1"] = "recv"]
      /\ pc' \in [{"t1"} -> PingStates] /\ pc'["t1"] = "recv"
  BY Zenon DEF Ping!ping_send, PingInv, PingStates
<1>3. ASSUME NEW r \in Replies, Aged(seq, r, MaxAge)
      PROVE  /\ [r EXCEPT !.age = @ + 1] \in Replies
             /\ Aged(now, [r EXCEPT !.age = @ + 1], MaxAge + 1)
             /\ r.age < MaxAge => Aged(now, [r EXCEPT !.age = @ + 1], MaxAge)
  <2>1. r.age \in Nat /\ r.seq \in Numbers /\ r.age <= MaxAge
    BY Zenon, <1>3 DEF Replies, Aged
  <2>2. Ago(now, r.age + 1) = Ago(seq, r.age)
    BY Zenon, <2>1, AgoNext DEF PingInv
  <2>. QED  BY <1>0, <1>3, <2>1, <2>2 DEF Aged, Replies
<1>4. net' \subseteq Replies /\ \A r \in net' : Aged(now, r, MaxAge)
  <2>1. ASSUME NEW r \in Ping!Older PROVE r \in Replies /\ Aged(now, r, MaxAge)
    <3>1. PICK x \in net : x.age < MaxAge /\ r = [x EXCEPT !.age = @ + 1]
      BY Zenon, <2>1 DEF Ping!Older
    <3>2. x \in Replies /\ Aged(seq, x, MaxAge)
      BY Zenon DEF PingInv
    <3>. QED  BY Zenon, <1>3, <3>1, <3>2
  <2>2. [seq |-> now, age |-> 0] \in Replies /\ Aged(now, [seq |-> now, age |-> 0], MaxAge)
    BY <1>0, <1>1 DEF Replies, Aged, Ago, Numbers
  <2>3. net' \subseteq Ping!Older \cup {[seq |-> now, age |-> 0]}
    BY Zenon, <1>1 DEF Ping!ping_send
  <2>. QED  BY Zenon, <2>1, <2>2, <2>3
<1>5. /\ box \in Seq(Replies) /\ \A i \in 1 .. Len(box) : box[i] \in Replies /\ Aged(seq, box[i], MaxAge)
  BY <1>2 DEF PingInv, Mail
<1>6. recv' = [t \in {"t1"} |-> old]
  BY Zenon, OneTask DEF Ping!ping_send
<1>7. /\ old \in Seq(Replies) /\ Len(old) = Len(box)
      /\ \A i \in 1 .. Len(old) : old[i] = [box[i] EXCEPT !.age = @ + 1]
  <2>1. DOMAIN box = 1 .. Len(box) /\ Len(box) \in Nat
    BY <1>5
  <2>2. \A i \in 1 .. Len(box) : old[i] = [box[i] EXCEPT !.age = @ + 1] /\ old[i] \in Replies
    BY Zenon, <1>3, <1>5, <2>1
  <2>3. old = [i \in 1 .. Len(box) |-> old[i]]
    BY Zenon, <2>1
  <2> HIDE DEF old
  <2>4. old \in [1 .. Len(box) -> Replies]
    BY Zenon, <2>2, <2>3
  <2> HIDE DEF box
  <2>5. old \in Seq(Replies) /\ Len(old) = Len(box)
    BY <2>1, <2>4
  <2>. QED  BY Zenon, <2>2, <2>5
<1>8. Mail(now, "recv", old)
  <2> SUFFICES ASSUME NEW i \in 1 .. Len(old)
               PROVE  Aged(now, old[i], MaxAge + 1) /\ \A j \in 1 .. i : old[j].age >= 1
    BY Zenon DEF Mail
  <2>1. Aged(now, old[i], MaxAge + 1)
    BY Zenon, <1>3, <1>5, <1>7
  <2>2. ASSUME NEW j \in 1 .. i PROVE old[j].age >= 1
    <3>1. j \in 1 .. Len(box) /\ old[j] = [box[j] EXCEPT !.age = @ + 1]
      BY <1>5, <1>7
    <3>2. box[j] \in Replies
      BY Zenon, <1>5, <3>1
    <3>. QED  BY <3>1, <3>2 DEF Replies
  <2>. QED  BY Zenon, <2>1, <2>2
<1> HIDE DEF now, box, old
<1>. QED  BY Zenon, <1>1, <1>2, <1>4, <1>6, <1>7, <1>8 DEF PingInv

LEMMA RecvKeeps == ASSUME PingInv, Ping!ping_recv("t1") PROVE PingInv'
<1> DEFINE box == recv["t1"]
<1>0. MaxAge \in Nat
  BY Zenon, RepliesAge DEF Ping!AgeBelowWrap
<1>1. /\ pc["t1"] = "recv" /\ box \in Seq(Replies) /\ box # <<>> /\ Len(box) \in Nat
      /\ Mail(seq, "recv", box) /\ seq \in Numbers
  BY DEF Ping!ping_recv, PingInv
<1>2. /\ Tail(box) \in Seq(Replies) /\ Len(Tail(box)) = Len(box) - 1 /\ Len(box) >= 1
      /\ \A i \in 1 .. Len(Tail(box)) : Tail(box)[i] = box[i + 1]
      /\ Head(box) = box[1]
  BY <1>1
<1>3. /\ recv' = [recv EXCEPT !["t1"] = Tail(box)] /\ recv' \in [{"t1"} -> Seq(Replies)]
      /\ recv'["t1"] = Tail(box) /\ UNCHANGED <<seq, net>>
  BY Zenon, <1>2 DEF Ping!ping_recv, PingInv
<1>4. \A i \in 1 .. Len(Tail(box)) : i + 1 \in 1 .. Len(box)
  BY SMTT(60), <1>1, <1>2
<1>5. CASE Head(box).seq = seq
  <2>1. got' = Head(box).age /\ pc' = [pc EXCEPT !["t1"] = "sleep"]
    BY Zenon, <1>5 DEF Ping!ping_recv
  <2>2. Head(box).age = 0
    <3>1. box[1] \in Replies /\ Aged(seq, box[1], MaxAge + 1)
      BY SMTT(60), <1>1, <1>2 DEF Mail
    <3>. QED  BY ZenonT(60), <1>1, <1>2, <1>5, <3>1, OnlyTheLast
  <2>3. ASSUME NEW i \in 1 .. Len(box) PROVE Aged(seq, box[i], MaxAge)
    <3>1. Aged(seq, box[i], MaxAge + 1) /\ (box[i].age = MaxAge + 1 => \A j \in 1 .. i : box[j].age >= 1)
      BY Zenon, <1>1 DEF Mail
    <3>2. box[i].age # MaxAge + 1
      BY <1>1, <1>2, <2>2, <3>1
    <3>3. box[i] \in Replies
      BY <1>1
    <3>4. box[i].age \in Nat
      BY Zenon, <3>3 DEF Replies
    <3>. QED  BY <1>0, <3>1, <3>2, <3>4 DEF Aged
  <2>4. Mail(seq, "sleep", Tail(box))
    BY Zenon, <1>2, <1>4, <2>3 DEF Mail
  <2>5. pc' \in [{"t1"} -> PingStates] /\ pc'["t1"] = "sleep"
    BY Zenon, <2>1 DEF PingInv, PingStates
  <2> HIDE DEF box
  <2>6. seq' \in Numbers /\ got' = 0
    BY Zenon, <1>1, <1>3, <2>1, <2>2
  <2>7. net' \subseteq Replies /\ \A r \in net' : Aged(seq', r, MaxAge)
    BY Zenon, <1>3 DEF PingInv
  <2>8. Mail(seq', pc'["t1"], recv'["t1"])
    BY Zenon, <1>3, <2>4, <2>5
  <2>. QED  BY Zenon, <1>3, <2>5, <2>6, <2>7, <2>8 DEF PingInv
<1>6. CASE Head(box).seq # seq
  <2>1. UNCHANGED <<got, pc>>
    BY Zenon, <1>6 DEF Ping!ping_recv
  <2>2. Mail(seq, "recv", Tail(box))
    <3> SUFFICES ASSUME NEW i \in 1 .. Len(Tail(box))
                 PROVE  /\ Aged(seq, box[i + 1], MaxAge + 1)
                        /\ box[i + 1].age = MaxAge + 1 => \A j \in 1 .. i : box[j + 1].age >= 1
      BY <1>2 DEF Mail
    <3>1. i + 1 \in 1 .. Len(box) /\ \A j \in 1 .. i : j + 1 \in 1 .. i + 1
      BY <1>4
    <3>. QED  BY Zenon, <1>1, <3>1 DEF Mail
  <2> HIDE DEF box
  <2>3. Mail(seq', pc'["t1"], recv'["t1"])
    BY Zenon, <1>1, <1>3, <2>1, <2>2
  <2>. QED  BY Zenon, <1>3, <2>1, <2>3 DEF PingInv
<1>. QED  BY Zenon, <1>5, <1>6

LEMMA ArrivesKeeps == ASSUME PingInv, Ping!Arrives PROVE PingInv'
<1> DEFINE box == recv["t1"]
<1>0. MaxAge \in Nat
  BY Zenon, RepliesAge DEF Ping!AgeBelowWrap
<1>1. UNCHANGED <<seq, pc, got>>
  BY Zenon DEF Ping!Arrives
<1>2. PICK r \in net : /\ net' \subseteq net
                       /\ recv' = [t \in {"t1"} |-> recv'["t1"]]
                       /\ recv'["t1"] = box \/ recv'["t1"] = Append(box, r)
  BY Zenon, OneTask DEF Ping!Arrives
<1>3. r \in Replies /\ Aged(seq, r, MaxAge) /\ box \in Seq(Replies) /\ Len(box) \in Nat
  BY DEF PingInv
<1>4. CASE recv'["t1"] = box
  BY Zenon, <1>1, <1>2, <1>3, <1>4 DEF PingInv
<1>5. CASE recv'["t1"] = Append(box, r)
  <2>1. /\ Append(box, r) \in Seq(Replies) /\ Len(Append(box, r)) = Len(box) + 1
        /\ \A i \in 1 .. Len(box) : Append(box, r)[i] = box[i]
        /\ Append(box, r)[Len(box) + 1] = r
    BY <1>3
  <2>2. r.age \in Nat /\ r.age # MaxAge + 1 /\ Aged(seq, r, MaxAge + 1)
    BY <1>0, <1>3 DEF Replies, Aged
  <2>3. Mail(seq, pc["t1"], Append(box, r))
    <3>0. Mail(seq, pc["t1"], box)
      BY Zenon DEF PingInv
    <3>1. CASE pc["t1"] = "recv"
      <4> SUFFICES ASSUME NEW i \in 1 .. Len(box) + 1
                   PROVE  /\ Aged(seq, Append(box, r)[i], MaxAge + 1)
                          /\ Append(box, r)[i].age = MaxAge + 1 =>
                                \A j \in 1 .. i : Append(box, r)[j].age >= 1
        BY Zenon, <2>1, <3>1 DEF Mail
      <4>1. CASE i = Len(box) + 1
        BY Zenon, <2>1, <2>2, <4>1
      <4>2. CASE i \in 1 .. Len(box)
        <5>1. \A j \in 1 .. i : j \in 1 .. Len(box)
          BY SMTT(60), <1>3, <4>2
        <5>. QED  BY ZenonT(60), <2>1, <3>0, <3>1, <4>2, <5>1 DEF Mail
      <4>. QED  BY <1>3, <4>1, <4>2
    <3>2. CASE pc["t1"] # "recv"
      <4> SUFFICES ASSUME NEW i \in 1 .. Len(box) + 1 PROVE Aged(seq, Append(box, r)[i], MaxAge)
        BY Zenon, <2>1, <3>2 DEF Mail
      <4>1. CASE i = Len(box) + 1
        BY Zenon, <1>3, <2>1, <4>1
      <4>2. CASE i \in 1 .. Len(box)
        BY Zenon, <2>1, <3>0, <3>2, <4>2 DEF Mail
      <4>. QED  BY <1>3, <4>1, <4>2
    <3>. QED  BY Zenon, <3>1, <3>2
  <2> HIDE DEF box
  <2>. QED  BY ZenonT(60), <1>1, <1>2, <1>5, <2>1, <2>3 DEF PingInv
<1>. QED  BY Zenon, <1>2, <1>4, <1>5

LEMMA PingStep == PingInv /\ [Ping!Next]_pingVars => PingInv'
<1> SUFFICES ASSUME PingInv, [Ping!Next]_pingVars PROVE PingInv'
  BY Zenon
<1>1. CASE UNCHANGED pingVars
  BY Zenon, <1>1 DEF PingInv, pingVars
<1>2. CASE Ping!pingCmdFirst \/ Ping!FrameReused \/ \E a \in Addrs : Ping!pingCmdSecond(a)
  BY Zenon, <1>2, CommandKeeps
<1>3. CASE Ping!Arrives
  BY Zenon, <1>3, ArrivesKeeps
<1>4. ASSUME NEW t \in Ping!TaskSet,
             \/ Ping!lwip_socket(t) \/ Ping!NoSocket(t) \/ Ping!ping_send(t) \/ Ping!NoMemory(t)
             \/ Ping!ping_recv(t) \/ Ping!RecvTimesOut(t) \/ Ping!sys_msleep(t)
      PROVE  PingInv'
  <2>1. t = "t1"
    BY Zenon, OneTask
  <2>. QED  BY Zenon, <1>4, <2>1, TaskMoves, SendKeeps, RecvKeeps
<1>. QED  BY Zenon, <1>1, <1>2, <1>3, <1>4 DEF Ping!Next

\* ping_recv takes a reply for the answer only if it answers the request just sent, in
\* every behaviour of the link, whatever waits in the mailbox and wherever the sequence
\* numbers wrap, as long as the network keeps no reply for a whole round of numbers.
THEOREM RepliesAnswer == MCSpec => []AnswersThisRequest
<1>1. MCInit => PingInv
  BY Zenon, PingInit DEF MCInit
<1>2. PingInv /\ [MCNext]_<<part, vars, sessionVars, pingVars>> => PingInv'
  <2> SUFFICES ASSUME PingInv, [MCNext]_<<part, vars, sessionVars, pingVars>> PROVE [Ping!Next]_pingVars
    BY Zenon, PingStep
  <2>. QED  BY Zenon DEF MCNext
<1>3. PingInv => AnswersThisRequest
  BY Zenon DEF PingInv, AnswersThisRequest, Ping!AnswersThisRequest
<1>. QED  BY <1>1, <1>2, <1>3, PTL DEF MCSpec
=============================================================================
