-------------------------------- MODULE Ppp --------------------------------
(***************************************************************************)
(* One PPP-over-serial session, from ppp_connect to the status callback    *)
(* that reports its end: the phases of ppp.c and auth.c, LCP and IPCP as   *)
(* two automata of Fsm, LCP echo, and the PPPoS link.  The peer may send   *)
(* any packet at any time; the application may connect, close and free.    *)
(*                                                                         *)
(* The control block is one record and every C function an operator from   *)
(* the old record to the new one, so a call nested in a call is an         *)
(* operator applied to the result of another, in the order of the code.    *)
(* Everything runs in the tcpip thread; each action is one call into PPP.  *)
(***************************************************************************)
EXTENDS Integers, Sequences, FiniteSets

CONSTANTS MaxConfReq, MaxTermReq, MaxNakLoops,   \* of Fsm
          EchoFails,      \* settings.lcp_echo_fails
          AllocMayFail,   \* may pbuf_alloc fail in fsm_sconfreq?
          Settings        \* the settings the application may choose from

ASSUME PppAssumption ==
    /\ {MaxConfReq, MaxTermReq, MaxNakLoops, EchoFails} \subseteq Nat
    /\ AllocMayFail \in BOOLEAN
    /\ Settings \subseteq [silent : BOOLEAN, passive : BOOLEAN, listen : BOOLEAN, echo : BOOLEAN]

VARIABLES pcb,       \* the control block
          settings,  \* silent, passive, listen (listen_time # 0), echo (interval # 0)
          gone,      \* has the peer stopped sending for good?
          asked      \* has ppp_close been called since ppp_connect?

sessionVars == <<pcb, settings, gone, asked>>

(***************************************************************************)
(* The automata of LCP and IPCP.  Their options are left out here          *)
(* (Negotiation has them): what a packet carries is the verdict reqci      *)
(* gives on it, or whether ackci, nakci or rejci accepts it; a packet with *)
(* the wrong id changes nothing.                                           *)
(***************************************************************************)
AnyOptions(o)   == o
AnyRequest(o)   == <<>>
AnyReq(o, verdict, reject_if_disagree, mem) ==
    [code |-> verdict, opt |-> <<>>, o |-> o, close |-> "no"]
AnyAck(o, good) == good
AnyNak(o, opened, good, treat_as_reject) ==
    [good |-> good, o |-> o, close |-> "no"]
AnyRej(o, opened, good) == [good |-> good, o |-> o, close |-> "no"]

INSTANCE Fsm WITH IdSpace <- 1,
    resetci <- AnyOptions, cilen <- AnyOptions, addci <- AnyRequest, reqci <- AnyReq,
    ackci <- AnyAck, nakci <- AnyNak, rejci <- AnyRej

Flags(s) == (IF s.silent THEN {"SILENT"} ELSE {})
                \cup (IF s.passive THEN {"PASSIVE"} ELSE {})

(* said is the argument of the last call of the status callback since the  *)
(* session was asked for.                                                  *)
ppp_new ==
    [phase |-> "DEAD", err |-> "NONE", lcp |-> fsm_init(0, {}),
     ipcp |-> fsm_init(0, {}), np_open |-> 0, np_up |-> 0,
     is_open |-> FALSE, is_up |-> FALSE, if4_up |-> FALSE, open |-> FALSE,
     echo |-> FALSE, pending |-> 0, delayed |-> FALSE, holdoff |-> FALSE,
     said |-> "nothing"]

PppInit ==
    /\ pcb = ppp_new
    /\ settings \in Settings
    /\ gone = FALSE /\ asked = FALSE

(* The phases in the order of their numbers in ppp.h.                      *)
Phases == <<"DEAD", "HOLDOFF", "INITIALIZE", "ESTABLISH", "NETWORK",
            "RUNNING", "TERMINATE", "DISCONNECT">>
Rank(phase) == CHOOSE i \in DOMAIN Phases : Phases[i] = phase

new_phase(p, phase) == [p EXCEPT !.phase = phase]

(* The callbacks of an automaton, in order: there are two at most.         *)
Upcalls(Do(_, _), p, cb) ==
    CASE Len(cb) = 0 -> p
      [] Len(cb) = 1 -> Do(p, cb[1])
      [] Len(cb) = 2 -> Do(Do(p, cb[1]), cb[2])

(***************************************************************************)
(* The end of the link.                                                    *)
(***************************************************************************)
ppp_link_end(p) ==
    LET err == IF p.err = "NONE" THEN "CONNECT" ELSE p.err
    IN  [new_phase(p, "DEAD") EXCEPT !.err = err, !.said = err]

pppos_disconnect(p) == ppp_link_end([p EXCEPT !.open = FALSE])

(***************************************************************************)
(* LCP goes down, and takes IPCP with it.                                  *)
(***************************************************************************)
np_down(p) ==
    LET q == [p EXCEPT !.np_up = @ - 1]
    IN  IF q.np_up = 0 THEN new_phase(q, "NETWORK") ELSE q

\* Mutant of ipcp_down: the interface stays up.
ipcp_downLeavesUp(p) ==
    IF p.is_up THEN np_down([p EXCEPT !.is_up = FALSE]) ELSE p

ipcp_down(p) ==
    LET q == IF p.is_up THEN np_down([p EXCEPT !.is_up = FALSE]) ELSE p
    IN  [q EXCEPT !.if4_up = FALSE]                              \* sifdown

(* ipcp_lowerdown leaves INITIAL or STARTING, where ipcp_close calls no    *)
(* callback and sends nothing.                                             *)
ipcp_lowerdown(p) ==
    LET r == fsm_lowerdown(p.ipcp)
    IN  Upcalls(LAMBDA q, c : ipcp_down(q), [p EXCEPT !.ipcp = r.f], r.cb)

upper_layers_down(p) ==
    [ipcp_lowerdown(p) EXCEPT !.ipcp = fsm_close(@).f, !.np_open = 0, !.np_up = 0]

link_down(p) ==
    [upper_layers_down(p) EXCEPT !.phase = IF @ = "DEAD" THEN @ ELSE "ESTABLISH"]

lcp_echo_lowerdown(p) == [p EXCEPT !.echo = FALSE]

lcp_down(p) == link_down(lcp_echo_lowerdown(p))

lcp_lowerdown(p) ==
    LET r == fsm_lowerdown(p.lcp)
    IN  IF p.delayed THEN [p EXCEPT !.delayed = FALSE]
        ELSE Upcalls(LAMBDA q, c : lcp_down(q), [p EXCEPT !.lcp = r.f], r.cb)

\* Mutant of link_terminated: LCP is not told that the link is gone.
link_terminatedUntold(p) ==
    IF p.phase = "DEAD" THEN p ELSE pppos_disconnect(p)

link_terminated(p) ==
    IF p.phase = "DEAD" THEN p
    ELSE pppos_disconnect(lcp_lowerdown(new_phase(p, "DISCONNECT")))

LcpEnds(p, c) == IF c = "down" THEN lcp_down(p) ELSE link_terminated(p)

lcp_close(p) ==
    LET q == [p EXCEPT !.phase = IF @ = "DEAD" THEN @ ELSE "TERMINATE",
                       !.lcp.state = IF p.delayed THEN "STOPPED" ELSE @]
        AfterClose(r) == Upcalls(LcpEnds, [q EXCEPT !.lcp = r.f], r.cb)
        AtRest(s) == IF q.lcp.state = "STOPPED" /\ (q.lcp.flags # {} \/ q.delayed)
                     THEN link_terminated([s EXCEPT !.delayed = FALSE]) ELSE s
    IN  AtRest(AfterClose(fsm_close(q.lcp)))

(***************************************************************************)
(* IPCP.                                                                   *)
(***************************************************************************)
np_finished(p) ==
    LET q == [p EXCEPT !.np_open = @ - 1]
    IN  IF q.np_open <= 0 THEN lcp_close(q) ELSE q

ipcp_finished(p) ==
    IF p.is_open THEN np_finished([p EXCEPT !.is_open = FALSE]) ELSE p

IpcpEnds(p, c) == IF c = "down" THEN ipcp_down(p) ELSE ipcp_finished(p)

ipcp_close(p) ==
    LET r == fsm_close(p.ipcp)
    IN  Upcalls(IpcpEnds, [p EXCEPT !.ipcp = r.f], r.cb)

np_up(p) ==
    [(IF p.np_up = 0 THEN new_phase(p, "RUNNING") ELSE p) EXCEPT !.np_up = @ + 1]

sifup(p) == [p EXCEPT !.if4_up = TRUE, !.err = "NONE", !.said = "NONE"]

(* usable: are both addresses there, and may the peer have its own?        *)
ipcp_up(p, usable) ==
    IF ~usable THEN ipcp_close(p)
    ELSE [np_up(sifup(p)) EXCEPT !.is_up = TRUE]

Ipcp(p, r, usable) ==
    Upcalls(LAMBDA q, c : IF c = "up" THEN ipcp_up(q, usable) ELSE IpcpEnds(q, c),
            [p EXCEPT !.ipcp = r.f], r.cb)

ipcp_open(p, alloc) ==
    [p EXCEPT !.ipcp = fsm_open(@, alloc).f, !.is_open = TRUE]

(***************************************************************************)
(* LCP comes up: the echo timer, then the network protocols.               *)
(***************************************************************************)
\* Mutant of LcpSendEchoRequest: unanswered requests are not counted.
LcpSendEchoRequestUncounted(p) == p

LcpSendEchoRequest(p) ==
    LET Sent(q) == IF q.lcp.state = "OPENED" /\ EchoFails # 0
                   THEN [q EXCEPT !.pending = @ + 1] ELSE q
    IN  Sent(IF p.pending >= EchoFails /\ EchoFails # 0
             THEN [(IF p.lcp.state = "OPENED"                  \* LcpLinkFailure
                    THEN lcp_close([p EXCEPT !.err = "PEERDEAD"]) ELSE p)
                       EXCEPT !.pending = 0]
             ELSE p)

\* Mutant of LcpEchoCheck: the timer is started again although sending the
\* request has closed LCP.
LcpEchoCheckAgain(p) == [LcpSendEchoRequest(p) EXCEPT !.echo = TRUE]

LcpEchoCheck(p) ==
    LET Started(q) == IF q.lcp.state # "OPENED" THEN q ELSE [q EXCEPT !.echo = TRUE]
    IN  Started(LcpSendEchoRequest(p))

lcp_echo_lowerup(p) ==
    LET q == [p EXCEPT !.pending = 0, !.echo = FALSE]
    IN  IF settings.echo THEN LcpEchoCheck(q) ELSE q

continue_networks(p, alloc) ==
    [ipcp_open(p, alloc) EXCEPT !.np_open = @ + 1]

link_established(p, alloc) ==
    LET q == [p EXCEPT !.ipcp = fsm_lowerup(@, alloc).f]
    IN  continue_networks(new_phase(q, "NETWORK"), alloc)

lcp_up(p, alloc) == link_established(lcp_echo_lowerup(p), alloc)

Lcp(p, r, alloc) ==
    Upcalls(LAMBDA q, c : IF c = "up" THEN lcp_up(q, alloc) ELSE LcpEnds(q, c),
            [p EXCEPT !.lcp = r.f], r.cb)

(***************************************************************************)
(* Opening the link.                                                       *)
(***************************************************************************)
lcp_open(p, alloc) ==
    LET f == [p.lcp EXCEPT !.flags = Flags(settings)]
    IN  [p EXCEPT !.lcp = fsm_open(f, alloc).f]

lcp_lowerup(p, alloc) ==
    IF settings.listen THEN [p EXCEPT !.delayed = TRUE]
    ELSE [p EXCEPT !.lcp = fsm_lowerup(@, alloc).f]

ppp_start(p, alloc) ==
    lcp_lowerup(lcp_open(new_phase(p, "ESTABLISH"), alloc), alloc)

ppp_do_connect(p, alloc) ==
    ppp_start([new_phase(p, "INITIALIZE") EXCEPT !.open = TRUE], alloc)

(* A listening LCP comes up with the delay or with the first packet.       *)
lcp_delayed_up(p, alloc) ==
    IF p.delayed
    THEN [p EXCEPT !.delayed = FALSE, !.lcp = fsm_lowerup(@, alloc).f]
    ELSE p

(***************************************************************************)
(* The actions: calls of the application, packets and timers.              *)
(***************************************************************************)
Alloc == IF AllocMayFail THEN BOOLEAN ELSE {TRUE}

ppp_connect(holdoff) ==
    /\ pcb.phase = "DEAD"
    /\ \E a \in Alloc :
          LET p == [pcb EXCEPT !.said = "nothing"]
          IN  pcb' = IF holdoff
                     THEN [new_phase(p, "HOLDOFF") EXCEPT !.holdoff = TRUE]
                     ELSE ppp_do_connect(p, a)
    /\ asked' = FALSE
    /\ UNCHANGED <<settings, gone>>

CloseOf(p, nocarrier) ==
    CASE p.phase = "HOLDOFF" ->
             [new_phase(p, "DEAD") EXCEPT !.holdoff = FALSE, !.said = p.err]
      [] p.phase = "DEAD" -> [p EXCEPT !.said = p.err]
      [] Rank(p.phase) >= Rank("TERMINATE") -> p
      [] p.phase = "INITIALIZE" -> pppos_disconnect(new_phase(p, "DISCONNECT"))
      [] nocarrier /\ p.phase = "RUNNING" -> link_terminated(lcp_lowerdown(p))
      [] OTHER -> lcp_close(p)

ppp_close(nocarrier) ==
    /\ pcb' = CloseOf([pcb EXCEPT !.err = "USER"], nocarrier)
    /\ asked' = TRUE
    /\ UNCHANGED <<settings, gone>>

(* The block is released and, later, a new one is created.                 *)
ppp_free ==
    /\ pcb.phase = "DEAD"
    /\ pcb' = ppp_new
    /\ settings' \in Settings
    /\ asked' = FALSE
    /\ UNCHANGED gone

(* A packet for an automaton.                                              *)
Codes == {"CONFREQ", "CONFACK", "CONFNAK", "CONFREJ", "TERMREQ", "TERMACK",
          "CODEREJ"}

Handle(f, code, verdict, good, alloc) ==
    CASE Deaf(f) -> Ignored(f)
      [] ~Deaf(f) /\ code = "CONFREQ" ->
             fsm_rconfreq(f, 0, verdict, alloc, TRUE)
      [] ~Deaf(f) /\ code = "CONFACK" -> fsm_rconfack(f, 0, good, alloc)
      [] ~Deaf(f) /\ code \in {"CONFNAK", "CONFREJ"} ->
             fsm_rconfnakrej(f, code, 0, good, alloc)
      [] ~Deaf(f) /\ code = "TERMREQ" -> fsm_rtermreq(f, 0)
      [] ~Deaf(f) /\ code = "TERMACK" -> fsm_rtermack(f, alloc)
      [] OTHER -> fsm_rcoderej(f)

(* Verdicts reqci can give: no refusal after MaxNakLoops of them.  The     *)
(* bound on received refusals keeps rnakloops finite.                      *)
Possible(f, code, verdict) ==
    /\ verdict = "CONFNAK" =>
          f.state \in {"OPENED", "STOPPED"} \/ ~RejectIfDisagree(f)
    /\ code # "CONFREQ" => verdict = "CONFACK"
    /\ code = "CONFNAK" => f.rnakloops <= MaxNakLoops

Received == pcb.open /\ ~gone

LcpInput(code) ==
    /\ Received
    /\ \E a \in Alloc, v \in {"CONFACK", "CONFNAK", "CONFREJ"}, good \in BOOLEAN :
          LET p == lcp_delayed_up(pcb, a)
          IN  /\ Possible(p.lcp, code, v)
              /\ pcb' = Lcp(p, Handle(p.lcp, code, v, good, a), a)
    /\ UNCHANGED <<settings, gone, asked>>

(* A Configure-Nak that shows the line is looped back for the last         *)
(* tolerated time: lcp_nakci closes LCP before fsm_rconfnakrej goes on.    *)
LcpLoopedBack ==
    /\ Received
    /\ pcb.lcp.state \in Negotiating /\ ~pcb.lcp.seen_ack
    /\ pcb' = [lcp_close([pcb EXCEPT !.err = "LOOPBACK", !.lcp.rnakloops = @ + 1])
                 EXCEPT !.lcp.seen_ack = TRUE]
    /\ UNCHANGED <<settings, gone, asked>>

(* lcp_rprotrej: the peer does not speak IPCP, or does not speak LCP.      *)
ProtocolRejected(proto) ==
    /\ Received /\ pcb.lcp.state = "OPENED"
    /\ pcb' = IF proto = "IPCP" THEN ipcp_lowerdown(pcb)
              ELSE Lcp(pcb, fsm_protreject(pcb.lcp), TRUE)
    /\ UNCHANGED <<settings, gone, asked>>

EchoReply ==
    /\ Received /\ ~Deaf(pcb.lcp)
    /\ pcb' = [pcb EXCEPT !.pending = 0]
    /\ UNCHANGED <<settings, gone, asked>>

(* ppp_input tosses what is not LCP unless LCP is open and past ESTABLISH. *)
IpcpInput(code) ==
    /\ Received /\ pcb.lcp.state = "OPENED" /\ Rank(pcb.phase) > Rank("ESTABLISH")
    /\ \E a \in Alloc, v \in {"CONFACK", "CONFNAK", "CONFREJ"},
          good \in BOOLEAN, usable \in BOOLEAN :
          /\ Possible(pcb.ipcp, code, v)
          /\ pcb' = Ipcp(pcb, Handle(pcb.ipcp, code, v, good, a), usable)
    /\ UNCHANGED <<settings, gone, asked>>

HoldoffTimer ==
    /\ pcb.holdoff
    /\ \E a \in Alloc : pcb' = ppp_do_connect([pcb EXCEPT !.holdoff = FALSE], a)
    /\ UNCHANGED <<settings, gone, asked>>

DelayedTimer ==
    /\ pcb.delayed
    /\ \E a \in Alloc : pcb' = lcp_delayed_up(pcb, a)
    /\ UNCHANGED <<settings, gone, asked>>

LcpTimer ==
    /\ pcb.lcp.timer
    /\ \E a \in Alloc : pcb' = Lcp(pcb, fsm_timeout(pcb.lcp, a), a)
    /\ UNCHANGED <<settings, gone, asked>>

IpcpTimer ==
    /\ pcb.ipcp.timer
    /\ \E a \in Alloc : pcb' = Ipcp(pcb, fsm_timeout(pcb.ipcp, a), TRUE)
    /\ UNCHANGED <<settings, gone, asked>>

LcpEchoTimeout ==
    /\ pcb.echo
    /\ pcb' = LcpEchoCheck([pcb EXCEPT !.echo = FALSE])
    /\ UNCHANGED <<settings, gone, asked>>

PeerStops == ~gone /\ gone' = TRUE /\ UNCHANGED <<pcb, settings, asked>>

Timer == HoldoffTimer \/ DelayedTimer \/ LcpTimer \/ IpcpTimer \/ LcpEchoTimeout

PppNext ==
    \/ \E b \in BOOLEAN : ppp_connect(b) \/ ppp_close(b)
    \/ ppp_free
    \/ \E c \in Codes : LcpInput(c) \/ IpcpInput(c)
    \/ LcpLoopedBack \/ EchoReply
    \/ \E proto \in {"IPCP", "LCP"} : ProtocolRejected(proto)
    \/ Timer \/ PeerStops

(* A started timer expires.                                                *)
PppFairness ==
    /\ WF_sessionVars(HoldoffTimer) /\ WF_sessionVars(DelayedTimer) /\ WF_sessionVars(LcpTimer)
    /\ WF_sessionVars(IpcpTimer) /\ WF_sessionVars(LcpEchoTimeout)

PppSpec == PppInit /\ [][PppNext]_sessionVars /\ PppFairness

(***************************************************************************)
(* Properties.                                                             *)
(***************************************************************************)

(* IP traffic passes exactly while the session runs: the interface is up   *)
(* only in the RUNNING phase, with LCP and IPCP both open and each of the  *)
(* counters that auth.c keeps at one.                                      *)
UpMeansOpen ==
    /\ pcb.if4_up <=> pcb.phase = "RUNNING"
    /\ pcb.if4_up => /\ pcb.lcp.state = "OPENED" /\ pcb.ipcp.state = "OPENED"
                     /\ pcb.is_up /\ pcb.np_up = 1
    /\ pcb.is_up = (pcb.np_up = 1)

(* A dead session is at rest: no timer of it is pending, the port is       *)
(* closed and both automata are where ppp_connect can start them from, so  *)
(* that the control block may be freed or used again.                      *)
Timers == {t \in {"holdoff", "delayed", "lcp", "ipcp", "echo"} :
              CASE t = "lcp"  -> pcb.lcp.timer
                [] t = "ipcp" -> pcb.ipcp.timer
                [] t \notin {"lcp", "ipcp"} -> pcb[t]}

DeadIsQuiet ==
    pcb.phase = "DEAD" =>
        /\ Timers = {} /\ ~pcb.open
        /\ pcb.lcp.state \in {"INITIAL", "STARTING"}
        /\ pcb.ipcp.state = "INITIAL"

(* The session never has more timers than PPP_NUM_TIMEOUTS_PER_PCB (two    *)
(* here) reserves in the timeout pool, and each only where it has a        *)
(* meaning: one for LCP, of whatever kind, and one for IPCP above an open  *)
(* LCP.                                                                    *)
TimersInBudget ==
    /\ Cardinality(Timers) <= 2
    /\ Cardinality(Timers \ {"ipcp"}) <= 1
    /\ pcb.ipcp.timer => pcb.lcp.state = "OPENED"
    /\ pcb.holdoff => pcb.phase = "HOLDOFF"

(* The session, its interface and its timers agree in every phase.         *)
SessionSound == UpMeansOpen /\ DeadIsQuiet /\ TimersInBudget

(* Once the peer has fallen silent a session that checks it with echo      *)
(* requests ends, and the application is told, wherever it was: while      *)
(* negotiating, running or closing.                                        *)
DeadPeerNoticed ==
    (gone /\ settings.echo /\ settings.silent = FALSE /\ settings.passive = FALSE)
        ~> (pcb.phase = "DEAD")

(* ppp.h: PPPERR_USER is a "User interrupt".                               *)
UserMeansAsked == pcb.said = "USER" => asked
=============================================================================
