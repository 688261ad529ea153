----------------------------- MODULE PppProofs ------------------------------
(***************************************************************************)
(* Proof that a PPP session, its interface and its timers agree in every   *)
(* phase: first what a function of fsm.c can do to an automaton, then what *)
(* the callbacks of LCP and IPCP do to the control block, then the calls   *)
(* of the application, the packets and the timers.                         *)
(***************************************************************************)
EXTENDS Ppp, FiniteSetTheorems, TLAPS

(***************************************************************************)
(* The automata.                                                           *)
(***************************************************************************)
Fsms == [state : FsmStates, flags : SUBSET {"SILENT", "PASSIVE"}, id : Nat, reqid : Nat,
         seen_ack : BOOLEAN, retransmits : Int, nakloops : Nat, rnakloops : Nat,
         timer : BOOLEAN, o : {0}]

FsmOk(f) == f \in Fsms /\ (f.timer => f.state \in Waiting)

\* The callbacks a function of fsm.c made.
NoCall(cb)      == Len(cb) = 0
Call(cb, a)     == Len(cb) = 1 /\ cb[1] = a
Calls(cb, a, b) == Len(cb) = 2 /\ cb[1] = a /\ cb[2] = b

\* What a function of fsm.c may do, as the owner of the automaton sees it.
Moved(f, r) ==
    /\ FsmOk(r.f)
    /\ \/ NoCall(r.cb) /\ (f.state = "OPENED" <=> r.f.state = "OPENED")
       \/ Call(r.cb, "up") /\ f.state # "OPENED" /\ r.f.state = "OPENED"
       \/ Call(r.cb, "down") /\ f.state = "OPENED" /\ r.f.state # "OPENED"
       \/ Call(r.cb, "finished") /\ f.state # "OPENED" /\ r.f.state \in {"CLOSED", "STOPPED"}
       \/ Calls(r.cb, "down", "finished") /\ f.state = "OPENED" /\ r.f.state \in {"CLOSED", "STOPPED"}

\* Which of them the literal sequences of fsm.c are.
LEMMA Literals ==
    /\ NoCall(<<>>) /\ Call(<<"up">>, "up") /\ Call(<<"down">>, "down")
    /\ Call(<<"finished">>, "finished") /\ Call(<<>> \o <<"finished">>, "finished")
    /\ Calls(<<"down">> \o <<"finished">>, "down", "finished")
    /\ NoCall(<<>> \o <<>>) /\ Call(<<>> \o <<"down">>, "down") /\ Call(Append(<<>>, "up"), "up")
<1> DEFINE Names == {"up", "down", "finished"}
<1>1. <<>> \in Seq(Names) /\ <<"down">> \in Seq(Names) /\ <<"finished">> \in Seq(Names)
  OBVIOUS
<1>2. Len(<<>>) = 0 /\ Len(<<"down">>) = 1 /\ Len(<<"finished">>) = 1 /\ Len(<<"up">>) = 1
  BY Zenon
<1>3. <<"down">>[1] = "down" /\ <<"finished">>[1] = "finished" /\ <<"up">>[1] = "up"
  BY Zenon
<1>4. ASSUME NEW s \in Seq(Names), NEW t \in Seq(Names), Len(t) = 1, Len(s) \in {0, 1}
      PROVE  /\ Len(s) = 0 => Len(s \o t) = 1 /\ (s \o t)[1] = t[1]
             /\ Len(s) = 1 => Len(s \o t) = 2 /\ (s \o t)[1] = s[1] /\ (s \o t)[2] = t[1]
  <2>1. Len(s \o t) = Len(s) + Len(t)
    OBVIOUS
  <2>2. \A i \in 1 .. Len(s) + Len(t) : (s \o t)[i] = IF i <= Len(s) THEN s[i] ELSE t[i - Len(s)]
    OBVIOUS
  <2>. QED  BY <1>4, <2>1, <2>2
<1>5. Call(<<>> \o <<"finished">>, "finished")
  BY Zenon, <1>1, <1>2, <1>3, <1>4 DEF Call
<1>6. Calls(<<"down">> \o <<"finished">>, "down", "finished")
  BY Zenon, <1>1, <1>2, <1>3, <1>4 DEF Calls
<1>7. Call(<<>> \o <<"down">>, "down")
  BY Zenon, <1>1, <1>2, <1>3, <1>4 DEF Call
<1>8. NoCall(<<>> \o <<>>) /\ Call(Append(<<>>, "up"), "up")
  BY DEF NoCall, Call
<1>. QED  BY Zenon, <1>2, <1>3, <1>5, <1>6, <1>7, <1>8 DEF NoCall, Call

LEMMA Constants ==
    /\ MaxConfReq \in Nat /\ MaxTermReq \in Nat /\ MaxNakLoops \in Nat /\ EchoFails \in Nat
    /\ MaxConfReq \in Int /\ MaxTermReq \in Int /\ 0 \in Nat
  BY PppAssumption

LEMMA SetState ==
    ASSUME NEW f \in Fsms, NEW s \in FsmStates
    PROVE  LET g == [f EXCEPT !.state = s] IN
           g \in Fsms /\ g.state = s /\ g.timer = f.timer
  BY Zenon DEF Fsms

LEMMA Stopped ==
    ASSUME NEW f \in Fsms
    PROVE  /\ Untimeout(f) \in Fsms /\ ~Untimeout(f).timer /\ Untimeout(f).state = f.state
           /\ Untimeout(f).retransmits = f.retransmits /\ Untimeout(f).flags = f.flags
  BY Zenon DEF Fsms, Untimeout

\* There is one identifier: the automata of a session do not tell packets apart by it.
LEMMA OneId == ASSUME NEW f \in Fsms PROVE NextId(f) = 0
  BY DEF NextId, Fsms

LEMMA ConfReq ==
    ASSUME NEW f \in Fsms, NEW retransmit \in BOOLEAN, NEW alloc \in BOOLEAN
    PROVE  LET r == fsm_sconfreq(f, retransmit, alloc) IN
           r.f \in Fsms /\ r.f.state = f.state /\ r.cb = <<>>
<1> DEFINE g == IF f.state \in Negotiating THEN f
                ELSE [f EXCEPT !.o = AnyOptions(f.o), !.nakloops = 0, !.rnakloops = 0]
           h == IF retransmit THEN g
                ELSE [g EXCEPT !.retransmits = MaxConfReq, !.id = NextId(g), !.reqid = NextId(g)]
           q == [h EXCEPT !.seen_ack = FALSE, !.o = AnyOptions(@)]
           e == [q EXCEPT !.retransmits = @ - 1, !.timer = TRUE]
<1>1. g \in Fsms /\ g.state = f.state
  <2>1. [f EXCEPT !.o = f.o, !.nakloops = 0, !.rnakloops = 0] \in Fsms
    BY Zenon, Constants DEF Fsms
  <2>2. [f EXCEPT !.o = f.o, !.nakloops = 0, !.rnakloops = 0].state = f.state
    BY Zenon DEF Fsms
  <2>. QED  BY Zenon, <2>1, <2>2 DEF AnyOptions
<1> HIDE DEF g
<1>2. NextId(g) \in Nat
  BY <1>1, OneId
<1>3. h \in Fsms /\ h.state = f.state
  <2>1. [g EXCEPT !.retransmits = MaxConfReq, !.id = NextId(g), !.reqid = NextId(g)] \in Fsms
    BY Zenon, <1>1, <1>2, Constants DEF Fsms
  <2>2. [g EXCEPT !.retransmits = MaxConfReq, !.id = NextId(g), !.reqid = NextId(g)].state = f.state
    BY Zenon, <1>1 DEF Fsms
  <2>. QED  BY Zenon, <1>1, <2>1, <2>2
<1> HIDE DEF h
<1>4. q \in Fsms /\ q.state = f.state
  BY Zenon, <1>3 DEF Fsms, AnyOptions
<1> HIDE DEF q
<1>5. e \in Fsms /\ e.state = f.state
  <2>1. q.retransmits - 1 \in Int
    BY <1>4 DEF Fsms
  <2>. QED  BY Zenon, <1>4, <2>1 DEF Fsms
<1> HIDE DEF e
<1>6. fsm_sconfreq(f, retransmit, alloc).f = IF alloc THEN e ELSE q
  BY DEF fsm_sconfreq, Ignored, Effect, e, q, h, g
<1>7. fsm_sconfreq(f, retransmit, alloc).cb = <<>>
  BY Zenon DEF fsm_sconfreq, Ignored, Effect
<1>. QED  BY Zenon, <1>4, <1>5, <1>6, <1>7

LEMMA Again ==
    ASSUME NEW f \in Fsms, NEW cb, NEW alloc \in BOOLEAN
    PROVE  LET r == Renegotiate(f, cb, alloc) IN
           FsmOk(r.f) /\ r.f.state = "REQSENT" /\ r.cb = cb
<1> DEFINE s == fsm_sconfreq(f, FALSE, alloc)
<1>1. s.f \in Fsms
  BY Zenon, ConfReq
<1>2. Renegotiate(f, cb, alloc).f = [s.f EXCEPT !.state = "REQSENT"]
      /\ Renegotiate(f, cb, alloc).cb = cb
  BY Zenon DEF Renegotiate, Effect
<1> HIDE DEF s
<1>3. "REQSENT" \in FsmStates /\ "REQSENT" \in Waiting
  BY Zenon DEF FsmStates, Waiting, Negotiating
<1>4. [s.f EXCEPT !.state = "REQSENT"] \in Fsms /\ [s.f EXCEPT !.state = "REQSENT"].state = "REQSENT"
  BY Zenon, <1>1, <1>3, SetState
<1>. QED  BY Zenon, <1>2, <1>3, <1>4 DEF FsmOk

LEMMA LowerUp ==
    ASSUME NEW f, FsmOk(f), NEW alloc \in BOOLEAN
    PROVE  /\ FsmOk(fsm_lowerup(f, alloc).f)
           /\ f.state = "OPENED" <=> fsm_lowerup(f, alloc).f.state = "OPENED"
<1>1. CASE f.state = "STARTING" /\ "SILENT" \notin f.flags
  <2>1. fsm_lowerup(f, alloc) = Renegotiate(f, <<>>, alloc)
    BY Zenon, <1>1 DEF fsm_lowerup
  <2>. QED  BY <1>1, <2>1, Again DEF FsmOk
<1>2. CASE ~(f.state = "STARTING" /\ "SILENT" \notin f.flags)
  BY Zenon, <1>2 DEF fsm_lowerup, Become, Ignored, Effect, FsmOk, Fsms, FsmStates, Waiting, Negotiating
<1>. QED  BY Zenon, <1>1, <1>2

LEMMA LowerDown ==
    ASSUME NEW f, FsmOk(f)
    PROVE  LET r == fsm_lowerdown(f) IN
           /\ FsmOk(r.f) /\ r.f.state \in {"INITIAL", "STARTING"}
           /\ r.cb = IF f.state = "OPENED" THEN <<"down">> ELSE <<>>
  BY Zenon DEF fsm_lowerdown, Become, Ignored, Effect, Untimeout, FsmOk, Fsms, FsmStates, Waiting, Negotiating

LEMMA Opening ==
    ASSUME NEW f, FsmOk(f), NEW alloc \in BOOLEAN
    PROVE  /\ FsmOk(fsm_open(f, alloc).f)
           /\ f.state = "OPENED" <=> fsm_open(f, alloc).f.state = "OPENED"
           /\ f.state \in {"INITIAL", "STARTING"} => fsm_open(f, alloc).f.state = "STARTING"
<1>1. CASE f.state = "CLOSED" /\ "SILENT" \notin f.flags
  <2>1. fsm_open(f, alloc) = Renegotiate(f, <<>>, alloc)
    BY Zenon, <1>1 DEF fsm_open
  <2>. QED  BY <1>1, <2>1, Again DEF FsmOk
<1>2. CASE ~(f.state = "CLOSED" /\ "SILENT" \notin f.flags)
  BY Zenon, <1>2 DEF fsm_open, Become, Ignored, Effect, FsmOk, Fsms, FsmStates, Waiting, Negotiating
<1>. QED  BY Zenon, <1>1, <1>2

LEMMA TermReq ==
    ASSUME NEW f \in Fsms
    PROVE  LET r == SendTermReq(f) IN
           r.f \in Fsms /\ r.f.state = f.state /\ r.cb = <<>>
<1>1. NextId(f) \in Nat
  BY OneId
<1> DEFINE g == [f EXCEPT !.id = NextId(f), !.reqid = NextId(f), !.timer = TRUE, !.retransmits = @ - 1]
<1>2. SendTermReq(f).f = g /\ SendTermReq(f).cb = <<>>
  BY Zenon DEF SendTermReq, Effect
<1>3. f.retransmits - 1 \in Int
  BY DEF Fsms
<1>4. g \in Fsms /\ g.state = f.state
  BY Zenon, <1>1, <1>3 DEF Fsms
<1>. QED  BY Zenon, <1>2, <1>4

LEMMA Terminating ==
    ASSUME NEW f, FsmOk(f), f.state \in Negotiating \cup {"OPENED"}, NEW next \in {"CLOSING", "STOPPING"}
    PROVE  Moved(f, terminate_layer(f, next)) /\ terminate_layer(f, next).f.state # "OPENED"
<1> DEFINE d == IF f.state = "OPENED" THEN <<"down">> ELSE <<>>
           u == IF f.state = "OPENED" THEN f ELSE Untimeout(f)
           g == [u EXCEPT !.retransmits = MaxTermReq]
           e == [g EXCEPT !.id = NextId(f), !.reqid = NextId(f), !.state = Ended(next)]
           s == SendTermReq(g)
           r == terminate_layer(f, next)
<1>0. f \in Fsms /\ NextId(f) \in Nat
  BY OneId DEF FsmOk
<1>1. u \in Fsms /\ ~u.timer
  BY Zenon, <1>0, Stopped DEF FsmOk, Waiting, Negotiating
<1> HIDE DEF u
<1>2. g \in Fsms /\ ~g.timer
  BY Zenon, <1>1, Constants DEF Fsms
<1>3. CASE MaxTermReq = 0
  <2>1. r.f = e /\ r.cb = d \o <<"finished">>
    BY Zenon, <1>3 DEF terminate_layer, Effect, u
  <2>2. Ended(next) \in {"CLOSED", "STOPPED"} /\ Ended(next) \in FsmStates
    BY Zenon DEF Ended, FsmStates
  <2> HIDE DEF g
  <2>3. e \in Fsms /\ e.state = Ended(next) /\ ~e.timer
    BY Zenon, <1>0, <1>2, <2>2 DEF Fsms
  <2> HIDE DEF e, r
  <2>4. FsmOk(r.f) /\ r.f.state \in {"CLOSED", "STOPPED"}
    BY Zenon, <2>1, <2>2, <2>3 DEF FsmOk
  <2>5. IF f.state = "OPENED" THEN Calls(r.cb, "down", "finished") ELSE Call(r.cb, "finished")
    BY Zenon, <2>1, Literals
  <2>. QED  BY Zenon, <2>4, <2>5 DEF Moved, r
<1>4. CASE MaxTermReq # 0
  <2>1. r.f = [s.f EXCEPT !.state = next] /\ r.cb = d
    BY Zenon, <1>4 DEF terminate_layer, Effect, u
  <2> HIDE DEF g
  <2>2. s.f \in Fsms
    BY Zenon, <1>2, TermReq
  <2> HIDE DEF s, r
  <2>3. next \in FsmStates /\ next \in Waiting /\ next # "OPENED"
    BY Zenon DEF FsmStates, Waiting
  <2>4. [s.f EXCEPT !.state = next] \in Fsms /\ [s.f EXCEPT !.state = next].state = next
    BY Zenon, <2>2, <2>3, SetState
  <2>5. FsmOk(r.f) /\ r.f.state # "OPENED"
    BY Zenon, <2>1, <2>3, <2>4 DEF FsmOk
  <2>6. IF f.state = "OPENED" THEN Call(r.cb, "down") ELSE NoCall(r.cb)
    BY Zenon, <2>1, Literals
  <2>. QED  BY Zenon, <2>5, <2>6 DEF Moved, r
<1>. QED  BY Zenon, <1>3, <1>4

LEMMA Closing ==
    ASSUME NEW f, FsmOk(f)
    PROVE  /\ Moved(f, fsm_close(f)) /\ fsm_close(f).f.state # "OPENED"
           /\ f.state \notin Negotiating \cup {"OPENED"} => NoCall(fsm_close(f).cb)
<1>1. CASE f.state \in Negotiating \cup {"OPENED"}
  <2>1. fsm_close(f) = terminate_layer(f, "CLOSING")
    BY Zenon, <1>1 DEF fsm_close, Negotiating
  <2>. QED  BY Zenon, <1>1, <2>1, Terminating
<1>2. CASE f.state \notin Negotiating \cup {"OPENED"}
  <2>1. /\ FsmOk(fsm_close(f).f) /\ fsm_close(f).f.state # "OPENED" /\ fsm_close(f).cb = <<>>
    BY Zenon, <1>2 DEF fsm_close, Become, Ignored, Effect, FsmOk, Fsms, FsmStates, Waiting, Negotiating
  <2>. QED  BY Zenon, <1>2, <2>1, Literals DEF Moved
<1>. QED  BY Zenon, <1>1, <1>2

LEMMA ClosedLow ==
    ASSUME NEW f, FsmOk(f), f.state \in {"INITIAL", "STARTING"}
    PROVE  FsmOk(fsm_close(f).f) /\ fsm_close(f).f.state = "INITIAL"
  BY Zenon DEF fsm_close, Become, Ignored, Effect, FsmOk, Fsms, FsmStates, Waiting, Negotiating

\* Nothing happens, or a packet is answered.
LEMMA Idle ==
    ASSUME NEW f, NEW g, FsmOk(g), f.state = "OPENED" <=> g.state = "OPENED", NEW out
    PROVE  Moved(f, Effect(g, out, <<>>)) /\ Moved(f, Ignored(g))
  BY Zenon, Literals DEF Moved, Effect, Ignored

LEMMA Timeout ==
    ASSUME NEW f, FsmOk(f), NEW alloc \in BOOLEAN
    PROVE  Moved(f, fsm_timeout(f, alloc))
<1> DEFINE g == Untimeout(f)
           r == fsm_timeout(f, alloc)
<1>1. /\ f \in Fsms /\ g \in Fsms /\ ~g.timer /\ g.state = f.state /\ g.retransmits \in Int
      /\ f.state \in FsmStates
  BY Zenon, Stopped DEF FsmOk, Fsms
<1> HIDE DEF g
<1>2. CASE g.state \in {"CLOSING", "STOPPING"} /\ g.retransmits = 0
  <2>1. r.f = [g EXCEPT !.state = Ended(g.state)] /\ r.cb = <<"finished">>
    BY <1>2 DEF fsm_timeout, Effect, Negotiating, g
  <2>2. Ended(g.state) \in FsmStates /\ Ended(g.state) \in {"CLOSED", "STOPPED"}
    BY Zenon DEF Ended, FsmStates
  <2>3. r.f \in Fsms /\ r.f.state = Ended(g.state) /\ ~r.f.timer
    BY <1>1, <2>1, <2>2, SetState
  <2>. QED  BY Zenon, <1>1, <1>2, <2>1, <2>2, <2>3, Literals DEF Moved, FsmOk
<1>3. CASE g.state \in {"CLOSING", "STOPPING"} /\ g.retransmits > 0
  <2>0. g.retransmits # 0 /\ g.state \notin Negotiating
    BY <1>1, <1>3 DEF Negotiating
  <2>1. r = SendTermReq(g)
    BY Zenon, <1>3, <2>0 DEF fsm_timeout, g
  <2>2. r.f \in Fsms /\ r.f.state = g.state /\ r.cb = <<>>
    BY Zenon, <1>1, <2>1, TermReq
  <2>3. g.state \in Waiting /\ g.state # "OPENED"
    BY Zenon, <1>3 DEF Waiting
  <2>. QED  BY Zenon, <1>1, <2>2, <2>3, Literals DEF Moved, FsmOk
<1>4. CASE g.state \in Negotiating /\ g.retransmits = 0
  <2>1. /\ r.f = [g EXCEPT !.state = "STOPPED"]
        /\ r.cb = <<>> \/ r.cb = <<"finished">>
    BY <1>4 DEF fsm_timeout, Effect, Negotiating, g
  <2>2. "STOPPED" \in FsmStates /\ g.state # "OPENED"
    BY Zenon, <1>4 DEF FsmStates, Negotiating
  <2>3. r.f \in Fsms /\ r.f.state = "STOPPED" /\ ~r.f.timer
    BY <1>1, <2>1, <2>2, SetState
  <2>. QED  BY Zenon, <1>1, <2>1, <2>2, <2>3, Literals DEF Moved, FsmOk
<1>5. CASE g.state \in Negotiating /\ g.retransmits > 0
  <2> DEFINE s == fsm_sconfreq(g, TRUE, alloc)
             n == IF s.f.state = "ACKRCVD" THEN "REQSENT" ELSE s.f.state
  <2>1. s.f \in Fsms /\ s.f.state = g.state
    BY Zenon, <1>1, ConfReq
  <2>2. n \in FsmStates /\ n \in Waiting /\ n # "OPENED" /\ g.state # "OPENED"
    BY Zenon, <1>5, <2>1 DEF FsmStates, Negotiating, Waiting
  <2>3. r.f = [s.f EXCEPT !.state = n] /\ r.cb = <<>>
    BY <1>1, <1>5 DEF fsm_timeout, Effect, Negotiating, g
  <2> HIDE DEF s, n
  <2>4. r.f \in Fsms /\ r.f.state = n
    BY <2>1, <2>2, <2>3, SetState
  <2>. QED  BY Zenon, <1>1, <2>2, <2>3, <2>4, Literals DEF Moved, FsmOk
<1>6. CASE ~(g.state \in {"CLOSING", "STOPPING"} \cup Negotiating /\ g.retransmits >= 0)
  <2>0. /\ ~(g.state \in {"CLOSING", "STOPPING"} /\ (g.retransmits = 0 \/ g.retransmits > 0))
        /\ ~(g.state \in Negotiating /\ (g.retransmits = 0 \/ g.retransmits > 0))
    BY <1>1, <1>6
  <2>1. r = Ignored(g)
    BY Zenon, <2>0 DEF fsm_timeout, g
  <2>2. FsmOk(g)
    BY Zenon, <1>1 DEF FsmOk
  <2>. QED  BY Zenon, <1>1, <2>1, <2>2, Idle
<1>. QED  BY SMTT(60), <1>1, <1>2, <1>3, <1>4, <1>5, <1>6

LEMMA TermRequest == ASSUME NEW f, FsmOk(f) PROVE Moved(f, fsm_rtermreq(f, 0))
<1>1. CASE f.state = "OPENED"
  <2> DEFINE g == [f EXCEPT !.retransmits = 0, !.state = "STOPPING", !.timer = TRUE]
  <2>1. fsm_rtermreq(f, 0).f = g /\ fsm_rtermreq(f, 0).cb = <<"down">>
    BY Zenon, <1>1 DEF fsm_rtermreq, Effect
  <2>2. "STOPPING" \in FsmStates /\ "STOPPING" \in Waiting /\ 0 \in Int
    BY DEF FsmStates, Waiting
  <2>3. g \in Fsms /\ g.state = "STOPPING"
    BY Zenon, <2>2 DEF Fsms, FsmOk
  <2>. QED  BY Zenon, <1>1, <2>1, <2>2, <2>3, Literals DEF Moved, FsmOk
<1>2. CASE f.state # "OPENED"
  <2> DEFINE g == fsm_rtermreq(f, 0).f
  <2>1. FsmOk(g) /\ g.state # "OPENED" /\ fsm_rtermreq(f, 0).cb = <<>>
    BY Zenon, <1>2 DEF fsm_rtermreq, Effect, FsmOk, Fsms, FsmStates, Waiting, Negotiating
  <2>. QED  BY Zenon, <1>2, <2>1, Literals DEF Moved
<1>. QED  BY Zenon, <1>1, <1>2

LEMMA TermAck == ASSUME NEW f, FsmOk(f), NEW alloc \in BOOLEAN PROVE Moved(f, fsm_rtermack(f, alloc))
<1> DEFINE r == fsm_rtermack(f, alloc)
<1>0. f \in Fsms
  BY Zenon DEF FsmOk
<1>1. CASE f.state = "OPENED"
  <2>1. r = Renegotiate(f, <<"down">>, alloc)
    BY Zenon, <1>1 DEF fsm_rtermack
  <2>2. FsmOk(r.f) /\ r.f.state = "REQSENT" /\ r.cb = <<"down">>
    BY <1>0, <2>1, Again
  <2>. QED  BY Zenon, <1>1, <2>2, Literals DEF Moved
<1>2. CASE f.state \in {"CLOSING", "STOPPING"}
  <2>1. r.f = [Untimeout(f) EXCEPT !.state = Ended(f.state)] /\ r.cb = <<"finished">>
    BY Zenon, <1>2 DEF fsm_rtermack, Effect
  <2>2. Ended(f.state) \in FsmStates /\ Ended(f.state) \in {"CLOSED", "STOPPED"}
    BY Zenon DEF Ended, FsmStates
  <2>3. r.f \in Fsms /\ r.f.state = Ended(f.state) /\ ~r.f.timer
    BY SMTT(60), <1>0, <2>1, <2>2, SetState, Stopped
  <2>. QED  BY Zenon, <1>2, <2>1, <2>2, <2>3, Literals DEF Moved, FsmOk
<1>3. CASE f.state \notin {"CLOSING", "STOPPING", "OPENED"}
  <2>1. FsmOk(r.f) /\ r.f.state # "OPENED" /\ r.cb = <<>>
    BY Zenon, <1>3 DEF fsm_rtermack, Become, Ignored, Effect, FsmOk, Fsms, FsmStates, Waiting, Negotiating
  <2>. QED  BY Zenon, <1>3, <2>1, Literals DEF Moved
<1>. QED  BY Zenon, <1>1, <1>2, <1>3

LEMMA CodeReject == ASSUME NEW f, FsmOk(f) PROVE Moved(f, fsm_rcoderej(f))
<1> DEFINE r == fsm_rcoderej(f)
<1>1. FsmOk(r.f) /\ (f.state = "OPENED" <=> r.f.state = "OPENED") /\ r.cb = <<>>
  BY Zenon DEF fsm_rcoderej, Become, Ignored, Effect, FsmOk, Fsms, FsmStates, Waiting, Negotiating
<1>. QED  BY Zenon, <1>1, Literals DEF Moved

LEMMA ProtReject == ASSUME NEW f, FsmOk(f) PROVE Moved(f, fsm_protreject(f))
<1> DEFINE r == fsm_protreject(f)
<1>0. f \in Fsms
  BY Zenon DEF FsmOk
<1>1. CASE f.state = "OPENED"
  <2>1. r = terminate_layer(f, "STOPPING")
    BY Zenon, <1>1 DEF fsm_protreject, Negotiating
  <2>. QED  BY Zenon, <1>1, <2>1, Terminating
<1>2. CASE f.state \in {"INITIAL", "STARTING"}
  <2>1. r = Ignored(f)
    BY Zenon, <1>2 DEF fsm_protreject, Negotiating
  <2>. QED  BY Zenon, <2>1, Idle
<1>3. CASE f.state \notin {"OPENED", "INITIAL", "STARTING"}
  <2> DEFINE n == IF f.state \in {"CLOSING", "CLOSED"} THEN "CLOSED" ELSE "STOPPED"
  <2>1. r.f = [Untimeout(f) EXCEPT !.state = n] /\ r.cb = <<"finished">>
    BY Zenon, <1>3 DEF fsm_protreject, Effect, Negotiating, FsmOk, Fsms, FsmStates
  <2>2. n \in {"CLOSED", "STOPPED"} /\ n \in FsmStates
    BY Zenon DEF FsmStates
  <2> HIDE DEF n
  <2>3. r.f \in Fsms /\ r.f.state = n /\ ~r.f.timer
    BY SMTT(60), <1>0, <2>1, <2>2, SetState, Stopped
  <2>. QED  BY Zenon, <1>3, <2>1, <2>2, <2>3, Literals DEF Moved, FsmOk
<1>. QED  BY Zenon, <1>1, <1>2, <1>3

LEMMA ConfAck ==
    ASSUME NEW f, FsmOk(f), NEW good \in BOOLEAN, NEW alloc \in BOOLEAN
    PROVE  Moved(f, fsm_rconfack(f, 0, good, alloc))
<1> DEFINE r == fsm_rconfack(f, 0, good, alloc)
           g == [f EXCEPT !.seen_ack = TRUE, !.rnakloops = 0]
<1>0. f \in Fsms
  BY Zenon DEF FsmOk
<1>1. g \in Fsms /\ g.state = f.state /\ g.timer = f.timer
  BY Zenon, <1>0, Constants DEF Fsms
<1>2. FsmOk(g)
  BY Zenon, <1>1 DEF FsmOk
<1>3. CASE 0 # f.reqid \/ f.seen_ack \/ ~good
  <2>1. r = Ignored(f)
    BY Zenon, <1>3 DEF fsm_rconfack, AnyAck
  <2>. QED  BY Zenon, <2>1, Idle
<1>4. CASE ~(0 # f.reqid \/ f.seen_ack \/ ~good)
  <2>0. r = CASE g.state \in {"CLOSED", "STOPPED"} -> Effect(g, Bare("TERMACK", 0), <<>>)
              [] g.state = "REQSENT" ->
                      Ignored([g EXCEPT !.state = "ACKRCVD", !.retransmits = MaxConfReq])
              [] g.state = "ACKRCVD" -> Renegotiate(Untimeout(g), <<>>, alloc)
              [] g.state = "ACKSENT" ->
                      Effect([Untimeout(g) EXCEPT !.state = "OPENED", !.retransmits = MaxConfReq],
                             <<>>, <<"up">>)
              [] g.state = "OPENED" -> Renegotiate(g, <<"down">>, alloc)
              [] OTHER -> Ignored(g)
    BY Zenon, <1>4 DEF fsm_rconfack, AnyAck
  <2> HIDE DEF g, r
  <2>1. CASE g.state \in {"CLOSED", "STOPPED"}
    <3>1. r = Effect(g, Bare("TERMACK", 0), <<>>)
      BY Zenon, <2>0, <2>1
    <3>. QED  BY Zenon, <1>1, <1>2, <3>1, Idle DEF r
  <2>2. CASE g.state = "REQSENT"
    <3> DEFINE h == [g EXCEPT !.state = "ACKRCVD", !.retransmits = MaxConfReq]
    <3>1. r = Ignored(h)
      BY Zenon, <2>0, <2>2
    <3>2. "ACKRCVD" \in FsmStates /\ "ACKRCVD" \in Waiting
      BY Zenon DEF FsmStates, Waiting, Negotiating
    <3>3. h \in Fsms /\ h.state = "ACKRCVD"
      BY Zenon, <1>1, <3>2, Constants DEF Fsms
    <3>. QED  BY Zenon, <1>1, <2>2, <3>1, <3>2, <3>3, Idle DEF r, FsmOk
  <2>3. CASE g.state = "ACKRCVD"
    <3>1. r = Renegotiate(Untimeout(g), <<>>, alloc)
      BY Zenon, <2>0, <2>3
    <3>2. FsmOk(r.f) /\ r.f.state = "REQSENT" /\ r.cb = <<>>
      BY <1>1, <3>1, Again, Stopped
    <3>. QED  BY Zenon, <1>1, <2>3, <3>2, Literals DEF Moved, r
  <2>4. CASE g.state = "ACKSENT"
    <3> DEFINE u == Untimeout(g)
               h == [u EXCEPT !.state = "OPENED", !.retransmits = MaxConfReq]
    <3>1. r = Effect(h, <<>>, <<"up">>)
      BY Zenon, <2>0, <2>4
    <3>2. u \in Fsms /\ ~u.timer /\ "OPENED" \in FsmStates
      BY Zenon, <1>1, Stopped DEF FsmStates
    <3> HIDE DEF u
    <3>3. h \in Fsms /\ h.state = "OPENED" /\ ~h.timer
      BY Zenon, <3>2, Constants DEF Fsms
    <3> HIDE DEF h
    <3>4. r.f = h /\ r.cb = <<"up">>
      BY Zenon, <3>1 DEF Effect
    <3>. QED  BY Zenon, <1>1, <2>4, <3>3, <3>4, Literals DEF Moved, FsmOk, r
  <2>5. CASE g.state = "OPENED"
    <3>1. r = Renegotiate(g, <<"down">>, alloc)
      BY Zenon, <2>0, <2>5
    <3>2. FsmOk(r.f) /\ r.f.state = "REQSENT" /\ r.cb = <<"down">>
      BY <1>1, <3>1, Again
    <3>. QED  BY Zenon, <1>1, <2>5, <3>2, Literals DEF Moved, r
  <2>6. CASE g.state \notin {"CLOSED", "STOPPED", "REQSENT", "ACKRCVD", "ACKSENT", "OPENED"}
    <3>1. r = Ignored(g)
      BY Zenon, <2>0, <2>6
    <3>. QED  BY Zenon, <1>1, <1>2, <3>1, Idle DEF r
  <2>. QED  BY Zenon, <2>1, <2>2, <2>3, <2>4, <2>5, <2>6
<1>. QED  BY Zenon, <1>3, <1>4

LEMMA ConfNakRej ==
    ASSUME NEW f, FsmOk(f), NEW code \in {"CONFNAK", "CONFREJ"}, NEW good \in BOOLEAN,
           NEW alloc \in BOOLEAN
    PROVE  Moved(f, fsm_rconfnakrej(f, code, 0, good, alloc))
<1> DEFINE r == fsm_rconfnakrej(f, code, 0, good, alloc)
           k == IF code = "CONFNAK" THEN f.rnakloops + 1 ELSE 0
           n == [f EXCEPT !.rnakloops = k]
           m == [n EXCEPT !.o = n.o]
           g == [m EXCEPT !.seen_ack = TRUE]
           next == CASE g.state \in {"CLOSED", "STOPPED"} -> Effect(g, Bare("TERMACK", 0), <<>>)
                     [] g.state \in {"REQSENT", "ACKSENT"} -> fsm_sconfreq(Untimeout(g), FALSE, alloc)
                     [] g.state = "ACKRCVD" -> Renegotiate(Untimeout(g), <<>>, alloc)
                     [] g.state = "OPENED"  -> Renegotiate(g, <<"down">>, alloc)
                     [] OTHER -> Ignored(g)
<1>0. f \in Fsms /\ k \in Nat
  BY DEF FsmOk, Fsms
<1> HIDE DEF k
<1>1. n \in Fsms /\ n.state = f.state /\ n.timer = f.timer
  BY Zenon, <1>0 DEF Fsms
<1> HIDE DEF n
<1>2. m \in Fsms /\ m.state = f.state /\ m.timer = f.timer
  BY Zenon, <1>1 DEF Fsms
<1> HIDE DEF m
<1>3. g \in Fsms /\ g.state = f.state /\ g.timer = f.timer
  BY Zenon, <1>2 DEF Fsms
<1> HIDE DEF g
<1>4. FsmOk(n) /\ FsmOk(g)
  BY Zenon, <1>1, <1>3 DEF FsmOk
<1>5. CASE 0 # f.reqid \/ f.seen_ack
  <2>1. r = Ignored(f)
    BY Zenon, <1>5 DEF fsm_rconfnakrej
  <2>. QED  BY Zenon, <2>1, Idle
<1>6. CASE ~(0 # f.reqid \/ f.seen_ack) /\ ~good
  <2>1. r = Ignored(n)
    BY Zenon, <1>6 DEF fsm_rconfnakrej, AnyNak, AnyRej, n, k
  <2>. QED  BY Zenon, <1>1, <1>4, <2>1, Idle
<1>7. CASE ~(0 # f.reqid \/ f.seen_ack) /\ good
  <2>1. r.f = next.f /\ r.cb = <<>> \o next.cb
    BY ZenonT(60), <1>7 DEF fsm_rconfnakrej, AnyNak, AnyRej, Closed, Ignored, Effect, k, n, m, g
  <2>2. /\ FsmOk(next.f)
        /\ \/ next.cb = <<>> /\ (f.state = "OPENED" <=> next.f.state = "OPENED")
           \/ next.cb = <<"down">> /\ f.state = "OPENED" /\ next.f.state # "OPENED"
    <3> HIDE DEF next
    <3>1. CASE g.state \in {"CLOSED", "STOPPED"}
      <4>1. next = Effect(g, Bare("TERMACK", 0), <<>>)
        BY Zenon, <3>1 DEF next
      <4>2. next.f = g /\ next.cb = <<>>
        BY Zenon, <4>1 DEF Effect
      <4>. QED  BY Zenon, <1>3, <1>4, <4>2
    <3>2. CASE g.state \in {"REQSENT", "ACKSENT"}
      <4>1. next = fsm_sconfreq(Untimeout(g), FALSE, alloc)
        BY Zenon, <3>2 DEF next
      <4>2. next.f \in Fsms /\ next.f.state = g.state /\ next.cb = <<>>
        <5>1. Untimeout(g) \in Fsms /\ Untimeout(g).state = g.state
          BY Zenon, <1>3, Stopped
        <5>. QED  BY Zenon, <4>1, <5>1, ConfReq
      <4>3. g.state \in Waiting /\ g.state # "OPENED"
        BY Zenon, <3>2 DEF Waiting, Negotiating
      <4>. QED  BY Zenon, <1>3, <4>2, <4>3 DEF FsmOk
    <3>3. CASE g.state = "ACKRCVD"
      <4>1. next = Renegotiate(Untimeout(g), <<>>, alloc)
        BY Zenon, <3>3 DEF next
      <4>. QED  BY SMTT(60), <1>3, <3>3, <4>1, Again, Stopped
    <3>4. CASE g.state = "OPENED"
      <4>1. next = Renegotiate(g, <<"down">>, alloc)
        BY Zenon, <3>4 DEF next
      <4>. QED  BY <1>3, <3>4, <4>1, Again
    <3>5. CASE g.state \notin {"CLOSED", "STOPPED", "REQSENT", "ACKRCVD", "ACKSENT", "OPENED"}
      <4>1. next = Ignored(g)
        BY Zenon, <3>5 DEF next
      <4>2. next.f = g /\ next.cb = <<>>
        BY Zenon, <4>1 DEF Ignored, Effect
      <4>. QED  BY Zenon, <1>3, <1>4, <4>2
    <3>. QED  BY Zenon, <3>1, <3>2, <3>3, <3>4, <3>5
  <2> HIDE DEF next, r
  <2>. QED  BY Zenon, <2>1, <2>2, Literals DEF Moved, r
<1>. QED  BY Zenon, <1>5, <1>6, <1>7

LEMMA ConfRequest ==
    ASSUME NEW f, FsmOk(f), ~Deaf(f), NEW verdict, NEW alloc \in BOOLEAN
    PROVE  Moved(f, fsm_rconfreq(f, 0, verdict, alloc, TRUE))
<1> DEFINE r == fsm_rconfreq(f, 0, verdict, alloc, TRUE)
           start == CASE f.state = "OPENED"  -> Renegotiate(f, <<"down">>, alloc)
                      [] f.state = "STOPPED" -> Renegotiate(f, <<>>, alloc)
                      [] OTHER -> Ignored(f)
           g == [start.f EXCEPT !.o = start.f.o]
           u == Untimeout(g)
           o == [u EXCEPT !.state = "OPENED", !.nakloops = 0]
           a == [g EXCEPT !.state = "ACKSENT", !.nakloops = 0]
           s == IF g.state = "ACKRCVD" THEN "ACKRCVD" ELSE "REQSENT"
           k == IF verdict = "CONFNAK" THEN g.nakloops + 1 ELSE g.nakloops
           d == [g EXCEPT !.state = s, !.nakloops = k]
<1>0. f \in Fsms
  BY Zenon DEF FsmOk
<1>1. CASE f.state \in {"CLOSED", "CLOSING", "STOPPING"}
  <2>1. r.f = f /\ r.cb = <<>>
    BY Zenon, <1>1 DEF fsm_rconfreq, Effect, Ignored
  <2>. QED  BY Zenon, <2>1, Literals DEF Moved
<1>2. CASE f.state \notin {"CLOSED", "CLOSING", "STOPPING"}
  <2>0. f.state \in Negotiating \cup {"STOPPED", "OPENED"}
    BY Zenon, <1>0, <1>2 DEF Fsms, FsmStates, Deaf
  <2>1. /\ start.f \in Fsms /\ start.f.state \in Negotiating
        /\ start.cb = IF f.state = "OPENED" THEN <<"down">> ELSE <<>>
        /\ f.state = "OPENED" => start.f.state = "REQSENT"
    <3> HIDE DEF start
    <3>1. CASE f.state = "OPENED"
      <4>1. start = Renegotiate(f, <<"down">>, alloc)
        BY Zenon, <3>1 DEF start
      <4>. QED  BY <1>0, <3>1, <4>1, Again DEF FsmOk, Negotiating
    <3>2. CASE f.state = "STOPPED"
      <4>1. start = Renegotiate(f, <<>>, alloc)
        BY Zenon, <3>2 DEF start
      <4>. QED  BY <1>0, <3>2, <4>1, Again DEF FsmOk, Negotiating
    <3>3. CASE f.state \in Negotiating
      <4>1. start = Ignored(f)
        BY Zenon, <3>3 DEF start, Negotiating
      <4>2. start.f = f /\ start.cb = <<>>
        BY Zenon, <4>1 DEF Ignored, Effect
      <4>3. f.state # "OPENED"
        BY Zenon, <3>3 DEF Negotiating
      <4>. QED  BY Zenon, <1>0, <3>3, <4>2, <4>3
    <3>. QED  BY Zenon, <2>0, <3>1, <3>2, <3>3
  <2>2. /\ verdict = "CONFACK" /\ g.state = "ACKRCVD" => r.f = o /\ r.cb = Append(start.cb, "up")
        /\ verdict = "CONFACK" /\ g.state # "ACKRCVD" => r.f = a /\ r.cb = start.cb
        /\ verdict # "CONFACK" => r.f = d /\ r.cb = start.cb
    <3> DEFINE answer == AnyReq(start.f.o, verdict, RejectIfDisagree(start.f), TRUE)
               c == Closed([start.f EXCEPT !.o = answer.o], answer.close).f
               out == Append(start.out, Packet(answer.code, 0, answer.opt))
    <3>1. r = CASE f.state = "CLOSED" -> Effect(f, Bare("TERMACK", 0), <<>>)
                [] f.state \in {"CLOSING", "STOPPING"} -> Ignored(f)
                [] f.state \notin {"CLOSED", "CLOSING", "STOPPING"} /\ answer.code = "CONFACK" ->
                      IF c.state = "ACKRCVD"
                      THEN Effect([Untimeout(c) EXCEPT !.state = "OPENED", !.nakloops = 0],
                                  out, Append(start.cb, "up"))
                      ELSE Effect([c EXCEPT !.state = "ACKSENT", !.nakloops = 0], out, start.cb)
                [] OTHER ->
                      Effect([c EXCEPT !.state = IF @ = "ACKRCVD" THEN @ ELSE "REQSENT",
                                !.nakloops = IF answer.code = "CONFNAK" THEN @ + 1 ELSE @],
                             out, start.cb)
      BY Zenon DEF fsm_rconfreq
    <3> HIDE DEF start, r
    <3>2. answer.code = verdict /\ answer.o = start.f.o /\ answer.close = "no"
      BY Zenon DEF AnyReq
    <3> HIDE DEF answer, out
    <3>3. c = g
      BY Zenon, <3>2 DEF Closed, Ignored, Effect
    <3> HIDE DEF c
    <3> HIDE DEF g
    <3>4. CASE verdict = "CONFACK" /\ g.state = "ACKRCVD"
      BY Zenon, <1>2, <3>1, <3>2, <3>3, <3>4 DEF Effect
    <3>5. CASE verdict = "CONFACK" /\ g.state # "ACKRCVD"
      BY Zenon, <1>2, <3>1, <3>2, <3>3, <3>5 DEF Effect
    <3>6. CASE verdict # "CONFACK"
      <4>1. r = Effect([g EXCEPT !.state = IF @ = "ACKRCVD" THEN @ ELSE "REQSENT",
                                 !.nakloops = IF verdict = "CONFNAK" THEN @ + 1 ELSE @],
                       out, start.cb)
        BY Zenon, <1>2, <3>1, <3>2, <3>3, <3>6
      <4>2. r.cb = start.cb /\ r.f = [g EXCEPT !.state = IF g.state = "ACKRCVD" THEN g.state ELSE "REQSENT",
                                 !.nakloops = IF verdict = "CONFNAK" THEN g.nakloops + 1 ELSE g.nakloops]
        BY Zenon, <4>1 DEF Effect
      <4>3. (IF g.state = "ACKRCVD" THEN g.state ELSE "REQSENT") = s
        BY Zenon
      <4>. QED  BY Zenon, <3>6, <4>2, <4>3
    <3>. QED  BY Zenon, <3>4, <3>5, <3>6
  <2> HIDE DEF start, r
  <2>3. g \in Fsms /\ g.state = start.f.state
    BY Zenon, <2>1 DEF Fsms
  <2> HIDE DEF g
  <2>4. u \in Fsms /\ ~u.timer /\ g.nakloops \in Nat /\ k \in Nat
    BY <2>3, Stopped DEF Fsms
  <2> HIDE DEF u, k
  <2>5. {"OPENED", "ACKSENT", s} \subseteq FsmStates /\ {"ACKSENT", s} \subseteq Waiting /\ s # "OPENED"
    BY Zenon DEF FsmStates, Waiting, Negotiating
  <2> HIDE DEF s
  <2>6. o \in Fsms /\ o.state = "OPENED" /\ ~o.timer
    BY Zenon, <2>4, <2>5, Constants DEF Fsms
  <2>7. a \in Fsms /\ a.state = "ACKSENT"
    BY Zenon, <2>3, <2>5, Constants DEF Fsms
  <2>8. d \in Fsms /\ d.state = s
    BY Zenon, <2>3, <2>4, <2>5 DEF Fsms
  <2> HIDE DEF o, a, d
  <2>9. FsmOk(o) /\ FsmOk(a) /\ FsmOk(d)
    BY Zenon, <2>5, <2>6, <2>7, <2>8 DEF FsmOk
  <2>10. CASE verdict = "CONFACK" /\ g.state = "ACKRCVD"
    <3>1. f.state # "OPENED" /\ start.cb = <<>>
      BY Zenon, <2>1, <2>3, <2>10
    <3>2. r.f = o /\ Call(r.cb, "up")
      BY Zenon, <2>2, <2>10, <3>1, Literals
    <3>. QED  BY Zenon, <2>6, <2>9, <3>1, <3>2 DEF Moved, r
  <2>11. CASE ~(verdict = "CONFACK" /\ g.state = "ACKRCVD")
    <3>1. r.f \in {a, d} /\ r.cb = start.cb
      BY Zenon, <2>2, <2>11
    <3>2. FsmOk(r.f) /\ r.f.state # "OPENED"
      BY Zenon, <2>5, <2>7, <2>8, <2>9, <3>1
    <3>3. IF f.state = "OPENED" THEN Call(r.cb, "down") ELSE NoCall(r.cb)
      BY Zenon, <2>1, <3>1, Literals
    <3>. QED  BY Zenon, <3>2, <3>3 DEF Moved, r
  <2>. QED  BY Zenon, <2>10, <2>11
<1>. QED  BY Zenon, <1>1, <1>2

\* A packet moves an automaton as its owner expects.
LEMMA Handled ==
    ASSUME NEW f, FsmOk(f), NEW code \in Codes, NEW verdict, NEW good \in BOOLEAN, NEW alloc \in BOOLEAN
    PROVE  Moved(f, Handle(f, code, verdict, good, alloc))
<1> DEFINE r == Handle(f, code, verdict, good, alloc)
<1>1. CASE Deaf(f)
  <2>1. r = Ignored(f)
    BY Zenon, <1>1 DEF Handle
  <2>. QED  BY Zenon, <2>1, Idle
<1>2. CASE ~Deaf(f) /\ code = "CONFREQ"
  <2>1. r = fsm_rconfreq(f, 0, verdict, alloc, TRUE)
    BY Zenon, <1>2 DEF Handle
  <2>. QED  BY Zenon, <1>2, <2>1, ConfRequest
<1>3. CASE ~Deaf(f) /\ code = "CONFACK"
  <2>1. r = fsm_rconfack(f, 0, good, alloc)
    BY Zenon, <1>3 DEF Handle
  <2>. QED  BY Zenon, <2>1, ConfAck
<1>4. CASE ~Deaf(f) /\ code \in {"CONFNAK", "CONFREJ"}
  <2>1. r = fsm_rconfnakrej(f, code, 0, good, alloc)
    BY Zenon, <1>4 DEF Handle
  <2>. QED  BY Zenon, <1>4, <2>1, ConfNakRej
<1>5. CASE ~Deaf(f) /\ code = "TERMREQ"
  <2>1. r = fsm_rtermreq(f, 0)
    BY Zenon, <1>5 DEF Handle
  <2>. QED  BY Zenon, <2>1, TermRequest
<1>6. CASE ~Deaf(f) /\ code = "TERMACK"
  <2>1. r = fsm_rtermack(f, alloc)
    BY Zenon, <1>6 DEF Handle
  <2>. QED  BY Zenon, <2>1, TermAck
<1>7. CASE ~Deaf(f) /\ code = "CODEREJ"
  <2>1. r = fsm_rcoderej(f)
    BY Zenon, <1>7 DEF Handle
  <2>. QED  BY Zenon, <2>1, CodeReject
<1>. QED  BY Zenon, <1>1, <1>2, <1>3, <1>4, <1>5, <1>6, <1>7 DEF Codes

-----------------------------------------------------------------------------
(***************************************************************************)
(* The session.                                                            *)
(***************************************************************************)
PhaseNames == {"DEAD", "HOLDOFF", "INITIALIZE", "ESTABLISH", "NETWORK", "RUNNING",
               "TERMINATE", "DISCONNECT"}
Errors == {"NONE", "CONNECT", "USER", "PEERDEAD", "LOOPBACK"}

Sessions ==
    [phase : PhaseNames, err : Errors, lcp : Fsms, ipcp : Fsms, np_open : Int, np_up : Int,
     is_open : BOOLEAN, is_up : BOOLEAN, if4_up : BOOLEAN, open : BOOLEAN, echo : BOOLEAN,
     pending : Nat, delayed : BOOLEAN, holdoff : BOOLEAN, said : Errors \cup {"nothing"}]

\* The interface, and what the layers above the link have counted.
IsUp(p)   == p.is_up /\ p.if4_up /\ p.np_up = 1
IsDown(p) == ~p.is_up /\ ~p.if4_up /\ p.np_up = 0

\* What the ends of the layers leave alone.
Kept(q, p) == q \in Sessions /\ q.open = p.open /\ q.delayed = p.delayed /\ q.holdoff = p.holdoff

LEMMA IpcpDown ==
    ASSUME NEW p \in Sessions, IsUp(p) \/ IsDown(p)
    PROVE  LET q == ipcp_down(p) IN
           /\ Kept(q, p) /\ q.lcp = p.lcp /\ q.ipcp = p.ipcp /\ q.echo = p.echo /\ IsDown(q)
           /\ q.phase = IF p.is_up THEN "NETWORK" ELSE p.phase
<1> DEFINE a == [p EXCEPT !.is_up = FALSE]
           b == [a EXCEPT !.np_up = 0]
           c == [b EXCEPT !.phase = "NETWORK"]
           d == IF p.is_up THEN c ELSE p
           e == [d EXCEPT !.if4_up = FALSE]
<1>0. 0 \in Int /\ "NETWORK" \in PhaseNames
  BY DEF PhaseNames
<1>1. /\ Kept(a, p) /\ a.lcp = p.lcp /\ a.ipcp = p.ipcp /\ a.echo = p.echo
      /\ ~a.is_up /\ a.np_up = p.np_up
  BY Zenon DEF Kept, Sessions
<1> HIDE DEF a
<1>2. /\ Kept(b, p) /\ b.lcp = p.lcp /\ b.ipcp = p.ipcp /\ b.echo = p.echo
      /\ ~b.is_up /\ b.np_up = 0
  BY Zenon, <1>0, <1>1 DEF Kept, Sessions
<1>3. p.is_up => np_down(a) = c
  <2> SUFFICES ASSUME p.is_up PROVE np_down(a) = c
    BY Zenon
  <2>1. a.np_up - 1 = 0
    BY <1>1 DEF IsUp, IsDown
  <2>2. [a EXCEPT !.np_up = @ - 1] = b
    BY Zenon, <2>1
  <2> HIDE DEF b
  <2>. QED  BY Zenon, <1>2, <2>2 DEF np_down, new_phase
<1> HIDE DEF b
<1>4. /\ Kept(c, p) /\ c.lcp = p.lcp /\ c.ipcp = p.ipcp /\ c.echo = p.echo
      /\ ~c.is_up /\ c.np_up = 0 /\ c.phase = "NETWORK"
  BY Zenon, <1>0, <1>2 DEF Kept, Sessions
<1> HIDE DEF c
<1>5. /\ Kept(d, p) /\ d.lcp = p.lcp /\ d.ipcp = p.ipcp /\ d.echo = p.echo
      /\ ~d.is_up /\ d.np_up = 0 /\ d.phase = IF p.is_up THEN "NETWORK" ELSE p.phase
  BY Zenon, <1>4 DEF Kept, IsDown, IsUp
<1>6. ipcp_down(p) = e
  BY Zenon, <1>3 DEF ipcp_down, a
<1> HIDE DEF d
<1>7. /\ Kept(e, p) /\ e.lcp = p.lcp /\ e.ipcp = p.ipcp /\ e.echo = p.echo
      /\ ~e.is_up /\ ~e.if4_up /\ e.np_up = 0 /\ e.phase = d.phase
  BY Zenon, <1>5 DEF Kept, Sessions
<1>. QED  BY Zenon, <1>5, <1>6, <1>7 DEF IsDown

\* IPCP is open exactly while the interface is up.
Upper(p) == /\ p \in Sessions /\ FsmOk(p.ipcp)
            /\ IF p.ipcp.state = "OPENED" THEN IsUp(p) ELSE IsDown(p)

LEMMA SetIpcp ==
    ASSUME NEW p \in Sessions, NEW f \in Fsms
    PROVE  LET q == [p EXCEPT !.ipcp = f] IN
           /\ Kept(q, p) /\ q.lcp = p.lcp /\ q.ipcp = f /\ q.echo = p.echo /\ q.phase = p.phase
           /\ q.is_up = p.is_up /\ q.if4_up = p.if4_up /\ q.np_up = p.np_up
  BY Zenon DEF Kept, Sessions

LEMMA SetLcp ==
    ASSUME NEW p \in Sessions, NEW f \in Fsms
    PROVE  LET q == [p EXCEPT !.lcp = f] IN
           /\ Kept(q, p) /\ q.lcp = f /\ q.ipcp = p.ipcp /\ q.echo = p.echo /\ q.phase = p.phase
           /\ q.is_up = p.is_up /\ q.if4_up = p.if4_up /\ q.np_up = p.np_up
  BY Zenon DEF Kept, Sessions

LEMMA IpcpLowerDown ==
    ASSUME NEW p, Upper(p)
    PROVE  LET q == ipcp_lowerdown(p) IN
           /\ Kept(q, p) /\ q.lcp = p.lcp /\ q.echo = p.echo /\ IsDown(q)
           /\ FsmOk(q.ipcp) /\ q.ipcp.state \in {"INITIAL", "STARTING"}
           /\ q.phase = IF p.is_up THEN "NETWORK" ELSE p.phase
<1> DEFINE r == fsm_lowerdown(p.ipcp)
           a == [p EXCEPT !.ipcp = r.f]
           q == ipcp_lowerdown(p)
<1>1. /\ FsmOk(r.f) /\ r.f \in Fsms /\ r.f.state \in {"INITIAL", "STARTING"}
      /\ r.cb = IF p.ipcp.state = "OPENED" THEN <<"down">> ELSE <<>>
  BY Zenon, LowerDown DEF Upper, FsmOk
<1>2. q = IF p.ipcp.state = "OPENED" THEN ipcp_down(a) ELSE a
  BY <1>1, Literals DEF ipcp_lowerdown, Upcalls, Call, NoCall
<1> HIDE DEF r, q
<1>3. /\ Kept(a, p) /\ a.lcp = p.lcp /\ a.ipcp = r.f /\ a.echo = p.echo /\ a.phase = p.phase
      /\ a.is_up = p.is_up /\ a.if4_up = p.if4_up /\ a.np_up = p.np_up
  BY Zenon, <1>1, SetIpcp DEF Upper
<1> HIDE DEF a
<1>4. a \in Sessions /\ (IsUp(a) \/ IsDown(a)) /\ (p.ipcp.state # "OPENED" => IsDown(a) /\ ~p.is_up)
  BY Zenon, <1>3 DEF Kept, Upper, IsUp, IsDown
<1>5. CASE p.ipcp.state = "OPENED"
  <2>1. /\ Kept(q, a) /\ q.lcp = a.lcp /\ q.ipcp = a.ipcp /\ q.echo = a.echo /\ IsDown(q)
        /\ q.phase = IF a.is_up THEN "NETWORK" ELSE a.phase
    BY Zenon, <1>2, <1>4, <1>5, IpcpDown
  <2>2. Kept(q, p)
    BY Zenon, <1>3, <2>1 DEF Kept
  <2>. QED  BY Zenon, <1>1, <1>3, <2>1, <2>2 DEF q
<1>6. CASE p.ipcp.state # "OPENED"
  <2>1. q = a
    BY Zenon, <1>2, <1>6
  <2>. QED  BY Zenon, <1>1, <1>3, <1>4, <1>6, <2>1 DEF q
<1>. QED  BY Zenon, <1>5, <1>6

LEMMA LcpDown ==
    ASSUME NEW p, Upper(p), p.phase # "DEAD"
    PROVE  LET q == lcp_down(p) IN
           /\ Kept(q, p) /\ q.lcp = p.lcp /\ ~q.echo /\ IsDown(q)
           /\ FsmOk(q.ipcp) /\ q.ipcp.state = "INITIAL" /\ q.phase = "ESTABLISH"
<1> DEFINE a == [p EXCEPT !.echo = FALSE]
           b == ipcp_lowerdown(a)
           g == fsm_close(b.ipcp).f
           c == [b EXCEPT !.ipcp = g, !.np_open = 0, !.np_up = 0]
           d == [c EXCEPT !.phase = "ESTABLISH"]
<1>0. 0 \in Int /\ "ESTABLISH" \in PhaseNames /\ p \in Sessions
  BY DEF PhaseNames, Upper
<1>1. /\ Kept(a, p) /\ a.lcp = p.lcp /\ a.ipcp = p.ipcp /\ ~a.echo /\ a.phase = p.phase
      /\ a.is_up = p.is_up /\ a.if4_up = p.if4_up /\ a.np_up = p.np_up
  BY Zenon, <1>0 DEF Kept, Sessions
<1>2. lcp_down(p) = link_down(a)
  BY Zenon DEF lcp_down, lcp_echo_lowerdown
<1> HIDE DEF a
<1>3. Upper(a)
  BY Zenon, <1>1 DEF Upper, Kept, IsUp, IsDown
<1>4. /\ Kept(b, a) /\ b.lcp = a.lcp /\ b.echo = a.echo /\ IsDown(b)
      /\ FsmOk(b.ipcp) /\ b.ipcp.state \in {"INITIAL", "STARTING"}
      /\ b.phase = IF a.is_up THEN "NETWORK" ELSE a.phase
  BY Zenon, <1>3, IpcpLowerDown
<1>5. upper_layers_down(a) = c
  BY Zenon DEF upper_layers_down
<1> HIDE DEF b
<1>6. FsmOk(g) /\ g \in Fsms /\ g.state = "INITIAL"
  BY Zenon, <1>4, ClosedLow DEF FsmOk
<1> HIDE DEF g
<1>7. /\ Kept(c, p) /\ c.lcp = p.lcp /\ ~c.echo /\ c.ipcp = g /\ c.np_up = 0
      /\ ~c.is_up /\ ~c.if4_up /\ c.phase = b.phase
  BY ZenonT(60), <1>0, <1>1, <1>4, <1>6 DEF Kept, Sessions, IsDown
<1> HIDE DEF c
<1>8. c.phase # "DEAD"
  BY Zenon, <1>1, <1>4, <1>7
<1>9. link_down(a) = d
  BY Zenon, <1>5, <1>8 DEF link_down
<1>10. /\ Kept(d, p) /\ d.lcp = p.lcp /\ ~d.echo /\ d.ipcp = g /\ d.np_up = 0
       /\ ~d.is_up /\ ~d.if4_up /\ d.phase = "ESTABLISH"
  BY Zenon, <1>0, <1>7 DEF Kept, Sessions
<1> HIDE DEF d
<1>. QED  BY Zenon, <1>2, <1>6, <1>9, <1>10 DEF IsDown

(* The inductive invariant, on one control block.                          *)
Idling == {"DEAD", "HOLDOFF"}
SessionOk(p) ==
    /\ p \in Sessions /\ FsmOk(p.lcp) /\ FsmOk(p.ipcp)
    /\ p.phase \notin {"INITIALIZE", "DISCONNECT"}
    /\ p.phase \in Idling => ~p.open /\ ~p.delayed /\ p.lcp.state \in {"INITIAL", "STARTING"}
    /\ p.phase = "RUNNING" <=> p.ipcp.state = "OPENED"
    /\ p.phase \in {"NETWORK", "RUNNING"} <=> p.lcp.state = "OPENED"
    /\ p.lcp.state # "OPENED" => p.ipcp.state = "INITIAL"
    /\ IF p.phase = "RUNNING" THEN IsUp(p) ELSE IsDown(p)
    /\ p.holdoff <=> p.phase = "HOLDOFF"
    /\ p.delayed => p.lcp.state = "STARTING"
    /\ p.echo => p.lcp.state = "OPENED"

\* LCP is not open and nothing above it is in use.
Low(p) == /\ p \in Sessions /\ FsmOk(p.lcp) /\ p.lcp.state # "OPENED"
          /\ FsmOk(p.ipcp) /\ p.ipcp.state = "INITIAL" /\ IsDown(p)
          /\ ~p.echo /\ ~p.holdoff /\ ~p.delayed

LEMMA LowOk ==
    ASSUME NEW p, Low(p), p.phase \in {"ESTABLISH", "TERMINATE"}
    PROVE  SessionOk(p)
  BY Zenon DEF SessionOk, Low, Idling

LEMMA OkUpper == ASSUME NEW p, SessionOk(p) PROVE Upper(p)
  BY Zenon DEF SessionOk, Upper

LEMMA LinkTerminated ==
    ASSUME NEW p, Low(p), p.phase # "DEAD"
    PROVE  SessionOk(link_terminated(p)) /\ link_terminated(p).phase = "DEAD"
<1> DEFINE a == [p EXCEPT !.phase = "DISCONNECT"]
           r == fsm_lowerdown(a.lcp)
           b == [a EXCEPT !.lcp = r.f]
           c == [b EXCEPT !.open = FALSE]
           err == IF c.err = "NONE" THEN "CONNECT" ELSE c.err
           d == [[c EXCEPT !.phase = "DEAD"] EXCEPT !.err = err, !.said = err]
<1>0. {"DISCONNECT", "DEAD"} \subseteq PhaseNames /\ p \in Sessions
  BY Zenon DEF PhaseNames, Low
<1>1. /\ a \in Sessions /\ a.lcp = p.lcp /\ a.ipcp = p.ipcp /\ ~a.echo /\ ~a.holdoff /\ ~a.delayed
      /\ IsDown(a)
  BY Zenon, <1>0 DEF Low, Sessions, IsDown
<1>2. link_terminated(p) = pppos_disconnect(lcp_lowerdown(a))
  BY Zenon DEF link_terminated, new_phase
<1> HIDE DEF a
<1>3. FsmOk(r.f) /\ r.f \in Fsms /\ r.f.state \in {"INITIAL", "STARTING"} /\ NoCall(r.cb)
  BY Zenon, <1>1, LowerDown, Literals DEF Low, FsmOk
<1>4. lcp_lowerdown(a) = b
  BY <1>1, <1>3 DEF lcp_lowerdown, Upcalls, NoCall
<1> HIDE DEF r
<1>5. /\ b \in Sessions /\ b.lcp = r.f /\ b.ipcp = p.ipcp /\ ~b.echo /\ ~b.holdoff /\ ~b.delayed
      /\ IsDown(b)
  BY Zenon, <1>1, <1>3 DEF Sessions, IsDown
<1>6. pppos_disconnect(b) = ppp_link_end(c)
  BY Zenon DEF pppos_disconnect
<1> HIDE DEF b
<1>7. /\ c \in Sessions /\ c.lcp = r.f /\ c.ipcp = p.ipcp /\ ~c.echo /\ ~c.holdoff /\ ~c.delayed
      /\ IsDown(c) /\ ~c.open
  BY Zenon, <1>5 DEF Sessions, IsDown
<1> HIDE DEF c
<1>8. err \in Errors /\ err \in Errors \cup {"nothing"}
  BY Zenon, <1>7 DEF Errors, Sessions
<1>9. ppp_link_end(c) = d
  BY Zenon DEF ppp_link_end, new_phase
<1> HIDE DEF err
<1>10. /\ d \in Sessions /\ d.lcp = r.f /\ d.ipcp = p.ipcp /\ ~d.echo /\ ~d.holdoff /\ ~d.delayed
       /\ IsDown(d) /\ ~d.open /\ d.phase = "DEAD"
  BY Zenon, <1>0, <1>7, <1>8 DEF Sessions, IsDown
<1> HIDE DEF d
<1>11. SessionOk(d)
  BY Zenon, <1>3, <1>10 DEF SessionOk, Low, Idling
<1>. QED  BY Zenon, <1>2, <1>4, <1>6, <1>9, <1>10, <1>11

LEMMA DownLow ==
    ASSUME NEW p, Upper(p), FsmOk(p.lcp), p.lcp.state # "OPENED", p.phase # "DEAD",
           ~p.holdoff, ~p.delayed
    PROVE  Low(lcp_down(p)) /\ lcp_down(p).phase = "ESTABLISH"
  BY Zenon, LcpDown DEF Low, Kept

\* SessionOk rules the state of LCP out where the phase does not have it.
LEMMA DeadClosed == ASSUME NEW p, SessionOk(p), p.phase = "DEAD" PROVE p.lcp.state # "OPENED"
  BY Zenon DEF SessionOk

LEMMA LcpClose ==
    ASSUME NEW p, SessionOk(p), p.phase \notin Idling
    PROVE  SessionOk(lcp_close(p)) /\ lcp_close(p).lcp.state # "OPENED"
<1> DEFINE n == IF p.delayed THEN "STOPPED" ELSE p.lcp.state
           t == [p EXCEPT !.phase = "TERMINATE"]
           q == [t EXCEPT !.lcp.state = n]
           r == fsm_close(q.lcp)
           a == [q EXCEPT !.lcp = r.f]
           s == Upcalls(LcpEnds, a, r.cb)
           Rest == q.lcp.state = "STOPPED" /\ (q.lcp.flags # {} \/ q.delayed)
           u == [s EXCEPT !.delayed = FALSE]
<1>1. lcp_close(p) = IF Rest THEN link_terminated(u) ELSE s
  <2>1. p.phase # "DEAD"
    BY Zenon DEF Idling
  <2>2. q = [p EXCEPT !.phase = IF @ = "DEAD" THEN @ ELSE "TERMINATE",
                      !.lcp.state = IF p.delayed THEN "STOPPED" ELSE @]
    BY <2>1, Zenon DEF SessionOk
  <2> HIDE DEF q
  <2>. QED  BY <2>2, SMTT(20) DEF lcp_close, Upcalls
<1> DEFINE g == [p.lcp EXCEPT !.state = n]
<1>2. p \in Sessions /\ p.lcp \in Fsms /\ FsmOk(p.lcp) /\ "TERMINATE" \in PhaseNames
  BY Zenon DEF SessionOk, FsmOk, PhaseNames
<1>3. n \in FsmStates
  BY Zenon, <1>2 DEF Fsms, FsmStates
<1>4. /\ g \in Fsms /\ g.state = n /\ g.timer = p.lcp.timer
  BY Zenon, <1>2, <1>3, SetState
<1>5. /\ t \in Sessions /\ t.lcp = p.lcp /\ t.ipcp = p.ipcp /\ t.echo = p.echo /\ t.phase = "TERMINATE"
      /\ t.delayed = p.delayed /\ t.holdoff = p.holdoff
      /\ t.is_up = p.is_up /\ t.if4_up = p.if4_up /\ t.np_up = p.np_up
  BY Zenon, <1>2 DEF Sessions
<1>6. q = [t EXCEPT !.lcp = g]
  BY Zenon, <1>5
<1> HIDE DEF q, t, n
<1>7. FsmOk(g) /\ (g.state = "OPENED" <=> p.lcp.state = "OPENED")
  BY <1>2, <1>4 DEF FsmOk, SessionOk, Waiting, Negotiating, n
<1> HIDE DEF g
<1>8. Kept(q, t) /\ q.lcp = g /\ q.ipcp = t.ipcp /\ q.echo = t.echo /\ q.phase = t.phase
      /\ q.is_up = t.is_up /\ q.if4_up = t.if4_up /\ q.np_up = t.np_up
  BY Zenon, <1>4, <1>5, <1>6, SetLcp
<1>9. /\ Moved(g, r) /\ FsmOk(r.f) /\ r.f \in Fsms /\ r.f.state # "OPENED"
      /\ g.state \notin Negotiating \cup {"OPENED"} => NoCall(r.cb)
  BY Zenon, <1>7, <1>8, Closing DEF Moved, FsmOk
<1> HIDE DEF r
<1>10. Kept(a, q) /\ a.lcp = r.f /\ a.ipcp = q.ipcp /\ a.echo = q.echo /\ a.phase = q.phase
       /\ a.is_up = q.is_up /\ a.if4_up = q.if4_up /\ a.np_up = q.np_up
  BY Zenon, <1>8, <1>9, SetLcp DEF Kept
<1> HIDE DEF a
<1>11. /\ a \in Sessions /\ a.lcp = r.f /\ a.ipcp = p.ipcp /\ a.echo = p.echo /\ a.phase = "TERMINATE"
       /\ a.is_up = p.is_up /\ a.if4_up = p.if4_up /\ a.np_up = p.np_up
       /\ a.delayed = p.delayed /\ a.holdoff = p.holdoff
  BY Zenon, <1>5, <1>8, <1>10 DEF Kept
<1>12. Upper(a) /\ ~a.holdoff
  BY Zenon, <1>11 DEF SessionOk, Upper, IsUp, IsDown, Idling
<1>13. Rest => g.state = "STOPPED"
  BY Zenon, <1>8
<1>14. p.delayed => Rest /\ g.state = "STOPPED"
  BY Zenon, <1>4, <1>5, <1>8 DEF Kept, n
<1>15. CASE p.lcp.state = "OPENED"
  <2>1. ~a.delayed /\ ~Rest
    BY Zenon, <1>7, <1>11, <1>13, <1>15 DEF SessionOk
  <2>2. Low(lcp_down(a)) /\ lcp_down(a).phase = "ESTABLISH"
    BY ZenonT(60), <1>9, <1>11, <1>12, <2>1, DownLow
  <2>3. CASE Call(r.cb, "down")
    <3>1. s = lcp_down(a)
      BY <2>3 DEF Upcalls, LcpEnds, Call
    <3>. QED  BY ZenonT(60), <1>1, <2>1, <2>2, <3>1, LowOk DEF Low
  <2>4. CASE Calls(r.cb, "down", "finished")
    <3>1. s = link_terminated(lcp_down(a))
      BY <2>4 DEF Upcalls, LcpEnds, Calls
    <3>. QED  BY ZenonT(60), <1>1, <2>1, <2>2, <3>1, LinkTerminated, DeadClosed
  <2>. QED  BY ZenonT(60), <1>7, <1>9, <1>15, <2>3, <2>4 DEF Moved
<1>16. CASE p.lcp.state # "OPENED" /\ ~Rest
  <2>1. Low(a)
    BY ZenonT(60), <1>9, <1>11, <1>12, <1>14, <1>16 DEF Low, SessionOk, Upper
  <2>2. CASE NoCall(r.cb)
    <3>1. s = a
      BY <2>2 DEF Upcalls, NoCall
    <3>. QED  BY ZenonT(60), <1>1, <1>9, <1>11, <1>16, <2>1, <3>1, LowOk
  <2>3. CASE Call(r.cb, "finished")
    <3>1. s = link_terminated(a)
      BY <2>3 DEF Upcalls, LcpEnds, Call
    <3>. QED  BY ZenonT(60), <1>1, <1>11, <1>16, <2>1, <3>1, LinkTerminated, DeadClosed
  <2>. QED  BY ZenonT(60), <1>7, <1>9, <1>16, <2>2, <2>3 DEF Moved
<1>17. CASE p.lcp.state # "OPENED" /\ Rest
  <2>1. s = a
    BY SMTT(60), <1>9, <1>13, <1>17 DEF Upcalls, NoCall, Negotiating
  <2> HIDE DEF s
  <2>2. Low(u) /\ u.phase = "TERMINATE"
    <3>1. /\ u \in Sessions /\ u.lcp = r.f /\ u.ipcp = p.ipcp /\ u.echo = p.echo /\ u.phase = "TERMINATE"
          /\ u.is_up = p.is_up /\ u.if4_up = p.if4_up /\ u.np_up = p.np_up
          /\ ~u.delayed /\ u.holdoff = p.holdoff
      BY Zenon, <1>11, <2>1 DEF Sessions
    <3> HIDE DEF u
    <3>. QED  BY ZenonT(60), <1>9, <1>11, <1>12, <1>17, <3>1 DEF Low, SessionOk, IsDown
  <2> HIDE DEF u
  <2>. QED  BY ZenonT(60), <1>1, <1>17, <2>2, LinkTerminated, DeadClosed
<1>. QED  BY Zenon, <1>15, <1>16, <1>17
\* The two differ in the error, the echoes and the protocols counted at most.
Alike(q, p) == /\ q \in Sessions /\ q.lcp = p.lcp /\ q.ipcp = p.ipcp /\ q.phase = p.phase
               /\ q.is_up = p.is_up /\ q.if4_up = p.if4_up /\ q.np_up = p.np_up
               /\ q.open = p.open /\ q.delayed = p.delayed /\ q.holdoff = p.holdoff

LEMMA AlikeOk ==
    ASSUME NEW p, SessionOk(p), NEW q, Alike(q, p), q.echo => p.lcp.state = "OPENED"
    PROVE  SessionOk(q)
  BY Zenon DEF SessionOk, Alike, IsUp, IsDown

LEMMA EchoSent ==
    ASSUME NEW p \in Sessions, p.lcp.state = "OPENED", ~(p.pending >= EchoFails /\ EchoFails # 0)
    PROVE  Alike(LcpSendEchoRequest(p), p)
<1> DEFINE q == [p EXCEPT !.pending = @ + 1]
<1>1. p.pending + 1 \in Nat
  BY DEF Sessions
<1>2. Alike(p, p) /\ Alike(q, p)
  BY Zenon, <1>1 DEF Alike, Sessions
<1>3. LcpSendEchoRequest(p) = IF EchoFails # 0 THEN q ELSE p
  BY Zenon DEF LcpSendEchoRequest
<1> HIDE DEF q
<1>. QED  BY Zenon, <1>2, <1>3

LEMMA EchoTimerOn ==
    ASSUME NEW p \in Sessions, p.lcp.state = "OPENED", ~(p.pending >= EchoFails /\ EchoFails # 0)
    PROVE  Alike(LcpEchoCheck(p), p)
<1> DEFINE x == LcpSendEchoRequest(p)
           q == [x EXCEPT !.echo = TRUE]
<1>1. Alike(x, p)
  BY Zenon, EchoSent
<1>2. LcpEchoCheck(p) = q
  BY Zenon, <1>1 DEF LcpEchoCheck, Alike
<1> HIDE DEF x
<1>3. Alike(q, x)
  BY Zenon, <1>1 DEF Alike, Sessions
<1>. QED  BY Zenon, <1>1, <1>2, <1>3 DEF Alike

LEMMA EchoUp ==
    ASSUME NEW p \in Sessions, p.lcp.state = "OPENED"
    PROVE  Alike(lcp_echo_lowerup(p), p)
<1> DEFINE q == [p EXCEPT !.pending = 0, !.echo = FALSE]
<1>1. Alike(q, p) /\ q.pending = 0
  BY Zenon, Constants DEF Alike, Sessions
<1>2. lcp_echo_lowerup(p) = IF settings.echo THEN LcpEchoCheck(q) ELSE q
  BY Zenon DEF lcp_echo_lowerup
<1> HIDE DEF q
<1>3. ~(q.pending >= EchoFails /\ EchoFails # 0)
  BY SMTT(60), <1>1, Constants
<1>4. Alike(LcpEchoCheck(q), q)
  BY SMTT(60), <1>1, <1>3, EchoTimerOn DEF Alike
<1>. QED  BY Zenon, <1>1, <1>2, <1>4 DEF Alike

LEMMA LcpUp ==
    ASSUME NEW p \in Sessions, FsmOk(p.lcp), p.lcp.state = "OPENED",
           FsmOk(p.ipcp), p.ipcp.state = "INITIAL", IsDown(p), ~p.holdoff, ~p.delayed,
           NEW alloc \in BOOLEAN
    PROVE  SessionOk(lcp_up(p, alloc))
<1> DEFINE a == lcp_echo_lowerup(p)
           f == fsm_lowerup(a.ipcp, alloc).f
           b == [a EXCEPT !.ipcp = f]
           c == [b EXCEPT !.phase = "NETWORK"]
           g == fsm_open(c.ipcp, alloc).f
           d == [c EXCEPT !.ipcp = g, !.is_open = TRUE]
           e == [d EXCEPT !.np_open = @ + 1]
<1>1. lcp_up(p, alloc) = e
  BY Zenon DEF lcp_up, link_established, continue_networks, new_phase, ipcp_open
<1>2. Alike(a, p)
  BY Zenon, EchoUp
<1> HIDE DEF a
<1>3. FsmOk(f) /\ f \in Fsms /\ f.state # "OPENED"
  BY Zenon, <1>2, LowerUp DEF Alike, FsmOk
<1> HIDE DEF f
<1>4. b \in Sessions /\ b.lcp = p.lcp /\ b.ipcp = f /\ IsDown(b) /\ ~b.holdoff /\ ~b.delayed
  BY ZenonT(60), <1>2, <1>3, SetIpcp DEF Alike, Kept, IsDown
<1> HIDE DEF b
<1>5. "NETWORK" \in PhaseNames
  BY Zenon DEF PhaseNames
<1>6. /\ c \in Sessions /\ c.lcp = p.lcp /\ c.ipcp = f /\ IsDown(c) /\ ~c.holdoff /\ ~c.delayed
      /\ c.phase = "NETWORK"
  BY Zenon, <1>4, <1>5 DEF Sessions, IsDown
<1> HIDE DEF c
<1>7. FsmOk(g) /\ g \in Fsms /\ g.state # "OPENED"
  BY <1>3, <1>6, Opening DEF FsmOk
<1> HIDE DEF g
<1>8. /\ d \in Sessions /\ d.lcp = p.lcp /\ d.ipcp = g /\ IsDown(d) /\ ~d.holdoff /\ ~d.delayed
      /\ d.phase = "NETWORK"
  BY Zenon, <1>6, <1>7 DEF Sessions, IsDown
<1> HIDE DEF d
<1>9. d.np_open + 1 \in Int
  BY <1>8 DEF Sessions
<1>10. /\ e \in Sessions /\ e.lcp = p.lcp /\ e.ipcp = g /\ IsDown(e) /\ ~e.holdoff /\ ~e.delayed
       /\ e.phase = "NETWORK"
  BY ZenonT(60), <1>8, <1>9 DEF Sessions, IsDown
<1> HIDE DEF e
<1>. QED  BY Zenon, <1>1, <1>7, <1>10 DEF SessionOk, Idling
LEMMA LcpMoved ==
    ASSUME NEW p, SessionOk(p), p.phase \notin Idling, ~p.delayed, NEW r, Moved(p.lcp, r),
           NEW alloc \in BOOLEAN
    PROVE  SessionOk(Lcp(p, r, alloc))
<1> DEFINE b == [p EXCEPT !.lcp = r.f]
           q == Lcp(p, r, alloc)
<1>1. FsmOk(r.f) /\ r.f \in Fsms /\ p \in Sessions
  BY Zenon DEF Moved, FsmOk, SessionOk
<1>2. /\ b \in Sessions /\ b.lcp = r.f /\ b.ipcp = p.ipcp /\ b.echo = p.echo /\ b.phase = p.phase
      /\ b.is_up = p.is_up /\ b.if4_up = p.if4_up /\ b.np_up = p.np_up
      /\ b.delayed = p.delayed /\ b.holdoff = p.holdoff /\ b.open = p.open
  BY ZenonT(60), <1>1, SetLcp DEF Kept
<1>3. q = Upcalls(LAMBDA z, c : IF c = "up" THEN lcp_up(z, alloc) ELSE LcpEnds(z, c), b, r.cb)
  BY Zenon DEF Lcp
<1>4. /\ NoCall(r.cb) => q = b
      /\ Call(r.cb, "up") => q = lcp_up(b, alloc)
      /\ Call(r.cb, "down") => q = lcp_down(b)
      /\ Call(r.cb, "finished") => q = link_terminated(b)
      /\ Calls(r.cb, "down", "finished") => q = link_terminated(lcp_down(b))
  BY <1>3 DEF Upcalls, LcpEnds, NoCall, Call, Calls
<1> HIDE DEF b, q
<1>5. ~b.holdoff /\ ~b.delayed /\ b.phase # "DEAD" /\ FsmOk(b.lcp) /\ FsmOk(b.ipcp) /\ Upper(b)
  BY Zenon, <1>1, <1>2 DEF SessionOk, Idling, Upper, IsUp, IsDown
<1>6. p.lcp.state # "OPENED" => b.ipcp.state = "INITIAL" /\ IsDown(b) /\ ~b.echo
  BY Zenon, <1>2 DEF SessionOk, IsDown
<1>7. CASE NoCall(r.cb) /\ (p.lcp.state = "OPENED" <=> r.f.state = "OPENED")
  <2>1. SessionOk(b)
    BY Zenon, <1>1, <1>2, <1>7 DEF SessionOk, IsUp, IsDown
  <2>. QED  BY Zenon, <1>4, <1>7, <2>1 DEF q
<1>8. CASE Call(r.cb, "up") /\ p.lcp.state # "OPENED" /\ r.f.state = "OPENED"
  <2>1. SessionOk(lcp_up(b, alloc))
    BY ZenonT(60), <1>2, <1>5, <1>6, <1>8, LcpUp
  <2>. QED  BY Zenon, <1>4, <1>8, <2>1 DEF q
<1>9. CASE p.lcp.state = "OPENED" /\ r.f.state # "OPENED"
  <2>1. Low(lcp_down(b)) /\ lcp_down(b).phase = "ESTABLISH"
    BY ZenonT(60), <1>2, <1>5, <1>9, DownLow
  <2>2. SessionOk(lcp_down(b)) /\ SessionOk(link_terminated(lcp_down(b)))
    BY Zenon, <2>1, LowOk, LinkTerminated
  <2>3. Call(r.cb, "down") \/ Calls(r.cb, "down", "finished")
    BY Zenon, <1>9 DEF Moved
  <2>. QED  BY Zenon, <1>4, <2>2, <2>3 DEF q
<1>10. CASE Call(r.cb, "finished") /\ p.lcp.state # "OPENED" /\ r.f.state \in {"CLOSED", "STOPPED"}
  <2>1. Low(b)
    BY ZenonT(60), <1>2, <1>5, <1>6, <1>10 DEF Low
  <2>2. SessionOk(link_terminated(b))
    BY Zenon, <1>5, <2>1, LinkTerminated
  <2>. QED  BY Zenon, <1>4, <1>10, <2>2 DEF q
<1>. QED  BY ZenonT(60), <1>7, <1>8, <1>9, <1>10 DEF Moved

LEMMA IpcpFinished ==
    ASSUME NEW p, SessionOk(p), p.phase \notin Idling
    PROVE  SessionOk(ipcp_finished(p))
<1> DEFINE a == [p EXCEPT !.is_open = FALSE]
           b == [a EXCEPT !.np_open = @ - 1]
<1>0. p \in Sessions
  BY Zenon DEF SessionOk
<1>1. Alike(a, p) /\ a.echo = p.echo
  BY Zenon, <1>0 DEF Alike, Sessions
<1>2. ipcp_finished(p) = IF p.is_open THEN IF b.np_open <= 0 THEN lcp_close(b) ELSE b ELSE p
  BY Zenon DEF ipcp_finished, np_finished
<1> HIDE DEF a
<1>3. a.np_open - 1 \in Int
  BY <1>1 DEF Alike, Sessions
<1>4. Alike(b, a) /\ b.echo = a.echo
  BY Zenon, <1>1, <1>3 DEF Alike, Sessions
<1> HIDE DEF b
<1>5. Alike(b, p) /\ b.echo = p.echo /\ b.phase = p.phase
  BY ZenonT(60), <1>1, <1>4 DEF Alike
<1>6. SessionOk(b)
  BY Zenon, <1>5, AlikeOk DEF SessionOk
<1>7. SessionOk(lcp_close(b))
  BY Zenon, <1>5, <1>6, LcpClose
<1>. QED  BY Zenon, <1>2, <1>6, <1>7

LEMMA IpcpDownOk ==
    ASSUME NEW p \in Sessions, FsmOk(p.lcp), p.lcp.state = "OPENED", ~p.holdoff, ~p.delayed,
           FsmOk(p.ipcp), p.ipcp.state # "OPENED",
           (IsUp(p) /\ p.phase = "RUNNING") \/ (IsDown(p) /\ p.phase = "NETWORK")
    PROVE  SessionOk(ipcp_down(p)) /\ ipcp_down(p).phase = "NETWORK"
<1> DEFINE q == ipcp_down(p)
<1>1. /\ Kept(q, p) /\ q.lcp = p.lcp /\ q.ipcp = p.ipcp /\ q.echo = p.echo /\ IsDown(q)
      /\ q.phase = IF p.is_up THEN "NETWORK" ELSE p.phase
  BY Zenon, IpcpDown
<1>2. q.phase = "NETWORK"
  BY Zenon, <1>1 DEF IsUp, IsDown
<1> HIDE DEF q
<1>3. SessionOk(q)
  BY Zenon, <1>1, <1>2 DEF SessionOk, Kept, Idling
<1>. QED  BY Zenon, <1>2, <1>3 DEF q
(* IPCP has just left OPENED, or the addresses it agreed on are of no use. *)
LEMMA IpcpEnding ==
    ASSUME NEW p \in Sessions, FsmOk(p.lcp), p.lcp.state = "OPENED", ~p.holdoff, ~p.delayed,
           FsmOk(p.ipcp), p.ipcp.state # "OPENED",
           (IsUp(p) /\ p.phase = "RUNNING") \/ (IsDown(p) /\ p.phase = "NETWORK")
    PROVE  SessionOk(ipcp_down(p)) /\ SessionOk(ipcp_finished(ipcp_down(p)))
  BY Zenon, IpcpDownOk, IpcpFinished DEF Idling

LEMMA IpcpClose ==
    ASSUME NEW p \in Sessions, FsmOk(p.lcp), p.lcp.state = "OPENED", ~p.holdoff, ~p.delayed,
           FsmOk(p.ipcp), p.ipcp.state = "OPENED", IsDown(p), p.phase = "NETWORK"
    PROVE  SessionOk(ipcp_close(p))
<1> DEFINE r == fsm_close(p.ipcp)
           b == [p EXCEPT !.ipcp = r.f]
           q == Upcalls(IpcpEnds, b, r.cb)
<1>1. ipcp_close(p) = q
  BY Zenon DEF ipcp_close, Upcalls
<1>2. Moved(p.ipcp, r) /\ FsmOk(r.f) /\ r.f \in Fsms /\ r.f.state # "OPENED"
  BY Zenon, Closing DEF Moved, FsmOk
<1> HIDE DEF r
<1>3. /\ b \in Sessions /\ b.lcp = p.lcp /\ b.ipcp = r.f /\ b.phase = p.phase
      /\ IsDown(b) /\ ~b.delayed /\ ~b.holdoff
  BY Zenon, <1>2, SetIpcp DEF Kept, IsDown
<1>4. /\ Call(r.cb, "down") => q = ipcp_down(b)
      /\ Calls(r.cb, "down", "finished") => q = ipcp_finished(ipcp_down(b))
  BY DEF Upcalls, IpcpEnds, Call, Calls
<1> HIDE DEF b, q
<1>5. SessionOk(ipcp_down(b)) /\ SessionOk(ipcp_finished(ipcp_down(b)))
  BY Zenon, <1>2, <1>3, IpcpEnding
<1>. QED  BY ZenonT(60), <1>1, <1>2, <1>4, <1>5 DEF Moved

LEMMA IpcpUp ==
    ASSUME NEW p \in Sessions, FsmOk(p.lcp), p.lcp.state = "OPENED", ~p.holdoff, ~p.delayed,
           FsmOk(p.ipcp), p.ipcp.state = "OPENED", IsDown(p), p.phase = "NETWORK",
           NEW usable \in BOOLEAN
    PROVE  SessionOk(ipcp_up(p, usable))
<1> DEFINE a == [p EXCEPT !.if4_up = TRUE, !.err = "NONE", !.said = "NONE"]
           b == [a EXCEPT !.phase = "RUNNING"]
           c == [b EXCEPT !.np_up = 1]
           d == [c EXCEPT !.is_up = TRUE]
<1>0. /\ "NONE" \in Errors /\ "NONE" \in Errors \cup {"nothing"} /\ "RUNNING" \in PhaseNames
      /\ 1 \in Int
  BY DEF Errors, PhaseNames
<1>1. /\ a \in Sessions /\ a.lcp = p.lcp /\ a.ipcp = p.ipcp /\ ~a.delayed /\ ~a.holdoff
      /\ a.if4_up /\ a.np_up = 0
  BY Zenon, <1>0 DEF Sessions, IsDown
<1> HIDE DEF a
<1>2. /\ b \in Sessions /\ b.lcp = p.lcp /\ b.ipcp = p.ipcp /\ ~b.delayed /\ ~b.holdoff
      /\ b.if4_up /\ b.np_up = 0 /\ b.phase = "RUNNING"
  BY Zenon, <1>0, <1>1 DEF Sessions
<1>3. np_up(a) = c
  <2>1. np_up(a) = [b EXCEPT !.np_up = @ + 1]
    BY Zenon, <1>1 DEF np_up, new_phase
  <2> HIDE DEF b
  <2>2. b.np_up + 1 = 1
    BY <1>2
  <2>. QED  BY Zenon, <2>1, <2>2
<1> HIDE DEF b
<1>4. /\ c \in Sessions /\ c.lcp = p.lcp /\ c.ipcp = p.ipcp /\ ~c.delayed /\ ~c.holdoff
      /\ c.if4_up /\ c.np_up = 1 /\ c.phase = "RUNNING"
  BY Zenon, <1>0, <1>2 DEF Sessions
<1> HIDE DEF c
<1>5. /\ d \in Sessions /\ d.lcp = p.lcp /\ d.ipcp = p.ipcp /\ ~d.delayed /\ ~d.holdoff
      /\ IsUp(d) /\ d.phase = "RUNNING"
  BY Zenon, <1>0, <1>4 DEF Sessions, IsUp
<1>6. ipcp_up(p, usable) = IF usable THEN d ELSE ipcp_close(p)
  BY Zenon, <1>3 DEF ipcp_up, sifup, a
<1> HIDE DEF d
<1>7. SessionOk(d)
  BY Zenon, <1>5 DEF SessionOk, Idling
<1>. QED  BY ZenonT(60), <1>6, <1>7, IpcpClose

LEMMA IpcpMoved ==
    ASSUME NEW p, SessionOk(p), p.lcp.state = "OPENED", NEW r, Moved(p.ipcp, r),
           NEW usable \in BOOLEAN
    PROVE  SessionOk(Ipcp(p, r, usable))
<1> DEFINE b == [p EXCEPT !.ipcp = r.f]
           q == Ipcp(p, r, usable)
<1>1. FsmOk(r.f) /\ r.f \in Fsms /\ p \in Sessions
  BY Zenon DEF Moved, FsmOk, SessionOk
<1>2. /\ b \in Sessions /\ b.lcp = p.lcp /\ b.ipcp = r.f /\ b.echo = p.echo /\ b.phase = p.phase
      /\ b.is_up = p.is_up /\ b.if4_up = p.if4_up /\ b.np_up = p.np_up
      /\ b.delayed = p.delayed /\ b.holdoff = p.holdoff /\ b.open = p.open
  BY ZenonT(60), <1>1, SetIpcp DEF Kept
<1>3. q = Upcalls(LAMBDA z, c : IF c = "up" THEN ipcp_up(z, usable) ELSE IpcpEnds(z, c), b, r.cb)
  BY Zenon DEF Ipcp
<1>4. /\ NoCall(r.cb) => q = b
      /\ Call(r.cb, "up") => q = ipcp_up(b, usable)
      /\ Call(r.cb, "down") => q = ipcp_down(b)
      /\ Call(r.cb, "finished") => q = ipcp_finished(b)
      /\ Calls(r.cb, "down", "finished") => q = ipcp_finished(ipcp_down(b))
  BY <1>3 DEF Upcalls, IpcpEnds, NoCall, Call, Calls
<1> HIDE DEF b, q
<1>5. /\ ~b.holdoff /\ ~b.delayed /\ FsmOk(b.lcp) /\ FsmOk(b.ipcp) /\ b.lcp.state = "OPENED"
      /\ p.ipcp.state = "OPENED" => IsUp(b) /\ b.phase = "RUNNING"
      /\ p.ipcp.state # "OPENED" => IsDown(b) /\ b.phase = "NETWORK"
  BY Zenon, <1>1, <1>2 DEF SessionOk, Idling, IsUp, IsDown
<1>6. (p.ipcp.state = "OPENED" <=> r.f.state = "OPENED") => SessionOk(b)
  BY ZenonT(60), <1>1, <1>2, <1>5 DEF SessionOk, IsUp, IsDown
<1>7. CASE NoCall(r.cb) /\ (p.ipcp.state = "OPENED" <=> r.f.state = "OPENED")
  BY ZenonT(60), <1>4, <1>6, <1>7 DEF q
<1>8. CASE Call(r.cb, "up") /\ p.ipcp.state # "OPENED" /\ r.f.state = "OPENED"
  <2>1. SessionOk(ipcp_up(b, usable))
    BY ZenonT(60), <1>2, <1>5, <1>8, IpcpUp
  <2>. QED  BY Zenon, <1>4, <1>8, <2>1 DEF q
<1>9. CASE p.ipcp.state = "OPENED" /\ r.f.state # "OPENED"
  <2>1. SessionOk(ipcp_down(b)) /\ SessionOk(ipcp_finished(ipcp_down(b)))
    BY ZenonT(60), <1>2, <1>5, <1>9, IpcpEnding
  <2>2. Call(r.cb, "down") \/ Calls(r.cb, "down", "finished")
    BY Zenon, <1>9 DEF Moved
  <2>. QED  BY Zenon, <1>4, <2>1, <2>2 DEF q
<1>10. CASE Call(r.cb, "finished") /\ p.ipcp.state # "OPENED" /\ r.f.state \in {"CLOSED", "STOPPED"}
  <2>1. SessionOk(b) /\ b.phase \notin Idling
    BY Zenon, <1>5, <1>6, <1>10 DEF Idling
  <2>. QED  BY ZenonT(60), <1>4, <1>10, <2>1, IpcpFinished DEF q
<1>. QED  BY ZenonT(60), <1>7, <1>8, <1>9, <1>10 DEF Moved
-----------------------------------------------------------------------------
(***************************************************************************)
(* The calls of the application, the packets and the timers.               *)
(***************************************************************************)
SettingsOk == settings \in [silent : BOOLEAN, passive : BOOLEAN, listen : BOOLEAN, echo : BOOLEAN]

LEMMA DoConnect ==
    ASSUME SettingsOk, NEW p, Low(p), p.lcp.state \in {"INITIAL", "STARTING"}, NEW alloc \in BOOLEAN
    PROVE  SessionOk(ppp_do_connect(p, alloc))
<1> DEFINE a == [p EXCEPT !.phase = "INITIALIZE"]
           b == [a EXCEPT !.open = TRUE]
           c == [b EXCEPT !.phase = "ESTABLISH"]
           f == [c.lcp EXCEPT !.flags = Flags(settings)]
           g == fsm_open(f, alloc).f
           d == [c EXCEPT !.lcp = g]
           e == [d EXCEPT !.delayed = TRUE]
           h == fsm_lowerup(d.lcp, alloc).f
           k == [d EXCEPT !.lcp = h]
<1>0. {"INITIALIZE", "ESTABLISH"} \subseteq PhaseNames /\ p \in Sessions /\ IsDown(p)
  BY Zenon DEF PhaseNames, Low
<1>1. ppp_do_connect(p, alloc) = IF settings.listen THEN e ELSE k
  BY Zenon DEF ppp_do_connect, ppp_start, lcp_lowerup, lcp_open, new_phase
<1>2. /\ a \in Sessions /\ a.lcp = p.lcp /\ a.ipcp = p.ipcp /\ IsDown(a)
      /\ ~a.delayed /\ ~a.holdoff /\ ~a.echo
  BY Zenon, <1>0 DEF Sessions, IsDown, Low
<1> HIDE DEF a
<1>3. /\ b \in Sessions /\ b.lcp = p.lcp /\ b.ipcp = p.ipcp /\ IsDown(b)
      /\ ~b.delayed /\ ~b.holdoff /\ ~b.echo
  BY Zenon, <1>2 DEF Sessions, IsDown
<1> HIDE DEF b
<1>4. /\ c \in Sessions /\ c.lcp = p.lcp /\ c.ipcp = p.ipcp /\ IsDown(c)
      /\ ~c.delayed /\ ~c.holdoff /\ ~c.echo /\ c.phase = "ESTABLISH"
  BY Zenon, <1>0, <1>3 DEF Sessions, IsDown
<1> HIDE DEF c
<1>5. Flags(settings) \in SUBSET {"SILENT", "PASSIVE"}
  BY Zenon DEF Flags
<1>6. f \in Fsms /\ f.state = p.lcp.state /\ f.timer = p.lcp.timer
  <2>1. p.lcp \in Fsms
    BY Zenon DEF Low, FsmOk
  <2>. QED  BY Zenon, <1>4, <1>5, <2>1 DEF Fsms
<1>7. FsmOk(f)
  BY Zenon, <1>6 DEF FsmOk, Low
<1> HIDE DEF f
<1>8. FsmOk(g) /\ g \in Fsms /\ g.state = "STARTING"
  BY SMTT(60), <1>6, <1>7, Opening DEF FsmOk
<1> HIDE DEF g
<1>9. /\ d \in Sessions /\ d.lcp = g /\ d.ipcp = p.ipcp /\ IsDown(d)
      /\ ~d.delayed /\ ~d.holdoff /\ ~d.echo /\ d.phase = "ESTABLISH"
  BY ZenonT(60), <1>4, <1>8, SetLcp DEF Kept, IsDown
<1> HIDE DEF d
<1>10. /\ e \in Sessions /\ e.lcp = g /\ e.ipcp = p.ipcp /\ IsDown(e)
       /\ ~e.holdoff /\ ~e.echo /\ e.phase = "ESTABLISH"
  BY Zenon, <1>9 DEF Sessions, IsDown
<1> HIDE DEF e
<1>11. SessionOk(e)
  BY Zenon, <1>8, <1>10 DEF SessionOk, Low, Idling
<1>12. FsmOk(h) /\ h \in Fsms /\ h.state # "OPENED"
  BY Zenon, <1>8, <1>9, LowerUp DEF FsmOk
<1> HIDE DEF h
<1>13. /\ k \in Sessions /\ k.lcp = h /\ k.ipcp = p.ipcp /\ IsDown(k)
       /\ ~k.delayed /\ ~k.holdoff /\ ~k.echo /\ k.phase = "ESTABLISH"
  BY ZenonT(60), <1>9, <1>12, SetLcp DEF Kept, IsDown
<1> HIDE DEF k
<1>14. SessionOk(k)
  BY Zenon, <1>12, <1>13, LowOk DEF Low
<1>. QED  BY Zenon, <1>1, <1>11, <1>14

LEMMA DelayedUp ==
    ASSUME NEW p, SessionOk(p), NEW alloc \in BOOLEAN
    PROVE  LET q == lcp_delayed_up(p, alloc) IN
           SessionOk(q) /\ ~q.delayed /\ q.phase = p.phase
<1> DEFINE f == fsm_lowerup(p.lcp, alloc).f
           q == [p EXCEPT !.delayed = FALSE, !.lcp = f]
<1>1. lcp_delayed_up(p, alloc) = IF p.delayed THEN q ELSE p
  BY Zenon DEF lcp_delayed_up
<1>2. /\ FsmOk(f) /\ f \in Fsms /\ (p.lcp.state = "OPENED" <=> f.state = "OPENED")
      /\ p \in Sessions
  BY Zenon, LowerUp DEF SessionOk, FsmOk
<1> HIDE DEF f
<1>3. /\ q \in Sessions /\ q.lcp = f /\ q.ipcp = p.ipcp /\ q.phase = p.phase
      /\ q.is_up = p.is_up /\ q.if4_up = p.if4_up /\ q.np_up = p.np_up
      /\ q.open = p.open /\ ~q.delayed /\ q.holdoff = p.holdoff /\ q.echo = p.echo
  BY ZenonT(60), <1>2 DEF Sessions
<1> HIDE DEF q
<1>4. p.delayed => SessionOk(q)
  BY Zenon, <1>2, <1>3 DEF SessionOk, IsUp, IsDown
<1>5. SessionOk(lcp_delayed_up(p, alloc)) /\ ~lcp_delayed_up(p, alloc).delayed
      /\ lcp_delayed_up(p, alloc).phase = p.phase
  BY ZenonT(60), <1>1, <1>3, <1>4 DEF SessionOk
<1>. QED  BY Zenon, <1>5

LEMMA ErrOk ==
    ASSUME NEW p, SessionOk(p), NEW e \in Errors
    PROVE  /\ SessionOk([p EXCEPT !.err = e]) /\ [p EXCEPT !.err = e].phase = p.phase
           /\ [p EXCEPT !.err = e].lcp = p.lcp /\ [p EXCEPT !.err = e].err = e
<1> DEFINE q == [p EXCEPT !.err = e]
<1>1. p \in Sessions
  BY Zenon DEF SessionOk
<1>2. Alike(q, p) /\ q.echo = p.echo /\ q.phase = p.phase /\ q.lcp = p.lcp /\ q.err = e
  BY ZenonT(60), <1>1 DEF Alike, Sessions
<1> HIDE DEF q
<1>3. SessionOk(q)
  BY Zenon, <1>2, AlikeOk DEF SessionOk
<1>. QED  BY Zenon, <1>2, <1>3 DEF q

LEMMA PendingOk ==
    ASSUME NEW p, SessionOk(p)
    PROVE  /\ SessionOk([p EXCEPT !.pending = 0])
           /\ [p EXCEPT !.pending = 0].lcp = p.lcp
<1> DEFINE q == [p EXCEPT !.pending = 0]
<1>1. p \in Sessions
  BY Zenon DEF SessionOk
<1>2. Alike(q, p) /\ q.echo = p.echo /\ q.lcp = p.lcp
  BY ZenonT(60), <1>1, Constants DEF Alike, Sessions
<1> HIDE DEF q
<1>3. SessionOk(q)
  BY Zenon, <1>2, AlikeOk DEF SessionOk
<1>. QED  BY Zenon, <1>2, <1>3 DEF q

LEMMA EchoCheck ==
    ASSUME NEW p, SessionOk(p), p.lcp.state = "OPENED"
    PROVE  SessionOk(LcpEchoCheck(p))
<1>1. CASE ~(p.pending >= EchoFails /\ EchoFails # 0)
  <2>1. Alike(LcpEchoCheck(p), p)
    BY Zenon, <1>1, EchoTimerOn DEF SessionOk
  <2>. QED  BY Zenon, <2>1, AlikeOk
<1>2. CASE p.pending >= EchoFails /\ EchoFails # 0
  <2> DEFINE a == [p EXCEPT !.err = "PEERDEAD"]
             b == lcp_close(a)
             c == [b EXCEPT !.pending = 0]
  <2>1. SessionOk(a) /\ a.phase \notin Idling
    BY ZenonT(60), ErrOk DEF Errors, Idling, SessionOk
  <2>2. LcpSendEchoRequest(p) = IF c.lcp.state = "OPENED" THEN [c EXCEPT !.pending = @ + 1] ELSE c
    BY Zenon, <1>2 DEF LcpSendEchoRequest
  <2> HIDE DEF a
  <2>3. SessionOk(b) /\ b.lcp.state # "OPENED"
    BY Zenon, <2>1, LcpClose
  <2> HIDE DEF b
  <2>4. SessionOk(c) /\ c.lcp.state # "OPENED"
    BY Zenon, <2>3, PendingOk
  <2> HIDE DEF c
  <2>5. LcpSendEchoRequest(p) = c
    BY Zenon, <2>2, <2>4
  <2>6. LcpEchoCheck(p) = c
    BY Zenon, <2>4, <2>5 DEF LcpEchoCheck
  <2>. QED  BY Zenon, <2>4, <2>6
<1>. QED  BY Zenon, <1>1, <1>2
LEMMA CarrierLost ==
    ASSUME NEW p, SessionOk(p), p.phase = "RUNNING"
    PROVE  SessionOk(link_terminated(lcp_lowerdown(p)))
<1> DEFINE r == fsm_lowerdown(p.lcp)
           b == [p EXCEPT !.lcp = r.f]
<1>1. p.lcp.state = "OPENED" /\ ~p.delayed /\ p \in Sessions /\ FsmOk(p.lcp)
  BY Zenon DEF SessionOk
<1>2. FsmOk(r.f) /\ r.f \in Fsms /\ r.f.state \in {"INITIAL", "STARTING"} /\ Call(r.cb, "down")
  BY ZenonT(60), <1>1, LowerDown, Literals DEF FsmOk
<1>3. lcp_lowerdown(p) = lcp_down(b)
  BY <1>1, <1>2 DEF lcp_lowerdown, Upcalls, Call
<1> HIDE DEF r
<1>4. /\ b \in Sessions /\ b.lcp = r.f /\ b.ipcp = p.ipcp /\ b.phase = p.phase
      /\ b.is_up = p.is_up /\ b.if4_up = p.if4_up /\ b.np_up = p.np_up
      /\ b.delayed = p.delayed /\ b.holdoff = p.holdoff
  BY ZenonT(60), <1>1, <1>2, SetLcp DEF Kept
<1> HIDE DEF b
<1>5. Upper(b) /\ ~b.holdoff
  BY Zenon, <1>4 DEF SessionOk, Upper, IsUp, IsDown
<1>6. Low(lcp_down(b)) /\ lcp_down(b).phase = "ESTABLISH"
  BY ZenonT(60), <1>1, <1>2, <1>4, <1>5, DownLow
<1>. QED  BY ZenonT(60), <1>3, <1>6, LinkTerminated

LEMMA ClosedOk ==
    ASSUME NEW p, SessionOk(p), NEW nocarrier \in BOOLEAN
    PROVE  SessionOk(CloseOf(p, nocarrier))
<1> DEFINE q == CloseOf(p, nocarrier)
<1>0. p \in Sessions /\ p.err \in Errors /\ p.err \in Errors \cup {"nothing"}
  BY Zenon DEF SessionOk, Sessions
<1>1. CASE p.phase = "HOLDOFF"
  <2> DEFINE a == [p EXCEPT !.phase = "DEAD"]
             b == [a EXCEPT !.holdoff = FALSE, !.said = p.err]
  <2>0. "DEAD" \in PhaseNames
    BY Zenon DEF PhaseNames
  <2>1. /\ a \in Sessions /\ a.lcp = p.lcp /\ a.ipcp = p.ipcp /\ a.phase = "DEAD"
        /\ a.is_up = p.is_up /\ a.if4_up = p.if4_up /\ a.np_up = p.np_up
        /\ a.open = p.open /\ a.delayed = p.delayed /\ a.echo = p.echo
    BY Zenon, <1>0, <2>0 DEF Sessions
  <2>2. q = b \/ q = p
    BY <1>1 DEF CloseOf, new_phase
  <2> HIDE DEF a
  <2>3. /\ b \in Sessions /\ b.lcp = p.lcp /\ b.ipcp = p.ipcp /\ b.phase = "DEAD"
        /\ b.is_up = p.is_up /\ b.if4_up = p.if4_up /\ b.np_up = p.np_up
        /\ b.open = p.open /\ b.delayed = p.delayed /\ b.echo = p.echo /\ ~b.holdoff
    BY ZenonT(60), <1>0, <2>1 DEF Sessions
  <2> HIDE DEF b
  <2>4. SessionOk(b)
    BY Zenon, <1>1, <2>3 DEF SessionOk, Idling, IsDown
  <2>. QED  BY Zenon, <2>2, <2>4
<1>2. CASE p.phase = "DEAD"
  <2> DEFINE b == [p EXCEPT !.said = p.err]
  <2>1. q = b \/ q = p
    BY <1>2 DEF CloseOf
  <2>2. Alike(b, p) /\ b.echo = p.echo
    BY Zenon, <1>0 DEF Alike, Sessions
  <2> HIDE DEF b
  <2>. QED  BY ZenonT(60), <2>1, <2>2, AlikeOk DEF SessionOk
<1>3. CASE p.phase \notin Idling
  <2>1. q = p \/ (p.phase = "RUNNING" /\ q = link_terminated(lcp_lowerdown(p))) \/ q = lcp_close(p)
    <3>1. p.phase # "HOLDOFF" /\ p.phase # "DEAD" /\ p.phase # "INITIALIZE"
      BY Zenon, <1>3 DEF Idling, SessionOk
    <3>. QED  BY <3>1 DEF CloseOf
  <2>. QED  BY ZenonT(60), <1>3, <2>1, CarrierLost, LcpClose
<1>. QED  BY Zenon, <1>1, <1>2, <1>3 DEF Idling

\* Only the counts of LCP change.
LEMMA CountsOk ==
    ASSUME NEW p, SessionOk(p), NEW f \in Fsms, f.state = p.lcp.state, f.timer = p.lcp.timer
    PROVE  SessionOk([p EXCEPT !.lcp = f]) /\ [p EXCEPT !.lcp = f].phase = p.phase
<1> DEFINE q == [p EXCEPT !.lcp = f]
<1>1. p \in Sessions
  BY Zenon DEF SessionOk
<1>2. /\ q \in Sessions /\ q.lcp = f /\ q.ipcp = p.ipcp /\ q.echo = p.echo /\ q.phase = p.phase
      /\ q.is_up = p.is_up /\ q.if4_up = p.if4_up /\ q.np_up = p.np_up
      /\ q.delayed = p.delayed /\ q.holdoff = p.holdoff /\ q.open = p.open
  BY ZenonT(60), <1>1, SetLcp DEF Kept
<1> HIDE DEF q
<1>3. SessionOk(q)
  BY ZenonT(60), <1>2 DEF SessionOk, FsmOk, IsUp, IsDown
<1>. QED  BY Zenon, <1>2, <1>3 DEF q

LEMMA LoopedBack ==
    ASSUME NEW p, SessionOk(p), p.lcp.state \in Negotiating
    PROVE  SessionOk([lcp_close([p EXCEPT !.err = "LOOPBACK", !.lcp.rnakloops = @ + 1])
                          EXCEPT !.lcp.seen_ack = TRUE])
<1> DEFINE a == [p EXCEPT !.err = "LOOPBACK"]
           f == [a.lcp EXCEPT !.rnakloops = @ + 1]
           b == [a EXCEPT !.lcp = f]
           c == lcp_close(b)
           g == [c.lcp EXCEPT !.seen_ack = TRUE]
           d == [c EXCEPT !.lcp = g]
<1>1. SessionOk(a) /\ a.phase = p.phase /\ a.lcp = p.lcp
  BY Zenon, ErrOk DEF Errors
<1>2. b = [p EXCEPT !.err = "LOOPBACK", !.lcp.rnakloops = @ + 1]
  BY Zenon DEF SessionOk, Sessions
<1> HIDE DEF a
<1>3. a.lcp \in Fsms /\ a.lcp.rnakloops + 1 \in Nat
  BY <1>1 DEF SessionOk, FsmOk, Fsms
<1>4. f \in Fsms /\ f.state = a.lcp.state /\ f.timer = a.lcp.timer
  BY Zenon, <1>3 DEF Fsms
<1> HIDE DEF f
<1>5. SessionOk(b) /\ b.phase \notin Idling
  <2>1. SessionOk(b) /\ b.phase = a.phase
    BY ZenonT(60), <1>1, <1>4, CountsOk
  <2>. QED  BY Zenon, <1>1, <2>1 DEF SessionOk, Negotiating
<1> HIDE DEF b
<1>6. SessionOk(c)
  BY Zenon, <1>5, LcpClose
<1>7. [c EXCEPT !.lcp.seen_ack = TRUE] = d
  BY Zenon
<1> HIDE DEF c
<1>8. c.lcp \in Fsms
  BY Zenon, <1>6 DEF SessionOk, FsmOk
<1>9. g \in Fsms /\ g.state = c.lcp.state /\ g.timer = c.lcp.timer
  BY Zenon, <1>8 DEF Fsms
<1> HIDE DEF g
<1>10. SessionOk(d)
  BY Zenon, <1>6, <1>9, CountsOk
<1> HIDE DEF d
<1>. QED  BY Zenon, <1>2, <1>7, <1>10 DEF c

LEMMA IpcpRejected ==
    ASSUME NEW p, SessionOk(p), p.lcp.state = "OPENED"
    PROVE  SessionOk(ipcp_lowerdown(p))
<1> DEFINE q == ipcp_lowerdown(p)
<1>1. /\ Kept(q, p) /\ q.lcp = p.lcp /\ q.echo = p.echo /\ IsDown(q)
      /\ FsmOk(q.ipcp) /\ q.ipcp.state \in {"INITIAL", "STARTING"}
      /\ q.phase = IF p.is_up THEN "NETWORK" ELSE p.phase
  BY Zenon, OkUpper, IpcpLowerDown
<1> HIDE DEF q
<1>2. q.phase = "NETWORK"
  BY Zenon, <1>1 DEF SessionOk, IsUp, IsDown
<1>3. SessionOk(q)
  BY Zenon, <1>1, <1>2 DEF SessionOk, Kept, Idling
<1>. QED  BY Zenon, <1>3 DEF q
LEMMA NewOk == SessionOk(ppp_new) /\ Low(ppp_new) /\ ppp_new.phase = "DEAD"
<1> DEFINE f == fsm_init(0, {})
<1>1. f \in Fsms /\ f.state = "INITIAL" /\ ~f.timer
  BY DEF fsm_init, Fsms, FsmStates
<1> HIDE DEF f
<1>2. "DEAD" \in PhaseNames /\ "NONE" \in Errors /\ 0 \in Int /\ 0 \in Nat
      /\ "nothing" \in Errors \cup {"nothing"}
  BY DEF PhaseNames, Errors
<1>3. ppp_new \in Sessions
  BY Zenon, <1>1, <1>2 DEF ppp_new, Sessions, f
<1>4. /\ ppp_new.lcp = f /\ ppp_new.ipcp = f /\ IsDown(ppp_new) /\ ppp_new.phase = "DEAD"
      /\ ~ppp_new.open /\ ~ppp_new.echo /\ ~ppp_new.delayed /\ ~ppp_new.holdoff
  BY Zenon DEF ppp_new, IsDown, f
<1>. QED  BY ZenonT(60), <1>1, <1>3, <1>4 DEF SessionOk, Low, FsmOk, Idling

LEMMA Connecting ==
    ASSUME SettingsOk, NEW p, SessionOk(p), p.phase = "DEAD", NEW alloc \in BOOLEAN
    PROVE  LET b == [p EXCEPT !.said = "nothing"] IN
           /\ SessionOk(ppp_do_connect(b, alloc))
           /\ SessionOk([new_phase(b, "HOLDOFF") EXCEPT !.holdoff = TRUE])
<1> DEFINE b == [p EXCEPT !.said = "nothing"]
           c == [b EXCEPT !.phase = "HOLDOFF"]
           d == [c EXCEPT !.holdoff = TRUE]
<1>0. p \in Sessions /\ "HOLDOFF" \in PhaseNames /\ "nothing" \in Errors \cup {"nothing"}
  BY Zenon DEF SessionOk, PhaseNames
<1>1. Alike(b, p) /\ b.echo = p.echo
  BY Zenon, <1>0 DEF Alike, Sessions
<1> HIDE DEF b
<1>2. Low(b) /\ b.lcp.state \in {"INITIAL", "STARTING"} /\ ~b.open
  BY Zenon, <1>1 DEF Alike, Low, SessionOk, Idling, IsDown
<1>3. SessionOk(ppp_do_connect(b, alloc))
  BY Zenon, <1>2, DoConnect
<1>4. /\ c \in Sessions /\ c.lcp = b.lcp /\ c.ipcp = b.ipcp /\ c.phase = "HOLDOFF" /\ IsDown(c)
      /\ ~c.open /\ ~c.delayed /\ ~c.echo
  BY Zenon, <1>0, <1>2 DEF Sessions, Low, IsDown
<1>5. [new_phase(b, "HOLDOFF") EXCEPT !.holdoff = TRUE] = d
  BY Zenon DEF new_phase
<1> HIDE DEF c
<1>6. /\ d \in Sessions /\ d.lcp = b.lcp /\ d.ipcp = b.ipcp /\ d.phase = "HOLDOFF" /\ IsDown(d)
      /\ ~d.open /\ ~d.delayed /\ ~d.echo /\ d.holdoff
  BY ZenonT(60), <1>4 DEF Sessions, IsDown
<1> HIDE DEF d
<1>7. SessionOk(d)
  BY ZenonT(60), <1>2, <1>6 DEF SessionOk, Low, Idling
<1>. QED  BY ZenonT(60), <1>3, <1>5, <1>7 DEF b

LEMMA HoldoffOver ==
    ASSUME SettingsOk, NEW p, SessionOk(p), p.holdoff, NEW alloc \in BOOLEAN
    PROVE  SessionOk(ppp_do_connect([p EXCEPT !.holdoff = FALSE], alloc))
<1> DEFINE b == [p EXCEPT !.holdoff = FALSE]
<1>0. p \in Sessions
  BY Zenon DEF SessionOk
<1>1. /\ b \in Sessions /\ b.lcp = p.lcp /\ b.ipcp = p.ipcp /\ b.phase = p.phase
      /\ b.is_up = p.is_up /\ b.if4_up = p.if4_up /\ b.np_up = p.np_up
      /\ b.delayed = p.delayed /\ b.echo = p.echo /\ ~b.holdoff
  BY ZenonT(60), <1>0 DEF Sessions
<1> HIDE DEF b
<1>2. Low(b) /\ b.lcp.state \in {"INITIAL", "STARTING"}
  BY Zenon, <1>1 DEF Low, SessionOk, Idling, IsDown
<1>3. SessionOk(ppp_do_connect(b, alloc))
  BY Zenon, <1>2, DoConnect
<1>. QED  BY Zenon, <1>3 DEF b

(* The inductive invariant.                                                *)
SessionInv == SessionOk(pcb) /\ SettingsOk

LEMMA SettingsTyped == ASSUME NEW s \in Settings
    PROVE s \in [silent : BOOLEAN, passive : BOOLEAN, listen : BOOLEAN, echo : BOOLEAN]
  BY Zenon, PppAssumption

LEMMA SessionStep == SessionInv /\ [PppNext]_sessionVars => SessionInv'
<1> SUFFICES ASSUME SessionOk(pcb), SettingsOk, [PppNext]_sessionVars
             PROVE  SessionInv'
  BY Zenon DEF SessionInv
<1>0. \A a \in Alloc : a \in BOOLEAN
  BY Zenon DEF Alloc
<1>1. (\E x : x = pcb' /\ SessionOk(x)) => SessionOk(pcb)'
  BY Zenon DEF SessionOk
<1>2. settings' = settings => SettingsOk'
  BY Zenon DEF SettingsOk
<1>3. ASSUME NEW h \in BOOLEAN, ppp_connect(h)
      PROVE  SessionInv'
  <2> DEFINE b == [pcb EXCEPT !.said = "nothing"]
  <2>1. PICK a \in Alloc : pcb' = IF h THEN [new_phase(b, "HOLDOFF") EXCEPT !.holdoff = TRUE]
                                 ELSE ppp_do_connect(b, a)
    BY Zenon, <1>3 DEF ppp_connect
  <2>2. pcb.phase = "DEAD" /\ settings' = settings
    BY Zenon, <1>3 DEF ppp_connect
  <2>3. /\ SessionOk(ppp_do_connect(b, a))
        /\ SessionOk([new_phase(b, "HOLDOFF") EXCEPT !.holdoff = TRUE])
    BY Zenon, <1>0, <2>2, Connecting
  <2>. QED  BY ZenonT(60), <1>1, <1>2, <2>1, <2>2, <2>3 DEF SessionInv
<1>4. ASSUME NEW n \in BOOLEAN, ppp_close(n)
      PROVE  SessionInv'
  <2> DEFINE b == [pcb EXCEPT !.err = "USER"]
  <2>1. pcb' = CloseOf(b, n) /\ settings' = settings
    BY Zenon, <1>4 DEF ppp_close
  <2>2. SessionOk(b)
    BY Zenon, ErrOk DEF Errors
  <2> HIDE DEF b
  <2>3. SessionOk(CloseOf(b, n))
    BY Zenon, <2>2, ClosedOk
  <2>. QED  BY ZenonT(60), <1>1, <1>2, <2>1, <2>3 DEF SessionInv
<1>5. CASE ppp_free
  <2>1. SessionOk(pcb)'
    BY ZenonT(60), <1>1, <1>5, NewOk DEF ppp_free
  <2>2. SettingsOk'
    BY Zenon, <1>5, SettingsTyped DEF ppp_free, SettingsOk
  <2>. QED  BY Zenon, <2>1, <2>2 DEF SessionInv
<1>6. ASSUME NEW code \in Codes, LcpInput(code)
      PROVE  SessionInv'
  <2>1. PICK a \in Alloc, v \in {"CONFACK", "CONFNAK", "CONFREJ"}, good \in BOOLEAN :
            pcb' = Lcp(lcp_delayed_up(pcb, a), Handle(lcp_delayed_up(pcb, a).lcp, code, v, good, a), a)
    BY Zenon, <1>6 DEF LcpInput
  <2>2. pcb.phase \notin Idling /\ settings' = settings
    BY Zenon, <1>6 DEF LcpInput, Received, SessionOk
  <2> DEFINE p == lcp_delayed_up(pcb, a)
             r == Handle(p.lcp, code, v, good, a)
  <2>3. SessionOk(p) /\ ~p.delayed /\ p.phase = pcb.phase
    BY Zenon, <1>0, DelayedUp
  <2> HIDE DEF p
  <2>4. Moved(p.lcp, r)
    BY ZenonT(60), <1>0, <2>3, Handled DEF SessionOk
  <2> HIDE DEF r
  <2>5. SessionOk(Lcp(p, r, a))
    BY ZenonT(60), <1>0, <2>2, <2>3, <2>4, LcpMoved
  <2>. QED  BY ZenonT(60), <1>1, <1>2, <2>1, <2>2, <2>5 DEF SessionInv, p, r
<1>7. ASSUME NEW code \in Codes, IpcpInput(code)
      PROVE  SessionInv'
  <2>1. PICK a \in Alloc, v \in {"CONFACK", "CONFNAK", "CONFREJ"}, good \in BOOLEAN, usable \in BOOLEAN :
            pcb' = Ipcp(pcb, Handle(pcb.ipcp, code, v, good, a), usable)
    BY Zenon, <1>7 DEF IpcpInput
  <2>2. pcb.lcp.state = "OPENED" /\ settings' = settings
    BY Zenon, <1>7 DEF IpcpInput
  <2> DEFINE r == Handle(pcb.ipcp, code, v, good, a)
  <2>3. Moved(pcb.ipcp, r)
    BY Zenon, <1>0, Handled DEF SessionOk
  <2> HIDE DEF r
  <2>4. SessionOk(Ipcp(pcb, r, usable))
    BY ZenonT(60), <2>2, <2>3, IpcpMoved
  <2>. QED  BY ZenonT(60), <1>1, <1>2, <2>1, <2>2, <2>4 DEF SessionInv, r
<1>8. CASE LcpLoopedBack
  <2>1. pcb.lcp.state \in Negotiating /\ settings' = settings
    BY Zenon, <1>8 DEF LcpLoopedBack
  <2>2. SessionOk([lcp_close([pcb EXCEPT !.err = "LOOPBACK", !.lcp.rnakloops = @ + 1])
                      EXCEPT !.lcp.seen_ack = TRUE])
    BY Zenon, <2>1, LoopedBack
  <2>3. pcb' = [lcp_close([pcb EXCEPT !.err = "LOOPBACK", !.lcp.rnakloops = @ + 1])
                      EXCEPT !.lcp.seen_ack = TRUE]
    BY Zenon, <1>8 DEF LcpLoopedBack
  <2>. QED  BY ZenonT(60), <1>1, <1>2, <2>1, <2>2, <2>3 DEF SessionInv
<1>9. CASE EchoReply
  BY ZenonT(60), <1>1, <1>2, <1>9, PendingOk DEF EchoReply, SessionInv
<1>10. ASSUME NEW proto \in {"IPCP", "LCP"}, ProtocolRejected(proto)
       PROVE  SessionInv'
  <2>1. /\ pcb' = IF proto = "IPCP" THEN ipcp_lowerdown(pcb) ELSE Lcp(pcb, fsm_protreject(pcb.lcp), TRUE)
        /\ pcb.lcp.state = "OPENED" /\ settings' = settings
    BY Zenon, <1>10 DEF ProtocolRejected
  <2>2. pcb.phase \notin Idling /\ ~pcb.delayed
    BY Zenon, <2>1 DEF SessionOk, Idling
  <2>3. Moved(pcb.lcp, fsm_protreject(pcb.lcp))
    BY Zenon, ProtReject DEF SessionOk
  <2>4. SessionOk(ipcp_lowerdown(pcb)) /\ SessionOk(Lcp(pcb, fsm_protreject(pcb.lcp), TRUE))
    BY ZenonT(60), <2>1, <2>2, <2>3, IpcpRejected, LcpMoved
  <2>. QED  BY ZenonT(60), <1>1, <1>2, <2>1, <2>4 DEF SessionInv
<1>11. CASE HoldoffTimer
  <2>1. PICK a \in Alloc : pcb' = ppp_do_connect([pcb EXCEPT !.holdoff = FALSE], a)
    BY Zenon, <1>11 DEF HoldoffTimer
  <2>2. pcb.holdoff /\ settings' = settings
    BY Zenon, <1>11 DEF HoldoffTimer
  <2>3. SessionOk(ppp_do_connect([pcb EXCEPT !.holdoff = FALSE], a))
    BY ZenonT(60), <1>0, <2>2, HoldoffOver
  <2>. QED  BY ZenonT(60), <1>1, <1>2, <2>1, <2>2, <2>3 DEF SessionInv
<1>12. CASE DelayedTimer
  <2>1. PICK a \in Alloc : pcb' = lcp_delayed_up(pcb, a)
    BY Zenon, <1>12 DEF DelayedTimer
  <2>2. SessionOk(lcp_delayed_up(pcb, a)) /\ settings' = settings
    BY ZenonT(60), <1>0, <1>12, DelayedUp DEF DelayedTimer
  <2>. QED  BY ZenonT(60), <1>1, <1>2, <2>1, <2>2 DEF SessionInv
<1>13. CASE LcpTimer
  <2>1. PICK a \in Alloc : pcb' = Lcp(pcb, fsm_timeout(pcb.lcp, a), a)
    BY Zenon, <1>13 DEF LcpTimer
  <2>2. pcb.lcp.timer /\ settings' = settings
    BY Zenon, <1>13 DEF LcpTimer
  <2>3. pcb.phase \notin Idling /\ ~pcb.delayed
    BY Zenon, <2>2 DEF SessionOk, FsmOk, Waiting, Negotiating
  <2>4. Moved(pcb.lcp, fsm_timeout(pcb.lcp, a))
    BY ZenonT(60), <1>0, Timeout DEF SessionOk
  <2>5. SessionOk(Lcp(pcb, fsm_timeout(pcb.lcp, a), a))
    BY ZenonT(60), <1>0, <2>3, <2>4, LcpMoved
  <2>. QED  BY ZenonT(60), <1>1, <1>2, <2>1, <2>2, <2>5 DEF SessionInv
<1>14. CASE IpcpTimer
  <2>1. PICK a \in Alloc : pcb' = Ipcp(pcb, fsm_timeout(pcb.ipcp, a), TRUE)
    BY Zenon, <1>14 DEF IpcpTimer
  <2>2. pcb.ipcp.timer /\ settings' = settings
    BY Zenon, <1>14 DEF IpcpTimer
  <2>3. pcb.lcp.state = "OPENED"
    BY Zenon, <2>2 DEF SessionOk, FsmOk, Waiting, Negotiating
  <2>4. Moved(pcb.ipcp, fsm_timeout(pcb.ipcp, a))
    BY Zenon, <1>0, Timeout DEF SessionOk
  <2>5. SessionOk(Ipcp(pcb, fsm_timeout(pcb.ipcp, a), TRUE))
    BY ZenonT(60), <2>3, <2>4, IpcpMoved
  <2>. QED  BY ZenonT(60), <1>1, <1>2, <2>1, <2>2, <2>5 DEF SessionInv
<1>15. CASE LcpEchoTimeout
  <2> DEFINE b == [pcb EXCEPT !.echo = FALSE]
  <2>1. pcb' = LcpEchoCheck(b) /\ pcb.echo /\ settings' = settings
    BY Zenon, <1>15 DEF LcpEchoTimeout
  <2>2. pcb \in Sessions /\ pcb.lcp.state = "OPENED"
    BY Zenon, <2>1 DEF SessionOk
  <2>3. Alike(b, pcb) /\ ~b.echo
    BY Zenon, <2>2 DEF Alike, Sessions
  <2> HIDE DEF b
  <2>4. SessionOk(b) /\ b.lcp.state = "OPENED"
    BY ZenonT(60), <2>2, <2>3, AlikeOk DEF Alike
  <2>5. SessionOk(LcpEchoCheck(b))
    BY Zenon, <2>4, EchoCheck
  <2>. QED  BY ZenonT(60), <1>1, <1>2, <2>1, <2>5 DEF SessionInv
<1>16. CASE PeerStops \/ UNCHANGED sessionVars
  BY Zenon, <1>1, <1>2, <1>16 DEF PeerStops, sessionVars, SessionInv
<1>. QED  BY SMTT(60), <1>3, <1>4, <1>5, <1>6, <1>7, <1>8, <1>9, <1>10, <1>11, <1>12, <1>13, <1>14, <1>15, <1>16
             DEF PppNext, Timer

LEMMA InvImplies == SessionInv => SessionSound
<1> SUFFICES ASSUME SessionOk(pcb) PROVE SessionSound
  BY Zenon DEF SessionInv
<1>1. UpMeansOpen
  <2>1. pcb.is_up \in BOOLEAN
    BY Zenon DEF SessionOk, Sessions
  <2>2. (pcb.is_up => pcb.np_up = 1) /\ (pcb.np_up = 1 => pcb.is_up)
    BY DEF SessionOk, IsUp, IsDown
  <2>3. pcb.is_up = (pcb.np_up = 1)
    BY Zenon, <2>1, <2>2
  <2>4. pcb.if4_up <=> pcb.phase = "RUNNING"
    BY Zenon DEF SessionOk, IsUp, IsDown
  <2>5. pcb.if4_up => /\ pcb.lcp.state = "OPENED" /\ pcb.ipcp.state = "OPENED"
                      /\ pcb.is_up /\ pcb.np_up = 1
    BY Zenon, <2>4 DEF SessionOk, IsUp
  <2>. QED  BY Zenon, <2>3, <2>4, <2>5 DEF UpMeansOpen
<1>2. /\ pcb.lcp.timer => pcb.lcp.state \in Waiting
      /\ pcb.ipcp.timer => pcb.lcp.state = "OPENED"
  BY Zenon DEF SessionOk, FsmOk, Waiting, Negotiating
<1>3. DeadIsQuiet
  <2> SUFFICES ASSUME pcb.phase = "DEAD"
               PROVE  Timers = {} /\ ~pcb.open /\ pcb.lcp.state \in {"INITIAL", "STARTING"}
                      /\ pcb.ipcp.state = "INITIAL"
    BY Zenon DEF DeadIsQuiet
  <2>1. /\ ~pcb.open /\ pcb.lcp.state \in {"INITIAL", "STARTING"} /\ pcb.ipcp.state = "INITIAL"
        /\ ~pcb.holdoff /\ ~pcb.delayed /\ ~pcb.echo
    BY Zenon DEF SessionOk, Idling
  <2>2. ~pcb.lcp.timer /\ ~pcb.ipcp.timer
    BY Zenon, <1>2, <2>1 DEF Waiting, Negotiating
  <2>3. Timers = {}
    BY Zenon, <2>1, <2>2 DEF Timers
  <2>. QED  BY Zenon, <2>1, <2>3
<1>4. \E t : Timers \subseteq {t, "ipcp"}
  <2>1. pcb.holdoff => Timers \subseteq {"holdoff", "ipcp"}
    BY Zenon, <1>2 DEF SessionOk, Timers, Idling, Waiting, Negotiating
  <2>2. pcb.delayed => Timers \subseteq {"delayed", "ipcp"}
    BY Zenon, <1>2 DEF SessionOk, Timers, Idling, Waiting, Negotiating
  <2>3. pcb.echo => Timers \subseteq {"echo", "ipcp"}
    BY Zenon, <1>2 DEF SessionOk, Timers, Idling, Waiting, Negotiating
  <2>4. ~pcb.holdoff /\ ~pcb.delayed /\ ~pcb.echo => Timers \subseteq {"lcp", "ipcp"}
    BY Zenon DEF Timers
  <2>. QED  BY ZenonT(60), <2>1, <2>2, <2>3, <2>4
<1>5. PICK t : Timers \subseteq {t, "ipcp"}
  BY Zenon, <1>4
<1>6. /\ IsFiniteSet({t, "ipcp"}) /\ Cardinality({t, "ipcp"}) <= 2
      /\ IsFiniteSet({t}) /\ Cardinality({t}) = 1
  <2>1. IsFiniteSet({}) /\ Cardinality({}) = 0
    BY Zenon, FS_EmptySet
  <2>2. IsFiniteSet({t}) /\ Cardinality({t}) = 1
    BY Zenon, FS_Singleton
  <2>3. {t, "ipcp"} = {t} \cup {"ipcp"}
    BY Zenon
  <2>. QED  BY SMTT(60), <2>2, <2>3, FS_AddElement
<1>7. Cardinality(Timers) \in Nat /\ Cardinality(Timers) <= Cardinality({t, "ipcp"})
  BY Zenon, <1>5, <1>6, FS_Subset, FS_CardinalityType
<1>8. Cardinality(Timers \ {"ipcp"}) <= Cardinality({t})
  <2>1. Timers \ {"ipcp"} \subseteq {t}
    BY Zenon, <1>5
  <2>. QED  BY Zenon, <1>6, <2>1, FS_Subset
<1>9. TimersInBudget
  <2>1. Cardinality({t, "ipcp"}) \in Nat /\ Cardinality(Timers) <= 2
    BY SMTT(60), <1>6, <1>7, FS_CardinalityType
  <2>2. pcb.holdoff => pcb.phase = "HOLDOFF"
    BY Zenon DEF SessionOk
  <2>. QED  BY ZenonT(60), <1>2, <1>6, <1>8, <2>1, <2>2 DEF TimersInBudget
<1>. QED  BY Zenon, <1>1, <1>3, <1>9 DEF SessionSound

(* In every phase the session, its interface and its timers agree,         *)
(* whatever the peer sends, whenever the application connects, closes or   *)
(* frees, for all limits of retransmissions, refusals and unanswered       *)
(* echoes: SessionSound holds throughout.                                  *)
THEOREM SessionsAreSound == PppSpec => []SessionSound
<1>1. PppInit => SessionInv
  <2> SUFFICES ASSUME PppInit PROVE SessionInv
    BY Zenon
  <2>1. SessionOk(pcb)
    BY Zenon, NewOk DEF PppInit
  <2>2. SettingsOk
    BY Zenon, SettingsTyped DEF PppInit, SettingsOk
  <2>. QED  BY Zenon, <2>1, <2>2 DEF SessionInv
<1>. QED  BY <1>1, SessionStep, InvImplies, PTL DEF PppSpec
=============================================================================
