-------------------------------- MODULE Fsm --------------------------------
(***************************************************************************)
(* The option-negotiation automaton every PPP control protocol runs on     *)
(* (netif/ppp/fsm.c): LCP and IPCP are two instances of it.  The automaton *)
(* is a value and every function of fsm.c is an operator from the old      *)
(* value to an Effect: the new value, the packets written to the link, and *)
(* the callbacks (up, down, finished) in the order the code calls them.    *)
(*                                                                         *)
(* Applying the callbacks after the function instead of in its middle is   *)
(* the same thing here: no callback reads or writes the automaton it is    *)
(* called from before the function is done with it, except ipcp_up and     *)
(* the finished callbacks, which the code calls last.                      *)
(***************************************************************************)
EXTENDS Naturals, Sequences

CONSTANTS IdSpace,      \* 256 in the code: u8_t id, reqid
          MaxConfReq,   \* settings.fsm_max_conf_req_transmits
          MaxTermReq,   \* settings.fsm_max_term_transmits
          MaxNakLoops,  \* maxnakloops
          \* the option callbacks of the protocol, on its options o:
          resetci(_),        \* o as a negotiation starts
          cilen(_),          \* o as a request is made up
          addci(_),          \* the options of the request
          reqci(_, _, _, _), \* the verdict on the peer's request
          ackci(_, _),       \* whether an acknowledgement is the request's
          nakci(_, _, _, _), \* what a Configure-Nak leaves to ask for
          rejci(_, _, _)     \* what a Configure-Reject leaves

Negotiating == {"REQSENT", "ACKRCVD", "ACKSENT"}

FsmStates == Negotiating \cup
    {"INITIAL", "STARTING", "CLOSED", "STOPPED", "CLOSING", "STOPPING", "OPENED"}

(* The states in which a retransmission timer has to be running.           *)
Waiting == Negotiating \cup {"CLOSING", "STOPPING"}

fsm_init(o, flags) ==
    [state |-> "INITIAL", flags |-> flags, id |-> 0, reqid |-> 0,
     seen_ack |-> FALSE, retransmits |-> 0, nakloops |-> 0, rnakloops |-> 0,
     timer |-> FALSE, o |-> o]

Effect(f, out, cb) == [f |-> f, out |-> out, cb |-> cb]
Ignored(f)         == Effect(f, <<>>, <<>>)
Become(f, s)       == Ignored([f EXCEPT !.state = s])
NextId(f)          == (f.id + 1) % IdSpace
Packet(code, id, opt) == [code |-> code, id |-> id, opt |-> opt]
Bare(code, id)        == <<Packet(code, id, <<>>)>>
Untimeout(f) == [f EXCEPT !.timer = FALSE]

(***************************************************************************)
(* fsm_sconfreq.  alloc is whether pbuf_alloc succeeds: when it does not   *)
(* the function returns before the request is sent and before the timer is *)
(* started.                                                                *)
(***************************************************************************)
fsm_sconfreq(f, retransmit, alloc) ==
    LET g == IF f.state \in Negotiating THEN f
             ELSE [f EXCEPT !.o = resetci(f.o), !.nakloops = 0, !.rnakloops = 0]
        h == IF retransmit THEN g
             ELSE [g EXCEPT !.retransmits = MaxConfReq,
                            !.id = NextId(g), !.reqid = NextId(g)]
        q == [h EXCEPT !.seen_ack = FALSE, !.o = cilen(@)]
    IN  IF alloc
        THEN Effect([q EXCEPT !.retransmits = @ - 1, !.timer = TRUE],
                    <<Packet("CONFREQ", q.reqid, addci(q.o))>>, <<>>)
        ELSE Ignored(q)

(* Send a fresh request and go to REQSENT, after the callbacks cb.         *)
Renegotiate(f, cb, alloc) ==
    LET s == fsm_sconfreq(f, FALSE, alloc)
    IN  Effect([s.f EXCEPT !.state = "REQSENT"], s.out, cb)

(* Send a Terminate-Request under a new id and start the timer.            *)
SendTermReq(f) ==
    Effect([f EXCEPT !.id = NextId(f), !.reqid = NextId(f), !.timer = TRUE,
                     !.retransmits = @ - 1],
           Bare("TERMREQ", NextId(f)), <<>>)

fsm_lowerup(f, alloc) ==
    CASE f.state = "INITIAL" -> Become(f, "CLOSED")
      [] f.state = "STARTING" /\ "SILENT" \in f.flags -> Become(f, "STOPPED")
      [] f.state = "STARTING" /\ "SILENT" \notin f.flags ->
             Renegotiate(f, <<>>, alloc)
      [] OTHER -> Ignored(f)

fsm_lowerdown(f) ==
    CASE f.state = "CLOSED"  -> Become(f, "INITIAL")
      [] f.state = "STOPPED" -> Become(f, "STARTING")
      [] f.state = "CLOSING" -> Become(Untimeout(f), "INITIAL")
      [] f.state \in Negotiating \cup {"STOPPING"} ->
             Become(Untimeout(f), "STARTING")
      [] f.state = "OPENED" ->
             Effect([f EXCEPT !.state = "STARTING"], <<>>, <<"down">>)
      [] OTHER -> Ignored(f)

(* No protocol of this tree sets OPT_RESTART, so Open in STOPPED, OPENED   *)
(* and STOPPING does nothing more than leave CLOSING.                      *)
fsm_open(f, alloc) ==
    CASE f.state = "INITIAL" -> Become(f, "STARTING")
      [] f.state = "CLOSED" /\ "SILENT" \in f.flags -> Become(f, "STOPPED")
      [] f.state = "CLOSED" /\ "SILENT" \notin f.flags ->
             Renegotiate(f, <<>>, alloc)
      [] f.state = "CLOSING" -> Become(f, "STOPPING")
      [] OTHER -> Ignored(f)

Ended(next) == IF next = "CLOSING" THEN "CLOSED" ELSE "STOPPED"

terminate_layer(f, next) ==
    LET down == IF f.state = "OPENED" THEN <<"down">> ELSE <<>>
        g == [(IF f.state = "OPENED" THEN f ELSE Untimeout(f))
                 EXCEPT !.retransmits = MaxTermReq]
    IN  IF MaxTermReq = 0
        THEN Effect([g EXCEPT !.id = NextId(f), !.reqid = NextId(f),
                              !.state = Ended(next)],
                    Bare("TERMREQ", NextId(f)), down \o <<"finished">>)
        ELSE LET s == SendTermReq(g)
             IN  Effect([s.f EXCEPT !.state = next], s.out, down)

fsm_close(f) ==
    CASE f.state = "STARTING" -> Become(f, "INITIAL")
      [] f.state = "STOPPED"  -> Become(f, "CLOSED")
      [] f.state = "STOPPING" -> Become(f, "CLOSING")
      [] f.state \in Negotiating \cup {"OPENED"} -> terminate_layer(f, "CLOSING")
      [] OTHER -> Ignored(f)

\* Mutant of fsm_timeout: it gives up one transmission too early.
fsm_timeoutEarly(f, alloc) ==
    LET g == Untimeout(f)
    IN  IF g.retransmits <= 1
        THEN Effect([g EXCEPT !.state = Ended(@)], <<>>, <<"finished">>)
        ELSE IF g.state \in Negotiating THEN fsm_sconfreq(g, TRUE, alloc)
        ELSE SendTermReq(g)

(* The timer is off when its handler runs; the handler may start it again. *)
fsm_timeout(f, alloc) ==
    LET g == Untimeout(f)
    IN  CASE g.state \in {"CLOSING", "STOPPING"} /\ g.retransmits = 0 ->
                 Effect([g EXCEPT !.state = Ended(g.state)], <<>>, <<"finished">>)
          [] g.state \in {"CLOSING", "STOPPING"} /\ g.retransmits > 0 ->
                 SendTermReq(g)
          [] g.state \in Negotiating /\ g.retransmits = 0 ->
                 Effect([g EXCEPT !.state = "STOPPED"], <<>>,
                        IF "PASSIVE" \in g.flags THEN <<>> ELSE <<"finished">>)
          [] g.state \in Negotiating /\ g.retransmits > 0 ->
                 LET s == fsm_sconfreq(g, TRUE, alloc)
                 IN  Effect([s.f EXCEPT !.state =
                                 IF @ = "ACKRCVD" THEN "REQSENT" ELSE @],
                            s.out, <<>>)
          [] OTHER -> Ignored(g)

(***************************************************************************)
(* What an option callback did to the automaton on the way: lcp_nakci may  *)
(* close its own, when the line is looped back ("self"); those of CCP may  *)
(* close LCP ("link"), which takes the lower layer away and closes CCP.    *)
(***************************************************************************)
Closed(f, close) ==
    CASE close = "self" -> fsm_close(f)
      [] close = "link" -> fsm_close(fsm_lowerdown(f).f)
      [] OTHER -> Ignored(f)

(***************************************************************************)
(* fsm_rconfreq.  reqci returns the code of the answer, the options that   *)
(* go back with it, and its own options as it leaves them; mem is whether  *)
(* the memory it needs is there.                                           *)
(***************************************************************************)
RejectIfDisagree(f) ==
    f.nakloops >= MaxNakLoops

fsm_rconfreq(f, id, opt, alloc, mem) ==
    LET start == CASE f.state = "OPENED"  -> Renegotiate(f, <<"down">>, alloc)
                   [] f.state = "STOPPED" -> Renegotiate(f, <<>>, alloc)
                   [] OTHER -> Ignored(f)
        answer == reqci(start.f.o, opt, RejectIfDisagree(start.f), mem)
        g == Closed([start.f EXCEPT !.o = answer.o], answer.close).f
        out == Append(start.out, Packet(answer.code, id, answer.opt))
    IN  CASE f.state = "CLOSED" -> Effect(f, Bare("TERMACK", id), <<>>)
          [] f.state \in {"CLOSING", "STOPPING"} -> Ignored(f)
          [] f.state \notin {"CLOSED", "CLOSING", "STOPPING"}
                  /\ answer.code = "CONFACK" ->
                IF g.state = "ACKRCVD"
                THEN Effect([Untimeout(g) EXCEPT !.state = "OPENED",
                                                 !.nakloops = 0],
                            out, Append(start.cb, "up"))
                ELSE Effect([g EXCEPT !.state = "ACKSENT", !.nakloops = 0],
                            out, start.cb)
          [] OTHER ->
                Effect([g EXCEPT !.state =
                             IF @ = "ACKRCVD" THEN @ ELSE "REQSENT",
                          !.nakloops =
                             IF answer.code = "CONFNAK" THEN @ + 1 ELSE @],
                       out, start.cb)

\* Mutant of fsm_rconfack: an acknowledgement opens whatever was acknowledged.
fsm_rconfackAny(f, id, opt, alloc) ==
    IF f.state = "ACKSENT"
    THEN Effect([Untimeout(f) EXCEPT !.state = "OPENED"], <<>>, <<"up">>)
    ELSE Ignored([f EXCEPT !.state = IF @ = "REQSENT" THEN "ACKRCVD" ELSE @])

fsm_rconfack(f, id, opt, alloc) ==
    LET g == [f EXCEPT !.seen_ack = TRUE, !.rnakloops = 0]
    IN  IF id # f.reqid \/ f.seen_ack \/ ~ackci(f.o, opt)
        THEN Ignored(f)
        ELSE CASE g.state \in {"CLOSED", "STOPPED"} ->
                      Effect(g, Bare("TERMACK", id), <<>>)
               [] g.state = "REQSENT" ->
                      Ignored([g EXCEPT !.state = "ACKRCVD",
                                        !.retransmits = MaxConfReq])
               [] g.state = "ACKRCVD" -> Renegotiate(Untimeout(g), <<>>, alloc)
               [] g.state = "ACKSENT" ->
                      Effect([Untimeout(g) EXCEPT !.state = "OPENED",
                                                  !.retransmits = MaxConfReq],
                             <<>>, <<"up">>)
               [] g.state = "OPENED" -> Renegotiate(g, <<"down">>, alloc)
               [] OTHER -> Ignored(g)

(***************************************************************************)
(* fsm_rconfnakrej.  nakci and rejci return whether they accept the packet *)
(* and the options they leave.  None of them returns a negative value      *)
(* ("kludge for stopping CCP") unless the peer rejects an empty request,   *)
(* which this one never does.                                              *)
(***************************************************************************)
TreatAsReject(f) == f.rnakloops >= MaxNakLoops

fsm_rconfnakrej(f, code, id, opt, alloc) ==
    LET n == [f EXCEPT !.rnakloops = IF code = "CONFNAK" THEN @ + 1 ELSE 0]
        verdict == IF code = "CONFNAK"
                   THEN nakci(n.o, n.state = "OPENED", opt, TreatAsReject(n))
                   ELSE rejci(n.o, n.state = "OPENED", opt)
        m == [n EXCEPT !.o = verdict.o]
        c == Closed(m, verdict.close)
        g == [c.f EXCEPT !.seen_ack = TRUE]
        next == CASE g.state \in {"CLOSED", "STOPPED"} ->
                         Effect(g, Bare("TERMACK", id), <<>>)
                  [] g.state \in {"REQSENT", "ACKSENT"} ->
                         fsm_sconfreq(Untimeout(g), FALSE, alloc)
                  [] g.state = "ACKRCVD" -> Renegotiate(Untimeout(g), <<>>, alloc)
                  [] g.state = "OPENED"  -> Renegotiate(g, <<"down">>, alloc)
                  [] OTHER -> Ignored(g)
    IN  IF id # f.reqid \/ f.seen_ack THEN Ignored(f)
        ELSE IF ~verdict.good THEN Ignored(n)
        ELSE Effect(next.f, c.out \o next.out, c.cb \o next.cb)

fsm_rtermreq(f, id) ==
    CASE f.state \in {"ACKRCVD", "ACKSENT"} ->
             Effect([f EXCEPT !.state = "REQSENT"], Bare("TERMACK", id), <<>>)
      [] f.state = "OPENED" ->
             Effect([f EXCEPT !.retransmits = 0, !.state = "STOPPING",
                              !.timer = TRUE],
                    Bare("TERMACK", id), <<"down">>)
      [] OTHER -> Effect(f, Bare("TERMACK", id), <<>>)

fsm_rtermack(f, alloc) ==
    CASE f.state \in {"CLOSING", "STOPPING"} ->
             Effect([Untimeout(f) EXCEPT !.state = Ended(f.state)],
                    <<>>, <<"finished">>)
      [] f.state = "ACKRCVD" -> Become(f, "REQSENT")
      [] f.state = "OPENED"  -> Renegotiate(f, <<"down">>, alloc)
      [] OTHER -> Ignored(f)

fsm_rcoderej(f) ==
    IF f.state = "ACKRCVD" THEN Become(f, "REQSENT") ELSE Ignored(f)

fsm_protreject(f) ==
    CASE f.state \in {"CLOSING", "CLOSED"} ->
             Effect([Untimeout(f) EXCEPT !.state = "CLOSED"], <<>>, <<"finished">>)
      [] f.state \in Negotiating \cup {"STOPPING", "STOPPED"} ->
             Effect([Untimeout(f) EXCEPT !.state = "STOPPED"], <<>>, <<"finished">>)
      [] f.state = "OPENED" -> terminate_layer(f, "STOPPING")
      [] OTHER -> Ignored(f)

(* A packet with an unknown code is answered with a Code-Reject.           *)
UnknownCode(f) ==
    Effect([f EXCEPT !.id = NextId(f)], Bare("CODEREJ", NextId(f)), <<>>)

(* fsm_input drops every packet in these two states.                       *)
Deaf(f) == f.state \in {"INITIAL", "STARTING"}
=============================================================================
