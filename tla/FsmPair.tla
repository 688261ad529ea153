------------------------------ MODULE FsmPair ------------------------------
(***************************************************************************)
(* The ends of a serial line negotiating one PPP control protocol: the     *)
(* automaton of Fsm at each end with the protocol's option callbacks, and  *)
(* a line that keeps packets in order and may lose them.  A line that is   *)
(* looped back has one end, which is its own peer.                         *)
(***************************************************************************)
EXTENDS Fsm, FiniteSets, SequencesExt

CONSTANTS Options,         \* what the ends may start with: one sequence of options
                           \* per line, with an element for each end
          up(_), down(_),  \* the protocol's up and down callbacks
          open_flags(_),   \* the flags it sets before it is opened
          MaxCloses,       \* bound: administrative Close events
          MaxFaults        \* bound: those, packets lost, timers that expire before the
                           \* answer arrives, requests there is no memory to judge

VARIABLES fsm,   \* the automaton of each end
          net,   \* what each end is configured to: a set, empty when it is not up
          wire,  \* packets on their way to each end
          closes, faults

vars == <<fsm, net, wire, closes, faults>>

End     == DOMAIN fsm
Peer(n) == IF Len(fsm) = 1 THEN n ELSE 3 - n

Init ==
    /\ \E o \in Options :
          fsm = [n \in DOMAIN o |-> [fsm_init(o[n], open_flags(o[n]))
                                        EXCEPT !.state = "STARTING"]]
    /\ net = [n \in End |-> {}]
    /\ wire = [n \in End |-> <<>>]
    /\ closes = 0 /\ faults = 0

(* The answer of an automaton to a packet: fsm_input's dispatch.           *)
Answer(f, m, mem) ==
    CASE Deaf(f) -> Ignored(f)
      [] m.code = "CONFREQ" /\ ~Deaf(f) -> fsm_rconfreq(f, m.id, m.opt, TRUE, mem)
      [] m.code = "CONFACK" /\ ~Deaf(f) -> fsm_rconfack(f, m.id, m.opt, TRUE)
      [] m.code \in {"CONFNAK", "CONFREJ"} /\ ~Deaf(f) ->
             fsm_rconfnakrej(f, m.code, m.id, m.opt, TRUE)
      [] m.code = "TERMREQ" /\ ~Deaf(f) -> fsm_rtermreq(f, m.id)
      [] m.code = "TERMACK" /\ ~Deaf(f) -> fsm_rtermack(f, TRUE)
      [] m.code = "CODEREJ" /\ ~Deaf(f) -> fsm_rcoderej(f)
      [] OTHER -> UnknownCode(f)

(***************************************************************************)
(* The callbacks.  down comes first and up last in every function of       *)
(* fsm.c; an up callback that finds the configuration unusable closes the  *)
(* protocol again.                                                         *)
(***************************************************************************)
Upcall(r, was) ==
    LET u == up(r.f.o)
        f == [r.f EXCEPT !.o = u.o]
        c == fsm_close(f)
    IN  IF "up" \notin Range(r.cb)
        THEN [f |-> IF "down" \in Range(r.cb) THEN down(r.f) ELSE r.f, out |-> r.out,
              net |-> IF r.cb # <<>> THEN {} ELSE was]
        ELSE IF u.close THEN [f |-> c.f, out |-> r.out \o c.out, net |-> {}]
        ELSE [f |-> f, out |-> r.out, net |-> {u.net}]

(* End n does r, having read the packets that are no longer in w.          *)
Do(n, r, w) ==
    LET e == Upcall(r, net[n])
    IN  /\ fsm' = [fsm EXCEPT ![n] = e.f]
        /\ wire' = [w EXCEPT ![Peer(n)] = @ \o e.out]
        /\ net' = [net EXCEPT ![n] = e.net]

LowerUp(n) ==
    /\ fsm[n].state = "STARTING"
    /\ Do(n, fsm_lowerup(fsm[n], TRUE), wire)
    /\ UNCHANGED <<closes, faults>>

Deliver(n) ==
    /\ wire[n] # <<>>
    /\ Do(n, Answer(fsm[n], Head(wire[n]), TRUE), [wire EXCEPT ![n] = Tail(@)])
    /\ UNCHANGED <<closes, faults>>

(* The pbuf for the answer cannot be allocated.                            *)
DeliverNoMem(n) ==
    /\ wire[n] # <<>> /\ faults + closes < MaxFaults
    /\ Head(wire[n]).code = "CONFREQ" /\ ~Deaf(fsm[n])
    /\ faults' = faults + 1
    /\ Do(n, Answer(fsm[n], Head(wire[n]), FALSE), [wire EXCEPT ![n] = Tail(@)])
    /\ UNCHANGED closes

Lose(n) ==
    /\ wire[n] # <<>> /\ faults + closes < MaxFaults
    /\ wire' = [wire EXCEPT ![n] = Tail(@)]
    /\ faults' = faults + 1
    /\ UNCHANGED <<fsm, net, closes>>

(* The retransmission timer is seconds long: an expiry while an answer is  *)
(* still under way, or before the other end is up, is possible but counted.*)
Quiet   == \A n \in End : wire[n] = <<>>
Overdue == Quiet /\ \A n \in End : fsm[n].state # "STARTING"

Timeout(n) ==
    /\ fsm[n].timer
    /\ Overdue \/ faults + closes < MaxFaults
    /\ faults' = IF Overdue THEN faults ELSE faults + 1
    /\ Do(n, fsm_timeout(fsm[n], TRUE), wire)
    /\ UNCHANGED closes

Close(n) ==
    /\ closes < MaxCloses /\ faults + closes < MaxFaults
    /\ fsm[n].state \in Negotiating \cup {"OPENED"}
    /\ closes' = closes + 1
    /\ Do(n, fsm_close(fsm[n]), wire)
    /\ UNCHANGED faults

Next == \E n \in End : \/ LowerUp(n) \/ Deliver(n) \/ Lose(n) \/ Timeout(n) \/ Close(n)

(***************************************************************************)
(* The line delivers, each end comes up, and a started timer expires,      *)
(* however often a packet passes in between: weak fairness of Deliver and  *)
(* LowerUp and strong fairness of Timeout, written with the change each    *)
(* makes.                                                                  *)
(***************************************************************************)
Starting(n) == n \in End /\ fsm[n].state = "STARTING"
Coming(n)   == n \in End /\ wire[n] # <<>>
Due(n)      == n \in End /\ fsm[n].timer /\ Overdue
Started(n)  == Starting(n) /\ fsm'[n].state # "STARTING"
Passed(n)   == Coming(n) /\ ~IsPrefix(wire[n], wire'[n])
Expired(n)  == n \in End /\ Overdue /\ fsm'[n] # fsm[n]

Fairness == \A n \in {1, 2} :
    /\ []<>(~Coming(n)) \/ []<><<Passed(n)>>_vars
    /\ []<>(~Starting(n)) \/ []<><<Started(n)>>_vars
    /\ <>[](~Due(n)) \/ []<><<Expired(n)>>_vars

Opened == \A n \in End : fsm[n].state = "OPENED"
=============================================================================
