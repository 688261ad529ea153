------------------------------- MODULE MCLink -------------------------------
(***************************************************************************)
(* The serial link from below and from above: sio.c and the modem (Sio),   *)
(* the PPP session (Ppp) and the ping command (Ping).  A behaviour is one  *)
(* of them, and the others stay as they were initialized.                  *)
(***************************************************************************)
EXTENDS Sio, Ppp

CONSTANTS Addrs, SeqSpace, RecvMbox, MaxAge                 \* of Ping

VARIABLES part,
          param, frame, given, seq, pc, recv, net, sent, got

pingVars == <<param, frame, given, seq, pc, recv, net, sent, got>>

\* The default, and each option on its own; a listening LCP with echo.
Base == [silent |-> FALSE, passive |-> FALSE, listen |-> FALSE, echo |-> FALSE]
MCSettings == {Base, [Base EXCEPT !.silent = TRUE], [Base EXCEPT !.passive = TRUE],
               [Base EXCEPT !.listen = TRUE, !.echo = TRUE]}

Ping == INSTANCE Ping WITH Tasks <- <<"t1">>

ASSUME RepliesAge == Ping!AgeBelowWrap

MCInit ==
    /\ part \in {"sio", "ppp", "ping"}
    /\ Init /\ PppInit /\ Ping!Init
    /\ part # "sio" => modem = "command"
    /\ part # "ppp" => settings = Base

MCNext ==
    \/ part = "sio" /\ Next /\ UNCHANGED <<part, sessionVars, pingVars>>
    \/ part = "ppp" /\ PppNext /\ UNCHANGED <<part, vars, pingVars>>
    \/ part = "ping" /\ Ping!Next /\ UNCHANGED <<part, vars, sessionVars>>

MCSpec == MCInit /\ [][MCNext]_<<part, vars, sessionVars, pingVars>>

\* A reply is taken for the request it answers only (ping.c).
AnswersThisRequest == Ping!AnswersThisRequest
=============================================================================
