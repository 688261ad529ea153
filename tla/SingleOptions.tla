--------------------------- MODULE SingleOptions ---------------------------
(***************************************************************************)
(* The options of the two control protocols that negotiate one option      *)
(* each: the interface identifier of IPV6CP (ipv6cp.c) and the encryption  *)
(* of CCP (ccp.c).                                                         *)
(***************************************************************************)
EXTENDS Naturals, Sequences, FiniteSets, SequencesExt

(***************************************************************************)
(* IPV6CP: the interface identifiers of the two ends, which must differ    *)
(* and may not be zero.                                                    *)
(*                                                                         *)
(* An identifier is a number, 0 for none.  neg is neg_ifaceid; accept_local*)
(* is set by ipv6cp_init and never cleared.  rand holds the next results   *)
(* of eui64_magic; after them an end draws identifiers nobody else draws.  *)
(***************************************************************************)
Nothing == [neg |-> FALSE, our |-> 0, his |-> 0]

(* opt_local is whether the application has chosen the identifier our.     *)
ipv6cp_init(who, our, his, rand) ==
    [protocol |-> "ipv6cp", who |-> who, rand |-> rand, opt_local |-> our # 0,
     req_ifaceid |-> FALSE, wo |-> [neg |-> TRUE, our |-> our, his |-> his], go |-> Nothing,
     ho |-> Nothing]

(***************************************************************************)
(* while (unusable) eui64_magic(id): Draw is the identifier the loop ends  *)
(* with and what is left of rand.                                          *)
(***************************************************************************)
Draw(o, unusable) ==
    LET good == {i \in DOMAIN o.rand : o.rand[i] \notin unusable}
        first == CHOOSE i \in good : \A j \in good : i <= j
    IN  IF good = {}
        THEN [id |-> CHOOSE v \in {10 + o.who, 20 + o.who, 30 + o.who} :
                        v \notin unusable,
              rand |-> <<>>]
        ELSE [id |-> o.rand[first], rand |-> SubSeq(o.rand, first + 1, Len(o.rand))]

Usable(o, id, unusable) ==
    IF id \in unusable THEN Draw(o, unusable) ELSE [id |-> id, rand |-> o.rand]

ipv6cp_resetci(o) ==
    LET d == IF o.opt_local THEN [id |-> o.wo.our, rand |-> o.rand]
             ELSE Draw(o, {0})
        w == [o.wo EXCEPT !.our = d.id]
    IN  [o EXCEPT !.req_ifaceid = w.neg, !.wo = w, !.rand = d.rand,
                  !.go = [w EXCEPT !.his = 0]]

ipv6cp_cilen(o) == o

Ci(v) == [type |-> "ifaceid", val |-> v]

ipv6cp_addci(o) == IF o.go.neg THEN <<Ci(o.go.our)>> ELSE <<>>

ipv6cp_ackci(o, opt) == opt = ipv6cp_addci(o)

(* A suggestion is taken if it can be used beside what we last suggested   *)
(* to the peer.  A second identifier in the packet makes it bad.           *)
ipv6cp_nakci(o, opened, opt, treat_as_reject) ==
    LET d == Usable(o, Head(opt).val, {0, o.go.his})
        bad == Len(opt) > 1
    IN  [good |-> ~bad, close |-> "no",
         o |-> CASE bad \/ opt = <<>> -> o
                 [] ~bad /\ opt # <<>> /\ o.go.neg /\ treat_as_reject ->
                        IF opened THEN o ELSE [o EXCEPT !.go.neg = FALSE]
                 [] OTHER ->
                        IF opened THEN [o EXCEPT !.rand = d.rand]
                        ELSE [o EXCEPT !.rand = d.rand, !.go.neg = TRUE,
                                       !.go.our = d.id]]

ipv6cp_rejci(o, opened, opt) ==
    LET good == opt = <<>> \/ (o.go.neg /\ opt = <<Ci(o.go.our)>>)
    IN  [good |-> good, close |-> "no",
         o |-> IF good /\ ~opened /\ opt # <<>> THEN [o EXCEPT !.go.neg = FALSE]
               ELSE o]

(***************************************************************************)
(* The verdict on the peer's identifier v.  An identifier the application  *)
(* wants the peer to have is suggested once; v is refused while it is zero *)
(* or our own.  The packet is overwritten with the suggestion even when it *)
(* is then rejected.                                                       *)
(***************************************************************************)
Judge(o, v) ==
    LET first == o.go.his = 0
        d == Usable(o, IF first THEN o.wo.his ELSE v, {0, o.go.our})
    IN  CASE v = 0 /\ o.go.our = 0 -> [orc |-> "CONFREJ", val |-> v, rand |-> o.rand]
          [] o.wo.his \notin {0, v} /\ first ->
                 [orc |-> "CONFNAK", val |-> o.wo.his, rand |-> o.rand]
          [] v \in {0, o.go.our} /\ o.go.our # 0 /\ (o.wo.his \in {0, v} \/ ~first) ->
                 [orc |-> "CONFNAK", val |-> d.id, rand |-> d.rand]
          [] OTHER -> [orc |-> "CONFACK", val |-> v, rand |-> o.rand]

ipv6cp_reqci(o, req, reject_if_disagree, mem) ==
    LET j == Judge(o, Head(req).val)
        sent == req # <<>>
        orc == IF ~sent THEN "CONFACK"
               ELSE IF j.orc = "CONFNAK" /\ reject_if_disagree THEN "CONFREJ"
               ELSE j.orc
        noted == sent /\ j.orc # "CONFREJ"
        h == [Nothing EXCEPT !.neg = noted, !.his = IF noted THEN j.val ELSE 0]
        \* the peer did not tell its identifier, and we want to know it
        ask == orc # "CONFREJ" /\ ~noted /\ o.req_ifaceid /\ ~reject_if_disagree
    IN  [close |-> "no", code |-> IF ask THEN "CONFNAK" ELSE orc,
         opt |-> IF ask THEN <<Ci(o.wo.his)>> ELSE IF sent THEN <<Ci(j.val)>> ELSE <<>>,
         o |-> [o EXCEPT !.ho = h, !.rand = IF sent THEN j.rand ELSE @,
                         !.go.his = IF sent /\ j.orc = "CONFNAK" THEN j.val ELSE @,
                         !.req_ifaceid = @ /\ ~ask]]

\* Mutant of ipv6cp_up: the identifiers may be the same.
ipv6cp_upUnchecked(o) ==
    [o |-> o, close |-> FALSE, net |-> [our |-> o.go.our, his |-> o.ho.his]]

(* The interface gets its two addresses, or IPV6CP closes again.           *)
ipv6cp_up(o) ==
    LET his == IF o.ho.neg THEN o.ho.his ELSE o.wo.his
    IN  [o |-> [o EXCEPT !.ho.his = his],
         close |-> his = 0 \/ o.go.our = 0 \/ o.go.our = his,
         net |-> [our |-> o.go.our, his |-> his]]

(* ipv6cp_down: the interface goes down; the automaton is left as it is.   *)
ipv6cp_down(f) == f

-----------------------------------------------------------------------------
(***************************************************************************)
(* CCP as far as it can be built (MPPE_SUPPORT): the only compression      *)
(* there is code for is MPPE, Microsoft's encryption, and an end that      *)
(* requires it closes the link when it cannot have it.                     *)
(*                                                                         *)
(* The bits of the option are a set of "40", "128" and "stateful"; an      *)
(* empty set is an option that is not asked for.  require is what the      *)
(* application demands; shut is whether lcp_close was called; pads is how  *)
(* often the MTU was lowered by MPPE_PAD, 2 for more than once.            *)
(***************************************************************************)
Strengths == {"40", "128"}

(* MS-CHAP was done in one direction and has left keys, which ccp_resetci  *)
(* checks before anything else.                                            *)
ccp_init(require, refuse_stateful) ==
    [protocol |-> "ccp", require |-> require,
     refuse_stateful |-> refuse_stateful, go |-> {}, ho |-> {}, shut |-> FALSE, pads |-> 0]

ccp_resetci(o) == [o EXCEPT !.go = o.require]
ccp_cilen(o) == o

Mppe(bits) == [type |-> "mppe", bits |-> bits]
ccp_addci(o) == IF o.go = {} THEN <<>> ELSE <<Mppe(o.go)>>

ccp_ackci(o, opt) == opt = ccp_addci(o)

(* An end that asks for nothing waits for the other to start.              *)
ccp_open_flags(o) == IF o.require = {} THEN {"SILENT"} ELSE {}

ShutIf(o, shut) == [o EXCEPT !.shut = @ \/ shut]
Closing(shut) == IF shut THEN "link" ELSE "no"

(* A suggestion is taken if it asks for nothing that was not offered,      *)
(* except stateful mode; otherwise the link is closed.                     *)
ccp_nakci(o, opened, opt, treat_as_reject) ==
    LET seen == o.go # {} /\ opt # <<>>
        bits == Head(opt).bits
        refused == \/ "stateful" \in bits /\ o.refuse_stateful
                   \/ ~(bits \subseteq o.go \cup {"stateful"})
                   \/ bits = {}
        shut == seen /\ refused
    IN  [good |-> TRUE, close |-> Closing(shut),
         o |-> IF ~seen \/ (opened /\ ~shut) THEN ShutIf(o, shut)
               ELSE [ShutIf(o, shut) EXCEPT !.go = IF refused THEN {} ELSE bits]]

\* Mutant of ccp_rejci: the link stays when the peer refuses to encrypt.
ccp_rejciStays(o, opened, opt) ==
    [good |-> opt = <<>> \/ o.go # {}, close |-> "no", o |-> o]

ccp_rejci(o, opened, opt) ==
    LET mine == o.go # {} /\ opt # <<>>
    IN  [good |-> mine \/ opt = <<>>, close |-> Closing(mine), o |-> ShutIf(o, mine)]

(***************************************************************************)
(* The verdict on the bits of a request: of two strengths the strongest    *)
(* both can do is suggested, and none at all is answered with ours.        *)
(***************************************************************************)
Judged(o, bits) ==
    LET strong == bits \cap Strengths
        Say(rc, b) == [rc |-> rc, bits |-> b]
    IN  CASE "stateful" \in bits /\ o.refuse_stateful -> Say("CONFREJ", bits)
          [] ~("stateful" \in bits /\ o.refuse_stateful) /\ strong = Strengths ->
                 Say("CONFNAK", bits \ (IF "128" \in o.require THEN {"40"} ELSE {"128"}))
          [] ~("stateful" \in bits /\ o.refuse_stateful) /\ Cardinality(strong) = 1 ->
                 Say(IF strong \subseteq o.require THEN "CONFACK" ELSE "CONFREJ", bits)
          [] OTHER -> Say("CONFNAK", o.require)

ccp_reqci(o, req, dont_nak, mem) ==
    LET sent == req # <<>>
        j == Judged(o, Head(req).bits)
        rc == CASE ~sent -> "CONFACK"
                [] sent /\ o.require = {} -> "CONFREJ"
                [] sent /\ o.require # {} /\ j.rc = "CONFNAK" /\ dont_nak -> "CONFREJ"
                [] OTHER -> j.rc
        \* MPPE is refused for its own sake, not for want of agreement
        shut == rc = "CONFREJ" /\ o.require # {} /\ j.rc = "CONFREJ"
        ho == IF sent /\ o.require # {} THEN j.bits ELSE {}
    IN  [code |-> rc, close |-> Closing(shut),
         opt |-> IF ho = {} THEN req ELSE <<Mppe(ho)>>,
         o |-> [ShutIf(o, shut) EXCEPT !.ho = ho,
                    !.pads = IF sent /\ rc = "CONFACK" THEN IF @ = 0 THEN 1 ELSE 2 ELSE @]]

(* ccp_up: what this end sends with, and what it expects.                  *)
ccp_up(o) == [o |-> o, close |-> FALSE, net |-> [send |-> o.ho, recv |-> o.go]]

(***************************************************************************)
(* ccp_down: an end that used MPPE closes the link.  fsm_rtermreq finds    *)
(* the automaton taken down when the callback returns; the others set its  *)
(* state after it.                                                         *)
(***************************************************************************)
ccp_down(f) ==
    IF f.o.require = {} THEN f
    ELSE [f EXCEPT !.o.shut = TRUE, !.state = IF @ = "STOPPING" THEN "INITIAL" ELSE @]
=============================================================================
