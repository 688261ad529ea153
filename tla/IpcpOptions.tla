---------------------------- MODULE IpcpOptions ----------------------------
(***************************************************************************)
(* The options IPCP negotiates (ipcp.c): the addresses of the two ends,    *)
(* in the current and in the old form, Van Jacobson header compression,    *)
(* and the name servers.                                                   *)
(*                                                                         *)
(* An option set is a record: neg is the set of its neg_xxx, old_xxx and   *)
(* req_dnsx flags that are set, acc that of its accept_xxx flags; an       *)
(* address is a number, 0 for an unknown one.  A packet is a sequence of   *)
(* options [type, val] of the right length.                                *)
(***************************************************************************)
EXTENDS Naturals, Sequences, FiniteSets, SequencesExt

CONSTANTS MaxSlot,   \* MAX_STATES - 1
          FakeAddr   \* 10.64.64.64

Nothing == [neg |-> {}, acc |-> {}, req_addr |-> FALSE, our |-> 0, his |-> 0,
            proto |-> "vj", slots |-> 0, cflag |-> FALSE, dns |-> <<0, 0>>]

(***************************************************************************)
(* our and his are what the application sets (ppp_set_ipcp_ouraddr, and    *)
(* so on), dns the servers it offers; usepeerdns, noremoteip are settings. *)
(***************************************************************************)
ipcp_init(our, his, dns, usepeerdns, noremoteip) ==
    LET base == [Nothing EXCEPT !.neg = {"addr", "addrs", "vj"},
                                !.slots = MaxSlot, !.cflag = TRUE]
    IN  [protocol |-> "ipcp", wo |-> [base EXCEPT !.our = our, !.his = his],
         go |-> Nothing, ao |-> [base EXCEPT !.dns = dns], ho |-> Nothing,
         ask_for_local |-> our # 0, usepeerdns |-> usepeerdns,
         noremoteip |-> noremoteip]

Addresses == {"addr", "addrs"}
Servers   == {"dns1", "dns2"}

ipcp_resetci(o) ==
    LET w == [o.wo EXCEPT
                !.req_addr = /\ o.wo.neg \cap Addresses # {}
                             /\ o.ao.neg \cap Addresses # {},
                !.acc = @ \cup (IF o.wo.our = 0 THEN {"local"} ELSE {})
                          \cup (IF o.wo.his = 0 THEN {"remote"} ELSE {}),
                !.neg = IF o.usepeerdns THEN @ \cup Servers ELSE @ \ Servers]
    IN  [o EXCEPT !.wo = w, !.ho = Nothing,
                  !.go = IF o.ask_for_local THEN w ELSE [w EXCEPT !.our = 0]]

(* A request falls back to the old forms when the peer has used them.      *)
ipcp_cilen(o) ==
    LET g == IF Addresses \subseteq o.go.neg /\ o.ho.neg \cap Addresses = {"addrs"}
             THEN [o.go EXCEPT !.neg = @ \ {"addr"}] ELSE o.go
        old == /\ "vj" \in o.wo.neg /\ {"vj", "old_vj"} \cap g.neg = {}
               /\ {"vj", "old_vj"} \subseteq o.ho.neg
    IN  [o EXCEPT !.go = IF old THEN [g EXCEPT !.neg = @ \cup {"vj", "old_vj"},
                                               !.proto = o.ho.proto]
                         ELSE g]

Order == <<"addrs", "vj", "addr", "dns1", "dns2">>

Asks(g, t) == t \in g.neg /\ (t = "addrs" => "addr" \notin g.neg)

Server(t) == IF t = "dns1" THEN 1 ELSE 2

ValueOf(g, t) ==
    CASE t = "addrs" -> <<g.our, g.his>>
      [] t = "addr"  -> g.our
      [] t \in Servers -> g.dns[Server(t)]
      [] OTHER -> IF "old_vj" \in g.neg THEN [proto |-> g.proto]
                  ELSE [proto |-> g.proto, slots |-> g.slots, cflag |-> g.cflag]

Ci(t, v) == [type |-> t, val |-> v]
OldForm(vj) == DOMAIN vj = {"proto"}

ipcp_addci(o) ==
    LET asked == SelectSeq(Order, LAMBDA t : Asks(o.go, t))
    IN  [i \in 1 .. Len(asked) |-> Ci(asked[i], ValueOf(o.go, asked[i]))]

ipcp_ackci(o, opt) == opt = ipcp_addci(o)

(* The peer's idea of an address, taken if it has one and we do not mind.  *)
Known(g, which, mine, theirs) ==
    IF which \in g.acc /\ theirs # 0 THEN theirs ELSE mine

NakVj(try_, go, vj) ==
    CASE ~OldForm(vj) /\ vj.proto = "vj" ->
             [try_ EXCEPT !.neg = @ \ {"old_vj"},
                          !.slots = IF vj.slots < go.slots THEN vj.slots ELSE @,
                          !.cflag = @ /\ vj.cflag]
      [] OldForm(vj) /\ vj.proto \in {"vj", "vj_old"} ->
             [try_ EXCEPT !.neg = @ \cup {"old_vj"}, !.proto = vj.proto]
      [] OTHER -> [try_ EXCEPT !.neg = @ \ {"vj"}]

(* One option of the request that is refused, with the peer's suggestion.  *)
NakOption(go, try_, t, v, treat_as_reject) ==
    CASE treat_as_reject ->
             [try_ EXCEPT !.neg = @ \ (IF t = "addr" THEN Addresses ELSE {t})]
      [] ~treat_as_reject /\ t = "addrs" ->
             [try_ EXCEPT !.our = Known(go, "local", @, v[1]),
                          !.his = Known(go, "remote", @, v[2])]
      [] ~treat_as_reject /\ t = "vj"   -> NakVj(try_, go, v)
      [] ~treat_as_reject /\ t = "addr" ->
             [try_ EXCEPT !.our = Known(go, "local", @, v)]
      [] OTHER -> [try_ EXCEPT !.dns[Server(t)] = v]

(* An option the peer wants to be asked for: addresses and name servers    *)
(* are, compression is not.                                                *)
NakExtra(go, try_, ci) ==
    CASE ci.type = "addrs" ->
             [try_ EXCEPT !.neg = @ \ {"addr"},
                          !.our = Known(go, "local", @, ci.val[1]),
                          !.his = Known(go, "remote", @, ci.val[2])]
      [] ci.type = "addr" ->
             LET a == Known(go, "local", try_.our, ci.val)
             IN  [try_ EXCEPT !.our = a,
                              !.neg = (@ \ {"addrs"}) \cup
                                      (IF a # 0 THEN {"addr"} ELSE {})]
      [] ci.type \in Servers ->
             [try_ EXCEPT !.dns[Server(ci.type)] = ci.val, !.neg = @ \cup {ci.type}]
      [] OTHER -> try_

ipcp_nakci(o, opened, opt, treat_as_reject) ==
    LET Take(a, t) ==
            IF a.rest = <<>> \/ ~Asks(o.go, t) THEN a
            ELSE IF Head(a.rest).type # t THEN a
            ELSE [rest |-> Tail(a.rest), no |-> a.no \cup {t},
                  try_ |-> NakOption(o.go, a.try_, t, Head(a.rest).val,
                                     treat_as_reject)]
        a == FoldLeft(Take, [rest |-> opt, no |-> {}, try_ |-> o.go], Order)
        Wants(i) == a.rest[i].type
        bad == \E i \in DOMAIN a.rest :
                  \/ Asks(o.go, Wants(i)) \/ Wants(i) \in a.no
                  \/ \E j \in 1 .. i - 1 : Wants(j) = Wants(i)
        try_ == FoldLeft(LAMBDA g, ci : NakExtra(o.go, g, ci), a.try_, a.rest)
    IN  [good |-> ~bad, close |-> "no",
         o |-> IF bad \/ opened THEN o ELSE [o EXCEPT !.go = try_]]

\* Mutant of ipcp_rejci: a rejected option stays in the next request.
ipcp_rejciKeeps(o, opened, opt) == [good |-> TRUE, close |-> "no", o |-> o]

ipcp_rejci(o, opened, opt) ==
    LET Take(a, t) ==
            IF a.rest = <<>> \/ ~Asks(o.go, t) THEN a
            ELSE IF Head(a.rest).type # t THEN a
            ELSE [rest |-> Tail(a.rest), neg |-> a.neg \ {t},
                  bad |-> a.bad \/ Head(a.rest).val # ValueOf(o.go, t)]
        r == FoldLeft(Take, [rest |-> opt, bad |-> FALSE, neg |-> o.go.neg], Order)
        good == ~r.bad /\ r.rest = <<>>
    IN  [good |-> good, close |-> "no",
         o |-> IF good /\ ~opened THEN [o EXCEPT !.go.neg = r.neg] ELSE o]

(***************************************************************************)
(* ipcp_reqci.  Judge gives the verdict on one option of the peer's, the   *)
(* option as it is rewritten in place, and the want and his options.       *)
(***************************************************************************)
Verdict(orc, v, wo, ho) == [orc |-> orc, val |-> v, wo |-> wo, ho |-> ho]

(* Do we know better than the peer what its address is?                    *)
HisWrong(wo, a) == a # wo.his /\ (a = 0 \/ "remote" \notin wo.acc)
NobodyKnows(wo, a) == a = 0 /\ wo.his = 0

JudgeAddr(o, wo, ho, v) ==
    CASE "addr" \notin o.ao.neg \/ "addrs" \in ho.neg \/ NobodyKnows(wo, v) ->
             Verdict("CONFREJ", v,
                     IF "addr" \notin o.ao.neg \/ "addrs" \in ho.neg THEN wo
                     ELSE [wo EXCEPT !.req_addr = FALSE], ho)
      [] OTHER ->
             Verdict(IF HisWrong(wo, v) THEN "CONFNAK" ELSE "CONFACK",
                     IF HisWrong(wo, v) THEN wo.his ELSE v, wo,
                     [ho EXCEPT !.neg = @ \cup {"addr"}, !.his = v])

JudgeAddrs(o, wo, ho, v) ==
    LET mine == v[2] # wo.our /\ (v[2] = 0 \/ "local" \notin wo.acc)
    IN  CASE "addrs" \notin o.ao.neg \/ "addr" \in ho.neg \/ NobodyKnows(wo, v[1]) ->
                 Verdict("CONFREJ", v,
                         IF "addrs" \notin o.ao.neg \/ "addr" \in ho.neg THEN wo
                         ELSE [wo EXCEPT !.req_addr = FALSE], ho)
          [] OTHER ->
                 Verdict(IF HisWrong(wo, v[1]) \/ mine THEN "CONFNAK" ELSE "CONFACK",
                         <<IF HisWrong(wo, v[1]) THEN wo.his ELSE v[1],
                           IF mine THEN wo.our ELSE v[2]>>,
                         IF mine THEN wo ELSE [wo EXCEPT !.our = v[2]],
                         [ho EXCEPT !.neg = @ \cup {"addrs"}, !.his = v[1],
                                    !.our = v[2]])

JudgeVj(o, wo, ho, v) ==
    LET h == [ho EXCEPT !.neg = @ \cup {"vj"}, !.proto = v.proto]
    IN  CASE \/ "vj" \notin o.ao.neg
             \/ ~(v.proto = "vj" \/ (v.proto = "vj_old" /\ OldForm(v))) ->
                 Verdict("CONFREJ", v, wo, ho)
          [] OTHER ->
               IF OldForm(v)
               THEN Verdict("CONFACK", v, wo,
                            [h EXCEPT !.neg = @ \cup {"old_vj"}, !.slots = MaxSlot,
                                      !.cflag = TRUE])
               ELSE LET many == v.slots > o.ao.slots
                        id   == v.cflag /\ ~o.ao.cflag
                    IN  Verdict(IF many \/ id THEN "CONFNAK" ELSE "CONFACK",
                                [v EXCEPT !.slots = IF many THEN o.ao.slots ELSE @,
                                          !.cflag = IF id THEN wo.cflag ELSE @],
                                wo, [h EXCEPT !.slots = v.slots, !.cflag = v.cflag])

Judge(o, wo, ho, ci) ==
    CASE ci.type = "addr"  -> JudgeAddr(o, wo, ho, ci.val)
      [] ci.type = "addrs" -> JudgeAddrs(o, wo, ho, ci.val)
      [] ci.type = "vj"    -> JudgeVj(o, wo, ho, ci.val)
      [] OTHER -> LET mine == o.ao.dns[Server(ci.type)]
                  IN  CASE mine = 0 -> Verdict("CONFREJ", ci.val, wo, ho)
                        [] mine = ci.val -> Verdict("CONFACK", mine, wo, ho)
                        [] OTHER -> Verdict("CONFNAK", mine, wo, ho)

Worse(rc, orc) ==
    CASE "CONFREJ" \in {rc, orc} -> "CONFREJ"
      [] "CONFREJ" \notin {rc, orc} /\ "CONFNAK" \in {rc, orc} -> "CONFNAK"
      [] OTHER -> "CONFACK"

(* The option as it goes back: rejected as it came, except that a name     *)
(* server is overwritten whatever happens to it.                           *)
GoesBack(orc, ci, v) ==
    Ci(ci.type, IF orc = "CONFNAK" \/ ci.type \in Servers THEN v ELSE ci.val)

ipcp_reqci(o, req, reject_if_disagree, mem) ==
    LET Step(a, ci) ==
            LET j   == Judge(o, a.wo, a.ho, ci)
                orc == IF j.orc = "CONFNAK" /\ reject_if_disagree THEN "CONFREJ"
                       ELSE j.orc
            IN  [wo |-> j.wo, ho |-> j.ho, rc |-> Worse(a.rc, orc),
                 nak |-> IF orc = "CONFNAK" THEN Append(a.nak, GoesBack(orc, ci, j.val))
                         ELSE a.nak,
                 rej |-> IF orc = "CONFREJ" THEN Append(a.rej, GoesBack(orc, ci, j.val))
                         ELSE a.rej]
        r == FoldLeft(Step, [wo |-> o.wo, ho |-> Nothing, rc |-> "CONFACK",
                             nak |-> <<>>, rej |-> <<>>], req)
        \* the peer did not tell its address, and we want to know it
        ask == /\ r.rc # "CONFREJ" /\ r.ho.neg \cap Addresses = {}
               /\ r.wo.req_addr /\ ~reject_if_disagree /\ ~o.noremoteip
        w == IF ask /\ r.rc = "CONFACK" THEN [r.wo EXCEPT !.req_addr = FALSE]
             ELSE r.wo
        rc == IF ask THEN "CONFNAK" ELSE r.rc
    IN  [code |-> rc, close |-> "no", o |-> [o EXCEPT !.wo = w, !.ho = r.ho],
         opt |-> CASE rc = "CONFACK" -> req
                   [] rc = "CONFNAK" ->
                          r.nak \o (IF ask THEN <<Ci("addr", r.wo.his)>> ELSE <<>>)
                   [] OTHER -> r.rej]

(***************************************************************************)
(* ipcp_up.  The interface gets its addresses, or IPCP closes again.  No   *)
(* address of an instance is a loopback or a multicast one.                *)
(***************************************************************************)
\* Mutant of ipcp_up: the addresses are not checked.
ipcp_upUnchecked(o) ==
    [o |-> o, close |-> FALSE,
     net |-> [our |-> o.go.our, his |-> o.ho.his, vj |-> FALSE, takes |-> FALSE,
              dns |-> o.go.dns]]

ipcp_up(o) ==
    LET his == IF o.ho.neg \cap Addresses = {} THEN o.wo.his ELSE o.ho.his
        h == [o.ho EXCEPT !.his = IF his = 0 /\ ~o.noremoteip THEN FakeAddr ELSE his]
        g == [o.go EXCEPT !.dns = [i \in 1 .. 2 |->
                 IF (IF i = 1 THEN "dns1" ELSE "dns2") \in o.go.neg THEN @[i] ELSE 0]]
        refused == /\ o.go.neg \cap Addresses = {} /\ o.wo.neg \cap Addresses # {}
                   /\ o.wo.our # 0
    IN  IF refused \/ o.go.our = 0
        THEN [o |-> [o EXCEPT !.ho.his = his], close |-> TRUE, net |-> {}]
        ELSE [o |-> [o EXCEPT !.ho = h, !.go = g, !.wo.our = g.our], close |-> FALSE,
              net |-> [our |-> g.our, his |-> h.his, vj |-> "vj" \in h.neg,
                       takes |-> "vj" \in g.neg, dns |-> g.dns]]

(* ipcp_down: the interface goes down; the automaton is left as it is.     *)
ipcp_down(f) == f
=============================================================================
