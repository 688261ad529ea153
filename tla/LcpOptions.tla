----------------------------- MODULE LcpOptions -----------------------------
(***************************************************************************)
(* The options LCP negotiates, and the callbacks with which lcp.c asks for *)
(* them, judges a request for them, and takes an answer to its own.        *)
(*                                                                         *)
(* An option set (wantoptions, gotoptions, allowoptions, hisoptions) is a  *)
(* record: neg is the set of the neg_xxx flags that are set, and mru, map  *)
(* (asyncmap, a set of characters), md (chap_mdtype, a set of digests) and *)
(* magic are the values.  A packet is a sequence of options [type, val] of *)
(* the right length.  The authentication protocols are the ones a build    *)
(* may have: a build without them wants and allows none.  Link quality and *)
(* multilink are in no build.                                              *)
(***************************************************************************)
EXTENDS Naturals, Sequences, FiniteSets, SequencesExt

CONSTANTS DefMru,        \* PPP_DEFMRU, PPP_MRU and PPP_MAXMRU, all 1500
          MinMru,        \* PPP_MINMRU
          Chars,         \* the characters an asyncmap is about
          LoopbackFail   \* settings.lcp_loopbackfail

(* The order in which the options go into a request.                       *)
Order == <<"mru", "map", "auth", "cbcp", "magic", "pcomp", "acomp", "ssnhf", "endp">>
Auths == {"eap", "chap", "pap"}
Digests == {"md5", "ms", "ms2", "none"}

Nothing == [neg |-> {}, mru |-> 0, map |-> {}, md |-> {}, magic |-> 0]

(***************************************************************************)
(* magic() is a pseudo-random number: the first draws of an end are chosen *)
(* as its options are created, so that two ends may draw the same, and     *)
(* after them it draws its own number.                                     *)
(***************************************************************************)
Magic(o)  == IF o.rand = <<>> THEN 10 + o.who ELSE Head(o.rand)
Drawn(o)  == [o EXCEPT !.rand = IF @ = <<>> THEN @ ELSE Tail(@)]

lcp_init(who, want, allow, rand) ==
    [protocol |-> "lcp", who |-> who, wo |-> want, go |-> Nothing, ao |-> allow,
     ho |-> Nothing, numloops |-> 0, rand |-> rand]

(* The user's settings have already gone into want and allow.              *)
lcp_resetci(o) ==
    LET w == [o.wo EXCEPT !.magic = Magic(o)]
    IN  [Drawn(o) EXCEPT !.wo = w, !.numloops = 0,
                         !.go = [w EXCEPT !.neg = @ \ {"ssnhf", "endp"}]]

(* CHAP_DIGEST: the digest an end asks for or suggests; "none" is its 0.   *)
CHAP_DIGEST(md) ==
    CASE "md5" \in md -> "md5"
      [] "md5" \notin md /\ "ms2" \in md -> "ms2"
      [] md = {"ms"} -> "ms"
      [] OTHER -> "none"

(* CHAP_MDTYPE: the lowest bit of the set, MS-CHAPv2 before MS-CHAP before *)
(* MD5.                                                                    *)
CHAP_MDTYPE(md) ==
    CASE "ms2" \in md -> {"ms2"}
      [] "ms2" \notin md /\ "ms" \in md -> {"ms"}
      [] OTHER -> md

(* Is option t part of the request g makes, and with which value?          *)
Asks(g, t) ==
    CASE t = "mru"  -> "mru" \in g.neg /\ g.mru # DefMru
      [] t = "map"  -> "map" \in g.neg /\ g.map # Chars
      [] t = "auth" -> g.neg \cap Auths # {}
      [] OTHER      -> t \in g.neg

AuthOf(g) ==
    CASE "eap" \in g.neg -> "eap"
      [] "eap" \notin g.neg /\ "chap" \in g.neg -> CHAP_DIGEST(g.md)
      [] OTHER -> "pap"

ValueOf(g, t) ==
    CASE t = "mru"   -> g.mru
      [] t = "map"   -> g.map
      [] t = "auth"  -> AuthOf(g)
      [] t = "magic" -> g.magic
      [] OTHER       -> 0

Ci(t, v) == [type |-> t, val |-> v]

lcp_cilen(o) == o

lcp_addci(o) ==
    LET asked == SelectSeq(Order, LAMBDA t : Asks(o.go, t))
    IN  [i \in 1 .. Len(asked) |-> Ci(asked[i], ValueOf(o.go, asked[i]))]

(* Every option, in the order and with the value it was asked for with.    *)
lcp_ackci(o, opt) == opt = lcp_addci(o)

(***************************************************************************)
(* lcp_nakci.  Each option of the request, in order, takes the first of    *)
(* the remaining refused options if it is that one; what then remains must *)
(* be options that were not asked for.                                     *)
(***************************************************************************)
(* The refused authentication protocol, and what the peer suggests: each   *)
(* refusal gives up one protocol or one digest.  (The test that the peer   *)
(* suggests the digest it refused, "cichar != CHAP_DIGEST(...)", is always *)
(* true: the macro's conditional expression is not in parentheses.)        *)
NakAuth(g, suggested) ==
    CASE suggested = "pap" /\ "eap" \in g.neg -> [g EXCEPT !.neg = @ \ {"eap"}]
      [] suggested = "pap" /\ "eap" \notin g.neg ->
             [g EXCEPT !.neg = @ \ {"chap"}]
      [] suggested \in Digests /\ "eap" \in g.neg ->
             [g EXCEPT !.neg = @ \ {"eap"},
                       !.md = IF suggested \in @ THEN {suggested} ELSE @]
      [] suggested \in Digests /\ {"eap", "chap"} \cap g.neg = {"chap"} ->
             LET md == IF suggested \in g.md THEN {suggested}
                       ELSE g.md \ CHAP_MDTYPE(g.md)
             IN  [g EXCEPT !.md = md, !.neg = IF md = {} THEN @ \ {"chap"} ELSE @]
      [] suggested \in Digests /\ {"eap", "chap"} \cap g.neg = {} ->
             [g EXCEPT !.neg = @ \ {"pap"}]
      [] suggested = "eap" /\ "eap" \in g.neg ->
             [g EXCEPT !.neg = @ \ {"eap"}]
      [] OTHER ->
             [g EXCEPT !.neg = @ \ {IF "chap" \in @ THEN "chap" ELSE "pap"}]

(* A refusal of PAP that suggests PAP.                                     *)
NakAuthBad(g, suggested) == suggested = "pap" /\ {"eap", "chap"} \cap g.neg = {}

NakOption(o, a, t) ==
    LET ci == Head(a.rest)
    IN  IF a.rest = <<>> \/ ~Asks(o.go, t) THEN a
        ELSE IF ci.type # t THEN a
        ELSE [rest |-> Tail(a.rest),
              looped |-> a.looped \/ t = "magic",
              bad |-> a.bad \/ (t = "auth" /\ NakAuthBad(o.go, ci.val)),
              try_ |->
                 CASE t = "mru"   -> [a.try_ EXCEPT !.mru =
                                        IF ci.val <= o.wo.mru \/ ci.val <= DefMru
                                        THEN ci.val ELSE @]
                   [] t = "map"   -> [a.try_ EXCEPT !.map = @ \cup ci.val]
                   [] t = "auth"  -> NakAuth(a.try_, ci.val)
                   [] t = "magic" -> [a.try_ EXCEPT !.magic = Magic(o)]
                   [] OTHER       -> [a.try_ EXCEPT !.neg = @ \ {t}]]

(* An option the peer wants to be asked for.                               *)
NakExtra(g, ci) ==
    CASE ci.type = "mru" /\ ci.val < DefMru ->
             [g EXCEPT !.neg = @ \cup {"mru"}, !.mru = ci.val]
      [] ci.type = "ssnhf" -> [g EXCEPT !.neg = @ \cup {"ssnhf"}]
      [] OTHER -> g

lcp_nakci(o, opened, opt, treat_as_reject) ==
    LET a == FoldLeft(LAMBDA acc, t : NakOption(o, acc, t),
                      [rest |-> opt, try_ |-> o.go, looped |-> FALSE, bad |-> FALSE],
                      Order)
        bad == \/ a.bad
               \/ \E i \in DOMAIN a.rest :
                     a.rest[i].type # "cbcp" /\ Asks(o.go, a.rest[i].type)
        try_ == FoldLeft(NakExtra, a.try_, a.rest)
        drawn == IF a.looped THEN Drawn(o) ELSE o
        loops == IF a.looped THEN o.numloops + 1 ELSE 0
    IN  IF bad \/ opened
        THEN [good |-> ~bad, o |-> drawn, close |-> "no"]
        ELSE [good |-> TRUE, o |-> [drawn EXCEPT !.go = try_, !.numloops = loops],
              close |-> IF a.looped /\ loops >= LoopbackFail THEN "self" ELSE "no"]

(***************************************************************************)
(* lcp_rejci.  The rejected options are taken off in the order they were   *)
(* asked for; a value that was not asked for, or an option out of order,   *)
(* makes the packet bad.  An MRU is looked at even when it was the default *)
(* and not sent, an asyncmap even when it was full.  A rejected CHAP gives *)
(* up PAP with it: the peer does not want to authenticate itself.          *)
(***************************************************************************)
Rejected(g, t) ==
    CASE t = "auth" /\ "eap" \in g.neg -> {"eap"}
      [] t = "auth" /\ "eap" \notin g.neg /\ "chap" \in g.neg -> Auths
      [] t = "auth" /\ {"eap", "chap"} \cap g.neg = {} -> {"pap"}
      [] OTHER -> {t}

lcp_rejci(o, opened, opt) ==
    LET Take(a, t) ==
            IF a.rest = <<>> \/ Rejected(o.go, t) \cap o.go.neg = {} THEN a
            ELSE IF Head(a.rest).type # t THEN a
            ELSE [rest |-> Tail(a.rest),
                  bad |-> a.bad \/ Head(a.rest).val # ValueOf(o.go, t),
                  neg |-> a.neg \ Rejected(o.go, t)]
        r == FoldLeft(Take, [rest |-> opt, bad |-> FALSE, neg |-> o.go.neg], Order)
        good == ~r.bad /\ r.rest = <<>>
    IN  [good |-> good, close |-> "no",
         o |-> IF good /\ ~opened THEN [o EXCEPT !.go.neg = r.neg] ELSE o]

(***************************************************************************)
(* lcp_reqci.  Judge gives the verdict on one option of the peer's, the    *)
(* hint that goes into a Configure-Nak, and hisoptions with the option.    *)
(***************************************************************************)
Ack(ho)   == [orc |-> "CONFACK", hint |-> 0, ho |-> ho]
Nak(ho, v) == [orc |-> "CONFNAK", hint |-> v, ho |-> ho]
Rej(ho)   == [orc |-> "CONFREJ", hint |-> 0, ho |-> ho]

(* What to suggest instead of p.                                           *)
Suggest(a, p) ==
    CASE p = "eap" -> IF "chap" \in a.neg THEN CHAP_DIGEST(a.md) ELSE "pap"
      [] p = "pap" -> IF "eap" \in a.neg THEN "eap" ELSE CHAP_DIGEST(a.md)
      [] OTHER -> CASE "chap" \in a.neg -> CHAP_DIGEST(a.md)
                    [] "chap" \notin a.neg /\ "eap" \in a.neg -> "eap"
                    [] OTHER -> "pap"

JudgeAuth(a, ho, p) ==
    LET kind == IF p \in {"eap", "pap"} THEN p ELSE "chap"
    IN  CASE a.neg \cap Auths = {} \/ (ho.neg \cap Auths) \ {kind} # {} -> Rej(ho)
          [] OTHER ->
               IF kind \notin a.neg \/ (kind = "chap" /\ p \notin a.md)
               THEN Nak(ho, Suggest(a, p))
               ELSE Ack([ho EXCEPT !.neg = @ \cup {kind},
                                   !.md = IF kind = "chap" THEN {p} ELSE @])

Judge(o, ho, ci) ==
    LET Noted(h) == [h EXCEPT !.neg = @ \cup {ci.type}]
    IN  CASE ci.type = "auth" -> JudgeAuth(o.ao, ho, ci.val)
          [] ci.type = "magic" /\ ci.type \notin o.ao.neg \cup o.go.neg -> Rej(ho)
          [] ci.type = "magic" /\ ci.type \in o.ao.neg \cup o.go.neg ->
                 IF "magic" \in o.go.neg /\ ci.val = o.go.magic
                 THEN Nak(ho, Magic(o))
                 ELSE Ack([Noted(ho) EXCEPT !.magic = ci.val])
          [] ci.type \notin {"auth", "magic"} /\ ci.type \notin o.ao.neg -> Rej(ho)
          [] ci.type = "mru" /\ ci.type \in o.ao.neg ->
                 IF ci.val < MinMru THEN Nak(ho, MinMru)
                 ELSE Ack([Noted(ho) EXCEPT !.mru = ci.val])
          [] ci.type = "map" /\ ci.type \in o.ao.neg ->
                 IF o.ao.map \subseteq ci.val
                 THEN Ack([Noted(ho) EXCEPT !.map = ci.val])
                 ELSE Nak(ho, o.ao.map \cup ci.val)
          [] OTHER -> Ack(Noted(ho))

\* Mutant of Final: an end fed up with Naks rejects a magic number as well.
FinalTough(reject_if_disagree, orc, t) ==
    IF orc = "CONFNAK" /\ reject_if_disagree THEN "CONFREJ" ELSE orc

Final(reject_if_disagree, orc, t) ==
    IF orc = "CONFNAK" /\ reject_if_disagree /\ t # "magic" THEN "CONFREJ" ELSE orc

Worse(rc, orc) ==
    CASE "CONFREJ" \in {rc, orc} -> "CONFREJ"
      [] "CONFREJ" \notin {rc, orc} /\ "CONFNAK" \in {rc, orc} -> "CONFNAK"
      [] OTHER -> "CONFACK"

lcp_reqci(o, req, reject_if_disagree, mem) ==
    LET Step(a, ci) ==
            LET j   == Judge(o, a.ho, ci)
                orc == Final(reject_if_disagree, j.orc, ci.type)
            IN  [ho |-> j.ho, rc |-> Worse(a.rc, orc),
                 nak |-> IF j.orc = "CONFNAK" THEN Append(a.nak, Ci(ci.type, j.hint))
                         ELSE a.nak,
                 rej |-> IF orc = "CONFREJ" THEN Append(a.rej, ci) ELSE a.rej]
        r == FoldLeft(Step, [ho |-> Nothing, rc |-> "CONFACK",
                             nak |-> <<>>, rej |-> <<>>], req)
        drew == \E i \in DOMAIN r.nak : r.nak[i].type = "magic"
    IN  IF ~mem
        THEN [code |-> "NONE", close |-> "no", opt |-> req, o |-> [o EXCEPT !.ho = Nothing]]
        ELSE [code |-> r.rc, close |-> "no", o |-> [(IF drew THEN Drawn(o) ELSE o) EXCEPT !.ho = r.ho],
              opt |-> CASE r.rc = "CONFACK" -> req
                        [] r.rc = "CONFNAK" -> r.nak
                        [] OTHER -> r.rej]

(***************************************************************************)
(* lcp_up: what the two directions of the link are set to.                 *)
(***************************************************************************)
Larger(a, b)  == IF a >= b THEN a ELSE b
Smaller(a, b) == IF a <= b THEN a ELSE b

\* Mutant of lcp_up: the sender is set to what this end can receive.
lcp_upOwn(o) ==
    LET Config(s) ==
            [mru |-> IF "mru" \in s.neg THEN s.mru ELSE DefMru,
             map |-> IF "map" \in s.neg THEN s.map ELSE Chars,
             pcomp |-> "pcomp" \in s.neg, acomp |-> "acomp" \in s.neg]
    IN  [o |-> o, close |-> FALSE,
         net |-> [send |-> Config(o.go), recv |-> Config(o.go), mtu |-> o.ao.mru]]

lcp_up(o) ==
    LET mtu == IF "mru" \in o.ho.neg THEN o.ho.mru ELSE DefMru
        mru == IF "mru" \in o.go.neg THEN Larger(o.wo.mru, o.go.mru) ELSE DefMru
        Config(s, m) ==
            [mru |-> m, map |-> IF "map" \in s.neg THEN s.map ELSE Chars,
             pcomp |-> "pcomp" \in s.neg, acomp |-> "acomp" \in s.neg]
        go == [o.go EXCEPT !.magic = IF "magic" \in o.go.neg THEN @ ELSE 0]
        ho == [o.ho EXCEPT !.magic = IF "magic" \in o.ho.neg THEN @ ELSE 0]
    IN  [o |-> [o EXCEPT !.go = go, !.ho = ho], close |-> FALSE,
         net |-> [send |-> Config(o.ho, mtu), recv |-> Config(o.go, mru),
                  mtu |-> Smaller(Smaller(mtu, mru), o.ao.mru)]]

(* lcp_down: the link's settings are reset and the layers above closed, of  *)
(* which this module has only the automaton, left as it is.                *)
lcp_down(f) == f
=============================================================================
