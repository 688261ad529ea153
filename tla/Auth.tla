-------------------------------- MODULE Auth --------------------------------
(***************************************************************************)
(* Authentication on a PPP link: the end "srv" asks for it with PAP, CHAP  *)
(* or EAP-MD5 and the end "cli" answers (upap.c, chap-new.c, eap.c), and   *)
(* auth.c moves each of them on to the network phase or closes the link.   *)
(* Both ends run the same code and may both ask (mutual).                  *)
(*                                                                         *)
(* LCP is reduced to what authentication sees of it: the link is up or     *)
(* down at each end, and an end that closes sends TERM, which LCP repeats  *)
(* until it arrives.  The line keeps the order of packets and may lose     *)
(* them; a timer may run out before an answer that is still on its way.    *)
(* A control block is one record, a C function an operator on it, and the  *)
(* packets it writes are collected in the field out.                       *)
(***************************************************************************)
EXTENDS Naturals, Sequences, FiniteSets

CONSTANTS Agreements,    \* what LCP may have agreed on: a method, and mutual or not
          Secrets,       \* what the client may have: "right", "wrong", "none"
          MaxTransmits,  \* pap_max_transmits, chap_max_transmits, eap_max_transmits
          AllowReq,      \* eap_allow_req
          Rechallenge,   \* chap_rechallenge_time # 0
          EapAgain,      \* es_rechallenge # 0 (a peer that asks again)
          IdSpace,       \* the ids that one byte holds
          Challenges,    \* how many challenges are told apart
          MaxFaults,     \* lost packets, failed allocations, closed links
          MaxSessions    \* how often the link comes up

VARIABLES pcb,      \* the two control blocks
          chan,     \* chan[e]: the packets on their way to end e
          method, mutual, secret,
          faults, sessions,
          nomem     \* has an allocation failed?

vars == <<pcb, chan, method, mutual, secret, faults, sessions, nomem>>

Ends == {"srv", "cli"}
Other(e) == IF e = "srv" THEN "cli" ELSE "srv"

(* The authentications LCP has agreed on: go->neg_x at an end that asks,   *)
(* ho->neg_x at an end that is asked.                                      *)
AsksPeer(e)  == e = "srv" \/ mutual
AskedByPeer(e) == e = "cli" \/ mutual

upap_init == [cs |-> "INITIAL", ss |-> "INITIAL", id |-> 0, tx |-> 0,
              ct |-> 0, st |-> 0]
chap_init == [cf |-> {}, sf |-> {}, id |-> 0, cid |-> 0, chal |-> 0,
              xmits |-> 0, t |-> 0]
eap_init  == [cs |-> "Initial", ss |-> "Initial", id |-> 0, creq |-> 0,
              sreq |-> 0, chal |-> 0, ct |-> 0, st |-> 0, rt |-> 0]

(* verified: the response of the peer has been found right in this         *)
(* session; refused: it has been found wrong.                              *)
ppp_new ==
    [lcp |-> "down", phase |-> "DEAD", pending |-> {}, np_open |-> 0,
     is_open |-> FALSE, upap |-> upap_init, chap |-> chap_init,
     eap |-> eap_init, out |-> <<>>, verified |-> FALSE, refused |-> FALSE]

Init ==
    /\ pcb = [e \in Ends |-> ppp_new]
    /\ chan = [e \in Ends |-> <<>>]
    /\ \E a \in Agreements : method = a.method /\ mutual = a.mutual
    /\ secret \in Secrets
    /\ faults = 0 /\ sessions = 0 /\ nomem = FALSE

ppp_write(p, m) == [p EXCEPT !.out = Append(@, m)]

(* sys_untimeout removes one entry of the list of timers, if there is one. *)
UNTIMEOUT(n) == IF n = 0 THEN 0 ELSE n - 1

(***************************************************************************)
(* The link goes down (auth.c, and the lowerdown entry of each protocol).  *)
(***************************************************************************)
upap_lowerdown(p) ==
    [p EXCEPT !.upap.ct = IF p.upap.cs = "AUTHREQ" THEN UNTIMEOUT(@) ELSE @,
              !.upap.st = IF p.upap.ss = "LISTEN" THEN UNTIMEOUT(@) ELSE @,
              !.upap.cs = "INITIAL", !.upap.ss = "INITIAL"]

chap_lowerdown(p) ==
    [p EXCEPT !.chap.t = IF "TIMEOUT_PENDING" \in p.chap.sf THEN UNTIMEOUT(@) ELSE @,
              !.chap.cf = {}, !.chap.sf = {}]

eap_client_active(p) == p.eap.cs = "Listen"
eap_server_active(p) == p.eap.ss \in {"Identify", "MD5Chall"}

eap_lowerdown(p) ==
    [p EXCEPT !.eap.ct = IF eap_client_active(p) THEN UNTIMEOUT(@) ELSE @,
              !.eap.st = IF eap_server_active(p) THEN UNTIMEOUT(@) ELSE @,
              !.eap.rt = IF p.eap.ss = "Open" /\ EapAgain THEN UNTIMEOUT(@) ELSE @,
              !.eap.cs = "Initial", !.eap.ss = "Initial",
              !.eap.creq = 0, !.eap.sreq = 0]

upper_layers_down(p) ==
    [eap_lowerdown(chap_lowerdown(upap_lowerdown(p)))
        EXCEPT !.np_open = 0, !.is_open = FALSE]

link_down(p) == [upper_layers_down(p) EXCEPT !.phase = "ESTABLISH"]

lcp_close(p) ==
    IF p.lcp = "down" THEN p
    ELSE [link_down(ppp_write(p, [proto |-> "LCP", code |-> "TERM"]))
             EXCEPT !.lcp = "down"]

(***************************************************************************)
(* What the protocols report to auth.c.                                    *)
(***************************************************************************)
auth_peer_fail(p)     == lcp_close(p)
auth_withpeer_fail(p) == lcp_close(p)

start_networks(p) ==
    [p EXCEPT !.phase = "NETWORK", !.np_open = @ + 1, !.is_open = TRUE]

network_phase(p) == start_networks(p)

\* Mutant of AuthDone: whether all are done is asked before this one is taken off.
AuthDoneAskedFirst(p, bit) ==
    LET q == [p EXCEPT !.pending = @ \ {bit}]
    IN  IF p.pending = {} THEN network_phase(q) ELSE q

(* auth_peer_success and auth_withpeer_success.                            *)
AuthDone(p, bit) ==
    LET q == [p EXCEPT !.pending = @ \ {bit}]
    IN  IF q.pending = {} THEN network_phase(q) ELSE q

auth_peer_success(p)     == AuthDone(p, "peer")
auth_withpeer_success(p) == AuthDone(p, "withpeer")

np_finished(p) ==
    LET q == [p EXCEPT !.np_open = @ - 1]
    IN  IF q.np_open = 0 THEN lcp_close(q) ELSE q

(* auth_check_passwd, and get_secret with the digest: the answer was made  *)
(* with the secret both ends should share, for this challenge.             *)
verify_response(m, chal) == m.secret = "right" /\ m.chal = chal

auth_check_passwd(m) == m.secret = "right"

Judged(p, ok) ==
    [p EXCEPT !.verified = @ \/ ok, !.refused = @ \/ ~ok]

SecretOf(e) == IF e = "cli" THEN secret ELSE "right"

Packet(proto, code, id) ==
    [proto |-> proto, code |-> code, id |-> id, type |-> "-", chal |-> 0,
     secret |-> "-"]

NextId(i) == (i + 1) % IdSpace
NextChallenge(c) == (c + 1) % Challenges

(***************************************************************************)
(* PAP (upap.c).  mem: does pbuf_alloc succeed?                            *)
(***************************************************************************)
upap_sauthreq(p, e, mem) ==
    IF ~mem THEN p
    ELSE ppp_write([p EXCEPT !.upap.id = NextId(@), !.upap.ct = @ + 1,
                             !.upap.tx = @ + 1, !.upap.cs = "AUTHREQ"],
                   [Packet("PAP", "REQ", NextId(p.upap.id)) EXCEPT !.secret = SecretOf(e)])

upap_authwithpeer(p, e, mem) ==
    LET q == [p EXCEPT !.upap.tx = 0]
    IN  CASE SecretOf(e) = "none" -> p
          [] SecretOf(e) # "none" /\ p.upap.cs \in {"INITIAL", "PENDING"} ->
                 [q EXCEPT !.upap.cs = "PENDING"]
          [] OTHER -> upap_sauthreq(q, e, mem)

upap_authpeer(p) ==
    IF p.upap.ss \in {"INITIAL", "PENDING"} THEN [p EXCEPT !.upap.ss = "PENDING"]
    ELSE [p EXCEPT !.upap.ss = "LISTEN", !.upap.st = @ + 1]

upap_lowerup(p, e, mem) ==
    LET q == IF p.upap.cs = "INITIAL" THEN [p EXCEPT !.upap.cs = "CLOSED"]
             ELSE IF p.upap.cs = "PENDING" THEN upap_sauthreq(p, e, mem) ELSE p
    IN  IF p.upap.ss = "INITIAL" THEN [q EXCEPT !.upap.ss = "CLOSED"]
        ELSE IF p.upap.ss = "PENDING"
             THEN [q EXCEPT !.upap.ss = "LISTEN", !.upap.st = @ + 1] ELSE q

upap_timeout(p, e, mem) ==
    CASE p.upap.cs # "AUTHREQ" -> p
      [] p.upap.cs = "AUTHREQ" /\ p.upap.tx >= MaxTransmits ->
             auth_withpeer_fail([p EXCEPT !.upap.cs = "BADAUTH"])
      [] OTHER -> upap_sauthreq(p, e, mem)

upap_reqtimeout(p) ==
    IF p.upap.ss # "LISTEN" THEN p
    ELSE [auth_peer_fail(p) EXCEPT !.upap.ss = "BADAUTH"]

upap_sresp(p, code, id, mem) ==
    IF mem THEN ppp_write(p, Packet("PAP", code, id)) ELSE p

upap_rauthreq(p, m, mem) ==
    LET ok == auth_check_passwd(m)
        q  == upap_sresp(Judged(p, ok), IF ok THEN "ACK" ELSE "NAK", m.id, mem)
        r  == IF ok THEN auth_peer_success([q EXCEPT !.upap.ss = "OPEN"])
              ELSE auth_peer_fail([q EXCEPT !.upap.ss = "BADAUTH"])
    IN  CASE p.upap.ss = "OPEN"    -> upap_sresp(p, "ACK", m.id, mem)
          [] p.upap.ss = "BADAUTH" -> upap_sresp(p, "NAK", m.id, mem)
          [] p.upap.ss = "LISTEN"  -> [r EXCEPT !.upap.st = UNTIMEOUT(@)]
          [] OTHER -> p

upap_rauthack(p) ==
    IF p.upap.cs # "AUTHREQ" THEN p
    ELSE auth_withpeer_success([p EXCEPT !.upap.cs = "OPEN"])

upap_rauthnak(p) ==
    IF p.upap.cs # "AUTHREQ" THEN p
    ELSE auth_withpeer_fail([p EXCEPT !.upap.cs = "BADAUTH"])

upap_input(p, m, mem) ==
    CASE m.code = "REQ" -> upap_rauthreq(p, m, mem)
      [] m.code = "ACK" -> upap_rauthack(p)
      [] OTHER          -> upap_rauthnak(p)

upap_protrej(p) ==
    LET q == IF p.upap.cs = "AUTHREQ" THEN auth_withpeer_fail(p) ELSE p
    IN  upap_lowerdown(IF q.upap.ss = "LISTEN" THEN auth_peer_fail(q) ELSE q)

(***************************************************************************)
(* CHAP (chap-new.c).                                                      *)
(***************************************************************************)
chap_generate_challenge(p) ==
    [p EXCEPT !.chap.id = NextId(@), !.chap.cid = NextId(p.chap.id),
              !.chap.chal = NextChallenge(@)]

(* The challenge is sent, for the first time or again.                     *)
SendChallenge(p, mem) ==
    IF ~mem THEN p
    ELSE ppp_write([p EXCEPT !.chap.xmits = @ + 1, !.chap.t = @ + 1,
                             !.chap.sf = @ \cup {"TIMEOUT_PENDING"}],
                   [Packet("CHAP", "CHALLENGE", p.chap.cid) EXCEPT !.chal = p.chap.chal])

chap_timeout(p, mem) ==
    LET q == [p EXCEPT !.chap.sf = @ \ {"TIMEOUT_PENDING"}]
    IN  CASE "CHALLENGE_VALID" \notin q.chap.sf ->
                 SendChallenge([chap_generate_challenge(q) EXCEPT
                     !.chap.xmits = 0, !.chap.sf = @ \cup {"CHALLENGE_VALID"}], mem)
          [] "CHALLENGE_VALID" \in q.chap.sf /\ q.chap.xmits >= MaxTransmits ->
                 auth_peer_fail([q EXCEPT !.chap.sf = (@ \ {"CHALLENGE_VALID"})
                                              \cup {"AUTH_DONE", "AUTH_FAILED"}])
          [] OTHER -> SendChallenge(q, mem)

chap_lowerup(p, mem) ==
    LET q == [p EXCEPT !.chap.cf = @ \cup {"LOWERUP"}, !.chap.sf = @ \cup {"LOWERUP"}]
    IN  IF "AUTH_STARTED" \in q.chap.sf THEN chap_timeout(q, mem) ELSE q

(* chap_server.id starts from a random number in the code.                 *)
chap_auth_peer(p, mem) ==
    LET q == [p EXCEPT !.chap.sf = @ \cup {"AUTH_STARTED"}]
    IN  CASE "AUTH_STARTED" \in p.chap.sf -> p
          [] "AUTH_STARTED" \notin p.chap.sf /\ "LOWERUP" \in p.chap.sf ->
                 chap_timeout(q, mem)
          [] OTHER -> q

chap_auth_with_peer(p) == [p EXCEPT !.chap.cf = @ \cup {"AUTH_STARTED"}]

(* The flags are written after auth_peer_fail has closed the link.         *)
Concluded(p) ==
    LET q == [p EXCEPT !.chap.sf = @ \ {"CHALLENGE_VALID"}]
        s == IF "AUTH_DONE" \in q.chap.sf THEN q ELSE auth_peer_success(q)
        r == IF "AUTH_FAILED" \in q.chap.sf THEN auth_peer_fail(q)
             ELSE IF Rechallenge
                  THEN [s EXCEPT !.chap.sf = @ \cup {"TIMEOUT_PENDING"},
                                 !.chap.t = @ + 1]
                  ELSE s
    IN  [r EXCEPT !.chap.sf = @ \cup {"AUTH_DONE"}]

chap_handle_response(p, m, mem) ==
    LET valid == "CHALLENGE_VALID" \in p.chap.sf
        ok == verify_response(m, p.chap.chal)
        u == [p EXCEPT !.chap.t = IF "TIMEOUT_PENDING" \in p.chap.sf
                                  THEN UNTIMEOUT(@) ELSE @,
                       !.chap.sf = (@ \ {"TIMEOUT_PENDING"})
                                     \cup (IF ok THEN {} ELSE {"AUTH_FAILED"})]
        q == IF valid THEN Judged(u, ok) ELSE p
        code == IF "AUTH_FAILED" \in q.chap.sf THEN "FAILURE" ELSE "SUCCESS"
        w == ppp_write(q, Packet("CHAP", code, m.id))
    IN  IF \/ "LOWERUP" \notin p.chap.sf
           \/ m.id # p.chap.cid
           \/ ~valid /\ "AUTH_DONE" \notin p.chap.sf
        THEN p
        ELSE IF ~mem THEN q
        ELSE IF valid THEN Concluded(w) ELSE w

chap_respond(p, e, m, mem) ==
    IF ~mem \/ ~({"LOWERUP", "AUTH_STARTED"} \subseteq p.chap.cf) THEN p
    ELSE ppp_write(p, [Packet("CHAP", "RESPONSE", m.id) EXCEPT
                          !.chal = m.chal, !.secret = SecretOf(e)])

chap_handle_status(p, code) ==
    LET q == [p EXCEPT !.chap.cf = @ \cup {"AUTH_DONE"}]
    IN  IF p.chap.cf \cap {"AUTH_DONE", "AUTH_STARTED", "LOWERUP"}
              # {"AUTH_STARTED", "LOWERUP"} THEN p
        ELSE IF code = "SUCCESS" THEN auth_withpeer_success(q)
        ELSE auth_withpeer_fail([q EXCEPT !.chap.cf = @ \cup {"AUTH_FAILED"}])

chap_input(p, e, m, mem) ==
    CASE m.code = "CHALLENGE" -> chap_respond(p, e, m, mem)
      [] m.code = "RESPONSE"  -> chap_handle_response(p, m, mem)
      [] OTHER                -> chap_handle_status(p, m.code)

chap_protrej(p) ==
    LET q == [p EXCEPT !.chap.t = IF "TIMEOUT_PENDING" \in p.chap.sf
                                  THEN UNTIMEOUT(@) ELSE @,
                       !.chap.sf = @ \ {"TIMEOUT_PENDING"}]
        r == IF "AUTH_STARTED" \in q.chap.sf
             THEN auth_peer_fail([q EXCEPT !.chap.sf = {}]) ELSE q
    IN  IF r.chap.cf \cap {"AUTH_STARTED", "AUTH_DONE"} = {"AUTH_STARTED"}
        THEN auth_withpeer_fail([r EXCEPT !.chap.cf = @ \ {"AUTH_STARTED"}]) ELSE r
(***************************************************************************)
(* EAP with MD5-Challenge (eap.c; the SRP parts are compiled out).         *)
(***************************************************************************)
eap_send_failure(p, mem) ==
    IF ~mem THEN p
    ELSE auth_peer_fail(ppp_write([p EXCEPT !.eap.id = NextId(@), !.eap.ss = "BadAuth"],
                                  Packet("EAP", "FAILURE", NextId(p.eap.id))))

eap_send_success(p, mem) ==
    IF ~mem THEN p
    ELSE auth_peer_success(ppp_write([p EXCEPT !.eap.id = NextId(@)],
                                     Packet("EAP", "SUCCESS", NextId(p.eap.id))))

eap_figure_next_state(p, status, mem) ==
    LET next == CASE p.eap.ss = "Identify" /\ status = 0 -> "MD5Chall"
                  [] p.eap.ss = "MD5Chall" /\ status = 0 -> "Open"
                  [] OTHER -> "BadAuth"
        q == [p EXCEPT !.eap.ss = next]
    IN  IF p.eap.ss = "BadAuth" THEN p
        ELSE IF next = "BadAuth" THEN eap_send_failure(q, mem) ELSE q

eap_send_request(p, mem) ==
    LET q == IF p.eap.ss \in {"Pending", "Closed", "Listen"}
             THEN [p EXCEPT !.eap.ss = "Identify"] ELSE p
        md5 == q.eap.ss = "MD5Chall"
        chal == IF md5 THEN NextChallenge(q.eap.chal) ELSE q.eap.chal
    IN  CASE q.eap.sreq >= MaxTransmits -> eap_send_failure(q, mem)
          [] q.eap.sreq < MaxTransmits /\ mem /\ eap_server_active(q) ->
                 ppp_write([q EXCEPT !.eap.sreq = @ + 1, !.eap.st = @ + 1,
                                     !.eap.chal = chal],
                           [Packet("EAP", "REQUEST", q.eap.id) EXCEPT
                               !.type = IF md5 THEN "MD5CHAP" ELSE "IDENTITY",
                               !.chal = IF md5 THEN chal ELSE 0])
          [] OTHER -> q

eap_authpeer(p, mem) ==
    LET q == [p EXCEPT !.eap.ss = "Pending"]
    IN  IF p.eap.ss \in {"Initial", "Pending"} THEN q ELSE eap_send_request(q, mem)

eap_authwithpeer(p) == [p EXCEPT !.eap.cs = "Listen", !.eap.ct = @ + 1]

eap_lowerup(p) == [p EXCEPT !.eap.cs = "Closed", !.eap.ss = "Closed"]

eap_client_timeout(p) ==
    IF ~eap_client_active(p) THEN p
    ELSE [auth_withpeer_fail(p) EXCEPT !.eap.cs = "BadAuth"]

eap_server_timeout(p, mem) ==
    IF eap_server_active(p) THEN eap_send_request(p, mem) ELSE p

eap_rechallenge(p, mem) ==
    IF p.eap.ss # "Open" THEN p
    ELSE LET q == eap_figure_next_state([p EXCEPT !.eap.sreq = 0,
                                                  !.eap.ss = "Identify"], 0, mem)
         IN  eap_send_request([q EXCEPT !.eap.id = NextId(@)], mem)

eap_protrej(p) ==
    LET q == IF eap_client_active(p) THEN auth_withpeer_fail(p) ELSE p
    IN  eap_lowerdown(IF eap_server_active(q) THEN auth_peer_fail(q) ELSE q)

(* eap_send_response, eap_chap_response and eap_send_nak: without the      *)
(* secret an MD5-Challenge is refused.                                     *)
eap_answer(p, e, m, mem) ==
    LET type == IF m.type = "MD5CHAP" /\ SecretOf(e) = "none" THEN "NAK" ELSE m.type
    IN  IF ~mem THEN p
        ELSE ppp_write(p, [Packet("EAP", "RESPONSE", m.id) EXCEPT
                              !.type = type, !.chal = m.chal,
                              !.secret = IF type = "MD5CHAP" THEN SecretOf(e) ELSE "-"])

eap_request(p, e, m, mem) ==
    LET q == [p EXCEPT !.eap.creq = @ + 1]
    IN  IF AllowReq # 0 /\ q.eap.creq > AllowReq
        THEN auth_withpeer_fail([q EXCEPT !.eap.ct = UNTIMEOUT(@)])
        ELSE [eap_answer(q, e, m, mem) EXCEPT !.eap.ct = UNTIMEOUT(@) + 1]

(* An MD5 response in the state that waits for one.                        *)
MD5Response(p, m, mem) ==
    LET ok == verify_response(m, p.eap.chal)
        q  == Judged(p, ok)
        s  == eap_figure_next_state(eap_send_success(q, mem), 0, mem)
    IN  IF ~ok THEN eap_send_failure(q, mem)
        ELSE [s EXCEPT !.eap.rt = IF EapAgain THEN @ + 1 ELSE @]

eap_response(p, m, mem) ==
    LET q == CASE m.type = "IDENTITY" /\ p.eap.ss = "Identify" ->
                      eap_figure_next_state(p, 0, mem)
               [] m.type = "IDENTITY" /\ p.eap.ss # "Identify" -> p
               [] m.type = "NAK" /\ p.eap.ss = "Identify" ->
                      eap_figure_next_state(p, 1, mem)
               [] m.type = "NAK" /\ p.eap.ss # "Identify" ->
                      eap_figure_next_state([p EXCEPT !.eap.ss = "Identify"], 0, mem)
               [] m.type = "MD5CHAP" /\ p.eap.ss = "MD5Chall" -> MD5Response(p, m, mem)
               [] OTHER -> eap_figure_next_state(p, 1, mem)
        r == [q EXCEPT !.eap.st = UNTIMEOUT(@)]
    IN  CASE m.id # p.eap.id -> p
          [] m.id = p.eap.id /\ r.eap.ss \in {"BadAuth", "Open"} -> r
          [] OTHER -> eap_send_request([r EXCEPT !.eap.id = NextId(@)], mem)

eap_success(p) ==
    IF p.eap.cs # "Open" /\ ~eap_client_active(p) THEN p
    ELSE auth_withpeer_success([p EXCEPT !.eap.ct = UNTIMEOUT(@), !.eap.cs = "Open"])

eap_failure(p) ==
    auth_withpeer_fail([p EXCEPT !.eap.ct = UNTIMEOUT(@), !.eap.cs = "BadAuth"])

eap_input(p, e, m, mem) ==
    CASE m.code = "REQUEST"  -> eap_request(p, e, m, mem)
      [] m.code = "RESPONSE" -> eap_response(p, m, mem)
      [] m.code = "SUCCESS"  -> eap_success(p)
      [] OTHER               -> eap_failure(p)

(***************************************************************************)
(* The link comes up (auth.c).                                             *)
(***************************************************************************)
StartPeer(p, mem) ==
    CASE method = "EAP"  -> eap_authpeer(p, mem)
      [] method = "CHAP" -> chap_auth_peer(p, mem)
      [] OTHER           -> upap_authpeer(p)

StartWithPeer(p, e, mem) ==
    CASE method = "EAP"  -> eap_authwithpeer(p)
      [] method = "CHAP" -> chap_auth_with_peer(p)
      [] OTHER           -> upap_authwithpeer(p, e, mem)

link_established(p, e, mem) ==
    LET up == eap_lowerup(chap_lowerup(upap_lowerup(p, e, mem), mem))
        a  == [up EXCEPT !.phase = "AUTHENTICATE"]
        s  == IF AsksPeer(e) THEN StartPeer(a, mem) ELSE a
        w  == IF AskedByPeer(e) THEN StartWithPeer(s, e, mem) ELSE s
    IN  [w EXCEPT !.pending = (IF AsksPeer(e) THEN {"peer"} ELSE {})
                                 \cup (IF AskedByPeer(e) THEN {"withpeer"} ELSE {})]

(***************************************************************************)
(* The actions.                                                            *)
(***************************************************************************)
(* Mem: an allocation that fails is one of the faults.                     *)
Step(e, Do(_, _), ch) ==
    \E mem \in BOOLEAN :
        LET p == Do(pcb[e], mem)
            f == IF mem THEN 0 ELSE 1
        IN  /\ faults + f <= MaxFaults
            /\ (~mem => Do(pcb[e], TRUE) # p)
            /\ faults' = faults + f /\ nomem' = (nomem \/ ~mem)
            /\ pcb' = [pcb EXCEPT ![e] = [p EXCEPT !.out = <<>>]]
            /\ chan' = [ch EXCEPT ![Other(e)] = @ \o p.out]
    
Ending == \E e \in Ends : \E i \in DOMAIN chan[e] : chan[e][i].proto = "LCP"

(* LCP has drained the line of the packets of an earlier session.          *)
LinkUp(e) ==
    /\ pcb[e].lcp = "down"
    /\ \/ pcb[Other(e)].lcp = "up" /\ ~Ending
       \/ chan = [x \in Ends |-> <<>>] /\ sessions < MaxSessions
    /\ sessions' = IF pcb[Other(e)].lcp = "up" THEN sessions ELSE sessions + 1
    /\ Step(e, LAMBDA p, mem : link_established([p EXCEPT !.lcp = "up",
                  !.verified = FALSE, !.refused = FALSE], e, mem), chan)
    /\ UNCHANGED <<method, mutual, secret>>

(* ppp_input: only LCP is heard on a link that is not up.                  *)
Handle(p, e, m, mem) ==
    CASE p.lcp = "down" -> p
      [] p.lcp = "up" /\ m.proto = "LCP" -> [link_down(p) EXCEPT !.lcp = "down"]
      [] p.lcp = "up" /\ m.proto = "PAP" -> upap_input(p, m, mem)
      [] p.lcp = "up" /\ m.proto = "CHAP" -> chap_input(p, e, m, mem)
      [] OTHER -> eap_input(p, e, m, mem)

Receive(e) ==
    /\ chan[e] # <<>>
    /\ Step(e, LAMBDA p, mem : Handle(p, e, Head(chan[e]), mem),
            [chan EXCEPT ![e] = Tail(@)])
    /\ UNCHANGED <<method, mutual, secret, sessions>>

Lose(e) ==
    /\ chan[e] # <<>> /\ Head(chan[e]).proto # "LCP" /\ faults < MaxFaults
    /\ chan' = [chan EXCEPT ![e] = Tail(@)]
    /\ faults' = faults + 1
    /\ UNCHANGED <<pcb, method, mutual, secret, sessions, nomem>>

Timers == {"papc", "paps", "chap", "eapc", "eaps", "eapr"}
Pending(p, t) == CASE t = "papc" -> p.upap.ct [] t = "paps" -> p.upap.st
                   [] t = "chap" -> p.chap.t  [] t = "eapc" -> p.eap.ct
                   [] t = "eaps" -> p.eap.st  [] OTHER      -> p.eap.rt

Expire(p, e, t, mem) ==
    CASE t = "papc" -> upap_timeout([p EXCEPT !.upap.ct = @ - 1], e, mem)
      [] t = "paps" -> upap_reqtimeout([p EXCEPT !.upap.st = @ - 1])
      [] t = "chap" -> chap_timeout([p EXCEPT !.chap.t = @ - 1], mem)
      [] t = "eapc" -> eap_client_timeout([p EXCEPT !.eap.ct = @ - 1])
      [] t = "eaps" -> eap_server_timeout([p EXCEPT !.eap.st = @ - 1], mem)
      [] OTHER      -> eap_rechallenge([p EXCEPT !.eap.rt = @ - 1], mem)

Timer(e, t) ==
    /\ Pending(pcb[e], t) > 0
    /\ Step(e, LAMBDA p, mem : Expire(p, e, t, mem), chan)
    /\ UNCHANGED <<method, mutual, secret, sessions>>

Protrej(p) ==
    CASE method = "PAP"  -> upap_protrej(p)
      [] method = "CHAP" -> chap_protrej(p)
      [] OTHER           -> eap_protrej(p)

(* ppp_close, a Protocol-Reject for the method, or the last network        *)
(* protocol that gives up.                                                 *)
Disturb(e) ==
    /\ pcb[e].lcp = "up" /\ faults < MaxFaults
    /\ \E p \in {lcp_close(pcb[e]), Protrej(pcb[e])}
                \cup (IF pcb[e].is_open
                      THEN {np_finished([pcb[e] EXCEPT !.is_open = FALSE])} ELSE {}) :
          /\ pcb' = [pcb EXCEPT ![e] = [p EXCEPT !.out = <<>>]]
          /\ chan' = [chan EXCEPT ![Other(e)] = @ \o p.out]
    /\ faults' = faults + 1
    /\ UNCHANGED <<method, mutual, secret, sessions, nomem>>

(* ppp_set_auth between two sessions.                                      *)
MendSecret ==
    /\ secret # "right"
    /\ \A e \in Ends : pcb[e].lcp = "down"
    /\ secret' = "right"
    /\ UNCHANGED <<pcb, chan, method, mutual, faults, sessions, nomem>>

Next ==
    \/ \E e \in Ends : LinkUp(e) \/ Receive(e) \/ Lose(e) \/ Disturb(e)
    \/ \E e \in Ends, t \in Timers : Timer(e, t)

(* A packet on the line arrives, a timer runs out, and the link that is up *)
(* at one end comes up at the other or goes down again.                    *)
Arrives(e) == chan[e] # <<>> /\ chan'[e] = Tail(chan[e])
Moved(e)   == \/ pcb'[e].upap # pcb[e].upap
              \/ pcb'[e].chap # pcb[e].chap
              \/ pcb'[e].eap # pcb[e].eap

Fair ==
    /\ \A e \in Ends :
          /\ []<>(chan[e] = <<>>) \/ []<><<Arrives(e)>>_vars
          /\ \/ []<>(pcb[e].lcp = "up" \/ pcb[Other(e)].lcp = "down")
             \/ []<><<pcb'[e].lcp # pcb[e].lcp>>_vars
    /\ \A e \in Ends, t \in Timers :
          []<>(Pending(pcb[e], t) = 0) \/ []<><<Moved(e)>>_vars

Spec == Init /\ [][Next]_vars /\ Fair

(* The secret may be mended between two sessions.                          *)
SpecMend == Init /\ [][Next \/ MendSecret]_vars
(***************************************************************************)
(* Properties.                                                             *)
(***************************************************************************)
Running(e) == pcb[e].lcp = "up" /\ pcb[e].phase = "NETWORK"

(* An end that asked runs its network protocols only after an answer made  *)
(* with the right secret for its own challenge, and an end that was asked  *)
(* only once the other has accepted it.  Both take every authentication    *)
(* that was agreed on, and the network protocols are started once.  The    *)
(* right secret is never refused by PAP or CHAP.                           *)
Sound ==
    \A e \in Ends :
        /\ Running(e) =>
              /\ AsksPeer(e) => pcb[e].verified /\ SecretOf(Other(e)) = "right"
              /\ AskedByPeer(e) =>
                    pcb[Other(e)].verified \/ pcb[Other(e)].lcp = "down"
              /\ pcb[e].pending = {} /\ pcb[e].np_open = 1
        /\ pcb[e].refused /\ method # "EAP" => SecretOf(Other(e)) # "right"

(* Authentication is sound, and it is decided: an end whose link is up     *)
(* comes to the network phase or its link goes down, whatever packets are  *)
(* lost and however timers and answers cross (auth_peer_success,           *)
(* auth_peer_fail and their counterparts), unless memory ran out.          *)
AuthDecided ==
    /\ []Sound
    /\ \A e \in Ends :
          (pcb[e].lcp = "up") ~> (Running(e) \/ pcb[e].lcp = "down" \/ nomem)

(* upap.c and eap.c of the lower layer going down: "Cancel all timeouts".  *)
TimersCancelled ==
    \A e \in Ends : pcb[e].lcp = "down" => \A t \in Timers : Pending(pcb[e], t) = 0

(* np_finished when the last network protocol is done: "no further use for *)
(* the link: shut up shop".                                                *)
LinkShut == \A e \in Ends : Running(e) => pcb[e].is_open

(* auth_peer_success: a peer that has been told of its success has been    *)
(* authenticated, and this end goes on to the network phase.               *)
SuccessCounts ==
    \A e \in Ends :
        pcb[e].lcp = "up" /\ pcb[e].verified /\ ~nomem => Running(e)

(* eap_server_timeout retransmits a Request: the answer to it is the       *)
(* answer to the Request, and the right secret is accepted.                *)
RightAccepted == \A e \in Ends : pcb[e].refused => SecretOf(Other(e)) # "right"

=============================================================================
