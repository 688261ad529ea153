---------------------------- MODULE Negotiation ----------------------------
(***************************************************************************)
(* Two lwIP ends negotiating one of the PPP control protocols, or one end  *)
(* negotiating LCP with itself over a line that is looped back: FsmPair    *)
(* once for each protocol, with the protocol's callbacks, and what the     *)
(* protocols do besides.                                                   *)
(***************************************************************************)
EXTENDS Naturals, Sequences, SequencesExt

CONSTANTS IdSpace, MaxConfReq, MaxTermReq, MaxNakLoops,    \* of Fsm
          Options, MaxCloses, MaxFaults,                   \* of FsmPair
          DefMru, MinMru, Chars, LoopbackFail,             \* of LcpOptions
          MaxSlot, FakeAddr                                \* of IpcpOptions

VARIABLES fsm, net, wire, closes, faults

vars == <<fsm, net, wire, closes, faults>>

(***************************************************************************)
(* The protocols' callbacks: lcp_callbacks, ipcp_callbacks, ...            *)
(***************************************************************************)
Lcp    == INSTANCE LcpOptions
Ipcp   == INSTANCE IpcpOptions
Ipv6cp == INSTANCE SingleOptions
Ccp    == INSTANCE SingleOptions

(* ccp_open starts silent when nothing is asked for.                       *)
open_flags(o) == IF o.protocol = "ccp" THEN Ccp!ccp_open_flags(o) ELSE {}

LcpPair == INSTANCE FsmPair WITH
    resetci <- Lcp!lcp_resetci, cilen <- Lcp!lcp_cilen, addci <- Lcp!lcp_addci,
    reqci <- Lcp!lcp_reqci, ackci <- Lcp!lcp_ackci, nakci <- Lcp!lcp_nakci,
    rejci <- Lcp!lcp_rejci, up <- Lcp!lcp_up, down <- Lcp!lcp_down

IpcpPair == INSTANCE FsmPair WITH
    resetci <- Ipcp!ipcp_resetci, cilen <- Ipcp!ipcp_cilen, addci <- Ipcp!ipcp_addci,
    reqci <- Ipcp!ipcp_reqci, ackci <- Ipcp!ipcp_ackci, nakci <- Ipcp!ipcp_nakci,
    rejci <- Ipcp!ipcp_rejci, up <- Ipcp!ipcp_up, down <- Ipcp!ipcp_down

Ipv6cpPair == INSTANCE FsmPair WITH
    resetci <- Ipv6cp!ipv6cp_resetci, cilen <- Ipv6cp!ipv6cp_cilen,
    addci <- Ipv6cp!ipv6cp_addci, reqci <- Ipv6cp!ipv6cp_reqci,
    ackci <- Ipv6cp!ipv6cp_ackci, nakci <- Ipv6cp!ipv6cp_nakci,
    rejci <- Ipv6cp!ipv6cp_rejci, up <- Ipv6cp!ipv6cp_up, down <- Ipv6cp!ipv6cp_down

CcpPair == INSTANCE FsmPair WITH
    resetci <- Ccp!ccp_resetci, cilen <- Ccp!ccp_cilen, addci <- Ccp!ccp_addci,
    reqci <- Ccp!ccp_reqci, ackci <- Ccp!ccp_ackci, nakci <- Ccp!ccp_nakci,
    rejci <- Ccp!ccp_rejci, up <- Ccp!ccp_up, down <- Ccp!ccp_down

(* Options holds lines of every protocol; a line's protocol is that of its *)
(* ends.                                                                   *)
Protocol == fsm[1].o.protocol
End      == DOMAIN fsm
Peer(n)  == LcpPair!Peer(n)
Quiet    == LcpPair!Quiet

Init == LcpPair!Init

(***************************************************************************)
(* CCP's link was closed: ccp.c calls lcp_close.                           *)
(***************************************************************************)
Shut(n) == Protocol = "ccp" /\ fsm[n].o.shut

(* ccp_input closes a negotiation in which neither end asks for anything.  *)
NothingToDo(n) ==
    /\ wire[n] # <<>> /\ Head(wire[n]).code = "TERMACK"
    /\ fsm[n].state = "REQSENT" /\ fsm[n].o.go = {}

ccp_input(n) ==
    /\ ~Shut(n)
    /\ IF NothingToDo(n)
       THEN /\ CcpPair!Do(n, CcpPair!fsm_close(fsm[n]), [wire EXCEPT ![n] = Tail(@)])
            /\ UNCHANGED <<closes, faults>>
       ELSE CcpPair!Deliver(n)

(* ppp_input: all but LCP's packets are tossed unless LCP is open.         *)
Toss(n) ==
    /\ Shut(n) /\ wire[n] # <<>>
    /\ wire' = [wire EXCEPT ![n] = Tail(@)]
    /\ UNCHANGED <<fsm, net, closes, faults>>

(* LCP has been closed by the peer: upper_layers_down.                     *)
LinkDown(n) ==
    /\ Shut(Peer(n)) /\ ~Shut(n)
    /\ LET r == CcpPair!fsm_lowerdown(fsm[n]).f
       IN  fsm' = [fsm EXCEPT ![n] = [CcpPair!fsm_close(r).f EXCEPT !.o.shut = TRUE]]
    /\ net' = [net EXCEPT ![n] = {}]
    /\ UNCHANGED <<wire, closes, faults>>

CcpNext == \E n \in End :
    \/ ~Shut(n) /\ CcpPair!LowerUp(n)
    \/ ccp_input(n) \/ Toss(n) \/ LinkDown(n)
    \/ CcpPair!Lose(n) \/ CcpPair!Timeout(n) \/ CcpPair!Close(n)

(* lcp_reqci is the one that allocates a buffer for its answer.            *)
Next ==
    \/ Protocol = "lcp" /\ (LcpPair!Next \/ \E n \in End : LcpPair!DeliverNoMem(n))
    \/ Protocol = "ipcp" /\ IpcpPair!Next
    \/ Protocol = "ipv6cp" /\ Ipv6cpPair!Next
    \/ Protocol = "ccp" /\ CcpNext

Cut(n) == n \in End /\ Shut(Peer(n)) /\ ~Shut(n)

Spec == Init /\ [][Next]_vars /\ LcpPair!Fairness /\ \A n \in {1, 2} : []<>(~Cut(n))

(***************************************************************************)
(* Properties.  Each takes all lines of its protocol: what must hold       *)
(* whenever both ends have it open with nothing under way, and how the     *)
(* negotiation must end.                                                   *)
(***************************************************************************)
Opened  == LcpPair!Opened
Agreed  == Quiet /\ Opened
AtRest  == \A n \in End : fsm[n].state \in {"CLOSED", "STOPPED"}
Looped  == Len(fsm) = 1
Over(p) == Protocol = p /\ ~Looped

(* What an end may send the other can receive: packets no longer than its  *)
(* buffers, every character it would drop escaped, no header compressed    *)
(* that it would not take.                                                 *)
Receives(recv, send) ==
    /\ send.mru <= recv.mru
    /\ recv.map \subseteq send.map
    /\ send.pcomp => recv.pcomp
    /\ send.acomp => recv.acomp

(* Agreed LCP options fit: what lcp_up set each direction to is something  *)
(* the other end can receive, both ends have the same idea of who          *)
(* authenticates how, and they have different magic numbers; and with few  *)
(* enough losses the ends reach such an agreement and keep it, or, after a *)
(* Close, each comes to rest.                                              *)
LinkFits ==
    /\ [](Over("lcp") /\ Agreed => \A n \in End :
            LET a == fsm[n].o
                b == fsm[Peer(n)].o
            IN  /\ net[n] # {} /\ \A p \in net[n], q \in net[Peer(n)] :
                       p.mtu >= MinMru /\ Receives(q.recv, p.send)
                /\ b.go.neg \cap Lcp!Auths = {} <=> a.ho.neg \cap Lcp!Auths = {}
                /\ b.go.neg \cap Lcp!Auths # {} => Lcp!AuthOf(b.go) = Lcp!AuthOf(a.ho)
                /\ "magic" \in a.go.neg => a.go.magic # a.ho.magic)
    /\ <>[](Over("lcp") => \A n \in End :
            fsm[n].state \in IF closes = 0 THEN {"OPENED"}
                             ELSE {"OPENED", "STOPPED", "CLOSED"})

(* On a line that is looped back the link never comes up, and the end      *)
(* stops trying: it keeps refusing its own magic number, and closes when   *)
(* lcp_nakci has counted enough of that.                                   *)
LoopNoticed == [](Looped => ~Opened) /\ <>[](Looped => AtRest)

(* Two interfaces that are up with IPCP open have two addresses that are   *)
(* the other's the other way round; neither compresses headers for an end  *)
(* that did not ask for it, and a name server an end uses is one the other *)
(* offered.  Every negotiation is decided: both ends have IPCP open, or,   *)
(* when the addresses cannot be agreed on, neither has.                    *)
AddressesAgree ==
    /\ [](Over("ipcp") /\ Agreed => \A n \in End :
            /\ net[n] # {}
            /\ \A p \in net[n], q \in net[Peer(n)] :
                  /\ p.our # 0
                  /\ p.our = q.his \/ (q.his = 0 /\ fsm[Peer(n)].o.noremoteip)
                  /\ p.vj => q.takes
                  /\ \A i \in 1 .. 2 : p.dns[i] \in {0, fsm[Peer(n)].o.ao.dns[i]})
    /\ \/ <>[](Over("ipcp") => Opened)
       \/ <>[](Over("ipcp") => AtRest)

(* Whatever the line loses and whichever identifiers collide, IPV6CP comes *)
(* to be open at both ends or at neither; and whenever it is open at both, *)
(* both interfaces are configured, with two different identifiers, and     *)
(* each knows the identifier the other uses.                               *)
LinkLocalsAgree ==
    /\ [](Over("ipv6cp") /\ Agreed => \A n \in End :
            /\ net[n] # {}
            /\ \A p \in net[n], q \in net[Peer(n)] :
                  p.our = q.his /\ p.our # p.his /\ 0 \notin {p.our, p.his})
    /\ \/ <>[](Over("ipv6cp") => Opened)
       \/ <>[](Over("ipv6cp") => AtRest)

(* What an end encrypts with is what the other decrypts with whenever CCP  *)
(* is open at both with nothing under way; an end that requires encryption *)
(* is never open without it; and if the two cannot agree, or the line      *)
(* loses too much, the link is closed or CCP comes to rest: no end is      *)
(* left negotiating.                                                       *)
EncryptionAgrees ==
    /\ [](Over("ccp") => \A n \in End : \A c \in net[n] :
             /\ (fsm[n].o.require # {}) => (c.recv # {})
             /\ Agreed => \A d \in net[Peer(n)] : c.send = d.recv)
    /\ <>[](Over("ccp") => \A n \in End :
             Shut(n) \/ fsm[n].state \in {"OPENED", "STOPPED", "CLOSED"})

-----------------------------------------------------------------------------
(***************************************************************************)
(* The lines the model checker takes for Options.                          *)
(***************************************************************************)

(***************************************************************************)
(* LCP: a server that wants to be convinced, in any way the build has, and *)
(* that cannot receive one character; a client with small buffers, which   *)
(* sends no compressed protocol field, and which can do no authentication, *)
(* only PAP, or only one digest of CHAP.  The first magic numbers the ends *)
(* draw may be the same.                                                   *)
(***************************************************************************)
Base    == {"mru", "map", "magic", "pcomp", "acomp"}
Want    == [Lcp!Nothing EXCEPT !.neg = Base, !.mru = DefMru]
Allow   == [Lcp!Nothing EXCEPT !.neg = Base \cup {"endp"}, !.mru = DefMru]
Server  == [Want EXCEPT !.neg = @ \cup Lcp!Auths, !.md = {"md5", "ms2"}, !.map = {1}]
Client  == [Want EXCEPT !.mru = 1, !.neg = @ \ {"pcomp"}]
Careful == [Allow EXCEPT !.map = {2}, !.neg = @ \ {"acomp"}]
PapOnly == [Allow EXCEPT !.neg = @ \cup {"pap"}]
Ms2Only == [Allow EXCEPT !.neg = @ \cup {"chap"}, !.md = {"ms2"}]
Rand    == {<<>>, <<1>>}

MCLcp ==
    {<<Lcp!lcp_init(1, Server, Careful, r), Lcp!lcp_init(2, Client, a, r)>> :
        r \in Rand, a \in {Allow, PapOnly, Ms2Only}}

MCLooped == {<<Lcp!lcp_init(1, Want, Allow, r)>> : r \in Rand}

(***************************************************************************)
(* IPCP: a server that gives out an address and a name server, or that     *)
(* does not know the client's address; a client that asks for everything,  *)
(* has an address of its own, has its own idea of the server's address     *)
(* too, or does not care for it.                                           *)
(***************************************************************************)
MCIpcp ==
    {<<s, c>> : s \in {Ipcp!ipcp_init(1, 2, <<7, 0>>, FALSE, FALSE),
                       Ipcp!ipcp_init(1, 0, <<7, 8>>, FALSE, FALSE)},
                c \in {Ipcp!ipcp_init(0, 0, <<0, 0>>, TRUE, FALSE),
                       Ipcp!ipcp_init(3, 0, <<0, 0>>, FALSE, FALSE),
                       Ipcp!ipcp_init(2, 4, <<0, 0>>, TRUE, FALSE),
                       Ipcp!ipcp_init(0, 0, <<0, 0>>, TRUE, TRUE)}}

(***************************************************************************)
(* IPV6CP: ends that draw the same identifiers at first, have chosen one,  *)
(* want the other to have one, or both chose the same.                     *)
(***************************************************************************)
Ipv6cpEnds(who) ==
    {Ipv6cp!ipv6cp_init(who, 0, 0, <<1, 1, 2>>), Ipv6cp!ipv6cp_init(who, 0, 4, <<>>),
     Ipv6cp!ipv6cp_init(who, 4, 0, <<1>>), Ipv6cp!ipv6cp_init(who, 5, 5, <<>>)}

MCIpv6cp == {<<a, b>> : a \in Ipv6cpEnds(1), b \in Ipv6cpEnds(2)}

(***************************************************************************)
(* CCP: ends that ask for nothing, for either or both strengths, refuse    *)
(* stateful mode, or are of another make and ask for it.                   *)
(***************************************************************************)
CcpEnds ==
    {Ccp!ccp_init({}, FALSE), Ccp!ccp_init({"40"}, TRUE),
     Ccp!ccp_init({"40", "128"}, FALSE), Ccp!ccp_init({"128"}, TRUE),
     Ccp!ccp_init({"128", "stateful"}, FALSE)}

MCCcp == {<<a, b>> : a \in CcpEnds, b \in CcpEnds}

MCOptions == MCLcp \cup MCLooped \cup MCIpcp \cup MCIpv6cp \cup MCCcp
=============================================================================
