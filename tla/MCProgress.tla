----------------------------- MODULE MCProgress -----------------------------
(***************************************************************************)
(* What must happen in the end, on instances small enough for liveness:    *)
(* the tcpip thread and its callers (Tcpip), sio.c with a modem that       *)
(* answers in time (Sio), the lookups of the DNS client (Dns) and the      *)
(* blocking calls of a netconn (Netconn).  A behaviour is one of them, and *)
(* the others stay as they were initialized.                               *)
(***************************************************************************)
EXTENDS Tcpip

CONSTANTS FirstTimeout, LaterTimeout, StepTimeout, QueueLen, BufferLen, FrameLen,
          MaxOwed,                                                \* of Sio
          Names, NoName, Size, Retries, NumIds, SeqWrap, Lookups, \* of Dns
          SndBuf, BoxSize, Writes, Items, MemErrors               \* of Netconn

VARIABLES part,
          rnsm, m_reboot_count, recvQueue, mntAt, count, rxPc, target, arrRxCharNb,
          lineStart, pppStarted, written, modem, registered, line,
          dns, asked,
          conn, pcb, app, core

sioVars == <<rnsm, m_reboot_count, recvQueue, mntAt, count, rxPc, target, arrRxCharNb,
             lineStart, pppStarted, written, modem, registered, line>>
dnsVars == <<dns, asked>>
netconnVars == <<conn, pcb, app, core>>

Sio == INSTANCE Sio WITH Prompt <- TRUE, owed <- line
Dns == INSTANCE Dns WITH Again <- [n \in 1 .. Lookups |-> NoName]
Netconn == INSTANCE Netconn WITH More <- FALSE,
               Vectors <- {<<1>>, <<2, 1>>}, Hows <- {{"RD"}, {"WR"}, {"RD", "WR"}}

ASSUME Dns!EnoughIds /\ Netconn!NetconnConstants

MCInit ==
    /\ part \in {"tcpip", "sio", "dns", "netconn"}
    /\ Init /\ Sio!Init /\ Dns!Init /\ Netconn!Init
    /\ part # "sio" => modem = "command"

MCNext ==
    /\ UNCHANGED part
    /\ \/ part = "tcpip" /\ Next /\ UNCHANGED <<sioVars, dnsVars, netconnVars>>
       \/ part = "sio" /\ Sio!Next /\ UNCHANGED <<vars, dnsVars, netconnVars>>
       \/ part = "dns" /\ Dns!Next /\ UNCHANGED <<vars, sioVars, netconnVars>>
       \/ part = "netconn" /\ Netconn!Next /\ UNCHANGED <<vars, sioVars, dnsVars>>

-----------------------------------------------------------------------------
(* The fairness of each component, required where it is the one that runs. *)
TcpipFairness ==
    LET On == part = "tcpip"
    IN  /\ WF_vars(On /\ Thread) /\ SF_vars(On /\ Locked(tcpip_thread))
        /\ \A t \in Callers : /\ WF_vars(On /\ sys_mbox_post(t))
                              /\ WF_vars(On /\ sys_mbox_trypost(t))
                              /\ SF_vars(On /\ Unlocked(t)) /\ SF_vars(On /\ Locked(t))
SioFairness ==
    LET On == part = "sio"
    IN  /\ WF_sioVars(On /\ Sio!Task) /\ WF_sioVars(On /\ Sio!Receiver)
        /\ WF_sioVars(On /\ Sio!Interrupt) /\ WF_sioVars(On /\ Sio!Register)
        /\ WF_sioVars(On /\ Sio!Booted) /\ WF_sioVars(On /\ Sio!SioWrite)
DnsFairness ==
    LET On == part = "dns"
    IN  []<>(On => Dns!NothingAsked) \/ []<><<On /\ Dns!dns_tmr>>_dnsVars
NetconnFairness ==
    LET On == part = "netconn"
    IN  /\ WF_netconnVars(On /\ Netconn!AppSteps) /\ WF_netconnVars(On /\ Netconn!CoreSteps)
        /\ WF_netconnVars(On /\ Netconn!HandshakeEnds)
        /\ WF_netconnVars(On /\ Netconn!Acknowledged)
        /\ WF_netconnVars(On /\ Netconn!poll_tcp) /\ WF_netconnVars(On /\ Netconn!RetryRefused)

MCSpec ==
    /\ MCInit
    /\ [][MCNext]_<<part, vars, sioVars, dnsVars, netconnVars>>
    /\ TcpipFairness /\ SioFairness /\ DnsFairness /\ NetconnFairness

\* Every blocking call returns, and a netconn becomes writable again (tcpip.c,
\* api_msg.c).
CallsReturn == TcpipCallsReturn /\ Netconn!CallsReturn /\ Netconn!WritableAgain

\* With a modem that answers in time the link comes up (sio.c).
LinkComesUp == part = "sio" => Sio!LinkComesUp

\* Every lookup gets its callback (dns.c).
LookupsAnswered == Dns!LookupsAnswered
=============================================================================
