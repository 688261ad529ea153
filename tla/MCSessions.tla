----------------------------- MODULE MCSessions -----------------------------
(***************************************************************************)
(* How sessions end, for liveness: a PPP session that watches its peer     *)
(* (Ppp) and the two control blocks of a TCP connection (TcpConn).  A      *)
(* behaviour is one of them, and the other stays as it was initialized.    *)
(***************************************************************************)
EXTENDS Ppp

CONSTANTS Wnd, MaxRtx, SynMaxRtx, MaxPcbs                         \* of TcpConn

VARIABLES part, ends, users, net, accepted

connVars == <<ends, users, net, accepted>>

MCWatching == {[silent |-> FALSE, passive |-> FALSE, listen |-> FALSE, echo |-> TRUE]}

\* Nothing is written; the client may shut its sending side, and the server
\* may find no memory for its FIN.
Conn == INSTANCE TcpConn WITH Units <- [c |-> 0, s |-> 0],
            Late <- {"c", "s"}, Shuts <- {"c"}, Short <- {"s"},
            pcb <- ends, app <- users, pcbs <- accepted

ASSUME Conn!WindowHolds

MCInit == part \in {"ppp", "conn"} /\ PppInit /\ Conn!Init

MCNext ==
    \/ part = "ppp" /\ PppNext /\ UNCHANGED <<part, connVars>>
    \/ part = "conn" /\ Conn!Next /\ UNCHANGED <<part, sessionVars>>

\* The fairness of each component, required where it is the one that runs.
PppFair ==
    LET On == part = "ppp"
    IN  /\ WF_sessionVars(On /\ HoldoffTimer) /\ WF_sessionVars(On /\ DelayedTimer)
        /\ WF_sessionVars(On /\ LcpTimer) /\ WF_sessionVars(On /\ IpcpTimer)
        /\ WF_sessionVars(On /\ LcpEchoTimeout)
ConnFairness ==
    LET On == part = "conn"
    IN  \A e \in {"c", "s"} :
           /\ []<>(On => ~ Conn!SlowDue(e))
                 \/ []<><<On /\ Conn!tcp_slowtmr(e, TRUE, TRUE)>>_connVars
           /\ []<>(On => ~ Conn!MayClose(e)) \/ []<><<On /\ Conn!tcp_close(e, TRUE)>>_connVars
           /\ []<>(On => ends[e].flags \cap {"ACK_DELAY", "CLOSEPEND"} = {})
                 \/ []<><<On /\ Conn!tcp_fasttmr(e, TRUE)>>_connVars

MCSpec == /\ MCInit /\ [][MCNext]_<<part, sessionVars, connVars>>
          /\ PppFair /\ ConnFairness

\* Both control blocks of a connection are freed in the end (tcp.c).
AllFreed == Conn!AllFreed
=============================================================================
