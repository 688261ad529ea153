------------------------------- MODULE MCApi --------------------------------
(***************************************************************************)
(* The sequential API: select and poll (Select) over two sockets, the      *)
(* netconn behind a socket (Netconn) and the TCP connection behind that    *)
(* (TcpConn).  A behaviour is one of them, and the others stay as they     *)
(* were initialized.                                                       *)
(***************************************************************************)
EXTENDS Select

CONSTANTS SndBuf, RecvMbox, Writes, Items, MemErrors,          \* of Netconn
          Wnd, MaxRtx, SynMaxRtx, MaxPcbs, Late                \* of TcpConn

VARIABLES part, conn, pcb, app, callback,
          ends, users, net, accepted

netconnVars == <<conn, pcb, app, callback>>
connVars == <<ends, users, net, accepted>>

\* The first socket listens; a call asks for one socket or for both.
MCKinds == <<{"rcvplus"}, {"sendplus", "sendminus", "error"}>>
MCBoth == {<<{"r"}, {"w", "e"}>>}
MCSome == {<<{"r"}, {}>>, <<{}, {"w"}>>}

Netconn == INSTANCE Netconn WITH
              BoxSize <- RecvMbox, More <- FALSE, core <- callback,
              Vectors <- {<<1>>, <<2, 1>>}, Hows <- {{"RD"}, {"WR"}, {"RD", "WR"}}

\* One unit from the client.
Conn == INSTANCE TcpConn WITH
            Units <- [c |-> 1, s |-> 0], Shuts <- {}, Short <- {},
            pcb <- ends, app <- users, pcbs <- accepted

ASSUME Netconn!NetconnConstants /\ Conn!WindowHolds

MCInit == part \in {"select", "netconn", "conn"} /\ Init /\ Netconn!Init /\ Conn!Init

MCNext ==
    \/ part = "select" /\ Next /\ UNCHANGED <<part, netconnVars, connVars>>
    \/ part = "netconn" /\ Netconn!Next /\ UNCHANGED <<part, vars, connVars>>
    \/ part = "conn" /\ Conn!Next /\ UNCHANGED <<part, vars, netconnVars>>

\* The application, the netconn and its mailbox agree (api_msg.c).
ConnectionSound == Netconn!ConnectionSound

\* What TCP has acknowledged has been delivered (tcp_in.c).
ClosedMeansDelivered == Conn!ClosedMeansDelivered
=============================================================================
