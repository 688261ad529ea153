-------------------------------- MODULE MCTcp -------------------------------
(***************************************************************************)
(* The two halves of a TCP connection: the receiving half (TcpReceive) and *)
(* the sending half (TcpSend).  A behaviour is one of them, each with its  *)
(* own external peer, and the other stays as it was initialized.           *)
(***************************************************************************)
EXTENDS TcpReceive

CONSTANTS SndBuf, QueueLen, DupThresh, CwndMax, Total, Lens, Copies,
          Windows, MaxAcks, Budget, FirstWindows                \* of TcpSend

VARIABLES part, sender, sendPeer, acks, budget

sendVars == <<sender, sendPeer, acks, budget>>

Send == INSTANCE TcpSend WITH pcb <- sender, peer <- sendPeer,
            RexmitRefused <- FALSE, CloseEarly <- FALSE

ASSUME Send!TcpSendAssumption

MCInit == part \in {"receive", "send"} /\ Init /\ Send!Init

MCNext ==
    \/ part = "receive" /\ Next /\ UNCHANGED <<part, sendVars>>
    \/ part = "send" /\ Send!Next /\ UNCHANGED <<part, vars>>

\* Send!Fairness, evaluated where the sender runs.
Sends == part = "send"
SendFairness ==
    /\ []<>(Sends => Send!AtRest) \/ []<><<Sends /\ Send!SystemStep>>_sendVars
    /\ []<>(Sends => Send!NoneFits) \/ []<><<Sends /\ sender'.lbb > sender.lbb>>_sendVars
    /\ []<>(Sends => Send!NoneHelps) \/ []<><<Sends /\ Send!WriteStep>>_sendVars
    /\ WF_sendVars(Sends /\ Send!PeerRead)

MCSpec ==
    /\ MCInit /\ [][MCNext]_<<part, vars, sendVars>>
    /\ (part = "receive" /\ Fairness) \/ (Sends /\ SendFairness)

\* The queues and windows of both halves are sound (tcp_in.c, tcp_out.c).
QueuesSound == ReceiverSound /\ Send!SendQueues

\* Both halves' streams are delivered to the end.
StreamsComplete == /\ part = "receive" => StreamCompletes
                   /\ part = "send" => Send!AllDelivered
=============================================================================
