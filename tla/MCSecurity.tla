----------------------------- MODULE MCSecurity -----------------------------
(***************************************************************************)
(* What protects a PPP link: the authentication protocols (Auth) and the   *)
(* encryption of the packets (Mppe).  A behaviour is one of them, and the  *)
(* other stays as it was initialized.                                      *)
(***************************************************************************)
EXTENDS Auth

CONSTANTS Space, Flag, Keys, SanityMax, Modes, InFlight, MaxLosses   \* of Mppe

VARIABLES part,
          stateful, comp, decomp, ccp, link, requests, acks, losses, last, closed

mppeVars == <<stateful, comp, decomp, ccp, link, requests, acks, losses, last, closed>>

Mppe == INSTANCE Mppe WITH LoseReset <- FALSE, Reorder <- FALSE

ASSUME Mppe!MppeAssumption

\* Every method with one end asking, and PAP with both.
MCAgreements == {[method |-> m, mutual |-> FALSE] : m \in {"PAP", "CHAP", "EAP"}}
                    \cup {[method |-> "PAP", mutual |-> TRUE]}

MCInit ==
    /\ part \in {"auth", "mppe"}
    /\ Init /\ Mppe!Init
    /\ part # "auth" => method = "PAP" /\ ~mutual /\ secret = "right"
    /\ part # "mppe" => stateful

MCNext ==
    \/ part = "auth" /\ Next /\ UNCHANGED <<part, mppeVars>>
    \/ part = "mppe" /\ Mppe!Next /\ UNCHANGED <<part, vars>>

MCSpec ==
    /\ MCInit /\ [][MCNext]_<<part, vars, mppeVars>>
    /\ \/ part = "auth" /\ Fair
       \/ part = "mppe" /\ Mppe!Fairness

\* Frames are decrypted with the cipher they were encrypted with (mppe.c).
InStep == Mppe!InStep
=============================================================================
