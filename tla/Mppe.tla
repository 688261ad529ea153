-------------------------------- MODULE Mppe --------------------------------
(***************************************************************************)
(* Keeping two MPPE ends in step (mppe.c, and the Reset-Request part of    *)
(* ccp.c): one direction of a link, from the sender's compressor to the    *)
(* receiver's decompressor, with CCP's reset packets going both ways.      *)
(*                                                                         *)
(* A cipher is the number of times it was rekeyed, modulo Keys, and the    *)
(* number of packets encrypted since; a frame carries the cipher it was    *)
(* encrypted with, which the receiver cannot see.                          *)
(***************************************************************************)
EXTENDS Integers, Sequences, SequencesExt

CONSTANTS Space,      \* MPPE_CCOUNT_SPACE: coherency counts are 0 .. Space - 1
          Flag,       \* every Flag-th packet is a "flag" packet (256 in the code)
          Keys,       \* bound: ciphers are told apart modulo Keys
          SanityMax,  \* SANITY_MAX
          Modes,      \* the values of stateful to start with
          InFlight,   \* bound: frames on the link
          MaxLosses,  \* bound: frames and reset packets lost
          LoseReset,  \* may the frame flushed by a Reset-Request be lost or arrive after a loss?
          Reorder     \* may a frame overtake another?

MppeAssumption == Space % Flag = 0 /\ Keys >= Space /\ Modes \subseteq BOOLEAN

VARIABLES stateful,  \* the negotiated mode, the same at both ends
          comp,      \* the sender: ccount, cipher, the FLUSHED bit
          decomp,    \* the receiver: ccount, cipher, discard, sanity_errors
          ccp,       \* the receiver's CCP: reqid, RACK_PENDING, RREQ_REPEAT
          link,      \* frames on their way to the receiver
          requests,  \* Reset-Requests on their way to the sender
          acks,      \* Reset-Acks on their way to the receiver
          losses,
          last,      \* the last frame the receiver took: was it decrypted right?
          closed     \* the receiver has closed LCP

vars == <<stateful, comp, decomp, ccp, link, requests, acks, losses, last, closed>>

(* mppe_init.                                                              *)
Fresh == [key |-> 0, pos |-> 0]

Init ==
    /\ stateful \in Modes
    /\ comp = [ccount |-> Space - 1, cipher |-> Fresh, flushed |-> FALSE]
    /\ decomp = [ccount |-> Space - 1, cipher |-> Fresh, discard |-> FALSE, errs |-> 0]
    /\ ccp = [reqid |-> 0, pending |-> FALSE, repeat |-> FALSE]
    /\ link = <<>> /\ requests = <<>> /\ acks = <<>>
    /\ losses = 0 /\ last = "none" /\ closed = FALSE

mppe_rekey(c, times) ==
    IF times = 0 THEN c ELSE [key |-> (c.key + times) % Keys, pos |-> 0]
Crypted(c) == [c EXCEPT !.pos = (@ + 1) % Keys]

(***************************************************************************)
(* mppe_compress.  The cipher is changed for every packet in stateless     *)
(* mode, and in stateful mode for a "flag" packet and after a              *)
(* Reset-Request; the packet then has the FLUSHED bit.                     *)
(***************************************************************************)
IsFlag(c) == c % Flag = Flag - 1

mppe_compress ==
    LET c == (comp.ccount + 1) % Space
        flush == ~stateful \/ IsFlag(c) \/ comp.flushed
        cipher == mppe_rekey(comp.cipher, IF flush THEN 1 ELSE 0)
    IN  /\ Len(link) < InFlight /\ ~closed
        /\ link' = Append(link, [ccount |-> c, flushed |-> flush, cipher |-> cipher,
                                 reset |-> comp.flushed])
        /\ comp' = [ccount |-> c, cipher |-> Crypted(cipher), flushed |-> FALSE]
        /\ UNCHANGED <<stateful, decomp, ccp, requests, acks, losses, last, closed>>

(* ccp_resetrequest: one request at a time.                                *)
ccp_resetrequest ==
    IF ccp.pending
    THEN ccp' = [ccp EXCEPT !.repeat = TRUE] /\ UNCHANGED requests
    ELSE LET id == (ccp.reqid + 1) % 4
         IN  /\ ccp' = [ccp EXCEPT !.reqid = id, !.pending = TRUE]
             /\ requests' = Append(requests, id)

(* C's remainder of the difference of two counts: it has the sign of the   *)
(* difference.                                                             *)
Remainder(a, b) == IF a >= b THEN (a - b) % Space ELSE -((b - a) % Space)
Ahead(a, b) == (a - b) % Space

Take(frame, cipher, d) ==
    /\ decomp' = [d EXCEPT !.ccount = frame.ccount, !.cipher = Crypted(cipher),
                           !.errs = @ \div 2]
    /\ last' = IF cipher = frame.cipher THEN "right" ELSE "garbage"
    /\ UNCHANGED <<ccp, requests, closed>>

(* Stateless: rekey once for every packet that was sent.                   *)
Stateless(frame) ==
    IF Remainder(frame.ccount, decomp.ccount) > Space \div 2
    THEN /\ decomp' = [decomp EXCEPT !.errs = @ + 1]
         /\ closed' = (decomp.errs + 1 >= SanityMax)
         /\ UNCHANGED <<ccp, requests, last>>
    ELSE Take(frame, mppe_rekey(decomp.cipher, Ahead(frame.ccount, decomp.ccount)),
              decomp)

\* Mutant of Discarding: the missed "flag" packets are not made up for.
DiscardingForgets(frame) ==
    IF frame.flushed
    THEN Take(frame, mppe_rekey(decomp.cipher, 1), [decomp EXCEPT !.discard = FALSE])
    ELSE UNCHANGED <<decomp, ccp, requests, last, closed>>

(* Stateful, after a loss: wait for a flushed packet, and rekey once for   *)
(* every missed "flag" packet and once for this one.                       *)
Discarding(frame) ==
    LET missed == Ahead(frame.ccount \div Flag, decomp.ccount \div Flag)
                     % (Space \div Flag)
    IN  IF frame.flushed
        THEN Take(frame, mppe_rekey(mppe_rekey(decomp.cipher, missed), 1),
                  [decomp EXCEPT !.discard = FALSE])
        ELSE UNCHANGED <<decomp, ccp, requests, last, closed>>

(* Stateful, no loss so far.                                               *)
Normal(frame) ==
    LET d == [decomp EXCEPT !.ccount = (@ + 1) % Space]
    IN  IF frame.ccount = d.ccount
        THEN Take(frame, mppe_rekey(decomp.cipher, IF frame.flushed THEN 1 ELSE 0), d)
        ELSE /\ decomp' = [d EXCEPT !.discard = TRUE]
             /\ ccp_resetrequest
             /\ UNCHANGED <<last, closed>>

mppe_decompress(i) ==
    /\ i \in DOMAIN link /\ (Reorder \/ i = 1) /\ ~closed
    /\ link' = RemoveAt(link, i)
    /\ CASE ~stateful -> Stateless(link[i])
         [] stateful /\ decomp.discard -> Discarding(link[i])
         [] OTHER -> Normal(link[i])
    /\ UNCHANGED <<stateful, comp, acks, losses>>

(* ccp_extcode, at the sender: mppe_comp_reset only asks for the next      *)
(* packet to be flushed.                                                   *)
ResetRequest ==
    /\ requests # <<>>
    /\ comp' = [comp EXCEPT !.flushed = TRUE]
    /\ acks' = Append(acks, Head(requests))
    /\ requests' = Tail(requests)
    /\ UNCHANGED <<stateful, decomp, ccp, link, losses, last, closed>>

(* ccp_extcode, at the receiver: mppe_decomp_reset does nothing.           *)
ResetAck ==
    /\ acks # <<>>
    /\ acks' = Tail(acks)
    /\ ccp' = IF ccp.pending /\ Head(acks) = ccp.reqid
              THEN [ccp EXCEPT !.pending = FALSE, !.repeat = FALSE] ELSE ccp
    /\ UNCHANGED <<stateful, comp, decomp, link, requests, losses, last, closed>>

(* A second is longer than the packets are on their way.                   *)
ccp_rack_timeout ==
    /\ ccp.pending /\ requests = <<>> /\ acks = <<>>
    /\ requests' = IF ccp.repeat THEN <<ccp.reqid>> ELSE requests
    /\ ccp' = IF ccp.repeat THEN [ccp EXCEPT !.repeat = FALSE]
              ELSE [ccp EXCEPT !.pending = FALSE]
    /\ UNCHANGED <<stateful, comp, decomp, link, acks, losses, last, closed>>

(* Is a Reset-Request about to change the cipher of a receiver that takes  *)
(* packets again, because a "flag" packet came first?                      *)
ResetUnderWay ==
    /\ ~decomp.discard
    /\ \/ ccp.pending \/ comp.flushed \/ requests # <<>>
       \/ \E i \in DOMAIN link : link[i].reset

LoseFrame ==
    /\ link # <<>> /\ losses < MaxLosses
    /\ (Head(link).reset \/ ResetUnderWay) => LoseReset
    /\ link' = Tail(link) /\ losses' = losses + 1
    /\ UNCHANGED <<stateful, comp, decomp, ccp, requests, acks, last, closed>>

LoseRequest ==
    /\ requests # <<>> /\ losses < MaxLosses
    /\ requests' = Tail(requests) /\ losses' = losses + 1
    /\ UNCHANGED <<stateful, comp, decomp, ccp, link, acks, last, closed>>

LoseAck ==
    /\ acks # <<>> /\ losses < MaxLosses
    /\ acks' = Tail(acks) /\ losses' = losses + 1
    /\ UNCHANGED <<stateful, comp, decomp, ccp, link, requests, last, closed>>

Receive == \E i \in DOMAIN link : mppe_decompress(i)

Next == \/ mppe_compress \/ Receive \/ ResetRequest \/ ResetAck
        \/ ccp_rack_timeout \/ LoseFrame \/ LoseRequest \/ LoseAck

(* The sender goes on sending and the link delivers what it does not lose. *)
Fairness == /\ WF_vars(mppe_compress) /\ WF_vars(Receive)
            /\ WF_vars(ResetRequest) /\ WF_vars(ResetAck) /\ WF_vars(ccp_rack_timeout)

Spec == Init /\ [][Next]_vars /\ Fairness

(***************************************************************************)
(* Properties.                                                             *)
(***************************************************************************)

(* Every frame mppe_decompress hands up was decrypted with the cipher      *)
(* mppe_compress used, and a receiver that discards comes back: at the     *)
(* latest with the next "flag" packet, whether or not the Reset-Request    *)
(* that was sent, or its answer, got lost.                                 *)
InStep ==
    /\ [](last # "garbage")
    /\ decomp.discard ~> ~decomp.discard

(* The same, when the flushed packet that answers a Reset-Request may be   *)
(* lost as well: the receiver then cannot know how often the sender has    *)
(* rekeyed.                                                                *)
KnowsTheKey == last # "garbage"

(* A late packet is discarded: it does not move the receiver's cipher.     *)
LateDiscarded == [][\A i \in DOMAIN link :
    (/\ ~stateful /\ link' = RemoveAt(link, i)
     /\ Ahead(decomp.ccount, link[i].ccount) \in 1 .. (Space \div 2) - 1)
        => decomp'.cipher = decomp.cipher]_vars
=============================================================================
