------------------------------- MODULE MCCore -------------------------------
(***************************************************************************)
(* The core of the stack: the pbufs that packets are made of (Pbuf), their *)
(* fragmentation and reassembly (Reass), and the timers (Timeouts).  A     *)
(* behaviour is one of them, and the others stay as they were initialized. *)
(***************************************************************************)
EXTENDS Pbuf

CONSTANTS RouterMtu, Unit, PbufSize, MaxPbufs, MaxEntries,
          MaxAge, MaxTicks, MaxRepeats, MaxCuts,                  \* of Reass
          Wrap, TcpInterval, Shots, Delays, MaxBusy               \* of Timeouts

VARIABLES part,
          ver, unsent, wire, list, count, given, exceeded, failed, used,
          now, q, left, armed, pc, t0, due, firing, wake, busy, active, pcbs, app

reassVars == <<ver, unsent, wire, list, count, given, exceeded, failed, used>>
timerVars == <<now, q, left, armed, pc, t0, due, firing, wake, busy, active, pcbs, app>>

(* Datagrams of two hosts, in chains of pbufs cut at odd places.           *)
Data(s, i, lens) ==
    [k \in DOMAIN lens |-> [j \in 1..lens[k] |->
        <<s, i, j + FoldLeft(LAMBDA a, b : a + b, 0, SubSeq(lens, 1, k - 1))>>]]
D(s, i, lens) == [src |-> s, id |-> i, chain |-> Data(s, i, lens)]

Reass == INSTANCE Reass WITH
            Datagrams <- {D(1, 1, <<1, 6>>), D(2, 1, <<3>>), D(1, 2, <<3>>)},
            Mtus <- [v \in {4, 6} |-> IF v = 4 THEN {4} ELSE {2}]

Timeouts == INSTANCE Timeouts WITH Cyclic <- [dns |-> 2]

ASSUME Timeouts!TimesFit

MCInit ==
    /\ part \in {"pbuf", "reass", "timers"}
    /\ Init /\ Reass!Init /\ Timeouts!Init
    /\ part # "reass" => ver = 4
    /\ part # "timers" => now = 0

MCNext ==
    \/ part = "pbuf" /\ Next /\ UNCHANGED <<part, reassVars, timerVars>>
    \/ part = "reass" /\ Reass!Next /\ UNCHANGED <<part, vars, timerVars>>
    \/ part = "timers" /\ Timeouts!Next /\ UNCHANGED <<part, vars, reassVars>>

\* Timers are kept, in order, and none is overdue for long (timeouts.c).
TimersSound == Timeouts!TimersSound

\* Whole datagrams are handed on, and the bounds hold (ip4_frag.c, ip6_frag.c).
ReassemblySound == Reass!ReassemblySound
=============================================================================
