------------------------------- MODULE Reass -------------------------------
(***************************************************************************)
(* Fragmentation and reassembly of IP datagrams (ip4_frag.c, ip6_frag.c):  *)
(* senders cut datagrams to the MTU of the link, routers cut IPv4          *)
(* fragments again, the network loses, repeats and reorders the pieces,    *)
(* and the receiver puts the datagrams together within its bounds of       *)
(* entries, pbufs and time.                                                *)
(***************************************************************************)
EXTENDS Naturals, Sequences, FiniteSets, FiniteSetsExt, SequencesExt

CONSTANTS Datagrams,   \* records [src, id, chain]: chain[i] the bytes of pbuf i
          Mtus,        \* for each version of IP: payload bytes of a packet on the
                       \* sender's link
          RouterMtu,   \* and on a later link (IPv4)
          Unit,        \* bytes of a unit of the fragment offset (8)
          PbufSize,    \* bytes of a pbuf of the receiver's pool
          MaxPbufs,    \* IP_REASS_MAX_PBUFS
          MaxEntries,  \* MEMP_NUM_REASSDATA
          MaxAge,      \* IP_REASS_MAXAGE
          MaxTicks, MaxRepeats, MaxCuts  \* bounds of a behaviour

VARIABLES ver,      \* the version of IP, fixed in a behaviour
          unsent,   \* datagrams still to be sent
          wire,     \* fragments on their way; one never received is lost
          list,     \* reassdatagrams
          count,    \* ip_reass_pbufcount
          given,    \* datagrams given to the upper layer: [src, id, bytes, len, hdr]
          exceeded, \* ICMP time exceeded messages: the header offset they quote
          failed,   \* an assertion failed
          used      \* [ticks, repeats, cuts] so far

vars == <<ver, unsent, wire, list, count, given, exceeded, failed, used>>

Init ==
    /\ ver \in DOMAIN Mtus
    /\ unsent = Datagrams /\ wire = {} /\ list = <<>> /\ count = 0
    /\ given = {} /\ exceeded = {} /\ failed = FALSE
    /\ used = [ticks |-> 0, repeats |-> 0, cuts |-> 0]

V6 == ver = 6

Smaller(a, b) == IF a < b THEN a ELSE b

(***************************************************************************)
(* Sending.  The data of a fragment is taken from the chain of pbufs by    *)
(* reference: Take walks from offset poff of pbuf p until n bytes are had. *)
(***************************************************************************)
RECURSIVE Take(_, _, _, _)
Take(chain, p, poff, n) ==
    LET k == Smaller(n, Len(chain[p]) - poff)
        r == Take(chain, p + 1, 0, n - k)
    IN  IF k = n THEN [data |-> SubSeq(chain[p], poff + 1, poff + k), p |-> p, poff |-> poff + k]
        ELSE [r EXCEPT !.data = SubSeq(chain[p], poff + 1, poff + k) \o @]

(* off counts units; mf_set: the packet was a fragment already; ok of the  *)
(* pieces find memory, then ip4_frag returns ERR_MEM.                      *)
RECURSIVE ip4_frag(_, _, _, _, _, _, _, _)
ip4_frag(d, p, poff, left, ofo, mf_set, mtu, ok) ==
    LET nfb   == mtu \div Unit
        size  == Smaller(left, nfb * Unit)
        t     == Take(d.chain, p, poff, size)
        last  == left <= mtu
        piece == [src |-> d.src, id |-> d.id, off |-> ofo * Unit, mf |-> ~last \/ mf_set,
                  data |-> t.data]
    IN  IF left = 0 \/ ok = 0 THEN {}
        ELSE {piece} \cup ip4_frag(d, t.p, t.poff, left - size, ofo + nfb, mf_set, mtu, ok - 1)

RECURSIVE ip6_frag(_, _, _, _, _, _, _)
ip6_frag(d, p, poff, left, off, mtu, ok) ==
    LET nfb  == (mtu \div Unit) * Unit
        last == left <= nfb
        cop  == IF last THEN left ELSE nfb
        t    == Take(d.chain, p, poff, cop)
    IN  IF left = 0 \/ ok = 0 THEN {}
        ELSE {[src |-> d.src, id |-> d.id, off |-> off, mf |-> ~last, data |-> t.data]}
                 \cup ip6_frag(d, t.p, t.poff, left - cop, off + cop, mtu, ok - 1)

Bytes(d) == FlattenSeq(d.chain)

Frag(d, mtu, ok) ==
    IF V6 THEN ip6_frag(d, 1, 0, Len(Bytes(d)), 0, mtu, ok)
    ELSE ip4_frag(d, 1, 0, Len(Bytes(d)), 0, FALSE, mtu, ok)

Send ==
    \E d \in unsent, mtu \in Mtus[ver] : \E ok \in {1, Len(Bytes(d))} :
        /\ unsent' = unsent \ {d}
        /\ wire' = wire \cup Frag(d, mtu, ok)
        /\ UNCHANGED <<ver, list, count, given, exceeded, failed, used>>

(* A router with a smaller MTU cuts a fragment again; a copy of the whole  *)
(* fragment may come another way.                                          *)
Recut ==
    /\ ~V6 /\ used.cuts < MaxCuts
    /\ \E f \in wire, keep \in BOOLEAN :
          LET d == [src |-> f.src, id |-> f.id, chain |-> <<f.data>>]
          IN  /\ Len(f.data) > RouterMtu
              /\ wire' = (IF keep THEN wire ELSE wire \ {f})
                            \cup ip4_frag(d, 1, 0, Len(f.data), f.off \div Unit, f.mf,
                                          RouterMtu, Len(f.data))
    /\ used' = [used EXCEPT !.cuts = @ + 1]
    /\ UNCHANGED <<ver, unsent, list, count, given, exceeded, failed>>

(***************************************************************************)
(* The receiver.  Its state is a record s of list, count, given, exceeded  *)
(* and failed.                                                             *)
(***************************************************************************)
Pbufs(f) == (Len(f.data) + PbufSize - 1) \div PbufSize
Held(e)  == FoldLeft(LAMBDA n, f : n + Pbufs(f), 0, e.frags)
Start(f) == f.off
End(f)   == f.off + Len(f.data)
Match(e, f) == e.src = f.src /\ e.id = f.id

Without(q, i) == SubSeq(q, 1, i - 1) \o SubSeq(q, i + 1, Len(q))

(* A fragment with offset 0 at the head goes back in an ICMP message, with *)
(* the header kept in the entry.                                           *)
ip_reass_free_complete_datagram(s, i) ==
    LET e == s.list[i]
    IN  [s EXCEPT !.list = Without(@, i),
                  !.exceeded = IF Start(e.frags[1]) = 0 THEN @ \cup {e.hdr} ELSE @,
                  !.failed = @ \/ s.count < Held(e),
                  !.count = @ - Held(e)]

(* The oldest of the candidates, the later one in the list if they tie.    *)
Oldest(q, cand) ==
    LET age == {i \in cand : \A j \in cand : q[i].timer <= q[j].timer}
    IN  Max(age)

RECURSIVE ip_reass_remove_oldest_datagram(_, _, _, _)
ip_reass_remove_oldest_datagram(s, f, needed, freed) ==
    LET others == {i \in DOMAIN s.list : ~Match(s.list[i], f)}
        i      == Oldest(s.list, others)
        done   == ip_reass_free_complete_datagram(s, i)
        n      == freed + Held(s.list[i])
    IN  IF others = {} THEN [s |-> s, freed |-> freed]
        ELSE IF n < needed /\ Cardinality(others) > 1
             THEN ip_reass_remove_oldest_datagram(done, f, needed, n)
             ELSE [s |-> done, freed |-> n]

(* ip6_reass_remove_oldest_datagram: ipr is the position of the entry to   *)
(* keep, or 0.  The search starts with the head, whichever it is.          *)
RECURSIVE ip6_reass_remove_oldest_datagram(_, _, _)
ip6_reass_remove_oldest_datagram(s, ipr, needed) ==
    LET i    == Oldest(s.list, {j \in DOMAIN s.list : j # ipr \/ j = 1})
        done == ip_reass_free_complete_datagram(s, i)
        keep == IF i < ipr THEN ipr - 1 ELSE ipr
    IN  IF s.list = <<>> \/ i = ipr THEN s
        ELSE IF done.count + needed > MaxPbufs /\ done.list # <<>>
             THEN ip6_reass_remove_oldest_datagram(done, keep, needed)
             ELSE done

(* The fragment overlaps a neighbour, or starts where one starts.          *)
Overlaps(e, f) ==
    \E i \in DOMAIN e.frags :
        LET q == e.frags[i]
        IN  \/ Start(f) = Start(q)
            \/ Start(f) > Start(q) /\ Start(f) < End(q)
            \/ Start(f) < Start(q) /\ End(f) > Start(q)

Before(e, f) == Cardinality({i \in DOMAIN e.frags : Start(e.frags[i]) < Start(f)})
Inserted(e, f) ==
    LET k == Before(e, f)
    IN  SubSeq(e.frags, 1, k) \o <<f>> \o SubSeq(e.frags, k + 1, Len(e.frags))

Meets(frags, i) == End(frags[i]) = Start(frags[i + 1])

\* Mutant of Valid4: the first fragment need not be there.
Valid4AnyStart(e, f, frags) ==
    /\ ~f.mf \/ e.last
    /\ \A i \in 1..(Len(frags) - 1) : Meets(frags, i)

(* ip_reass_chain_frag_into_datagram_and_validate compares every fragment  *)
(* with the next one; the last one must have been seen.                    *)
Valid4(e, f, frags) ==
    /\ ~f.mf \/ e.last
    /\ Start(frags[1]) = 0
    /\ \A i \in 1..(Len(frags) - 1) : Meets(frags, i)

(* ip6_reass does not compare the new fragment with the one before it when *)
(* it is not the last of the list.                                         *)
Valid6(e, f, frags) ==
    LET k == Before(e, f)
    IN  /\ ~f.mf \/ e.dlen # 0
        /\ Start(frags[1]) = 0
        /\ \A i \in 1..(Len(frags) - 1) : (i = k /\ k + 1 < Len(frags)) \/ Meets(frags, i)

NewEntry(f) == [src |-> f.src, id |-> f.id, hdr |-> f.off, timer |-> MaxAge, last |-> FALSE,
                dlen |-> 0, frags |-> <<>>]

(* The fragment is put into entry i, or dropped; a first fragment's header *)
(* is kept also when it is dropped (IPv4).                                 *)
Chained(s, i, f) ==
    LET e     == s.list[i]
        frags == Inserted(e, f)
        valid == IF V6 THEN Valid6(e, f, frags) ELSE Valid4(e, f, frags)
        e1    == [e EXCEPT !.frags = frags,
                           !.hdr = IF f.off = 0 THEN 0 ELSE @,
                           !.last = @ \/ ~f.mf,
                           !.dlen = IF f.mf THEN @ ELSE End(f)]
        bytes == FlattenSeq([j \in DOMAIN frags |-> frags[j].data])
    IN  IF Overlaps(e, f)
        THEN [s EXCEPT !.list = [@ EXCEPT ![i].hdr = IF f.off = 0 /\ ~V6 THEN 0 ELSE @]]
        ELSE IF valid
             THEN [s EXCEPT !.list = Without(@, i),
                            !.count = @ + Pbufs(f) - Held(e1),
                            !.failed = @ \/ s.count + Pbufs(f) < Held(e1),
                            !.given = @ \cup {[src |-> e.src, id |-> e.id, bytes |-> bytes,
                                               len |-> e1.dlen, hdr |-> e1.hdr]}]
             ELSE [s EXCEPT !.list = [@ EXCEPT ![i] = e1], !.count = @ + Pbufs(f)]

At(s, f) == {i \in DOMAIN s.list : Match(s.list[i], f)}

ip_reass_enqueue_new_datagram(s, f) ==
    LET r == IF Len(s.list) < MaxEntries THEN [s |-> s, freed |-> Pbufs(f)]
             ELSE ip_reass_remove_oldest_datagram(s, f, Pbufs(f), 0)
    IN  IF r.freed >= Pbufs(f) /\ Len(r.s.list) < MaxEntries
        THEN [ok |-> TRUE, s |-> [r.s EXCEPT !.list = <<NewEntry(f)>> \o @]]
        ELSE [ok |-> FALSE, s |-> r.s]

ip4_reass(s, f) ==
    LET full == s.count + Pbufs(f) > MaxPbufs
        r    == IF full THEN ip_reass_remove_oldest_datagram(s, f, Pbufs(f), 0)
                ELSE [s |-> s, freed |-> 1]
        q    == ip_reass_enqueue_new_datagram(r.s, f)
    IN  IF r.freed = 0 \/ r.s.count + Pbufs(f) > MaxPbufs THEN r.s
        ELSE IF At(r.s, f) # {} THEN Chained(r.s, Min(At(r.s, f)), f)
        ELSE IF q.ok THEN Chained(q.s, 1, f) ELSE q.s

ip6_reass(s, f) ==
    LET r == IF At(s, f) # {} \/ Len(s.list) < MaxEntries THEN s
             ELSE ip6_reass_remove_oldest_datagram(s, 0, Pbufs(f))
        q == IF At(s, f) # {} THEN s ELSE [r EXCEPT !.list = <<NewEntry(f)>> \o @]
        i == Min(At(q, f))
        t == IF q.count + Pbufs(f) > MaxPbufs
             THEN ip6_reass_remove_oldest_datagram(q, i, Pbufs(f)) ELSE q
    IN  IF At(s, f) = {} /\ Len(r.list) >= MaxEntries THEN r
        ELSE IF t.count + Pbufs(f) > MaxPbufs THEN t
        ELSE Chained(t, Min(At(t, f)), f)

Rx == [list |-> list, count |-> count, given |-> given, exceeded |-> exceeded,
       failed |-> failed]
BecomesRx(s) ==
    /\ list' = s.list /\ count' = s.count /\ given' = s.given
    /\ exceeded' = s.exceeded /\ failed' = s.failed

(* A fragment arrives; it may arrive again.                                *)
Receive ==
    \E f \in wire, again \in BOOLEAN :
        /\ again => used.repeats < MaxRepeats
        /\ wire' = IF again THEN wire ELSE wire \ {f}
        /\ used' = IF again THEN [used EXCEPT !.repeats = @ + 1] ELSE used
        /\ BecomesRx(IF V6 THEN ip6_reass(Rx, f) ELSE ip4_reass(Rx, f))
        /\ UNCHANGED <<ver, unsent>>

(* ip_reass_tmr, ip6_reass_tmr: once a second.                             *)
RECURSIVE TimeOut(_, _)
TimeOut(s, i) ==
    IF i > Len(s.list) THEN s
    ELSE IF s.list[i].timer > 0
         THEN TimeOut([s EXCEPT !.list = [@ EXCEPT ![i].timer = @ - 1]], i + 1)
         ELSE TimeOut(ip_reass_free_complete_datagram(s, i), i)

ip_reass_tmr ==
    /\ used.ticks < MaxTicks
    /\ used' = [used EXCEPT !.ticks = @ + 1]
    /\ BecomesRx(TimeOut(Rx, 1))
    /\ UNCHANGED <<ver, unsent, wire>>

Next == Send \/ Recut \/ Receive \/ ip_reass_tmr

Spec == Init /\ [][Next]_vars

(***************************************************************************)
(* Properties.                                                             *)
(***************************************************************************)
(* b is a but for one run of bytes.                                        *)
LacksOneRun(b, a) ==
    \E i \in 1 .. Len(a), j \in 1 .. Len(a) :
        i < j /\ b = SubSeq(a, 1, i) \o SubSeq(a, j + 1, Len(a))

(* "All fragments have been received" when a datagram is handed on: it has *)
(* the bytes, the length and the header of a datagram that was sent.  IPv6 *)
(* hands on also a datagram without the piece before the fragment that     *)
(* came last (see Valid6), never one that lacks more.                      *)
GivenWhole ==
    \A g \in given :
        \E d \in Datagrams :
            /\ d.src = g.src /\ d.id = g.id
            /\ g.bytes = Bytes(d) \/ (V6 /\ LacksOneRun(g.bytes, Bytes(d)))
            /\ g.len = Len(Bytes(d)) /\ g.hdr = 0

(* The pieces cover a whole datagram.                                      *)
Complete(e) ==
    \E d \in Datagrams :
        d.src = e.src /\ d.id = e.id
            /\ FlattenSeq([j \in DOMAIN e.frags |-> e.frags[j].data]) = Bytes(d)

(* Whatever is lost, repeated, reordered or cut again on the way and       *)
(* whenever the bounds force datagrams out: what is handed on is whole; a  *)
(* datagram whose pieces are all there is not kept waiting; the count of   *)
(* pbufs is exact and within its bound, no entry is empty, no entry        *)
(* outlives its timer, two entries never stand for the same datagram, and  *)
(* a time exceeded message quotes the header of the first fragment.        *)
ReassemblySound ==
    /\ GivenWhole
    /\ \A i \in DOMAIN list : ~Complete(list[i])
    /\ count = FoldLeft(LAMBDA n, e : n + Held(e), 0, list) /\ count <= MaxPbufs
    /\ \A i \in DOMAIN list : list[i].frags # <<>> /\ list[i].timer <= MaxAge
    /\ \A i, j \in DOMAIN list : Match(list[i], list[j]) => i = j
    /\ Len(list) <= MaxEntries
    /\ exceeded \subseteq {0}
    /\ ~failed

=============================================================================
