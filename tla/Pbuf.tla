-------------------------------- MODULE Pbuf --------------------------------
(***************************************************************************)
(* Packet buffers (pbuf.c, and the pools of memp.c they come from).  A     *)
(* packet is a chain of pbufs linked by next; a pbuf counts the pointers   *)
(* to it, is freed with the last of them, and takes its part of the chain  *)
(* with it.  The holders are users of a packet: an API call owns one       *)
(* reference to the pbuf it holds.  Several threads free pbufs at once:    *)
(* pbuf_free is modelled by the turns of its loop, everything else runs in *)
(* the thread that owns the packet and is one step.                        *)
(***************************************************************************)
EXTENDS Naturals, Sequences, FiniteSets, SequencesExt

CONSTANTS N,          \* pbufs in the pools
          Holders,    \* users of packets
          Threads,    \* threads that free
          Size,       \* payload bytes of a pbuf of the pool
          MaxLen,     \* longest packet (at most 3)
          MaxOps,     \* operations other than pbuf_free in a behaviour
          EmptyTails  \* may an empty packet be joined to another?

VARIABLES buf,      \* the pbufs, live while they are allocated
          hold,     \* hold[h]: the pbuf a holder refers to, or 0
          freeing,  \* freeing[t]: the pbuf pbuf_free has come to, and whether
                    \* its count has been taken down already
          ops,      \* operations so far
          wrong     \* what has gone wrong: a failed assertion, wrong bytes

vars == <<buf, hold, freeing, ops, wrong>>

Pbufs == 1..N
NULL  == 0
Idle  == [p |-> NULL, dec |-> FALSE]

FreePbuf == [live |-> FALSE, ref |-> 0, next |-> NULL, len |-> 0, tot_len |-> 0,
             contig |-> FALSE, off |-> 0, area |-> <<>>]

Init ==
    /\ buf = [p \in Pbufs |-> FreePbuf]
    /\ hold = [h \in Holders |-> NULL]
    /\ freeing = [t \in Threads |-> Idle]
    /\ ops = 0 /\ wrong = {}

(***************************************************************************)
(* Walking a chain.                                                        *)
(***************************************************************************)
RECURSIVE Chain(_, _)
Chain(b, p) == IF p = NULL THEN <<>> ELSE <<p>> \o Chain(b, b[p].next)

Payload(b, p) == SubSeq(b[p].area, b[p].off + 1, b[p].off + b[p].len)

(* Reference: the bytes of a packet.                                       *)
Bytes(b, p) == FlattenSeq([i \in DOMAIN Chain(b, p) |-> Payload(b, Chain(b, p)[i])])

RECURSIVE pbuf_skip(_, _, _)
pbuf_skip(b, p, off) ==
    IF p # NULL /\ b[p].len <= off THEN pbuf_skip(b, b[p].next, off - b[p].len)
    ELSE [q |-> p, off |-> off]

(***************************************************************************)
(* Allocation.  memp_malloc takes an element of the pool if there is one;  *)
(* the order of the free list does not matter here.                        *)
(***************************************************************************)
memp_malloc(b) ==
    LET free == {p \in Pbufs : ~b[p].live}
    IN  IF free = {} THEN NULL ELSE CHOOSE p \in free : \A q \in free : p <= q

(* The bytes of fresh memory tell the place they belong to.                *)
pbuf_init_alloced_pbuf(b, p, room, tot_len, len, contig, size) ==
    [b EXCEPT ![p] = [live |-> TRUE, ref |-> 1, next |-> NULL, len |-> len, tot_len |-> tot_len,
                      contig |-> contig, off |-> room,
                      area |-> [i \in 1..size |-> i]]]

(* What pbuf_free does with the pbufs that no other thread is freeing.     *)
RECURSIVE FreeAll(_, _)
FreeAll(b, p) ==
    IF p = NULL THEN b
    ELSE IF b[p].ref > 1 THEN [b EXCEPT ![p].ref = @ - 1]
    ELSE FreeAll([b EXCEPT ![p] = FreePbuf], b[p].next)

(* PBUF_POOL: as many pbufs as the length takes, or none.                  *)
RECURSIVE PoolChain(_, _, _, _, _)
PoolChain(b, first, last, rem, offset) ==
    LET q    == memp_malloc(b)
        qlen == IF rem < Size - offset THEN rem ELSE Size - offset
        b1   == pbuf_init_alloced_pbuf(b, q, offset, rem, qlen, TRUE, Size)
        b2   == IF last = NULL THEN b1 ELSE [b1 EXCEPT ![last].next = q]
        head == IF first = NULL THEN q ELSE first
    IN  IF q = NULL THEN [b |-> FreeAll(b, first), p |-> NULL]
        ELSE IF rem - qlen > 0 THEN PoolChain(b2, head, q, rem - qlen, 0)
        ELSE [b |-> b2, p |-> head]

pbuf_alloc_reference(b, length) ==
    LET q == memp_malloc(b)
    IN  IF q = NULL THEN [b |-> b, p |-> NULL]
        ELSE [b |-> pbuf_init_alloced_pbuf(b, q, 0, length, length, FALSE, length),
              p |-> q]

(* PBUF_RAM: the heap may have no room (fits), or gives one pbuf.          *)
RamPbuf(b, offset, length, fits) ==
    LET q == memp_malloc(b)
    IN  IF q = NULL \/ ~fits THEN [b |-> b, p |-> NULL]
        ELSE [b |-> pbuf_init_alloced_pbuf(b, q, offset, length, length, TRUE,
                                           offset + length),
              p |-> q]

pbuf_alloc(b, offset, length, type, fits) ==
    CASE type = "POOL" -> PoolChain(b, NULL, NULL, length, offset)
      [] type = "RAM"  -> RamPbuf(b, offset, length, fits)
      [] OTHER         -> pbuf_alloc_reference(b, length)

(***************************************************************************)
(* Shortening, headers.                                                    *)
(***************************************************************************)
RECURSIVE Shrink(_, _, _, _)
Shrink(b, q, rem, shrink) ==
    IF rem > b[q].len
    THEN Shrink([b EXCEPT ![q].tot_len = @ - shrink], b[q].next, rem - b[q].len, shrink)
    ELSE LET cut == [b EXCEPT ![q].len = rem, ![q].tot_len = rem, ![q].next = NULL]
         IN  FreeAll(cut, b[q].next)

pbuf_realloc(b, p, new_len) ==
    IF new_len >= b[p].tot_len THEN b
    ELSE Shrink(b, p, new_len, b[p].tot_len - new_len)

AddHeaderFails(b, p, n, force) ==
    IF b[p].contig THEN n > b[p].off ELSE ~force

pbuf_add_header_impl(b, p, n, force) ==
    IF n = 0 \/ AddHeaderFails(b, p, n, force) THEN b
    ELSE [b EXCEPT ![p].off = @ - n, ![p].len = @ + n, ![p].tot_len = @ + n]

pbuf_remove_header(b, p, n) ==
    IF n = 0 \/ n > b[p].len THEN b
    ELSE [b EXCEPT ![p].off = @ + n, ![p].len = @ - n, ![p].tot_len = @ - n]

RECURSIVE pbuf_free_header(_, _, _)
pbuf_free_header(b, p, left) ==
    IF left = 0 \/ p = NULL THEN [b |-> b, p |-> p]
    ELSE IF left >= b[p].len
         THEN pbuf_free_header(FreeAll([b EXCEPT ![p].next = NULL], p),
                               b[p].next, left - b[p].len)
         ELSE [b |-> pbuf_remove_header(b, p, left), p |-> p]

(***************************************************************************)
(* Joining and parting chains.                                             *)
(***************************************************************************)
\* Mutant of pbuf_cat: only the first pbuf learns the new length.
pbuf_catFirst(b, h, t) ==
    [b EXCEPT ![Last(Chain(b, h))].next = t, ![h].tot_len = @ + b[t].tot_len]

pbuf_cat(b, h, t) ==
    LET ch == Chain(b, h)
    IN  [p \in Pbufs |->
            IF p \notin {ch[i] : i \in DOMAIN ch} THEN b[p]
            ELSE [b[p] EXCEPT !.tot_len = @ + b[t].tot_len,
                              !.next = IF p = Last(ch) THEN t ELSE @]]

CatAssert(b, h) == b[Last(Chain(b, h))].tot_len = b[Last(Chain(b, h))].len

pbuf_ref(b, p) == [b EXCEPT ![p].ref = @ + 1]

pbuf_chain(b, h, t) == pbuf_ref(pbuf_cat(b, h, t), t)

DechainAssert(b, p) ==
    b[p].next # NULL => b[b[p].next].tot_len = b[p].tot_len - b[p].len

pbuf_dechain(b, p) ==
    LET q == b[p].next
        c == [b EXCEPT ![q].tot_len = b[p].tot_len - b[p].len,
                       ![p].next = NULL, ![p].tot_len = b[p].len]
    IN  IF q = NULL THEN b ELSE FreeAll(c, q)

(***************************************************************************)
(* Copying.                                                                *)
(***************************************************************************)
Write(b, p, off, bytes) ==
    [b EXCEPT ![p].area = [i \in DOMAIN @ |->
        IF i - b[p].off - off \in DOMAIN bytes THEN bytes[i - b[p].off - off] ELSE @[i]]]

(* Where the loop of pbuf_copy_partial_pbuf goes on, and with what result. *)
(* off > len in the first turn is a subtraction below zero: the assertion  *)
(* after the copy fails.                                                   *)
QueueLike(b, p) == p # NULL /\ b[p].len = b[p].tot_len /\ b[p].next # NULL

RECURSIVE CopyLoop(_, _, _, _, _, _)
CopyLoop(b, to, off_to, from, off_from, n) ==
    LET left == b[from].len - off_from
        room == IF off_to > b[to].len THEN left ELSE b[to].len - off_to
        calc == IF room >= left THEN left ELSE room
        len  == IF n < calc THEN n ELSE calc
        b1   == Write(b, to, off_to, SubSeq(Payload(b, from), off_from + 1, off_from + len))
        ends == off_from + len >= b[from].len
        full == off_to + len = b[to].len
        from1 == IF ends THEN b[from].next ELSE from
        to1   == IF full THEN b[to].next ELSE to
    IN  CASE off_to + len > b[to].len -> [b |-> b1, err |-> "assert"]
          [] off_to + len <= b[to].len /\ n > len /\ (from1 = NULL \/ to1 = NULL) ->
                 [b |-> b1, err |-> "ARG"]
          [] off_to + len <= b[to].len /\ ~(n > len /\ (from1 = NULL \/ to1 = NULL))
                /\ (QueueLike(b, from1) \/ QueueLike(b, to1)) -> [b |-> b1, err |-> "VAL"]
          [] OTHER -> IF n = len THEN [b |-> b1, err |-> "OK"]
                      ELSE CopyLoop(b1, to1, IF full THEN 0 ELSE off_to + len,
                                    from1, IF ends THEN 0 ELSE off_from + len, n - len)

pbuf_copy_partial_pbuf(b, to, from, n, off) ==
    IF b[from].tot_len < n \/ b[to].tot_len < off + n THEN [b |-> b, err |-> "ARG"]
    ELSE CopyLoop(b, to, off, from, 0, n)

pbuf_copy(b, to, from) == pbuf_copy_partial_pbuf(b, to, from, b[from].tot_len, 0)

pbuf_clone(b, offset, type, p, fits) ==
    LET a == pbuf_alloc(b, offset, b[p].tot_len, type, fits)
        c == pbuf_copy(a.b, a.p, p)
    IN  IF a.p = NULL THEN [b |-> a.b, p |-> NULL, err |-> "OK"]
        ELSE [b |-> c.b, p |-> a.p, err |-> c.err]

pbuf_coalesce(b, p, offset, fits) ==
    LET c == pbuf_clone(b, offset, "RAM", p, fits)
    IN  IF b[p].next = NULL \/ c.p = NULL THEN [b |-> b, p |-> p, err |-> "OK"]
        ELSE [b |-> FreeAll(c.b, p), p |-> c.p, err |-> c.err]

RECURSIVE TakeLoop(_, _, _)
TakeLoop(b, p, bytes) ==
    IF bytes = <<>> THEN b
    ELSE LET n == IF Len(bytes) > b[p].len THEN b[p].len ELSE Len(bytes)
         IN  TakeLoop(Write(b, p, 0, SubSeq(bytes, 1, n)), b[p].next,
                      SubSeq(bytes, n + 1, Len(bytes)))

pbuf_take(b, p, bytes) == IF b[p].tot_len < Len(bytes) THEN b ELSE TakeLoop(b, p, bytes)

TakeAtFits(b, p, n, off) ==
    LET s == pbuf_skip(b, p, off) IN s.q # NULL /\ b[s.q].tot_len >= s.off + n

pbuf_take_at(b, p, bytes, off) ==
    LET s == pbuf_skip(b, p, off)
        n == IF b[s.q].len - s.off < Len(bytes) THEN b[s.q].len - s.off ELSE Len(bytes)
        c == Write(b, s.q, s.off, SubSeq(bytes, 1, n))
    IN  IF ~TakeAtFits(b, p, Len(bytes), off) THEN b
        ELSE IF n < Len(bytes)
             THEN pbuf_take(c, b[s.q].next, SubSeq(bytes, n + 1, Len(bytes))) ELSE c

pbuf_put_at(b, p, off, byte) ==
    LET s == pbuf_skip(b, p, off)
    IN  IF s.q = NULL THEN b ELSE Write(b, s.q, s.off, <<byte>>)

(***************************************************************************)
(* Reading.                                                                *)
(***************************************************************************)
RECURSIVE pbuf_copy_partial(_, _, _, _)
pbuf_copy_partial(b, p, n, off) ==
    IF n = 0 \/ p = NULL THEN <<>>
    ELSE IF off # 0 /\ off >= b[p].len THEN pbuf_copy_partial(b, b[p].next, n, off - b[p].len)
    ELSE LET k == IF b[p].len - off > n THEN n ELSE b[p].len - off
         IN  SubSeq(Payload(b, p), off + 1, off + k)
                \o pbuf_copy_partial(b, b[p].next, n - k, 0)

(* 0: no such byte.                                                        *)
pbuf_try_get_at(b, p, off) ==
    LET s == pbuf_skip(b, p, off)
    IN  IF s.q = NULL THEN 0 ELSE Payload(b, s.q)[s.off + 1]

pbuf_get_contiguous(b, p, n, off) ==
    LET s == pbuf_skip(b, p, off)
        c == pbuf_copy_partial(b, s.q, n, s.off)
    IN  IF s.q = NULL THEN <<>>
        ELSE IF b[s.q].len >= s.off + n THEN SubSeq(Payload(b, s.q), s.off + 1, s.off + n)
        ELSE IF Len(c) # n THEN <<>> ELSE c

Missing == 65535

(* The place of the first difference, or 0.                                *)
pbuf_memcmp(b, p, off, bytes) ==
    LET s == pbuf_skip(b, p, off)
        d == {i \in DOMAIN bytes : pbuf_try_get_at(b, s.q, s.off + i - 1) # bytes[i]}
    IN  IF b[p].tot_len < off + Len(bytes) THEN Missing
        ELSE IF d = {} THEN 0 ELSE CHOOSE i \in d : \A j \in d : i <= j

pbuf_memfind(b, p, bytes, start) ==
    LET at == {i \in start..(b[p].tot_len - Len(bytes)) : pbuf_memcmp(b, p, i, bytes) = 0}
    IN  IF b[p].tot_len < Len(bytes) + start \/ at = {} THEN Missing
        ELSE CHOOSE i \in at : \A j \in at : i <= j

(***************************************************************************)
(* The steps.                                                              *)
(***************************************************************************)
Min2(a, b) == IF a < b THEN a ELSE b

(* Top: the packet a holder has is not the middle of a longer one, so that *)
(* the holder may change its shape; Alone: nobody else holds it.           *)
Has(h)   == hold[h] # NULL
Top(h)   == Has(h) /\ \A p \in Pbufs : buf[p].next # hold[h]
Alone(h) == Top(h) /\ \A i \in DOMAIN Chain(buf, hold[h]) :
                          buf[Chain(buf, hold[h])[i]].ref = 1

(* The operation leaves b, in which the packet p must have these bytes.    *)
Done(b, p, bytes, ok) ==
    /\ ops < MaxOps /\ ops' = ops + 1
    /\ buf' = b
    /\ wrong' = wrong \cup (IF ok THEN {} ELSE {"assertion"})
                      \cup (IF Bytes(b, p) = bytes THEN {} ELSE {"bytes"})
    /\ UNCHANGED freeing

Kept(h, b, bytes) == Done(b, hold[h], bytes, TRUE) /\ UNCHANGED hold

(* The allocations tried: a chain of the pool, one pbuf with and without   *)
(* room for a header, one that refers to memory, an empty one.             *)
Kinds == {[type |-> "POOL", off |-> 1, n |-> MaxLen], [type |-> "RAM", off |-> 1, n |-> 1],
          [type |-> "REF", off |-> 0, n |-> 1], [type |-> "RAM", off |-> 0, n |-> 0]}

Alloc(h) ==
    /\ ~Has(h)
    /\ \E k \in Kinds, fits \in BOOLEAN :
          LET a == pbuf_alloc(buf, k.off, k.n, k.type, fits)
          IN  /\ k.type # "RAM" => fits
              /\ hold' = [hold EXCEPT ![h] = a.p]
              /\ Done(a.b, a.p, Bytes(a.b, a.p), a.p # NULL => a.b[a.p].tot_len = k.n)

Realloc(h) ==
    /\ Top(h)
    /\ \E n \in 0..buf[hold[h]].tot_len :
          Kept(h, pbuf_realloc(buf, hold[h], n), SubSeq(Bytes(buf, hold[h]), 1, n))

AddHeader(h) ==
    /\ Top(h) /\ buf[hold[h]].off > 0
    /\ \E force \in BOOLEAN :
          LET p == hold[h]
              grows == ~AddHeaderFails(buf, p, 1, force)
          IN  Kept(h, pbuf_add_header_impl(buf, p, 1, force),
                   (IF grows THEN <<buf[p].area[buf[p].off]>> ELSE <<>>) \o Bytes(buf, p))

RemoveHeader(h) ==
    /\ Top(h)
    /\ LET p == hold[h]
           n == IF buf[p].len >= 1 THEN 1 ELSE 0
       IN  Kept(h, pbuf_remove_header(buf, p, 1),
                SubSeq(Bytes(buf, p), n + 1, Len(Bytes(buf, p))))

FreeHeader(h) ==
    /\ Alone(h)
    /\ \E n \in 1..MaxLen :
          LET r == pbuf_free_header(buf, hold[h], n)
          IN  /\ hold' = [hold EXCEPT ![h] = r.p]
              /\ Done(r.b, r.p, SubSeq(Bytes(buf, hold[h]), n + 1, buf[hold[h]].tot_len), TRUE)

(* A second holder of the same packet.                                     *)
Ref(h, k) ==
    /\ Has(h) /\ ~Has(k)
    /\ hold' = [hold EXCEPT ![k] = hold[h]]
    /\ Done(pbuf_ref(buf, hold[h]), hold[h], Bytes(buf, hold[h]), TRUE)

Apart(h, k) ==
    /\ Top(h) /\ Top(k) /\ h # k
    /\ ~\E i \in DOMAIN Chain(buf, hold[h]), j \in DOMAIN Chain(buf, hold[k]) :
           Chain(buf, hold[h])[i] = Chain(buf, hold[k])[j]
    /\ buf[hold[h]].tot_len + buf[hold[k]].tot_len <= MaxLen
    /\ EmptyTails \/ buf[hold[k]].tot_len > 0

(* pbuf_cat takes over the reference of the second holder.                 *)
Cat(h, k) ==
    /\ Apart(h, k)
    /\ hold' = [hold EXCEPT ![k] = NULL]
    /\ Done(pbuf_cat(buf, hold[h], hold[k]), hold[h],
            Bytes(buf, hold[h]) \o Bytes(buf, hold[k]), CatAssert(buf, hold[h]))

ChainOn(h, k) ==
    /\ Apart(h, k)
    /\ Done(pbuf_chain(buf, hold[h], hold[k]), hold[h],
            Bytes(buf, hold[h]) \o Bytes(buf, hold[k]), CatAssert(buf, hold[h]))
    /\ UNCHANGED hold

Dechain(h) ==
    /\ Top(h) /\ buf[hold[h]].next # NULL
    /\ Done(pbuf_dechain(buf, hold[h]), hold[h], Payload(buf, hold[h]), DechainAssert(buf, hold[h]))
    /\ UNCHANGED hold

Clone(h, k) ==
    /\ Has(h) /\ ~Has(k)
    /\ \E off \in 0..1, type \in {"POOL", "RAM"} :
          LET c == pbuf_clone(buf, off, type, hold[h], TRUE)
          IN  /\ hold' = [hold EXCEPT ![k] = c.p]
              /\ Done(c.b, c.p, IF c.p = NULL THEN <<>> ELSE Bytes(buf, hold[h]),
                      c.err = "OK")

Coalesce(h) ==
    /\ Top(h) /\ buf[hold[h]].next # NULL
    /\ \E fits \in BOOLEAN :
          LET c == pbuf_coalesce(buf, hold[h], 0, fits)
          IN  /\ hold' = [hold EXCEPT ![h] = c.p]
              /\ Done(c.b, c.p, Bytes(buf, hold[h]), c.err = "OK")

(* pbuf_free: a turn takes the count down with interrupts off, and then,   *)
(* if it was the last reference, releases the pbuf and goes on to the next.*)
FreeCall(h, t) ==
    /\ Has(h) /\ freeing[t] = Idle
    /\ freeing' = [freeing EXCEPT ![t].p = hold[h]]
    /\ hold' = [hold EXCEPT ![h] = NULL]
    /\ UNCHANGED <<buf, ops, wrong>>

FreeDecrement(t) ==
    LET p == freeing[t].p
    IN  /\ p # NULL /\ ~freeing[t].dec
        /\ buf' = [buf EXCEPT ![p].ref = @ - 1]
        /\ freeing' = [freeing EXCEPT ![t] = IF buf[p].ref > 1 THEN Idle
                                             ELSE [p |-> p, dec |-> TRUE]]
        /\ UNCHANGED <<hold, ops, wrong>>

FreeRelease(t) ==
    LET p == freeing[t].p
    IN  /\ p # NULL /\ freeing[t].dec
        /\ buf' = [buf EXCEPT ![p] = FreePbuf]
        /\ freeing' = [freeing EXCEPT ![t] = [p |-> buf[p].next, dec |-> FALSE]]
        /\ UNCHANGED <<hold, ops, wrong>>

Next ==
    \/ \E h \in Holders : \/ Alloc(h) \/ Realloc(h) \/ AddHeader(h) \/ RemoveHeader(h)
                          \/ FreeHeader(h) \/ Dechain(h) \/ Coalesce(h)
    \/ \E h, k \in Holders : Ref(h, k) \/ Cat(h, k) \/ ChainOn(h, k) \/ Clone(h, k)
    \/ \E t \in Threads : FreeDecrement(t) \/ FreeRelease(t)
                         \/ \E h \in Holders : FreeCall(h, t)

Spec == Init /\ [][Next]_vars

Symmetric == Permutations(Holders) \cup Permutations(Threads)

(***************************************************************************)
(* Properties.                                                             *)
(***************************************************************************)
Live == {p \in Pbufs : buf[p].live}
Pointers(p) ==
    Cardinality({h \in Holders : hold[h] = p})
        + Cardinality({q \in Live : buf[q].next = p})
        + Cardinality({t \in Threads : freeing[t].p = p /\ ~freeing[t].dec})

(* What pbuf_copy_partial, pbuf_get_at, pbuf_get_contiguous, pbuf_memcmp   *)
(* and pbuf_memfind say of a packet is what its bytes say.                 *)
ReadsRight(p) ==
    LET bytes == Bytes(buf, p)
        len   == Len(bytes)
    IN  \A off \in 0..MaxLen, n \in 0..MaxLen :
            LET part == SubSeq(bytes, off + 1, Min2(off + n, len))
            IN  /\ pbuf_copy_partial(buf, p, n, off) = part
                /\ pbuf_try_get_at(buf, p, off) = IF off < len THEN bytes[off + 1] ELSE 0
                /\ off + n <= len =>
                      /\ n > 0 => pbuf_get_contiguous(buf, p, n, off) = part
                      /\ pbuf_memcmp(buf, p, off, part) = 0
                      /\ pbuf_memfind(buf, p, part, 0) <= off

Overwritten(old, bytes, off) ==
    [i \in DOMAIN old |-> IF i - off \in DOMAIN bytes THEN bytes[i - off] ELSE old[i]]

(* pbuf_take, pbuf_take_at and pbuf_put_at change the bytes they should,   *)
(* or none when the packet is too short.                                   *)
WritesRight(p) ==
    LET bytes == Bytes(buf, p)
        Want(text, off) == IF off + Len(text) > Len(bytes) THEN bytes
                           ELSE Overwritten(bytes, text, off)
    IN  \A off \in 0..MaxLen, n \in 1..MaxLen :
            LET text == SubSeq(<<7, 8, 9>>, 1, n)
            IN  /\ Bytes(pbuf_take(buf, p, text), p) = Want(text, 0)
                /\ Bytes(pbuf_take_at(buf, p, text, off), p) = Want(text, off)
                /\ Bytes(pbuf_put_at(buf, p, off, 7), p) = Want(<<7>>, off)

(* A whole packet copied into another that is not shorter.                 *)
CopiesRight(h, k, off) ==
    LET to == hold[h]  from == hold[k]
        c  == pbuf_copy_partial_pbuf(buf, to, from, buf[from].tot_len, off)
    IN  Apart(h, k) /\ off + buf[from].tot_len <= buf[to].tot_len =>
            /\ c.err = "OK"
            /\ Bytes(c.b, to) = Overwritten(Bytes(buf, to), Bytes(buf, from), off)

(* The count of a pbuf is the number of pointers to it, whoever joins,     *)
(* parts, shares, shortens and frees packets, so that no pbuf is freed     *)
(* while it is used and none is lost; the lengths along a chain add up;    *)
(* every operation leaves the bytes it should; and no assertion of pbuf.c  *)
(* fails.                                                                  *)
PacketsSound ==
    /\ \A p \in Pbufs : buf[p].live <=> (buf[p].ref > 0 \/ \E t \in Threads :
                                             freeing[t] = [p |-> p, dec |-> TRUE])
    /\ \A p \in Pbufs : buf[p].ref = Pointers(p)
    /\ \A p \in Live : buf[p].ref > 0 =>
          buf[p].tot_len = buf[p].len + (IF buf[p].next = NULL THEN 0
                                         ELSE buf[buf[p].next].tot_len)
    /\ \A h \in Holders : Has(h) => ReadsRight(hold[h]) /\ WritesRight(hold[h])
    /\ \A h, k \in Holders : CopiesRight(h, k, 0)
    /\ wrong = {}

(* pbuf_copy_partial_pbuf returns "ERR_OK if copy_len bytes were copied"   *)
(* and refuses only packet queues; a packet whose last pbuf is empty is    *)
(* none.                                                                   *)
CopiesWhole ==
    \A h, k \in Holders : Has(k) /\ buf[hold[k]].tot_len > 0 => CopiesRight(h, k, 0)

(* pbuf_copy_partial_pbuf takes an "offset in destination pbuf where to    *)
(* copy to" and returns ERR_OK if copy_len bytes were copied, ERR_ARG if   *)
(* the target is too short at the offset.                                  *)
CopiesAtOffset == \A h, k \in Holders, off \in 0..MaxLen : CopiesRight(h, k, off)
=============================================================================
