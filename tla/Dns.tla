-------------------------------- MODULE Dns --------------------------------
(***************************************************************************)
(* The resolver of lwIP (core/dns.c): a table of names that are being      *)
(* asked for or are cached, a table of the callers that wait for them, and *)
(* the UDP ports the queries leave from.  Lookups, answers, the timer and  *)
(* the link that takes its servers away come in any order; an answer may   *)
(* be late, repeated or never come.  The callback of a lookup may itself   *)
(* look a name up (Again).                                                 *)
(* Left out: the address types (the build has IPv4 only), and the layout   *)
(* of a message, of which an answer keeps what dns_recv compares.          *)
(***************************************************************************)
EXTENDS Integers, Sequences, FiniteSets, SequencesExt

CONSTANTS Names,      \* host names; the address of a name is the name itself
          Size,       \* DNS_TABLE_SIZE, DNS_MAX_REQUESTS, DNS_MAX_SOURCE_PORTS
          Retries,    \* DNS_MAX_RETRIES
          NumIds,     \* bound: transaction ids, 1 .. NumIds
          SeqWrap,    \* 2^8: dns_seqno wraps
          Lookups,    \* bound: the calls of dns_gethostbyname, 1 .. Lookups
          Again,      \* lookup -> the name its callback looks up, or NoName
          NoName      \* no name, no address

EnoughIds == NumIds >= Size

VARIABLES dns,    \* the module's static variables, see Start
          asked   \* queries that reached a server

vars == <<dns, asked>>

Slots   == 1 .. Size
Unused  == [state |-> "UNUSED", name |-> NoName, txid |-> 0, server |-> 0, tmr |-> 0,
            retries |-> 0, ttl |-> 0, seqno |-> 0, port |-> 0, addr |-> NoName]

Idle    == [found |-> 0, idx |-> 0]

(* port 0 stands for DNS_MAX_SOURCE_PORTS.  calls is what the model keeps  *)
(* for its properties: the lookups so far, each with its name, the address *)
(* it was given and how often it was answered.  sent, short and txid are   *)
(* the queries a handler sends, whether it finds the pool of UDP control   *)
(* blocks empty, and the id it draws.                                      *)
Start == [table |-> [i \in Slots |-> Unused],
          req   |-> [r \in Slots |-> Idle],
          pcbs  |-> {}, last |-> 1, seqno |-> 0, servers |-> {0, 1},
          calls |-> <<>>, sent |-> {}, short |-> FALSE, txid |-> 1]

First(S) == CHOOSE i \in S : \A j \in S : i <= j
-----------------------------------------------------------------------------
(* The UDP ports.                                                          *)

(* Every port from the one after the last used, once round.                *)
RoundRobin(s) == [k \in Slots |-> ((s.last - 1 + k) % Size) + 1]

(* s.short: the pool has no UDP control block left.                        *)
dns_alloc_pcb(s) ==
    LET free == Slots \ s.pcbs
        used == {k \in Slots : RoundRobin(s)[k] \in s.pcbs}
        i    == IF free # {} /\ ~ s.short THEN First(free)
                ELSE IF used # {} THEN RoundRobin(s)[First(used)] ELSE 0
    IN  [st |-> IF i = 0 THEN s ELSE [s EXCEPT !.pcbs = @ \cup {i}, !.last = i], port |-> i]

(* Mutant of ClosePort: nobody asks whether the port is shared.            *)
ClosePortShared(s, idx) ==
    [s EXCEPT !.table[idx].port = 0, !.pcbs = @ \ {s.table[idx].port}]

(* The port of entry idx is closed unless another query uses it.           *)
ClosePort(s, idx) ==
    LET port   == s.table[idx].port
        shared == \E i \in Slots \ {idx} : s.table[i].state = "ASKING"
                                             /\ s.table[i].port = port
    IN  [s EXCEPT !.table[idx].port = 0,
                  !.pcbs = IF shared THEN @ ELSE @ \ {port}]
-----------------------------------------------------------------------------
(* dns_call_found and dns_gethostbyname call each other through the        *)
(* callback, which only ever looks up one name more.                       *)

RECURSIVE dns_gethostbyname(_, _)

Answered(s, c, addr) == [s EXCEPT !.calls[c].addr = addr, !.calls[c].times = @ + 1]

(* One turn of the loop of dns_call_found.                                 *)
CallOne(s, r, idx, addr) ==
    LET c == s.req[r].found
        t == Answered(s, c, addr)
    IN  IF c = 0 \/ s.req[r].idx # idx THEN s
        ELSE [(IF Again[c] = NoName THEN t ELSE dns_gethostbyname(t, Again[c]))
                 EXCEPT !.req[r] = Idle]

dns_call_found(s, idx, addr) ==
    ClosePort(FoldLeft(LAMBDA t, r : CallOne(t, r, idx, addr), s, [r \in Slots |-> r]), idx)

(* What an unused entry still holds is never read.                         *)
Flush(s, idx) == [s EXCEPT !.table[idx] = Unused]

(* Mutant of dns_send: without a server the entry is dropped in silence.   *)
dns_sendSilent(s, idx) ==
    LET e == s.table[idx]
    IN  IF e.server \notin s.servers THEN Flush(ClosePort(s, idx), idx)
        ELSE [s EXCEPT !.sent = @ \cup {[txid |-> e.txid, name |-> e.name,
                                         server |-> e.server]}]

dns_send(s, idx) ==
    LET e == s.table[idx]
    IN  IF e.server \notin s.servers THEN Flush(dns_call_found(s, idx, NoName), idx)
        ELSE [s EXCEPT !.sent = @ \cup {[txid |-> e.txid, name |-> e.name,
                                         server |-> e.server]}]

(* A random id, drawn again while another query that waits has it.         *)
dns_create_txid(s) ==
    LET free == {t \in 1 .. NumIds :
                    \A i \in Slots : s.table[i].state = "ASKING" => s.table[i].txid # t}
    IN  CHOOSE t \in free : \A u \in free : (t - s.txid) % NumIds <= (u - s.txid) % NumIds

dns_backupserver_available(s, idx) ==
    s.table[idx].server = 0 /\ 1 \in s.servers

(* The next server is asked, or the callers are told that there is no      *)
(* answer.                                                                 *)
GiveUp(s, idx) ==
    IF dns_backupserver_available(s, idx)
    THEN dns_send([s EXCEPT !.table[idx].server = @ + 1, !.table[idx].tmr = 1,
                            !.table[idx].retries = 0], idx)
    ELSE Flush(dns_call_found(s, idx, NoName), idx)

dns_check_entry(s, idx) ==
    LET e == s.table[idx]
    IN  CASE e.state = "NEW" ->
               dns_send([s EXCEPT !.table[idx].txid = dns_create_txid(s),
                                  !.table[idx].state = "ASKING", !.table[idx].server = 0,
                                  !.table[idx].tmr = 1, !.table[idx].retries = 0], idx)
          [] e.state = "ASKING" /\ e.tmr > 1 -> [s EXCEPT !.table[idx].tmr = @ - 1]
          [] e.state = "ASKING" /\ e.tmr = 1 /\ e.retries + 1 = Retries ->
               GiveUp([s EXCEPT !.table[idx].retries = @ + 1, !.table[idx].tmr = 0], idx)
          [] e.state = "ASKING" /\ e.tmr = 1 /\ e.retries + 1 # Retries ->
               dns_send([s EXCEPT !.table[idx].retries = @ + 1,
                                  !.table[idx].tmr = e.retries + 1], idx)
          [] e.state = "DONE" ->
               IF e.ttl <= 1 THEN Flush(s, idx)
               ELSE [s EXCEPT !.table[idx].ttl = @ - 1]
          [] OTHER -> s

(* The entry for a new name: an unused one, or the oldest that is cached.  *)
FreeRequest(s) == {r \in Slots : s.req[r].found = 0}
Age(s, i) == (s.seqno - s.table[i].seqno) % SeqWrap
FreeEntry(s) ==
    LET unused == {i \in Slots : s.table[i].state = "UNUSED"}
        done   == {i \in Slots : s.table[i].state = "DONE" /\ Age(s, i) > 0}
    IN  IF unused # {} THEN {First(unused)}
        ELSE IF done = {} THEN {}
        ELSE {First({i \in done : \A j \in done : Age(s, j) <= Age(s, i)})}

(* ERR_MEM: the caller gets no callback.                                   *)
Refused(s, c) == [s EXCEPT !.calls[c].refused = TRUE]

NewEntry(s, c, name) ==
    LET i == First(FreeEntry(s))
        r == First(FreeRequest(s))
        a == dns_alloc_pcb(s)
    IN  IF a.port = 0
        THEN Refused(Flush(s, i), c)
        ELSE dns_check_entry(
               [a.st EXCEPT !.req[r] = [found |-> c, idx |-> i], !.seqno = (@ + 1) % SeqWrap,
                            !.table[i].state = "NEW", !.table[i].name = name,
                            !.table[i].seqno = s.seqno, !.table[i].port = a.port], i)

(* A name that is being asked for already gets one more caller.            *)
dns_enqueue(s, c, name) ==
    LET same == {i \in Slots : s.table[i].state = "ASKING" /\ s.table[i].name = name}
    IN  IF same # {} /\ FreeRequest(s) # {}
        THEN [s EXCEPT !.req[First(FreeRequest(s))] = [found |-> c, idx |-> First(same)]]
        ELSE IF FreeEntry(s) = {} \/ FreeRequest(s) = {} THEN Refused(s, c)
        ELSE NewEntry(s, c, name)

(* A cached name is answered at once, and so is a caller without servers.  *)
dns_gethostbyname(s, name) ==
    LET c    == Len(s.calls) + 1
        t(a, n, no) == [s EXCEPT !.calls = Append(@, [name |-> name, addr |-> a,
                                                      times |-> n, refused |-> no])]
        hits == {i \in Slots : s.table[i].state = "DONE" /\ s.table[i].name = name}
    IN  IF c > Lookups THEN s
        ELSE IF hits # {} THEN t(s.table[First(hits)].addr, 1, FALSE)
        ELSE IF 0 \notin s.servers THEN t(NoName, 0, TRUE)
        ELSE dns_enqueue(t(NoName, 0, FALSE), c, name)
-----------------------------------------------------------------------------
dns_correct_response(s, idx, addr, ttl) ==
    LET e == [s.table[idx] EXCEPT !.state = "DONE", !.ttl = ttl, !.addr = addr,
                                  !.txid = 0, !.server = 0, !.tmr = 0, !.retries = 0]
        t == dns_call_found([s EXCEPT !.table[idx] = e], idx, addr)
    IN  IF t.table[idx].ttl = 0 /\ t.table[idx].state = "DONE" THEN Flush(t, idx) ELSE t

(* Mutant of dns_compare_name: the question is not looked at.              *)
dns_compare_nameNot(query, name) == TRUE

dns_compare_name(query, name) == query = name

Waiting(s, txid) == {i \in Slots : s.table[i].state = "ASKING" /\ s.table[i].txid = txid}

(* The server of query q sends an answer: an address, an error, or neither. *)
dns_recv(s, q, kind, ttl) ==
    LET idx == First(Waiting(s, q.txid))
        e   == s.table[idx]
    IN  IF e.server # q.server \/ e.server \notin s.servers
              \/ ~ dns_compare_name(e.name, q.name) THEN s
        ELSE CASE kind = "error" /\ dns_backupserver_available(s, idx) ->
                    dns_check_entry([s EXCEPT !.table[idx].retries = Retries - 1,
                                              !.table[idx].tmr = 1], idx)
               [] kind = "address" -> dns_correct_response(s, idx, q.name, ttl)
               [] OTHER -> Flush(dns_call_found(s, idx, NoName), idx)
-----------------------------------------------------------------------------
(* A handler ends: its queries are on their way.                           *)
Finish(s) ==
    /\ dns' = [s EXCEPT !.sent = {}, !.short = FALSE, !.txid = 1]
    /\ asked' = asked \cup s.sent

Lookup(name, short, id) ==
    /\ Len(dns.calls) < Lookups
    /\ Finish(dns_gethostbyname([dns EXCEPT !.short = short, !.txid = id], name))

(* An answer with an id that nobody waits for is dropped.                  *)
Answer(q, kind, ttl) ==
    /\ Waiting(dns, q.txid) # {}
    /\ Finish(dns_recv(dns, q, kind, ttl))

dns_tmr ==
    /\ \E i \in Slots : dns.table[i].state # "UNUSED"
    /\ Finish(FoldLeft(dns_check_entry, dns, [i \in Slots |-> i]))

(* The link comes up with one server or two, or goes down.                 *)
dns_setserver(servers) ==
    /\ servers # dns.servers
    /\ dns' = [dns EXCEPT !.servers = servers] /\ UNCHANGED asked

Init == dns = Start /\ asked = {}

Next ==
    \/ \E name \in Names, short \in BOOLEAN, id \in 1 .. NumIds : Lookup(name, short, id)
    \/ \E q \in asked :
          \/ \E kind \in {"error", "none"} : Answer(q, kind, 0)
          \/ \E ttl \in 0 .. 1 : Answer(q, "address", ttl)
    \/ dns_tmr
    \/ \E servers \in {{}, {0}, {0, 1}} : dns_setserver(servers)

Spec == Init /\ [][Next]_vars

(* The timer runs; what enables it is written out.                         *)
NothingAsked == \A i \in Slots : dns.table[i].state = "UNUSED"
FairSpec ==
    /\ Spec
    /\ \/ []<>NothingAsked
       \/ []<><<dns_tmr>>_vars
-----------------------------------------------------------------------------
(* A lookup is answered at most once, with the address of its own name or  *)
(* with none, even if ids are used again, answers come late or twice, and  *)
(* entries are shared, flushed and taken over (dns_recv, dns_call_found).  *)
AnsweredRight ==
    \A c \in DOMAIN dns.calls :
       /\ dns.calls[c].times <= 1
       /\ dns.calls[c].addr \in {dns.calls[c].name, NoName}
       /\ ~ (dns.calls[c].refused /\ dns.calls[c].times > 0)

(* A UDP port is open exactly as long as a query waits on it: dns_call_found *)
(* neither closes a port that another query shares nor leaves one open.    *)
PortsHeld ==
    dns.pcbs = {dns.table[i].port : i \in {j \in Slots : dns.table[j].state = "ASKING"}}

(* Both: what lookups are told, and what they hold.                        *)
LookupsSound == AnsweredRight /\ PortsHeld

(* Every lookup that is not refused gets its callback, whatever the        *)
(* servers and the link do.                                                *)
LookupsAnswered ==
    \A c \in 1 .. Lookups :
       (c \in DOMAIN dns.calls)
          ~> (c \in DOMAIN dns.calls /\ (dns.calls[c].times > 0 \/ dns.calls[c].refused))
=============================================================================
