---------------------------- MODULE TlsSessions ----------------------------
(***************************************************************************)
(* The resumption store of chromulate-tls and the handshakes that share    *)
(* it.  Every method of the store takes its lock once, so each is one      *)
(* step; a handshake is several of them with the wire in between, and any  *)
(* number of handshakes, `forget` and `clear` interleave.                  *)
(*                                                                         *)
(* A TLS 1.3 ticket is <<host, serial>>: the name it was issued under and  *)
(* a serial no other ticket has.  Which store methods a handshake calls,   *)
(* and in what order, is decided by rustls, outside this repository.       *)
(***************************************************************************)
EXTENDS Naturals, Sequences, SequencesExt, FiniteSets

CONSTANTS
    Hosts,            \* the names connections are made to
    Handshakes,       \* concurrent connection attempts
    Requested,        \* the capacity the store was asked for
    TicketsPerHost,   \* TICKETS_PER_HOST
    MaxTickets,       \* bound: tickets servers issue
    None              \* no host, no ticket

VARIABLES
    hosts,        \* the map: what is held for each host present
    recency,      \* least recently used first
    shake,        \* each handshake: phase, host, and the ticket it offers
    issued,       \* tickets issued so far
    offered       \* the <<ticket, host>> pairs every ClientHello carried

vars == <<hosts, recency, shake, issued, offered>>

Idle == [phase |-> "idle", host |-> None, ticket |-> None]

Init ==
    /\ hosts = [h \in {} |-> None]
    /\ recency = <<>>
    /\ shake = [c \in Handshakes |-> Idle]
    /\ issued = 0
    /\ offered = <<>>

-----------------------------------------------------------------------------
(* The store *)

Capacity == IF Requested = 0 THEN 1 ELSE Requested

DefaultHost == [hint |-> FALSE, tls12 |-> FALSE, tls13 |-> <<>>]

Entry(h) == IF h \in DOMAIN hosts THEN hosts[h] ELSE DefaultHost

Touch(seq, h) == Append(SelectSeq(seq, LAMBDA held : held # h), h)

Held(map, h, entry) ==
    [x \in DOMAIN map \union {h} |-> IF x = h THEN entry ELSE map[x]]

(* Least recently used hosts go until the map fits. *)
EvictTo(map, seq) ==
    LET over == Cardinality(DOMAIN map) > Capacity
        excess == IF over THEN Cardinality(DOMAIN map) - Capacity ELSE 0
        gone == {seq[i] : i \in 1..excess}
    IN  [map |-> [h \in DOMAIN map \ gone |-> map[h]],
         seq |-> SubSeq(seq, excess + 1, Len(seq))]

(* Mutant: an edit finds the entry and never creates one. *)
WithHeldHost(h, entry) ==
    IF h \in DOMAIN hosts
    THEN hosts' = [hosts EXCEPT ![h] = entry] /\ recency' = Touch(recency, h)
    ELSE UNCHANGED <<hosts, recency>>

(* An edit creates the entry when there is none, and may cost another. *)
WithHost(h, entry) ==
    LET after == EvictTo(Held(hosts, h, entry), Touch(recency, h))
    IN  hosts' = after.map /\ recency' = after.seq

(* A read of a host that is not held neither creates nor touches. *)
ReadHost(h, entry) ==
    IF h \in DOMAIN hosts
    THEN /\ hosts' = [hosts EXCEPT ![h] = entry]
         /\ recency' = Touch(recency, h)
    ELSE UNCHANGED <<hosts, recency>>

InsertTicket(entry, ticket) ==
    LET full == Len(entry.tls13) = TicketsPerHost
    IN  [entry EXCEPT !.tls13 =
            Append(IF full THEN Tail(@) ELSE @, ticket)]

(* The newest ticket leaves the store with the handshake that takes it. *)
TakeTicket(entry) ==
    IF entry.tls13 = <<>>
    THEN [ticket |-> None, entry |-> entry]
    ELSE [ticket |-> Last(entry.tls13),
          entry |-> [entry EXCEPT !.tls13 = Front(@)]]

-----------------------------------------------------------------------------
(* The operations *)

Forget(h) ==
    /\ h \in DOMAIN hosts
    /\ hosts' = [x \in DOMAIN hosts \ {h} |-> hosts[x]]
    /\ recency' = SelectSeq(recency, LAMBDA held : held # h)
    /\ UNCHANGED <<shake, issued, offered>>

Clear ==
    /\ DOMAIN hosts # {}
    /\ hosts' = [h \in {} |-> None]
    /\ recency' = <<>>
    /\ UNCHANGED <<shake, issued, offered>>

(* `connect_to`: the key exchange hint is the first thing rustls asks for. *)
Connect(c, h) ==
    /\ shake[c].phase = "idle"
    /\ shake' = [shake EXCEPT ![c] = [Idle EXCEPT !.phase = "hello", !.host = h]]
    /\ ReadHost(h, Entry(h))
    /\ UNCHANGED <<issued, offered>>

(* A TLS 1.3 ticket is taken if there is one; the ClientHello goes out. *)
Hello(c) ==
    LET h == shake[c].host
        taken == TakeTicket(Entry(h))
    IN  /\ shake[c].phase = "hello"
        /\ ReadHost(h, taken.entry)
        /\ shake' = [shake EXCEPT ![c].phase = "sent", ![c].ticket = taken.ticket]
        /\ offered' = IF taken.ticket = None THEN offered
                      ELSE Append(offered, <<taken.ticket, h>>)
        /\ UNCHANGED issued

(* The server answers in TLS 1.3: its group is remembered. *)
Negotiated(c) ==
    LET h == shake[c].host
    IN  /\ shake[c].phase = "sent"
        /\ WithHost(h, [Entry(h) EXCEPT !.hint = TRUE])
        /\ shake' = [shake EXCEPT ![c].phase = "open"]
        /\ UNCHANGED <<issued, offered>>

(* A NewSessionTicket arrives, at any time while the connection is open. *)
Ticket(c) ==
    LET h == shake[c].host
    IN  /\ shake[c].phase = "open"
        /\ issued < MaxTickets
        /\ issued' = issued + 1
        /\ WithHost(h, InsertTicket(Entry(h), <<h, issued + 1>>))
        /\ UNCHANGED <<shake, offered>>

(* The server answers in TLS 1.2: its session replaces the one held, or is *)
(* dropped when the server refused to resume it. *)
Tls12(c, kept) ==
    LET h == shake[c].host
        entry == [Entry(h) EXCEPT !.tls12 = kept]
    IN  /\ shake[c].phase = "sent"
        /\ IF kept THEN WithHost(h, entry) ELSE ReadHost(h, entry)
        /\ shake' = [shake EXCEPT ![c] = Idle]
        /\ UNCHANGED <<issued, offered>>

(* The handshake fails, or the open connection closes. *)
Close(c) ==
    /\ shake[c].phase \in {"sent", "open"}
    /\ shake' = [shake EXCEPT ![c] = Idle]
    /\ UNCHANGED <<hosts, recency, issued, offered>>

Next ==
    \/ \E h \in Hosts : Forget(h)
    \/ Clear
    \/ \E c \in Handshakes, h \in Hosts : Connect(c, h)
    \/ \E c \in Handshakes : Hello(c)
    \/ \E c \in Handshakes : Negotiated(c)
    \/ \E c \in Handshakes : Ticket(c)
    \/ \E c \in Handshakes, kept \in BOOLEAN : Tls12(c, kept)
    \/ \E c \in Handshakes : Close(c)

Spec == Init /\ [][Next]_vars

-----------------------------------------------------------------------------
(* Whatever interleaving of handshakes, `forget` and `clear`: a TLS 1.3 *)
(* ticket goes into at most one ClientHello and only to the host that *)
(* issued it, the queue lists exactly the hosts held, and the store is *)
(* within its bounds. *)
TicketsOnce ==
    /\ \A i, j \in 1..Len(offered) : offered[i][1] = offered[j][1] => i = j
    /\ \A i \in 1..Len(offered) : offered[i][1][1] = offered[i][2]
    /\ ToSet(recency) = DOMAIN hosts
    /\ Len(recency) = Cardinality(DOMAIN hosts)
    /\ Len(recency) <= Capacity
    /\ \A h \in DOMAIN hosts : Len(hosts[h].tls13) <= TicketsPerHost

(* TicketsOnce, and a host that is written is held afterwards: what the *)
(* eviction behind the write takes is another host's. *)
ResumptionSound ==
    /\ []TicketsOnce
    /\ [][\A c \in Handshakes :
             Negotiated(c) \/ Ticket(c) => shake[c].host \in DOMAIN hosts']_vars
============================================================================
