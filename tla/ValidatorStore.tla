--------------------------- MODULE ValidatorStore ---------------------------
(***************************************************************************)
(* Remembered ETags and Last-Modified (chromulate-http/src/validators.rs): *)
(* a map behind a lock, bounded by least recent use, and beside it a count *)
(* of its entries that is read and written without the lock.               *)
(*                                                                         *)
(* An operation is as many steps as it has unlocked parts.  A URL is       *)
(* visited by one thread at a time; threads differ in the URLs they visit. *)
(***************************************************************************)
EXTENDS Integers, Sequences, FiniteSets, FiniteSetsExt, Functions, TLC

CONSTANTS
    Threads, Urls, None,
    Methods,
    Responses,   \* [status, etag, last_modified, varies]; a blank field is None
    WithCapacity,   \* the capacity asked for
    MaxSeq       \* bound on the use counter

VARIABLES
    entries,   \* URL -> [validators, last_use]
    stored,    \* the count read without the lock
    seq,
    op,        \* thread -> what it is in the middle of, or None
    seen,      \* ghost: the validators of the representation last seen at a URL
    asked      \* ghost: the last conditional request, beside what was seen then

vars == <<entries, stored, seq, op, seen, asked>>

-----------------------------------------------------------------------------

Nothing == [etag |-> None, last_modified |-> None]

\* Validators::from_headers, blank values dropped.
FromHeaders(response) == [etag |-> response.etag, last_modified |-> response.last_modified]

\* What a 304 says replaces what is held, field by field.
Updated(held, response) ==
    [etag |-> IF response.etag = None THEN held.etag ELSE response.etag,
     last_modified |-> IF response.last_modified = None THEN held.last_modified
                       ELSE response.last_modified]

\* with_capacity: a store that can hold nothing is not built.
Capacity == Max({WithCapacity, 1})
PurgeBatch == Max({Capacity \div 10, 1})
PurgeTarget == Max({Capacity - PurgeBatch, 1})

\* Inner::evict: over capacity, down to the target, least recently used first.
Evict(known) ==
    IF Cardinality(DOMAIN known) <= Capacity THEN known
    ELSE Restrict(known, CHOOSE K \in kSubset(PurgeTarget, DOMAIN known) :
                     \A k \in K, d \in DOMAIN known \ K : known[d].last_use <= known[k].last_use)

Revalidatable(method) == method \in {"GET", "HEAD"}

\* Nobody is at this URL.
Free(url) == url \notin {op[t].url : t \in {u \in Threads : op[u] # None}}

-----------------------------------------------------------------------------

Init ==
    /\ entries = <<>>
    /\ stored = 0
    /\ seq = 0
    /\ op = [t \in Threads |-> None]
    /\ seen = [u \in Urls |-> Nothing]
    /\ asked = None

Begin(t, url, step, validators, stamp) ==
    op' = [op EXCEPT ![t] = [url |-> url, step |-> step, validators |-> validators,
                             stamp |-> stamp, len |-> 0]]

\* condition: the count first, without the lock ...
Condition(t, url, method, conditional) ==
    /\ op[t] = None /\ Free(url)
    /\ stored # 0
    /\ Revalidatable(method) /\ ~conditional
    /\ seq < MaxSeq
    /\ Begin(t, url, "lookup", Nothing, 0)
    /\ UNCHANGED <<entries, stored, seq, seen, asked>>

\* ... then the entry, under the read lock.
Lookup(t) ==
    LET url == op[t].url
    IN  /\ op[t] # None /\ op[t].step = "lookup"
        /\ op' = [op EXCEPT ![t] = None]
        /\ IF url \in DOMAIN entries
           THEN /\ entries' = [entries EXCEPT ![url].last_use = seq]
                /\ seq' = seq + 1
                /\ asked' = [sent |-> entries[url].validators, held |-> seen[url]]
           ELSE UNCHANGED <<entries, seq, asked>>
        /\ UNCHANGED <<stored, seen>>

\* put, from its use number on; remove, unless the count says there is nothing.
StartPut(t, url, validators) ==
    /\ Begin(t, url, "insert", validators, seq)
    /\ seq' = seq + 1
    /\ UNCHANGED <<entries, stored, asked>>

StartRemove(t, url) ==
    /\ IF stored = 0 THEN UNCHANGED op ELSE Begin(t, url, "remove", Nothing, 0)
    /\ UNCHANGED <<entries, stored, seq, asked>>

\* refresh, one step under the lock.
Refresh(t, url, response) ==
    /\ entries' = IF url \in DOMAIN entries
                  THEN [entries EXCEPT ![url] = [validators |-> Updated(@.validators, response),
                                                 last_use |-> seq]]
                  ELSE entries
    /\ seq' = seq + 1
    /\ UNCHANGED <<op, stored, asked>>

\* Mutant: a 200 without validators leaves what an earlier one said.
ObserveKeeping(t, url, method, response) ==
    LET said == FromHeaders(response)
    IN  /\ op[t] = None /\ Free(url) /\ seq < MaxSeq
        /\ Revalidatable(method)
        /\ \/ response.status = 200 /\ ~response.varies /\ said # Nothing
              /\ StartPut(t, url, said) /\ seen' = [seen EXCEPT ![url] = said]
           \/ response.status = 200 /\ (response.varies \/ said = Nothing)
              /\ seen' = [seen EXCEPT ![url] = Nothing]
              /\ UNCHANGED <<entries, stored, seq, op, asked>>
           \/ response.status = 304 /\ response.varies
              /\ StartRemove(t, url) /\ seen' = [seen EXCEPT ![url] = Nothing]
           \/ response.status = 304 /\ ~response.varies
              /\ Refresh(t, url, response) /\ seen' = [seen EXCEPT ![url] = Updated(@, response)]

\* observe: a 200 replaces or clears, a 304 updates, Vary clears, the rest is
\* left alone.
Observe(t, url, method, response) ==
    LET said == FromHeaders(response)
    IN  /\ op[t] = None /\ Free(url) /\ seq < MaxSeq
        /\ Revalidatable(method)
        /\ \/ response.status = 200 /\ ~response.varies /\ said # Nothing
              /\ StartPut(t, url, said) /\ seen' = [seen EXCEPT ![url] = said]
           \/ response.status = 200 /\ (response.varies \/ said = Nothing)
              /\ StartRemove(t, url) /\ seen' = [seen EXCEPT ![url] = Nothing]
           \/ response.status = 304 /\ response.varies
              /\ StartRemove(t, url) /\ seen' = [seen EXCEPT ![url] = Nothing]
           \/ response.status = 304 /\ ~response.varies
              /\ Refresh(t, url, response) /\ seen' = [seen EXCEPT ![url] = Updated(@, response)]

\* insert: what an earlier process knew; nothing known is a removal.
Insert(t, url, response) ==
    LET said == FromHeaders(response)
    IN  /\ op[t] = None /\ Free(url) /\ seq < MaxSeq
        /\ IF said = Nothing THEN StartRemove(t, url) ELSE StartPut(t, url, said)
        /\ seen' = [seen EXCEPT ![url] = said]

\* clear, up to the end of its lock.
Clear(t) ==
    /\ op[t] = None
    /\ entries' = <<>>
    /\ op' = [op EXCEPT ![t] = [url |-> None, step |-> "publish", validators |-> Nothing,
                                stamp |-> 0, len |-> 0]]
    /\ UNCHANGED <<stored, seq, seen, asked>>

\* The locked part of put and remove; the length is read before the lock goes.
Write(t) ==
    LET o == op[t]
        changed == IF o.step = "insert"
                   THEN Evict((o.url :> [validators |-> o.validators, last_use |-> o.stamp]) @@ entries)
                   ELSE Restrict(entries, DOMAIN entries \ {o.url})
    IN  /\ o # None /\ o.step \in {"insert", "remove"}
        /\ entries' = changed
        /\ op' = [op EXCEPT ![t] = [o EXCEPT !.step = "publish", !.len = Cardinality(DOMAIN changed)]]
        /\ UNCHANGED <<stored, seq, seen, asked>>

\* The count is written after the lock is gone.
Publish(t) ==
    /\ op[t] # None /\ op[t].step = "publish"
    /\ stored' = op[t].len
    /\ op' = [op EXCEPT ![t] = None]
    /\ UNCHANGED <<entries, seq, seen, asked>>

Next ==
    \E t \in Threads :
        \/ \E url \in Urls, method \in Methods, conditional \in BOOLEAN : Condition(t, url, method, conditional)
        \/ Lookup(t)
        \/ \E url \in Urls, method \in Methods, response \in Responses : Observe(t, url, method, response)
        \/ \E url \in Urls, response \in Responses : Insert(t, url, response)
        \/ Clear(t)
        \/ Write(t)
        \/ Publish(t)

Spec == Init /\ [][Next]_vars

-----------------------------------------------------------------------------

\* A conditional request asks about the representation that was last seen at
\* its URL, never about one the caller no longer has (condition, observe,
\* remove and the count they read).
RightQuestion == asked # None => asked.sent = asked.held

\* Between operations the store is within its capacity and the count that is
\* read without the lock tells an empty store from one that is not (evict, put,
\* remove, clear).
CountTells ==
    (\A t \in Threads : op[t] = None) =>
        /\ Cardinality(DOMAIN entries) <= Capacity
        /\ stored = Cardinality(DOMAIN entries)
=============================================================================
