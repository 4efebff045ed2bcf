---------------------------- MODULE MemoryStore ----------------------------
(***************************************************************************)
(* Where the HTTP cache keeps responses (chromulate-cache/src/storage.rs): *)
(* shards of records, one record per key holding every stored variant, a   *)
(* byte count per shard kept by hand, and a purge of whole keys in order   *)
(* of last use.  Each operation holds its shard's lock, so it is one       *)
(* function from store to store.                                           *)
(*                                                                         *)
(* A variant is an entry of module HttpCache; only its selector and its    *)
(* size matter here.                                                       *)
(***************************************************************************)
EXTENDS Integers, Sequences, SequencesExt, FiniteSets, FiniteSetsExt, Functions, TLC

CONSTANTS
    Shards,
    ShardOf,    \* key -> shard (the hash of the key)
    PerShard,   \* MemoryLimits::per_shard
    KeySize     \* CacheKey::size

PurgeTarget == PerShard - (PerShard \div 8)

EmptyShard == [records |-> <<>>, bytes |-> 0]

EmptyStore == [shards |-> [s \in Shards |-> EmptyShard], tick |-> 0]

\* CacheEntry::size: the fixed part, the head's fields and the body.
EntrySize(entry) == 1 + entry.body.size

\* merge_variants
MergeVariants(existing, entry) ==
    Append(SelectSeq(existing, LAMBDA e : e.selector # entry.selector), entry)

RecordBytes(variants) == KeySize + FoldLeft(LAMBDA n, e : n + EntrySize(e), 0, variants)

SumOfBytes(records, keys) == FoldSet(LAMBDA k, n : n + records[k].bytes, 0, keys)

\* MemoryStore::purge: everything up to the stamp at which what remains fits.
Purge(shard) ==
    LET rs == shard.records
        older(k) == {j \in DOMAIN rs : rs[j].last_used < rs[k].last_used}
        kept == {k \in DOMAIN rs : shard.bytes - SumOfBytes(rs, older(k)) <= PurgeTarget}
    IN  IF shard.bytes <= PerShard THEN shard
        ELSE [records |-> Restrict(rs, kept), bytes |-> SumOfBytes(rs, kept)]

\* The variants under a key, as get returns them ...
VariantsOf(st, key) ==
    LET rs == st.shards[ShardOf[key]].records
    IN  IF key \in DOMAIN rs THEN rs[key].variants ELSE <<>>

\* ... and the stamp it leaves.
Touched(st, key) ==
    LET stamp == st.tick + 1
        s == ShardOf[key]
    IN  IF VariantsOf(st, key) = <<>> THEN [st EXCEPT !.tick = stamp]
        ELSE [st EXCEPT !.tick = stamp, !.shards[s].records[key].last_used = stamp]

Removed(st, key) ==
    LET s == ShardOf[key]
        shard == st.shards[s]
        previous == IF key \in DOMAIN shard.records THEN shard.records[key].bytes ELSE 0
    IN  [st EXCEPT !.shards[s] = [records |-> Restrict(shard.records, DOMAIN shard.records \ {key}),
                                  bytes |-> shard.bytes - Min({previous, shard.bytes})]]

\* put: a record too large for its shard is refused, and takes what it
\* supersedes with it.
Put(st, key, entry) ==
    LET s == ShardOf[key]
        shard == st.shards[s]
        merged == MergeVariants(VariantsOf(st, key), entry)
        bytes == RecordBytes(merged)
        previous == IF key \in DOMAIN shard.records THEN shard.records[key].bytes ELSE 0
        stamped == [st EXCEPT !.tick = @ + 1]
    IN  IF bytes > PerShard THEN Removed(stamped, key)
        ELSE [stamped EXCEPT !.shards[s] =
                 Purge([records |-> (key :> [variants |-> merged, bytes |-> bytes,
                                             last_used |-> st.tick + 1]) @@ shard.records,
                        bytes |-> shard.bytes + bytes - Min({previous, shard.bytes})])]

\* What every shard owes at rest: the count is the sum of its records, within
\* the budget; a record is what its variants weigh; and no two variants of a
\* key are selected by the same values.
StoreSound(st) ==
    \A s \in Shards :
        LET rs == st.shards[s].records
        IN  /\ st.shards[s].bytes = SumOfBytes(rs, DOMAIN rs)
            /\ st.shards[s].bytes <= PerShard
            /\ \A k \in DOMAIN rs :
                  /\ ShardOf[k] = s
                  /\ rs[k].bytes = RecordBytes(rs[k].variants)
                  /\ \A i, j \in DOMAIN rs[k].variants :
                        rs[k].variants[i].selector = rs[k].variants[j].selector => i = j
=============================================================================
