------------------------------ MODULE ShardedMap ------------------------------
(***************************************************************************)
(* ShardedIndexMap (common/containers/sharded_index_map.rs and its         *)
(* entry.rs): a hash map cut into shards, each a mutex-protected table of  *)
(* local indices and an append-only arena of (key, value) slots that is    *)
(* read without the mutex.  An Index packs the shard number and the local  *)
(* index into 32 bits; only debug builds check that they fit.              *)
(*                                                                         *)
(* A slot is pushed only by the holder of its shard's mutex, so a push is  *)
(* one step here; VirtArena has its interior.                              *)
(***************************************************************************)
EXTENDS Integers

CONSTANTS
  Threads,
  Keys,
  Values,
  Hash,             \* the hash of each key
  ShardCount,       \* shards.len(), a power of two
  Capacity,         \* slots of a shard's arena
  ShardRange,       \* 2^SHARD_BITS, the shards an Index can name
  LocalRange,       \* 2^SHARD_SHIFT, the local indices an Index can name
  DebugAssertions   \* is debug_assert! compiled in?

ASSUME MapAssumption ==
  /\ Hash \in [Keys -> Nat]
  /\ ShardCount \in Nat \ {0}
  /\ Capacity \in Nat \ {0}
  /\ ShardRange \in Nat \ {0}
  /\ LocalRange \in Nat \ {0}
  /\ Capacity < LocalRange
  /\ DebugAssertions \in BOOLEAN

NoOwner == "no owner"
NoKey == "no key"
NoValue == "no value"
ASSUME NoneAssumption == NoOwner \notin Threads /\ NoKey \notin Keys /\ NoValue \notin Values

VARIABLES
  slots,     \* slots[s][l]: the (key, value) pair of each slot of each arena
  count,     \* count[s]: initialized slots of shard s
  table,     \* table[s]: the local indices in the hash table of shard s
  owner,     \* owner[s]: the thread that holds key_to_index of shard s
  pc,        \* where each thread is in insert() or or_insert_with()
  call,      \* its arguments, and the local index that push returned
  returned,  \* every <<key, index>> a call has returned
  aborted    \* a panic ended the process

vars == <<slots, count, table, owner, pc, call, returned, aborted>>

Shards == 0 .. ShardCount - 1
Locals == 0 .. Capacity - 1
Modes == {"insert", "or_insert_with"}
Vacant == [key |-> NoKey, value |-> NoValue]
NoCall == [key |-> NoKey, value |-> NoValue, mode |-> "none", local |-> 0]
Calls == [key : Keys, value : Values, mode : Modes, local : Locals]
Pairs == [key : Keys, value : Values]

(* hash_and_shard: the mask by shards.len() - 1. *)
ShardOf(k) == Hash[k] % ShardCount

(* Variant of Encode: shifted by the capacity. *)
EncodeNarrow(s, l) == (s % ShardRange) * Capacity + l

(* Index::new, Index::shard and Index::local_index: the shift drops the    *)
(* bits of the shard number that do not fit.                               *)
Encode(s, l) == (s % ShardRange) * LocalRange + l
DecodeShard(i) == i \div LocalRange
DecodeLocal(i) == i % LocalRange
None == ShardRange * LocalRange - 1

(* debug_assert!(shard < (1 << SHARD_BITS)) in Index::new.  An insertion   *)
(* meets it before any search can find an entry of such a shard, so only   *)
(* InsertUnique has to consider it.                                        *)
IndexPanics(s) == DebugAssertions /\ s >= ShardRange

(* Variant of Lookup: no comparison of the keys. *)
LookupAny(s, k) == table[s]

(* table.find: the local indices of shard s whose slot has key k. *)
Lookup(s, k) == {l \in table[s] : slots[s][l].key = k}

Init ==
  /\ slots = [s \in Shards |-> [l \in Locals |-> Vacant]]
  /\ count = [s \in Shards |-> 0]
  /\ table = [s \in Shards |-> {}]
  /\ owner = [s \in Shards |-> NoOwner]
  /\ pc = [t \in Threads |-> "idle"]
  /\ call = [t \in Threads |-> NoCall]
  /\ returned = {}
  /\ aborted = FALSE

Panic ==
  /\ aborted' = TRUE
  /\ UNCHANGED <<slots, count, table, owner, pc, call, returned>>

(* find(key): takes the mutex, searches and drops it; a hit is returned. *)
Find(t, k) ==
  /\ pc[t] = "idle"
  /\ owner[ShardOf(k)] = NoOwner
  /\ \E l \in Lookup(ShardOf(k), k) :
       returned' = returned \cup {<<k, Encode(ShardOf(k), l)>>}
  /\ UNCHANGED <<slots, count, table, owner, pc, call, aborted>>

(* Variant: the mutex is not taken. *)
LockShared(t, k, v, mode) ==
  /\ pc[t] = "idle"
  /\ pc' = [pc EXCEPT ![t] = "locked"]
  /\ call' = [call EXCEPT ![t] = [key |-> k, value |-> v, mode |-> mode, local |-> 0]]
  /\ UNCHANGED <<slots, count, table, owner, returned, aborted>>

(* entry(key) takes the mutex, which the entry keeps. *)
Lock(t, k, v, mode) ==
  /\ pc[t] = "idle"
  /\ owner[ShardOf(k)] = NoOwner
  /\ owner' = [owner EXCEPT ![ShardOf(k)] = t]
  /\ pc' = [pc EXCEPT ![t] = "locked"]
  /\ call' = [call EXCEPT ![t] = [key |-> k, value |-> v, mode |-> mode, local |-> 0]]
  /\ UNCHANGED <<slots, count, table, returned, aborted>>

(* The call returns the index and drops the entry, with its guard. *)
Return(t, k, i) ==
  /\ owner' = [owner EXCEPT ![ShardOf(k)] = NoOwner]
  /\ pc' = [pc EXCEPT ![t] = "idle"]
  /\ call' = [call EXCEPT ![t] = NoCall]
  /\ returned' = returned \cup {<<k, i>>}

(* An occupied entry: insert swaps the value of the slot its index leads   *)
(* to, or_insert_with returns the index.                                   *)
Occupied(t) ==
  LET k == call[t].key
      s == ShardOf(k)
  IN  /\ pc[t] = "locked"
      /\ \E l \in Lookup(s, k) :
           LET i == Encode(s, l)
           IN  /\ slots' = IF call[t].mode = "insert"
                             THEN [slots EXCEPT ![DecodeShard(i)][DecodeLocal(i)].value = call[t].value]
                             ELSE slots
               /\ Return(t, k, i)
      /\ UNCHANGED <<count, table, aborted>>

(* A vacant entry: slots.push, which panics when the arena is full. *)
Push(t) ==
  LET k == call[t].key
      s == ShardOf(k)
  IN  /\ pc[t] = "locked"
      /\ Lookup(s, k) = {}
      /\ IF count[s] >= Capacity
           THEN Panic
           ELSE /\ slots' = [slots EXCEPT ![s][count[s]] = [key |-> k, value |-> call[t].value]]
                /\ count' = [count EXCEPT ![s] = count[s] + 1]
                /\ pc' = [pc EXCEPT ![t] = "pushed"]
                /\ call' = [call EXCEPT ![t].local = count[s]]
                /\ UNCHANGED <<table, owner, returned, aborted>>

(* table.insert_unique, then Index::new and the end of the call. *)
InsertUnique(t) ==
  LET k == call[t].key
      s == ShardOf(k)
  IN  /\ pc[t] = "pushed"
      /\ IF IndexPanics(s)
           THEN Panic
           ELSE /\ table' = [table EXCEPT ![s] = @ \cup {call[t].local}]
                /\ Return(t, k, Encode(s, call[t].local))
                /\ UNCHANGED <<slots, count, aborted>>

Next ==
  /\ ~aborted
  /\ \E t \in Threads :
       \/ \E k \in Keys : Find(t, k)
       \/ \E k \in Keys, v \in Values, mode \in Modes : Lock(t, k, v, mode)
       \/ Occupied(t)
       \/ Push(t)
       \/ InsertUnique(t)

Spec == Init /\ [][Next]_vars
-------------------------------------------------------------------------------
TypeOK ==
  /\ slots \in [Shards -> [Locals -> Pairs \cup {Vacant}]]
  /\ count \in [Shards -> 0 .. Capacity]
  /\ table \in [Shards -> SUBSET Locals]
  /\ owner \in [Shards -> Threads \cup {NoOwner}]
  /\ pc \in [Threads -> {"idle", "locked", "pushed"}]
  /\ call \in [Threads -> Calls \cup {NoCall}]
  /\ returned \in SUBSET (Keys \X Nat)
  /\ aborted \in BOOLEAN

(* The fit that Index needs and that only debug builds enforce. *)
IndexFits == DebugAssertions \/ ShardCount <= ShardRange

(* Whichever threads and calls (find, insert, or_insert_with) asked: equal *)
(* keys were given equal indices and different keys different ones.  Ids   *)
(* of types and values are compared instead of the keys everywhere.        *)
OneIndexPerKey ==
  \A p, q \in returned : (p[1] = q[1]) <=> (p[2] = q[2])

(* An index that was returned leads kv() and key(), which take no lock, to *)
(* an initialized slot that holds the key, at any later time; it is never  *)
(* mistaken for Index::NONE.                                               *)
ReadBack ==
  \A p \in returned :
    LET s == DecodeShard(p[2])
        l == DecodeLocal(p[2])
    IN  /\ p[2] # None
        /\ s \in Shards
        /\ l < count[s]
        /\ slots[s][l].key = p[1]

(* The map implements an interning map, whose entries are the slots that   *)
(* the hash tables name: however calls interleave, and while readers hold  *)
(* indices, a key is interned once and a swap changes its own value only.  *)
EntryAt(s, l) ==
  [key |-> slots[s][l].key, index |-> Encode(s, l), value |-> slots[s][l].value]

Entries == UNION {{EntryAt(s, l) : l \in table[s]} : s \in Shards}

Abstract == INSTANCE InternMap WITH Indexes <- 0 .. None, entries <- Entries

Implements == Abstract!Spec
===============================================================================
