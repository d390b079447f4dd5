--------------------------- MODULE ShardedMapProofs ---------------------------
(***************************************************************************)
(* Proofs about ShardedMap, for all threads, keys, hashes, shard counts    *)
(* and capacities: an interning map hands out one index per key as long as *)
(* the shard number fits the index (IndexFits).                            *)
(***************************************************************************)
EXTENDS ShardedMap, TLAPS

(* Products are monotone in their first factor (arithmetic that Encode and *)
(* its inverses rest on).                                                  *)
LEMMA TimesMonotone ==
  ASSUME NEW a \in Int, NEW b \in Int, NEW n \in Nat, a <= b
  PROVE  a * n <= b * n
  OBVIOUS

(* A quotient and a remainder are determined by their product and sum.     *)
LEMMA DivisionUnique ==
  ASSUME NEW a \in Nat, NEW b \in Nat, NEW n \in Nat \ {0}, b < n
  PROVE  (a * n + b) \div n = a /\ (a * n + b) % n = b
<1> DEFINE x == a * n + b
           q == x \div n
           r == x % n
<1>1. x \in Nat /\ a * n \in Nat
  OBVIOUS
<1>2. q \in Int /\ r \in Nat /\ r < n
  BY <1>1
<1>3. x = q * n + r
  BY <1>1, <1>2
<1>4. ~(q < a)
  <2>1. SUFFICES ASSUME q < a PROVE FALSE
    OBVIOUS
  <2>2. (q + 1) * n <= a * n
    BY <2>1, <1>2, TimesMonotone
  <2>3. (q + 1) * n = q * n + n
    BY <1>2
  <2>. QED
    BY <2>2, <2>3, <1>1, <1>2, <1>3
<1>5. ~(a < q)
  <2>1. SUFFICES ASSUME a < q PROVE FALSE
    OBVIOUS
  <2>2. (a + 1) * n <= q * n
    BY <2>1, <1>2, TimesMonotone
  <2>3. (a + 1) * n = a * n + n
    OBVIOUS
  <2>. QED
    BY <2>2, <2>3, <1>1, <1>2, <1>3
<1>6. q = a
  BY <1>2, <1>4, <1>5
<1>. HIDE DEF q, r
<1>7. r = b
  BY <1>1, <1>2, <1>3, <1>6
<1>. QED
  BY <1>6, <1>7 DEF q, r

(* Index::shard and Index::local_index invert Index::new when the shard    *)
(* number and the local index fit their bits; the result is not NONE.      *)
LEMMA EncodeInverse ==
  ASSUME NEW s \in Shards, NEW l \in Locals, s < ShardRange
  PROVE  /\ DecodeShard(Encode(s, l)) = s
         /\ DecodeLocal(Encode(s, l)) = l
         /\ Encode(s, l) \in 0 .. None
         /\ Encode(s, l) # None
<1>1. s \in Nat /\ l \in Nat /\ LocalRange \in Nat \ {0} /\ l < LocalRange - 1
      /\ ShardRange \in Nat \ {0}
  BY MapAssumption DEF Shards, Locals
<1>2. s % ShardRange = s
  <2>1. (0 * ShardRange + s) % ShardRange = s
    BY <1>1, DivisionUnique
  <2>. QED
    BY <2>1, <1>1
<1>3. Encode(s, l) = s * LocalRange + l
  BY <1>2 DEF Encode
<1>4. DecodeShard(Encode(s, l)) = s /\ DecodeLocal(Encode(s, l)) = l
  <2>1. (s * LocalRange + l) \div LocalRange = s /\ (s * LocalRange + l) % LocalRange = l
    BY <1>1, DivisionUnique
  <2>. QED
    BY <2>1, <1>3 DEF DecodeShard, DecodeLocal
<1>5. (s + 1) * LocalRange <= ShardRange * LocalRange
  BY <1>1, TimesMonotone
<1>6. (s + 1) * LocalRange = s * LocalRange + LocalRange
  BY <1>1
<1>7. s * LocalRange \in Nat /\ ShardRange * LocalRange \in Nat
  BY <1>1
<1>. QED
  BY <1>1, <1>3, <1>4, <1>5, <1>6, <1>7 DEF None

(* Equal indices come from equal shards and local indices. *)
LEMMA EncodeInjective ==
  ASSUME NEW s \in Shards, NEW l \in Locals, s < ShardRange,
         NEW r \in Shards, NEW m \in Locals, r < ShardRange,
         Encode(s, l) = Encode(r, m)
  PROVE  s = r /\ l = m
  BY EncodeInverse

(* hash_and_shard names a shard. *)
LEMMA ShardOfType == \A k \in Keys : ShardOf(k) \in Shards
  BY MapAssumption DEF ShardOf, Shards
-------------------------------------------------------------------------------
(* The hash table of a shard names initialized slots only. *)
TableInitialized == \A s \in Shards : \A l \in table[s] : l < count[s]

(* An initialized slot holds a pair whose key belongs to the shard. *)
SlotsFilled ==
  \A s \in Shards : \A l \in Locals :
    l < count[s] => slots[s][l] \in Pairs /\ ShardOf(slots[s][l].key) = s

(* No two slots of a shard hold the same key. *)
KeysUnique ==
  \A s \in Shards : \A l, m \in Locals :
    l < count[s] /\ m < count[s] /\ slots[s][l].key = slots[s][m].key => l = m

(* A thread between Lock and Return holds the mutex of its key's shard. *)
HoldsLock ==
  \A t \in Threads :
    pc[t] # "idle" => call[t] \in Calls /\ owner[ShardOf(call[t].key)] = t

(* After push, the new slot is the last one and holds the caller's key. *)
PushedSlot ==
  \A t \in Threads :
    pc[t] = "pushed" =>
      LET s == ShardOf(call[t].key)
      IN  /\ count[s] = call[t].local + 1
          /\ slots[s][call[t].local].key = call[t].key
          /\ call[t].local \notin table[s]

(* A slot that the table does not name yet is the one being inserted. *)
SlotsNamed ==
  \A s \in Shards : \A l \in Locals :
    l < count[s] /\ l \notin table[s] =>
      \E t \in Threads :
        pc[t] = "pushed" /\ ShardOf(call[t].key) = s /\ call[t].local = l

(* Only shards whose number fits an Index ever have entries. *)
ShardsFit == \A s \in Shards : table[s] # {} => s < ShardRange

(* A returned index is the one of the slot that holds its key. *)
ReturnedNamed ==
  \A p \in returned :
    \E l \in table[ShardOf(p[1])] :
      slots[ShardOf(p[1])][l].key = p[1] /\ p[2] = Encode(ShardOf(p[1]), l)

IInv ==
  /\ TypeOK
  /\ TableInitialized
  /\ SlotsFilled
  /\ KeysUnique
  /\ HoldsLock
  /\ PushedSlot
  /\ SlotsNamed
  /\ ShardsFit
  /\ ReturnedNamed

(* Every index is a natural number. *)
LEMMA EncodeType == \A s \in Shards, l \in Locals : Encode(s, l) \in Nat
<1>1. SUFFICES ASSUME NEW s \in Shards, NEW l \in Locals PROVE Encode(s, l) \in Nat
  OBVIOUS
<1>2. s % ShardRange \in Nat /\ LocalRange \in Nat /\ l \in Nat
  BY MapAssumption DEF Shards, Locals
<1>. QED
  BY <1>2 DEF Encode

(* The map of new() is empty: nothing is interned, held or returned. *)
LEMMA InitInv == Init => IInv
<1>1. SUFFICES ASSUME Init PROVE IInv
  OBVIOUS
<1>2. TypeOK
  <2>1. slots \in [Shards -> [Locals -> Pairs \cup {Vacant}]]
    BY <1>1 DEF Init
  <2>2. count \in [Shards -> 0 .. Capacity]
    BY <1>1, MapAssumption DEF Init
  <2>3. table \in [Shards -> SUBSET Locals] /\ owner \in [Shards -> Threads \cup {NoOwner}]
    BY <1>1 DEF Init
  <2>4. pc \in [Threads -> {"idle", "locked", "pushed"}]
    BY <1>1 DEF Init
  <2>5. call \in [Threads -> Calls \cup {NoCall}]
    BY <1>1 DEF Init
  <2>. QED
    BY <1>1, <2>1, <2>2, <2>3, <2>4, <2>5 DEF Init, TypeOK
<1>3. TableInitialized /\ ShardsFit /\ ReturnedNamed
  BY <1>1 DEF Init, TableInitialized, ShardsFit, ReturnedNamed
<1>4. SlotsFilled /\ KeysUnique /\ SlotsNamed
  BY <1>1 DEF Init, SlotsFilled, KeysUnique, SlotsNamed, Locals
<1>5. HoldsLock /\ PushedSlot
  BY <1>1 DEF Init, HoldsLock, PushedSlot
<1>. QED
  BY <1>2, <1>3, <1>4, <1>5 DEF IInv

(* A step that leaves the map and the calls alone keeps the invariant. *)
LEMMA SameMap ==
  ASSUME IInv, UNCHANGED <<slots, count, table, owner, pc, call, returned>>,
         aborted' \in BOOLEAN
  PROVE  IInv'
<1>1. TypeOK'
  BY DEF IInv, TypeOK
<1>2. TableInitialized' /\ SlotsFilled' /\ KeysUnique' /\ ShardsFit'
  BY DEF IInv, TableInitialized, SlotsFilled, KeysUnique, ShardsFit
<1>3. HoldsLock' /\ PushedSlot' /\ SlotsNamed'
  BY DEF IInv, HoldsLock, PushedSlot, SlotsNamed
<1>4. ReturnedNamed'
  BY DEF IInv, ReturnedNamed
<1>. QED
  BY <1>1, <1>2, <1>3, <1>4 DEF IInv

(* find() only reads a slot that an insert has named; it changes no map. *)
LEMMA FindInv ==
  ASSUME IInv, NEW t \in Threads, NEW k \in Keys, Find(t, k)
  PROVE  IInv'
<1>1. PICK l \in Lookup(ShardOf(k), k) : returned' = returned \cup {<<k, Encode(ShardOf(k), l)>>}
  BY DEF Find
<1>2. UNCHANGED <<slots, count, table, owner, pc, call, aborted>>
  BY DEF Find
<1>3. ShardOf(k) \in Shards
  BY ShardOfType
<1>4. l \in table[ShardOf(k)] /\ slots[ShardOf(k)][l].key = k /\ l \in Locals
  BY <1>1, <1>3 DEF Lookup, IInv, TypeOK
<1>5. <<k, Encode(ShardOf(k), l)>> \in Keys \X Nat
  BY <1>3, <1>4, EncodeType
<1>6. TypeOK'
  BY <1>1, <1>2, <1>5 DEF IInv, TypeOK
<1>7. TableInitialized' /\ SlotsFilled' /\ KeysUnique' /\ ShardsFit'
  BY <1>2 DEF IInv, TableInitialized, SlotsFilled, KeysUnique, ShardsFit
<1>8. HoldsLock' /\ PushedSlot' /\ SlotsNamed'
  BY <1>2 DEF IInv, HoldsLock, PushedSlot, SlotsNamed
<1>9. ReturnedNamed'
  BY <1>1, <1>2, <1>4 DEF IInv, ReturnedNamed
<1>. QED
  BY <1>6, <1>7, <1>8, <1>9 DEF IInv

(* entry() takes the lock of the shard of its key, and only a free one. *)
LEMMA LockInv ==
  ASSUME IInv, NEW t \in Threads, NEW k \in Keys, NEW v \in Values, NEW mode \in Modes,
         Lock(t, k, v, mode)
  PROVE  IInv'
<1> DEFINE c == [key |-> k, value |-> v, mode |-> mode, local |-> 0]
<1>1. /\ pc[t] = "idle" /\ owner[ShardOf(k)] = NoOwner
      /\ owner' = [owner EXCEPT ![ShardOf(k)] = t]
      /\ pc' = [pc EXCEPT ![t] = "locked"]
      /\ call' = [call EXCEPT ![t] = c]
      /\ UNCHANGED <<slots, count, table, returned, aborted>>
  BY DEF Lock
<1>2. ShardOf(k) \in Shards
  BY ShardOfType
<1>3. c \in Calls /\ c.key = k
  BY MapAssumption DEF Calls, Locals
<1>. HIDE DEF c
<1>4. TypeOK'
  BY <1>1, <1>2, <1>3 DEF IInv, TypeOK
<1>5. TableInitialized' /\ SlotsFilled' /\ KeysUnique' /\ ShardsFit'
  BY <1>1 DEF IInv, TableInitialized, SlotsFilled, KeysUnique, ShardsFit
<1>6. HoldsLock'
  <2>1. SUFFICES ASSUME NEW u \in Threads, pc'[u] # "idle"
                 PROVE  call'[u] \in Calls /\ owner'[ShardOf(call'[u].key)] = u
    BY DEF HoldsLock
  <2>2. CASE u = t
    BY <2>2, <1>1, <1>2, <1>3 DEF IInv, TypeOK
  <2>3. CASE u # t
    <3>1. call'[u] = call[u] /\ pc[u] # "idle"
      BY <2>1, <2>3, <1>1 DEF IInv, TypeOK
    <3>2. call[u] \in Calls /\ owner[ShardOf(call[u].key)] = u
      BY <3>1 DEF IInv, HoldsLock
    <3>3. ShardOf(call[u].key) # ShardOf(k)
      BY <3>2, <1>1, NoneAssumption
    <3>. QED
      BY <3>1, <3>2, <3>3, <1>1, <1>2 DEF IInv, TypeOK
  <2>. QED
    BY <2>2, <2>3
<1>7. PushedSlot' /\ SlotsNamed'
  <2>1. \A u \in Threads : (pc'[u] = "pushed") <=> (pc[u] = "pushed")
    BY <1>1 DEF IInv, TypeOK
  <2>2. \A u \in Threads : pc[u] = "pushed" => call'[u] = call[u]
    BY <1>1 DEF IInv, TypeOK
  <2>. QED
    BY <2>1, <2>2, <1>1 DEF IInv, PushedSlot, SlotsNamed
<1>8. ReturnedNamed'
  BY <1>1 DEF IInv, ReturnedNamed
<1>. QED
  BY <1>4, <1>5, <1>6, <1>7, <1>8 DEF IInv

(* What an occupied entry does, given that shard numbers fit: the slot its *)
(* index leads to is its own, so no key changes and no other value.        *)
LEMMA OccupiedEffect ==
  ASSUME IInv, NEW t \in Threads, Occupied(t)
  PROVE  LET k == call[t].key
             s == ShardOf(k)
         IN  \E l \in Lookup(s, k) :
               /\ k \in Keys /\ s \in Shards /\ call[t].value \in Values /\ s < ShardRange
               /\ \/ slots' = slots
                  \/ slots' = [slots EXCEPT ![s] = [slots[s] EXCEPT ![l] =
                                  [key |-> k, value |-> call[t].value]]]
               /\ Return(t, k, Encode(s, l))
<1> DEFINE k == call[t].key
           s == ShardOf(k)
<1>1. pc[t] = "locked"
  BY DEF Occupied
<1>2. call[t] \in Calls
  BY <1>1 DEF IInv, HoldsLock
<1>3. k \in Keys /\ s \in Shards /\ call[t].value \in Values
  BY <1>2, ShardOfType DEF Calls
<1>4. PICK l \in Lookup(s, k) :
        /\ slots' = IF call[t].mode = "insert"
                      THEN [slots EXCEPT ![DecodeShard(Encode(s, l))][DecodeLocal(Encode(s, l))].value
                              = call[t].value]
                      ELSE slots
        /\ Return(t, k, Encode(s, l))
  BY DEF Occupied
<1>5. l \in table[s] /\ slots[s][l].key = k /\ l \in Locals
  BY <1>3, <1>4 DEF Lookup, IInv, TypeOK
<1>6. s < ShardRange
  BY <1>3, <1>5 DEF IInv, ShardsFit
<1>7. DecodeShard(Encode(s, l)) = s /\ DecodeLocal(Encode(s, l)) = l
  BY <1>3, <1>5, <1>6, EncodeInverse
<1>8. slots[s][l] \in Pairs
  BY <1>3, <1>5 DEF IInv, TableInitialized, SlotsFilled
<1>9. [slots[s][l] EXCEPT !.value = call[t].value] = [key |-> k, value |-> call[t].value]
  BY <1>5, <1>8 DEF Pairs
<1>10. slots' = slots \/ slots' = [slots EXCEPT ![s] = [slots[s] EXCEPT ![l] =
                                     [slots[s][l] EXCEPT !.value = call[t].value]]]
  BY <1>4, <1>7
<1>. QED
  BY <1>3, <1>4, <1>6, <1>9, <1>10

(* Return leaves the other threads' calls and locks as they are. *)
LEMMA ReturnLocks ==
  ASSUME IInv, NEW t \in Threads, NEW i, pc[t] # "idle", Return(t, call[t].key, i)
  PROVE  /\ HoldsLock'
         /\ owner' \in [Shards -> Threads \cup {NoOwner}]
         /\ pc' \in [Threads -> {"idle", "locked", "pushed"}]
         /\ call' \in [Threads -> Calls \cup {NoCall}]
         /\ \A u \in Threads : u # t => pc'[u] = pc[u] /\ call'[u] = call[u]
         /\ pc'[t] = "idle"
         /\ \A u \in Threads :
              u # t /\ pc[u] # "idle" => ShardOf(call[u].key) # ShardOf(call[t].key)
<1> DEFINE k == call[t].key
<1>1. /\ owner' = [owner EXCEPT ![ShardOf(k)] = NoOwner]
      /\ pc' = [pc EXCEPT ![t] = "idle"]
      /\ call' = [call EXCEPT ![t] = NoCall]
  BY DEF Return
<1>2. k \in Keys /\ ShardOf(k) \in Shards /\ owner[ShardOf(k)] = t
  BY ShardOfType DEF IInv, HoldsLock, Calls
<1>3. /\ owner' \in [Shards -> Threads \cup {NoOwner}]
      /\ pc' \in [Threads -> {"idle", "locked", "pushed"}]
      /\ call' \in [Threads -> Calls \cup {NoCall}]
      /\ \A u \in Threads : u # t => pc'[u] = pc[u] /\ call'[u] = call[u]
      /\ pc'[t] = "idle"
  BY <1>1, <1>2 DEF IInv, TypeOK
<1>4. \A u \in Threads : u # t /\ pc[u] # "idle" => ShardOf(call[u].key) # ShardOf(k)
  BY <1>2 DEF IInv, HoldsLock
<1>5. HoldsLock'
  <2>1. SUFFICES ASSUME NEW u \in Threads, pc'[u] # "idle"
                 PROVE  call'[u] \in Calls /\ owner'[ShardOf(call'[u].key)] = u
    BY DEF HoldsLock
  <2>2. u # t /\ pc[u] # "idle" /\ call'[u] = call[u]
    BY <2>1, <1>3
  <2>3. call[u] \in Calls /\ owner[ShardOf(call[u].key)] = u /\ ShardOf(call[u].key) # ShardOf(k)
    BY <2>2, <1>4 DEF IInv, HoldsLock
  <2>4. ShardOf(call[u].key) \in Shards
    BY <2>3, ShardOfType DEF Calls
  <2>. QED
    BY <2>2, <2>3, <2>4, <1>1 DEF IInv, TypeOK
<1>. QED
  BY <1>3, <1>4, <1>5

(* An insert of an interned key replaces its value and returns its index. *)
LEMMA OccupiedInv ==
  ASSUME IInv, NEW t \in Threads, Occupied(t)
  PROVE  IInv'
<1> DEFINE k == call[t].key
           s == ShardOf(k)
           pair == [key |-> k, value |-> call[t].value]
<1>1. PICK l \in Lookup(s, k) :
        /\ k \in Keys /\ s \in Shards /\ call[t].value \in Values /\ s < ShardRange
        /\ \/ slots' = slots
           \/ slots' = [slots EXCEPT ![s] = [slots[s] EXCEPT ![l] = pair]]
        /\ Return(t, k, Encode(s, l))
  BY OccupiedEffect
<1>2. pc[t] = "locked" /\ UNCHANGED <<count, table, aborted>>
  BY DEF Occupied
<1>3. l \in table[s] /\ slots[s][l].key = k /\ l \in Locals
  BY <1>1 DEF Lookup, IInv, TypeOK
<1>4. pair \in Pairs /\ pair.key = k
  BY <1>1 DEF Pairs
<1>. HIDE DEF pair
<1>5. slots' \in [Shards -> [Locals -> Pairs \cup {Vacant}]]
  BY <1>1, <1>3, <1>4, SMTT(60) DEF IInv, TypeOK
<1>6. \A r \in Shards, m \in Locals : slots'[r][m].key = slots[r][m].key
  BY <1>1, <1>3, <1>4 DEF IInv, TypeOK
<1>7. \A r \in Shards, m \in Locals : slots[r][m] \in Pairs => slots'[r][m] \in Pairs
  BY <1>1, <1>3, <1>4 DEF IInv, TypeOK
<1>8. returned' = returned \cup {<<k, Encode(s, l)>>} /\ <<k, Encode(s, l)>> \in Keys \X Nat
  BY <1>1, <1>3, EncodeType DEF Return
<1>9. /\ HoldsLock'
      /\ owner' \in [Shards -> Threads \cup {NoOwner}]
      /\ pc' \in [Threads -> {"idle", "locked", "pushed"}]
      /\ call' \in [Threads -> Calls \cup {NoCall}]
      /\ \A u \in Threads : u # t => pc'[u] = pc[u] /\ call'[u] = call[u]
      /\ pc'[t] = "idle"
  BY <1>1, <1>2, ReturnLocks
<1>10. TypeOK'
  BY <1>2, <1>5, <1>8, <1>9 DEF IInv, TypeOK
<1>11. TableInitialized' /\ ShardsFit'
  BY <1>2 DEF IInv, TableInitialized, ShardsFit
<1>12. SlotsFilled' /\ KeysUnique'
  BY <1>2, <1>6, <1>7 DEF IInv, SlotsFilled, KeysUnique
<1>13. \A u \in Threads : (pc'[u] = "pushed") <=> (pc[u] = "pushed")
  BY <1>2, <1>9
<1>14. \A u \in Threads : pc[u] = "pushed" => call'[u] = call[u]
  BY <1>2, <1>9
<1>15. SlotsNamed'
  BY <1>2, <1>13, <1>14 DEF IInv, SlotsNamed
<1>16. PushedSlot'
  <2>1. \A u \in Threads : pc[u] = "pushed" =>
           ShardOf(call[u].key) \in Shards /\ call[u].local \in Locals
    BY ShardOfType DEF IInv, HoldsLock, Calls
  <2>. QED
    BY <1>2, <1>6, <1>13, <1>14, <2>1 DEF IInv, PushedSlot
<1>17. ReturnedNamed'
  <2>1. SUFFICES ASSUME NEW p \in returned'
                 PROVE  \E m \in table[ShardOf(p[1])] :
                          slots'[ShardOf(p[1])][m].key = p[1] /\ p[2] = Encode(ShardOf(p[1]), m)
    BY <1>2 DEF ReturnedNamed
  <2>2. CASE p \in returned
    <3>1. PICK m \in table[ShardOf(p[1])] :
            slots[ShardOf(p[1])][m].key = p[1] /\ p[2] = Encode(ShardOf(p[1]), m)
      BY <2>2 DEF IInv, ReturnedNamed
    <3>2. ShardOf(p[1]) \in Shards
      BY <2>2, ShardOfType DEF IInv, TypeOK
    <3>3. m \in Locals
      BY <3>1, <3>2 DEF IInv, TypeOK
    <3>. QED
      BY <3>1, <3>2, <3>3, <1>6
  <2>3. CASE p = <<k, Encode(s, l)>>
    BY <2>3, <1>1, <1>3, <1>6
  <2>. QED
    BY <2>1, <2>2, <2>3, <1>8
<1>. QED
  BY <1>9, <1>10, <1>11, <1>12, <1>15, <1>16, <1>17 DEF IInv

(* The push of a vacant entry appends a slot that no table names yet. *)
LEMMA PushInv ==
  ASSUME IInv, NEW t \in Threads, Push(t)
  PROVE  IInv'
<1> DEFINE k == call[t].key
           s == ShardOf(k)
           pair == [key |-> k, value |-> call[t].value]
<1>1. CASE count[s] >= Capacity
  <2>1. UNCHANGED <<slots, count, table, owner, pc, call, returned>> /\ aborted' \in BOOLEAN
    BY <1>1 DEF Push, Panic
  <2>. QED
    BY <2>1, SameMap
<1>2. CASE ~(count[s] >= Capacity)
  <2>1. /\ pc[t] = "locked" /\ Lookup(s, k) = {}
        /\ slots' = [slots EXCEPT ![s][count[s]] = pair]
        /\ count' = [count EXCEPT ![s] = count[s] + 1]
        /\ pc' = [pc EXCEPT ![t] = "pushed"]
        /\ call' = [call EXCEPT ![t].local = count[s]]
        /\ UNCHANGED <<table, owner, returned, aborted>>
    BY <1>2 DEF Push
  <2>2. call[t] \in Calls /\ owner[s] = t
    BY <2>1 DEF IInv, HoldsLock
  <2>3. k \in Keys /\ s \in Shards
    BY <2>2, ShardOfType DEF Calls
  <2>4. count[s] \in Locals
    BY <1>2, <2>3, MapAssumption DEF IInv, TypeOK, Locals
  <2>5. pair \in Pairs /\ pair.key = k
    BY <2>2 DEF Pairs, Calls
  <2>. HIDE DEF pair
  <2>6. /\ \A r \in Shards, m \in Locals :
              slots'[r][m] = IF r = s /\ m = count[s] THEN pair ELSE slots[r][m]
        /\ slots' \in [Shards -> [Locals -> Pairs \cup {Vacant}]]
    BY <2>1, <2>3, <2>4, <2>5 DEF IInv, TypeOK
  <2>7. call'[t] \in Calls /\ call'[t].key = k /\ call'[t].local = count[s]
    BY <2>1, <2>2, <2>4 DEF IInv, TypeOK, Calls
  <2>8. \A u \in Threads : u # t => call'[u] = call[u] /\ pc'[u] = pc[u]
    BY <2>1 DEF IInv, TypeOK
  <2>9. pc'[t] = "pushed" /\ pc' \in [Threads -> {"idle", "locked", "pushed"}]
    BY <2>1 DEF IInv, TypeOK
  <2>10. /\ \A r \in Shards : count'[r] = IF r = s THEN count[s] + 1 ELSE count[r]
         /\ count' \in [Shards -> 0 .. Capacity]
         /\ \A r \in Shards : count[r] \in Nat
    BY <1>2, <2>1, <2>3, MapAssumption DEF IInv, TypeOK
  <2>11. call' \in [Threads -> Calls \cup {NoCall}]
    BY <2>1, <2>7, <2>8 DEF IInv, TypeOK
  <2>12. TypeOK'
    BY <2>1, <2>6, <2>9, <2>10, <2>11 DEF IInv, TypeOK
  <2>13. TableInitialized' /\ ShardsFit'
    BY <2>1, <2>10, MapAssumption DEF IInv, TypeOK, TableInitialized, ShardsFit, Locals
  <2>14. SlotsFilled'
    BY <2>3, <2>5, <2>6, <2>10 DEF IInv, SlotsFilled, Locals
  <2>15. \A m \in Locals : m < count[s] => slots[s][m].key # k
    <3>1. SUFFICES ASSUME NEW m \in Locals, m < count[s], slots[s][m].key = k PROVE FALSE
      OBVIOUS
    <3>2. m \notin table[s]
      BY <3>1, <2>1 DEF Lookup
    <3>3. PICK u \in Threads : pc[u] = "pushed" /\ ShardOf(call[u].key) = s
      BY <3>1, <3>2, <2>3 DEF IInv, SlotsNamed
    <3>4. owner[s] = u
      BY <3>3 DEF IInv, HoldsLock
    <3>. QED
      BY <3>3, <3>4, <2>1, <2>2
  <2>16. KeysUnique'
    <3>1. SUFFICES ASSUME NEW r \in Shards, NEW l \in Locals, NEW m \in Locals,
                          l < count'[r], m < count'[r], slots'[r][l].key = slots'[r][m].key
                   PROVE  l = m
      BY DEF KeysUnique
    <3>2. CASE r # s
      BY <3>1, <3>2, <2>6, <2>10 DEF IInv, KeysUnique
    <3>3. CASE r = s
      BY <3>1, <3>3, <2>4, <2>5, <2>6, <2>10, <2>15 DEF IInv, KeysUnique, Locals
    <3>. QED
      BY <3>2, <3>3
  <2>17. HoldsLock'
    BY <2>1, <2>2, <2>7, <2>8 DEF IInv, HoldsLock
  <2>18. PushedSlot'
    <3>1. SUFFICES ASSUME NEW u \in Threads, pc'[u] = "pushed"
                   PROVE  /\ count'[ShardOf(call'[u].key)] = call'[u].local + 1
                          /\ slots'[ShardOf(call'[u].key)][call'[u].local].key = call'[u].key
                          /\ call'[u].local \notin table[ShardOf(call'[u].key)]
      BY <2>1 DEF PushedSlot
    <3>2. CASE u = t
      <4>1. count[s] \notin table[s]
        BY <2>3, <2>10 DEF IInv, TableInitialized
      <4>. QED
        BY <3>2, <4>1, <2>3, <2>4, <2>5, <2>6, <2>7, <2>10
    <3>3. CASE u # t
      <4>1. call'[u] = call[u] /\ pc[u] = "pushed" /\ call[u] \in Calls
            /\ owner[ShardOf(call[u].key)] = u
        BY <3>1, <3>3, <2>8 DEF IInv, HoldsLock
      <4>2. ShardOf(call[u].key) # s /\ ShardOf(call[u].key) \in Shards /\ call[u].local \in Locals
        BY <4>1, <3>3, <2>2, ShardOfType DEF Calls
      <4>. QED
        BY <4>1, <4>2, <2>6, <2>10 DEF IInv, PushedSlot
    <3>. QED
      BY <3>2, <3>3
  <2>19. SlotsNamed'
    <3>1. SUFFICES ASSUME NEW r \in Shards, NEW l \in Locals, l < count'[r], l \notin table[r]
                   PROVE  \E u \in Threads :
                            pc'[u] = "pushed" /\ ShardOf(call'[u].key) = r /\ call'[u].local = l
      BY <2>1 DEF SlotsNamed
    <3>2. CASE r = s /\ l = count[s]
      BY <3>2, <2>7, <2>9
    <3>3. CASE ~(r = s /\ l = count[s])
      <4>1. l < count[r]
        BY <3>1, <3>3, <2>10 DEF Locals
      <4>2. PICK u \in Threads : pc[u] = "pushed" /\ ShardOf(call[u].key) = r /\ call[u].local = l
        BY <3>1, <4>1 DEF IInv, SlotsNamed
      <4>. QED
        BY <4>2, <2>1, <2>8
    <3>. QED
      BY <3>2, <3>3
  <2>20. ReturnedNamed'
    <3>1. SUFFICES ASSUME NEW p \in returned
                   PROVE  \E m \in table[ShardOf(p[1])] :
                            slots'[ShardOf(p[1])][m].key = p[1] /\ p[2] = Encode(ShardOf(p[1]), m)
      BY <2>1 DEF ReturnedNamed
    <3>2. PICK m \in table[ShardOf(p[1])] :
            slots[ShardOf(p[1])][m].key = p[1] /\ p[2] = Encode(ShardOf(p[1]), m)
      BY DEF IInv, ReturnedNamed
    <3>3. ShardOf(p[1]) \in Shards
      BY ShardOfType DEF IInv, TypeOK
    <3>4. m \in Locals /\ m < count[ShardOf(p[1])]
      BY <3>2, <3>3 DEF IInv, TypeOK, TableInitialized
    <3>. QED
      BY <3>2, <3>3, <3>4, <2>6, <2>10
  <2>. QED
    BY <2>12, <2>13, <2>14, <2>16, <2>17, <2>18, <2>19, <2>20 DEF IInv
<1>. QED
  BY <1>1, <1>2

(* Naming the pushed slot gives a key that had no index exactly one. *)
LEMMA InsertUniqueInv ==
  ASSUME IndexFits, IInv, NEW t \in Threads, InsertUnique(t)
  PROVE  IInv'
<1> DEFINE k == call[t].key
           s == ShardOf(k)
           l == call[t].local
<1>1. CASE IndexPanics(s)
  <2>1. UNCHANGED <<slots, count, table, owner, pc, call, returned>> /\ aborted' \in BOOLEAN
    BY <1>1 DEF InsertUnique, Panic
  <2>. QED
    BY <2>1, SameMap
<1>2. CASE ~IndexPanics(s)
  <2>1. /\ pc[t] = "pushed"
        /\ table' = [table EXCEPT ![s] = table[s] \cup {l}]
        /\ Return(t, k, Encode(s, l))
        /\ UNCHANGED <<slots, count, aborted>>
    BY <1>2 DEF InsertUnique
  <2>2. call[t] \in Calls /\ owner[s] = t
    BY <2>1 DEF IInv, HoldsLock
  <2>3. k \in Keys /\ s \in Shards /\ l \in Locals
    BY <2>2, ShardOfType DEF Calls
  <2>4. count[s] = l + 1 /\ slots[s][l].key = k
    BY <2>1 DEF IInv, PushedSlot
  <2>5. s < ShardRange
    BY <1>2, <2>3, MapAssumption DEF IndexPanics, IndexFits, Shards
  <2>6. /\ HoldsLock'
        /\ owner' \in [Shards -> Threads \cup {NoOwner}]
        /\ pc' \in [Threads -> {"idle", "locked", "pushed"}]
        /\ call' \in [Threads -> Calls \cup {NoCall}]
        /\ \A u \in Threads : u # t => pc'[u] = pc[u] /\ call'[u] = call[u]
        /\ pc'[t] = "idle"
        /\ \A u \in Threads : u # t /\ pc[u] # "idle" => ShardOf(call[u].key) # s
    BY <2>1, ReturnLocks
  <2>7. /\ \A r \in Shards : table'[r] = IF r = s THEN table[s] \cup {l} ELSE table[r]
        /\ table' \in [Shards -> SUBSET Locals]
    BY <2>1, <2>3 DEF IInv, TypeOK
  <2>8. returned' = returned \cup {<<k, Encode(s, l)>>} /\ <<k, Encode(s, l)>> \in Keys \X Nat
    BY <2>1, <2>3, EncodeType DEF Return
  <2>9. TypeOK'
    BY <2>1, <2>6, <2>7, <2>8 DEF IInv, TypeOK
  <2>10. TableInitialized' /\ ShardsFit'
    BY <2>1, <2>3, <2>4, <2>5, <2>7 DEF IInv, TableInitialized, ShardsFit, Locals
  <2>11. SlotsFilled' /\ KeysUnique'
    BY <2>1 DEF IInv, SlotsFilled, KeysUnique
  <2>12. PushedSlot'
    <3>1. SUFFICES ASSUME NEW u \in Threads, pc'[u] = "pushed"
                   PROVE  /\ count[ShardOf(call'[u].key)] = call'[u].local + 1
                          /\ slots[ShardOf(call'[u].key)][call'[u].local].key = call'[u].key
                          /\ call'[u].local \notin table'[ShardOf(call'[u].key)]
      BY <2>1 DEF PushedSlot
    <3>2. u # t /\ pc[u] = "pushed" /\ call'[u] = call[u] /\ ShardOf(call[u].key) # s
      BY <3>1, <2>6
    <3>3. ShardOf(call[u].key) \in Shards
      BY <3>2, ShardOfType DEF IInv, HoldsLock, Calls
    <3>. QED
      BY <3>2, <3>3, <2>7 DEF IInv, PushedSlot
  <2>13. SlotsNamed'
    <3>1. SUFFICES ASSUME NEW r \in Shards, NEW m \in Locals, m < count[r], m \notin table'[r]
                   PROVE  \E u \in Threads :
                            pc'[u] = "pushed" /\ ShardOf(call'[u].key) = r /\ call'[u].local = m
      BY <2>1 DEF SlotsNamed
    <3>2. m \notin table[r]
      BY <3>1, <2>7
    <3>3. PICK u \in Threads : pc[u] = "pushed" /\ ShardOf(call[u].key) = r /\ call[u].local = m
      BY <3>1, <3>2 DEF IInv, SlotsNamed
    <3>4. u # t
      BY <3>1, <3>3, <2>7
    <3>. QED
      BY <3>3, <3>4, <2>6
  <2>14. ReturnedNamed'
    <3>1. SUFFICES ASSUME NEW p \in returned'
                   PROVE  \E m \in table'[ShardOf(p[1])] :
                            slots[ShardOf(p[1])][m].key = p[1] /\ p[2] = Encode(ShardOf(p[1]), m)
      BY <2>1 DEF ReturnedNamed
    <3>2. CASE p \in returned
      <4>1. PICK m \in table[ShardOf(p[1])] :
              slots[ShardOf(p[1])][m].key = p[1] /\ p[2] = Encode(ShardOf(p[1]), m)
        BY <3>2 DEF IInv, ReturnedNamed
      <4>2. ShardOf(p[1]) \in Shards
        BY <3>2, ShardOfType DEF IInv, TypeOK
      <4>. QED
        BY <4>1, <4>2, <2>7
    <3>3. CASE p = <<k, Encode(s, l)>>
      BY <3>3, <2>3, <2>4, <2>7
    <3>. QED
      BY <3>1, <3>2, <3>3, <2>8
  <2>. QED
    BY <2>6, <2>9, <2>10, <2>11, <2>12, <2>13, <2>14 DEF IInv
<1>. QED
  BY <1>1, <1>2

(* Every step of every thread preserves the inductive invariant. *)
LEMMA NextInv ==
  ASSUME IndexFits, IInv, [Next]_vars
  PROVE  IInv'
<1>1. CASE UNCHANGED vars
  <2>1. UNCHANGED <<slots, count, table, owner, pc, call, returned>> /\ aborted' \in BOOLEAN
    BY <1>1 DEF vars, IInv, TypeOK
  <2>. QED
    BY <2>1, SameMap
<1>2. CASE Next
  <2>1. PICK t \in Threads :
          \/ \E k \in Keys : Find(t, k)
          \/ \E k \in Keys, v \in Values, mode \in Modes : Lock(t, k, v, mode)
          \/ Occupied(t)
          \/ Push(t)
          \/ InsertUnique(t)
    BY <1>2 DEF Next
  <2>. QED
    BY <2>1, FindInv, LockInv, OccupiedInv, PushInv, InsertUniqueInv
<1>. QED
  BY <1>1, <1>2

(* The inductive invariant of the sharded map, for every number of         *)
(* threads, keys and shards whose numbers fit an Index.                    *)
THEOREM MapInvariant == ASSUME IndexFits PROVE Spec => []IInv
<1>1. Init => IInv
  BY InitInv
<1>2. IInv /\ [Next]_vars => IInv'
  BY NextInv
<1>. QED
  BY <1>1, <1>2, PTL DEF Spec
-------------------------------------------------------------------------------
(* A key that was returned sits in a table, under an index that leads back *)
(* to it.                                                                  *)
LEMMA ReturnedSlot ==
  ASSUME IInv, NEW p \in returned
  PROVE  \E l \in Locals :
           /\ ShardOf(p[1]) \in Shards /\ ShardOf(p[1]) < ShardRange
           /\ l < count[ShardOf(p[1])]
           /\ slots[ShardOf(p[1])][l].key = p[1]
           /\ p[2] = Encode(ShardOf(p[1]), l)
<1>1. PICK l \in table[ShardOf(p[1])] :
        slots[ShardOf(p[1])][l].key = p[1] /\ p[2] = Encode(ShardOf(p[1]), l)
  BY DEF IInv, ReturnedNamed
<1>2. ShardOf(p[1]) \in Shards
  BY ShardOfType DEF IInv, TypeOK
<1>3. l \in Locals /\ l < count[ShardOf(p[1])] /\ ShardOf(p[1]) < ShardRange
  BY <1>1, <1>2 DEF IInv, TypeOK, TableInitialized, ShardsFit
<1>. QED
  BY <1>1, <1>2, <1>3

(* Equal keys were given equal indices and different keys different ones,  *)
(* and every returned index reads its key back without the lock.           *)
THEOREM MapSafe == ASSUME IndexFits PROVE Spec => [](OneIndexPerKey /\ ReadBack)
<1>1. ASSUME IInv PROVE ReadBack
  <2>1. SUFFICES ASSUME NEW p \in returned
                 PROVE  /\ p[2] # None
                        /\ DecodeShard(p[2]) \in Shards
                        /\ DecodeLocal(p[2]) < count[DecodeShard(p[2])]
                        /\ slots[DecodeShard(p[2])][DecodeLocal(p[2])].key = p[1]
    BY DEF ReadBack
  <2>. QED
    BY <1>1, ReturnedSlot, EncodeInverse
<1>2. ASSUME IInv PROVE OneIndexPerKey
  <2>1. SUFFICES ASSUME NEW p \in returned, NEW q \in returned
                 PROVE  (p[1] = q[1]) <=> (p[2] = q[2])
    BY DEF OneIndexPerKey
  <2>2. ASSUME p[2] = q[2] PROVE p[1] = q[1]
    BY <1>1, <1>2, <2>2 DEF ReadBack
  <2>3. ASSUME p[1] = q[1] PROVE p[2] = q[2]
    BY <1>2, <2>3, ReturnedSlot DEF IInv, KeysUnique
  <2>. QED
    BY <2>2, <2>3
<1>3. IInv => OneIndexPerKey /\ ReadBack
  BY <1>1, <1>2
<1>. QED
  BY <1>3, MapInvariant, PTL

(* An index that a call returned decodes to a shard and a slot that hold   *)
(* the key of the call, for a reader without the lock.                     *)
THEOREM MapReadBack == ASSUME IndexFits PROVE Spec => []ReadBack
BY MapSafe, PTL
-------------------------------------------------------------------------------

(* Steps that change neither a named slot nor a table leave the entries. *)
LEMMA SameEntries ==
  ASSUME table' = table,
         \A s \in Shards : \A l \in table[s] : slots'[s][l] = slots[s][l]
  PROVE  Entries' = Entries
  BY DEF Entries, EntryAt

(* An insert of an interned key is an Update of the abstract map. *)
LEMMA OccupiedRefines ==
  ASSUME IInv, NEW t \in Threads, Occupied(t)
  PROVE  [Abstract!Next]_Entries
<1>1. PICK s \in Shards, k \in Keys, v \in Values :
        /\ s < ShardRange
        /\ \E l \in Lookup(s, k) :
             \/ slots' = slots
             \/ slots' = [slots EXCEPT ![s] = [slots[s] EXCEPT ![l] = [key |-> k, value |-> v]]]
  BY OccupiedEffect
<1>2. PICK l \in Lookup(s, k) :
        \/ slots' = slots
        \/ slots' = [slots EXCEPT ![s] = [slots[s] EXCEPT ![l] = [key |-> k, value |-> v]]]
  BY <1>1
<1>3. table' = table
  BY DEF Occupied
<1>4. CASE slots' = slots
  BY <1>3, <1>4, SameEntries
<1>5. CASE slots' = [slots EXCEPT ![s] = [slots[s] EXCEPT ![l] = [key |-> k, value |-> v]]]
  <2> DEFINE e == EntryAt(s, l)
             f == [key |-> e.key, index |-> e.index, value |-> v]
  <2>1. l \in table[s] /\ slots[s][l].key = k /\ l \in Locals
    BY <1>2 DEF Lookup, IInv, TypeOK
  <2>2. e \in Entries /\ e.key = k /\ e.index = Encode(s, l)
    BY <1>1, <2>1 DEF Entries, EntryAt
  <2>3. f = [key |-> k, index |-> Encode(s, l), value |-> v]
    BY <2>2
  <2>4. /\ slots'[s][l].key = k /\ slots'[s][l].value = v
        /\ \A r \in Shards, m \in Locals : r # s \/ m # l => slots'[r][m] = slots[r][m]
    BY <1>5, <2>1 DEF IInv, TypeOK
  <2>5. EntryAt(s, l)' = f
    BY <2>3, <2>4 DEF EntryAt
  <2>6. \A r \in Shards : \A m \in table[r] : r # s \/ m # l =>
           EntryAt(r, m)' = EntryAt(r, m) /\ EntryAt(r, m).index # e.index
    <3>1. SUFFICES ASSUME NEW r \in Shards, NEW m \in table[r], r # s \/ m # l
                   PROVE  EntryAt(r, m)' = EntryAt(r, m) /\ EntryAt(r, m).index # e.index
      OBVIOUS
    <3>2. m \in Locals /\ r < ShardRange
      BY <3>1 DEF IInv, TypeOK, ShardsFit
    <3>3. Encode(r, m) # Encode(s, l)
      BY <3>1, <3>2, <1>1, <2>1, EncodeInjective
    <3>. QED
      BY <3>1, <3>2, <3>3, <2>2, <2>4 DEF EntryAt
  <2>. HIDE DEF e, f
  <2>7. Entries' = (Entries \ {e}) \cup {f}
    <3>1. ASSUME NEW x \in Entries' PROVE x \in (Entries \ {e}) \cup {f}
      <4>1. PICK r \in Shards, m \in Locals : m \in table[r] /\ x = EntryAt(r, m)'
        BY <1>3 DEF Entries, IInv, TypeOK
      <4>2. CASE r = s /\ m = l
        BY <4>1, <4>2, <2>5
      <4>3. CASE r # s \/ m # l
        <5>1. x = EntryAt(r, m) /\ x.index # e.index
          BY <4>1, <4>3, <2>6
        <5>. QED
          BY <4>1, <5>1 DEF Entries
      <4>. QED
        BY <4>2, <4>3
    <3>2. ASSUME NEW x \in (Entries \ {e}) \cup {f} PROVE x \in Entries'
      <4>1. CASE x = f
        BY <4>1, <1>1, <1>3, <2>1, <2>5 DEF Entries
      <4>2. CASE x # f
        <5>1. x \in Entries /\ x # e
          BY <4>2, <3>2
        <5>2. PICK r \in Shards, m \in Locals : m \in table[r] /\ x = EntryAt(r, m)
          BY <5>1 DEF Entries, IInv, TypeOK
        <5>3. r # s \/ m # l
          BY <5>1, <5>2 DEF e
        <5>4. x = EntryAt(r, m)'
          BY <5>2, <5>3, <2>6
        <5>. QED
          BY <5>2, <5>4, <1>3 DEF Entries
      <4>. QED
        BY <4>1, <4>2
    <3>. QED
      BY <3>1, <3>2
  <2>8. Abstract!Replace(e, v)
    BY <2>7 DEF Abstract!Replace, f
  <2>. QED
    BY <2>2, <2>8, <1>1 DEF Abstract!Next
<1>. QED
  BY <1>2, <1>4, <1>5

(* The insert into the hash table is the Insert of the abstract map. *)
LEMMA InsertUniqueRefines ==
  ASSUME IndexFits, IInv, NEW t \in Threads, InsertUnique(t)
  PROVE  [Abstract!Next]_Entries
<1> DEFINE k == call[t].key
           s == ShardOf(k)
           l == call[t].local
           v == slots[s][l].value
<1>1. CASE IndexPanics(s)
  <2>1. UNCHANGED <<table, slots>>
    BY <1>1 DEF InsertUnique, Panic
  <2>. QED
    BY <2>1, SameEntries
<1>2. CASE ~IndexPanics(s)
  <2>1. /\ pc[t] = "pushed"
        /\ table' = [table EXCEPT ![s] = table[s] \cup {l}]
        /\ slots' = slots
    BY <1>2 DEF InsertUnique
  <2>2. call[t] \in Calls
    BY <2>1 DEF IInv, HoldsLock
  <2>3. k \in Keys /\ s \in Shards /\ l \in Locals
    BY <2>2, ShardOfType DEF Calls
  <2>4. count[s] = l + 1 /\ slots[s][l].key = k /\ l \notin table[s]
    BY <2>1 DEF IInv, PushedSlot
  <2>5. l < count[s]
    BY <2>3, <2>4 DEF Locals
  <2>6. v \in Values
    BY <2>3, <2>5 DEF IInv, SlotsFilled, Pairs
  <2>7. s < ShardRange
    BY <1>2, <2>3, MapAssumption DEF IndexPanics, IndexFits, Shards
  <2>8. Encode(s, l) \in 0 .. None
    BY <2>3, <2>7, EncodeInverse
  <2>9. ASSUME NEW x \in Entries PROVE x.key # k /\ x.index # Encode(s, l)
    <3>1. PICK r \in Shards, m \in Locals : m \in table[r] /\ x = EntryAt(r, m)
      BY <2>9 DEF Entries, IInv, TypeOK
    <3>2. m \in Locals /\ r < ShardRange /\ m < count[r]
      BY <3>1 DEF IInv, TypeOK, ShardsFit, TableInitialized
    <3>3. r # s \/ m # l
      BY <3>1, <2>4
    <3>4. Encode(r, m) # Encode(s, l)
      BY <3>1, <3>2, <3>3, <2>3, <2>7, EncodeInjective
    <3>5. slots[r][m].key # k
      BY <3>1, <3>2, <3>3, <2>3, <2>4, <2>5 DEF IInv, SlotsFilled, KeysUnique
    <3>. QED
      BY <3>1, <3>4, <3>5 DEF EntryAt
  <2>10. Entries' = Entries \cup {EntryAt(s, l)}
    <3>1. \A r \in Shards : table'[r] = IF r = s THEN table[s] \cup {l} ELSE table[r]
      BY <2>1, <2>3 DEF IInv, TypeOK
    <3>2. \A r, m : EntryAt(r, m)' = EntryAt(r, m)
      BY <2>1 DEF EntryAt
    <3>3. Entries' = UNION {{EntryAt(r, m) : m \in table'[r]} : r \in Shards}
      BY <3>2 DEF Entries
    <3>4. PICK r \in Shards, m \in Locals : r = s /\ m = l
      BY <2>3
    <3>. QED
      BY <3>1, <3>3, <3>4 DEF Entries
  <2>11. EntryAt(s, l) = [key |-> k, index |-> Encode(s, l), value |-> v]
    BY <2>4 DEF EntryAt
  <2>12. Abstract!Intern(k, Encode(s, l), v)
    BY <2>9, <2>10, <2>11 DEF Abstract!Intern
  <2>. QED
    BY <2>3, <2>6, <2>8, <2>12 DEF Abstract!Next
<1>. QED
  BY <1>1, <1>2

(* The push into the arena changes nothing a user can see. *)
LEMMA PushRefines ==
  ASSUME IInv, NEW t \in Threads, Push(t)
  PROVE  Entries' = Entries
<1> DEFINE k == call[t].key
           s == ShardOf(k)
<1>1. table' = table
  BY DEF Push, Panic
<1>2. CASE slots' = slots
  BY <1>1, <1>2, SameEntries
<1>3. CASE /\ pc[t] = "locked"
           /\ slots' = [slots EXCEPT ![s][count[s]] = [key |-> k, value |-> call[t].value]]
  <2>1. call[t] \in Calls
    BY <1>3 DEF IInv, HoldsLock
  <2>2. s \in Shards
    BY <2>1, ShardOfType DEF Calls
  <2>3. \A r \in Shards : \A l \in table[r] : l \in Locals /\ l < count[r] /\ count[r] \in Nat
    BY DEF IInv, TypeOK, TableInitialized
  <2>4. \A r \in Shards : \A l \in table[r] : r # s \/ l # count[s]
    BY <2>3, MapAssumption DEF Locals
  <2>5. \A r \in Shards : \A l \in Locals : r # s \/ l # count[s] => slots'[r][l] = slots[r][l]
    BY <1>3, <2>2 DEF IInv, TypeOK
  <2>. QED
    BY <1>1, <2>3, <2>4, <2>5, SameEntries
<1>. QED
  BY <1>2, <1>3 DEF Push, Panic

(* The sharded, concurrent map implements the interning map: its steps     *)
(* intern a new key under a new index, replace the value of one key, or    *)
(* change nothing that a user of the map can see.                          *)
THEOREM MapImplements == ASSUME IndexFits PROVE Spec => Implements
<1>1. Init => Abstract!Init
  BY DEF Init, Abstract!Init, Entries
<1>2. ASSUME IInv, [Next]_vars PROVE [Abstract!Next]_Entries
  <2>1. CASE UNCHANGED vars
    BY <2>1, SameEntries DEF vars
  <2>2. CASE Next
    <3>1. PICK t \in Threads :
            \/ \E k \in Keys : Find(t, k)
            \/ \E k \in Keys, v \in Values, mode \in Modes : Lock(t, k, v, mode)
            \/ Occupied(t)
            \/ Push(t)
            \/ InsertUnique(t)
      BY <2>2 DEF Next
    <3>2. CASE \E k \in Keys : Find(t, k)
      BY <3>2, SameEntries DEF Find
    <3>3. CASE \E k \in Keys, v \in Values, mode \in Modes : Lock(t, k, v, mode)
      BY <3>3, SameEntries DEF Lock
    <3>. QED
      BY <1>2, <3>1, <3>2, <3>3, OccupiedRefines, PushRefines, InsertUniqueRefines
  <2>. QED
    BY <1>2, <2>1, <2>2
<1>3. IInv /\ [Next]_vars => [Abstract!Next]_Entries
  BY <1>2
<1>. QED
  BY <1>1, <1>3, MapInvariant, PTL DEF Spec, Implements, Abstract!Spec

===============================================================================
