--------------------------- MODULE VirtArenaProofs ---------------------------
(***************************************************************************)
(* Safety of VirtArena for every set of threads, capacity, element size,   *)
(* granularity and build.                                                  *)
(***************************************************************************)
EXTENDS VirtArena, TLAPS

(* The parts of the inductive invariant. *)

(* [0, committed) is mapped although `committed` may go down: every value  *)
(* stored there was the end of a range whose committer knew the rest.      *)
CommittedMapped == \A i \in Indices : i < committed => i \in mapped

(* What each thread inside push() knows at its next step. *)
KnowsMapped ==
  \A t \in Threads :
    /\ pc[t] = "commit" => \A i \in Indices : i < current[t] => i \in mapped
    /\ pc[t] = "store" => \A i \in Indices : i < CommitTarget(index[t]) => i \in mapped

(* A thread inside push() owns an index that is claimed, within capacity   *)
(* and not yet published, and no other thread inside push() has it.        *)
OwnsIndex ==
  /\ \A t \in Threads :
       pc[t] \in InPush => index[t] \in Indices /\ initialized <= index[t] /\ index[t] < len
  /\ \A t, u \in Threads :
       pc[t] \in InPush /\ pc[u] \in InPush /\ index[t] = index[u] => t = u

HasWritten == \A t \in Threads : pc[t] = "publish" => slot[index[t]] = t

PublishedClaimed == initialized <= len

IInv ==
  /\ TypeOK
  /\ CommittedMapped
  /\ KnowsMapped
  /\ MappedBeforeWrite
  /\ OwnsIndex
  /\ HasWritten
  /\ PublishedClaimed
  /\ PublishedWritten
  /\ ReturnedReadable

(* A granule holds at least one element, also when an element is larger.   *)
LEMMA GranularityPositive == Granularity \in Nat \ {0}
<1> DEFINE n == GranularityBytes + ElemSize - 1
<1>1. n \in Nat /\ n >= ElemSize
  BY ArenaAssumption
<1>2. ElemSize \in Nat /\ ElemSize > 0
  BY ArenaAssumption
<1> HIDE DEF n
<1>3. n \div ElemSize \in Nat /\ n \div ElemSize >= 1
  BY <1>1, <1>2
<1> QED
  BY <1>3 DEF Granularity, n

(* The end of a granule is beyond the index it is computed for, and inside *)
(* the reservation: what `((index / G) + 1) * G` capped by the capacity    *)
(* gives in ensure_committed_for_index.                                    *)
LEMMA CommitTargetCovers ==
  ASSUME NEW i \in Indices
  PROVE  CommitTarget(i) \in 0 .. Capacity /\ i < CommitTarget(i)
<1> DEFINE g == Granularity
           q == i \div g
<1>1. g \in Nat /\ g > 0
  BY GranularityPositive
<1>2. i \in Nat /\ i < Capacity /\ Capacity \in Nat
  BY ArenaAssumption DEF Indices
<1> HIDE DEF g
<1>3. q \in Nat /\ i = g * q + (i % g) /\ i % g \in 0 .. g - 1
  BY <1>1, <1>2
<1> HIDE DEF q
<1>4. (q + 1) * g = g * q + g
  BY <1>1, <1>3
<1>5. i < (q + 1) * g /\ (q + 1) * g \in Nat
  <2>1. g * q \in Nat
    BY <1>1, <1>3
  <2> QED
    BY <1>1, <1>2, <1>3, <1>4, <2>1
<1>6. CommitTarget(i) = IF (q + 1) * g < Capacity THEN (q + 1) * g ELSE Capacity
  BY DEF CommitTarget, g, q
<1> QED
  BY <1>2, <1>5, <1>6

(* A fresh arena, reserved and with nothing committed, satisfies the invariant. *)
LEMMA InitInv == Init => IInv
<1> SUFFICES ASSUME Init
             PROVE  IInv
  OBVIOUS
<1> USE ArenaAssumption DEF Init
<1>1. TypeOK
  <2>1. len \in Nat /\ initialized \in 0 .. Capacity /\ committed \in 0 .. Capacity
    OBVIOUS
  <2>2. slot \in [Indices -> Threads \cup {Unset}] /\ mapped \in SUBSET Indices
    OBVIOUS
  <2>3. pc \in [Threads -> Steps] /\ index \in [Threads -> Nat] /\ current \in [Threads -> 0 .. Capacity]
    BY DEF Steps
  <2> QED
    BY <2>1, <2>2, <2>3 DEF TypeOK
<1>2. CommittedMapped /\ KnowsMapped /\ MappedBeforeWrite /\ HasWritten
  BY DEF CommittedMapped, KnowsMapped, MappedBeforeWrite, HasWritten, Indices
<1>4. OwnsIndex
  BY DEF OwnsIndex, InPush
<1>3. PublishedClaimed /\ PublishedWritten /\ ReturnedReadable
  BY DEF PublishedClaimed, PublishedWritten, ReturnedReadable
<1> QED
  BY <1>1, <1>2, <1>3, <1>4 DEF IInv

(* Every step of every thread preserves the inductive invariant. *)
LEMMA NextInv == IInv /\ [Next]_vars => IInv'
<1> SUFFICES ASSUME IInv, [Next]_vars
             PROVE  IInv'
  OBVIOUS
<1> USE ArenaAssumption, UnsetAssumption
<1> USE DEF IInv, TypeOK, Goto, InPush, Steps
<1>0. Indices = 0 .. Capacity - 1 /\ Capacity \in Nat
  BY DEF Indices
<1>1. ASSUME NEW t \in Threads, Claim(t)
      PROVE  IInv'
  <2>1. CASE len < Capacity
    <3>0. /\ pc' = [pc EXCEPT ![t] = "check"] /\ index' = [index EXCEPT ![t] = len]
          /\ len' = len + 1
          /\ UNCHANGED <<build, initialized, committed, mapped, slot, current, aborted>>
      BY <1>1, <2>1 DEF Claim
    <3>1. TypeOK'
      BY <3>0
    <3>2. CommittedMapped' /\ KnowsMapped' /\ MappedBeforeWrite'
      BY <3>0 DEF CommittedMapped, KnowsMapped, MappedBeforeWrite
    <3>3. OwnsIndex'
      BY <3>0, <2>1, <1>0 DEF OwnsIndex, PublishedClaimed
    <3>4. HasWritten' /\ PublishedClaimed' /\ PublishedWritten' /\ ReturnedReadable'
      BY <3>0 DEF HasWritten, PublishedClaimed, PublishedWritten, ReturnedReadable
    <3> QED
      BY <3>1, <3>2, <3>3, <3>4
  <2>2. CASE ~(len < Capacity)
    <3>0. /\ len' = len + 1 /\ aborted' = TRUE
          /\ UNCHANGED <<build, initialized, committed, mapped, slot, pc, index, current>>
      BY <1>1, <2>2 DEF Claim
    <3>1. TypeOK' /\ CommittedMapped' /\ KnowsMapped' /\ MappedBeforeWrite'
      BY <3>0 DEF CommittedMapped, KnowsMapped, MappedBeforeWrite
    <3>2. OwnsIndex' /\ HasWritten' /\ PublishedClaimed' /\ PublishedWritten' /\ ReturnedReadable'
      BY <3>0 DEF OwnsIndex, HasWritten, PublishedClaimed, PublishedWritten, ReturnedReadable
    <3> QED
      BY <3>1, <3>2
  <2> QED
    BY <2>1, <2>2
<1>2. ASSUME NEW t \in Threads, CheckCommitted(t)
      PROVE  IInv'
  <2>1. TypeOK'
    BY <1>2 DEF CheckCommitted
  <2>2. CommittedMapped' /\ KnowsMapped' /\ MappedBeforeWrite'
    BY <1>2 DEF CheckCommitted, CommittedMapped, KnowsMapped, MappedBeforeWrite, OwnsIndex
  <2>3. OwnsIndex' /\ HasWritten' /\ PublishedClaimed' /\ PublishedWritten' /\ ReturnedReadable'
    BY <1>2 DEF CheckCommitted, OwnsIndex, HasWritten, PublishedClaimed, PublishedWritten, ReturnedReadable
  <2> QED
    BY <2>1, <2>2, <2>3
<1>3. ASSUME NEW t \in Threads, LoadCommitted(t)
      PROVE  IInv'
  <2>1. TypeOK'
    BY <1>3 DEF LoadCommitted
  <2>2. CommittedMapped' /\ KnowsMapped' /\ MappedBeforeWrite'
    BY <1>3 DEF LoadCommitted, CommittedMapped, KnowsMapped, MappedBeforeWrite
  <2>3. OwnsIndex' /\ HasWritten' /\ PublishedClaimed' /\ PublishedWritten' /\ ReturnedReadable'
    BY <1>3 DEF LoadCommitted, OwnsIndex, HasWritten, PublishedClaimed, PublishedWritten, ReturnedReadable
  <2> QED
    BY <2>1, <2>2, <2>3
<1>4. ASSUME NEW t \in Threads, Commit(t)
      PROVE  IInv'
  <2>0. CommitTarget(index[t]) \in 0 .. Capacity /\ index[t] \in Indices
    BY <1>4, CommitTargetCovers DEF Commit, OwnsIndex
  <2>1. TypeOK'
    <3>1. current[t] .. CommitTarget(index[t]) - 1 \subseteq Indices
      BY <2>0, <1>0
    <3>2. mapped' \in SUBSET Indices
      BY <1>4, <3>1 DEF Commit
    <3> QED
      BY <1>4, <3>2 DEF Commit
  <2>2. CommittedMapped' /\ KnowsMapped' /\ MappedBeforeWrite'
    BY <1>4, <2>0, <1>0 DEF Commit, CommittedMapped, KnowsMapped, MappedBeforeWrite
  <2>3. OwnsIndex' /\ HasWritten' /\ PublishedClaimed' /\ PublishedWritten' /\ ReturnedReadable'
    BY <1>4 DEF Commit, OwnsIndex, HasWritten, PublishedClaimed, PublishedWritten, ReturnedReadable
  <2> QED
    BY <2>1, <2>2, <2>3
<1>5. ASSUME NEW t \in Threads, CommitPanic(t)
      PROVE  IInv'
  <2>1. TypeOK'
    BY <1>5 DEF CommitPanic, Panic
  <2>2. CommittedMapped' /\ KnowsMapped' /\ MappedBeforeWrite'
    BY <1>5 DEF CommitPanic, Panic, CommittedMapped, KnowsMapped, MappedBeforeWrite
  <2>3. OwnsIndex' /\ HasWritten' /\ PublishedClaimed' /\ PublishedWritten' /\ ReturnedReadable'
    BY <1>5 DEF CommitPanic, Panic, OwnsIndex, HasWritten, PublishedClaimed, PublishedWritten, ReturnedReadable
  <2> QED
    BY <2>1, <2>2, <2>3
<1>6. ASSUME NEW t \in Threads, StoreCommitted(t)
      PROVE  IInv'
  <2>0. CommitTarget(index[t]) \in 0 .. Capacity /\ index[t] \in Indices /\ index[t] < CommitTarget(index[t])
    BY <1>6, CommitTargetCovers DEF StoreCommitted, OwnsIndex
  <2>1. TypeOK'
    BY <1>6, <2>0 DEF StoreCommitted
  <2>2. CommittedMapped' /\ KnowsMapped' /\ MappedBeforeWrite'
    BY <1>6, <2>0 DEF StoreCommitted, CommittedMapped, KnowsMapped, MappedBeforeWrite
  <2>3. OwnsIndex' /\ HasWritten' /\ PublishedClaimed' /\ PublishedWritten' /\ ReturnedReadable'
    BY <1>6 DEF StoreCommitted, OwnsIndex, HasWritten, PublishedClaimed, PublishedWritten, ReturnedReadable
  <2> QED
    BY <2>1, <2>2, <2>3
<1>7. ASSUME NEW t \in Threads, Write(t)
      PROVE  IInv'
  <2>0. index[t] \in Indices /\ initialized <= index[t] /\ t # Unset
    BY <1>7 DEF Write, OwnsIndex
  <2>1. TypeOK'
    BY <1>7, <2>0 DEF Write
  <2>2. CommittedMapped' /\ KnowsMapped' /\ MappedBeforeWrite'
    BY <1>7 DEF Write, CommittedMapped, KnowsMapped, MappedBeforeWrite
  <2>3. OwnsIndex' /\ PublishedClaimed'
    BY <1>7 DEF Write, OwnsIndex, PublishedClaimed
  <2>4. HasWritten'
    BY <1>7, <2>0 DEF Write, OwnsIndex, HasWritten
  <2>5. PublishedWritten' /\ ReturnedReadable'
    BY <1>7, <2>0, <1>0 DEF Write, PublishedWritten, ReturnedReadable
  <2> QED
    BY <2>1, <2>2, <2>3, <2>4, <2>5
<1>8. ASSUME NEW t \in Threads, Publish(t)
      PROVE  IInv'
  <2>0. index[t] \in Indices /\ initialized = index[t] /\ index[t] < len /\ slot[index[t]] = t
    BY <1>8 DEF Publish, OwnsIndex, HasWritten
  <2>1. TypeOK'
    BY <1>8, <2>0, <1>0 DEF Publish
  <2>2. CommittedMapped' /\ KnowsMapped' /\ MappedBeforeWrite'
    BY <1>8 DEF Publish, CommittedMapped, KnowsMapped, MappedBeforeWrite
  <2>3. OwnsIndex'
    <3>1. \A u \in Threads : u # t /\ pc[u] \in InPush => index[u] # index[t]
      BY <1>8 DEF Publish, OwnsIndex
    <3> QED
      BY <1>8, <2>0, <1>0, <3>1 DEF Publish, OwnsIndex
  <2>4. HasWritten' /\ PublishedClaimed'
    BY <1>8, <2>0, <1>0 DEF Publish, HasWritten, PublishedClaimed
  <2>5. PublishedWritten'
    BY <1>8, <2>0, <1>0 DEF Publish, PublishedWritten
  <2>6. ReturnedReadable'
    BY <1>8, <2>0, <1>0 DEF Publish, ReturnedReadable
  <2> QED
    BY <2>1, <2>2, <2>3, <2>4, <2>5, <2>6
<1>9. CASE UNCHANGED vars
  <2>1. TypeOK' /\ CommittedMapped' /\ KnowsMapped' /\ MappedBeforeWrite'
    BY <1>9 DEF vars, CommittedMapped, KnowsMapped, MappedBeforeWrite
  <2>2. OwnsIndex' /\ HasWritten' /\ PublishedClaimed' /\ PublishedWritten' /\ ReturnedReadable'
    BY <1>9 DEF vars, OwnsIndex, HasWritten, PublishedClaimed, PublishedWritten, ReturnedReadable
  <2> QED
    BY <2>1, <2>2
<1> QED
  BY <1>1, <1>2, <1>3, <1>4, <1>5, <1>6, <1>7, <1>8, <1>9 DEF Next, Step

(* The inductive invariant holds of every behaviour of the arena. *)
THEOREM ArenaInvariant == Spec => []IInv
<1>1. Init => IInv
  BY InitInv
<1>2. IInv /\ [Next]_vars => IInv'
  BY NextInv
<1> QED
  BY <1>1, <1>2, PTL DEF Spec

(* push() writes only to committed memory, get() sees only written         *)
(* elements, and a returned index reads back the pushed value, for any     *)
(* number of threads and any geometry of the reservation.                  *)
THEOREM ArenaSafe == Spec => [](MappedBeforeWrite /\ PublishedWritten /\ ReturnedReadable)
<1>1. IInv => MappedBeforeWrite /\ PublishedWritten /\ ReturnedReadable
  BY DEF IInv
<1> QED
  BY <1>1, ArenaInvariant, PTL

(* commit() has mapped the pages of a slot before the write of push() to   *)
(* it, also when several threads grow the committed prefix at once.        *)
THEOREM ArenaMapped == Spec => []MappedBeforeWrite
BY ArenaSafe, PTL

(* get() below initialized_elements reads an element that some push() has  *)
(* written, for any number of threads.                                     *)
THEOREM ArenaPublished == Spec => []PublishedWritten
BY ArenaSafe, PTL

(* No step of push() changes an element that is already published.         *)
THEOREM ArenaStable == Spec => PublishedStable
<1>1. IInv /\ [Next]_vars => [\A i \in 0 .. initialized - 1 : slot'[i] = slot[i]]_vars
  <2> SUFFICES ASSUME IInv, Next, NEW i \in 0 .. initialized - 1
               PROVE  slot'[i] = slot[i]
    BY DEF vars
  <2>1. PICK t \in Threads : Claim(t) \/ Step(t)
    BY DEF Next
  <2>2. CASE Write(t)
    BY <2>2, ArenaAssumption, SMTT(60) DEF Write, IInv, TypeOK, OwnsIndex, InPush, Steps, Indices
  <2>3. CASE ~Write(t)
    BY <2>1, <2>3 DEF Claim, Step, CheckCommitted, LoadCommitted, Commit, CommitPanic, Panic, StoreCommitted, Publish
  <2> QED
    BY <2>2, <2>3
<1> QED
  BY <1>1, ArenaInvariant, PTL DEF Spec, PublishedStable
==============================================================================
