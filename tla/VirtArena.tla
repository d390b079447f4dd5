------------------------------ MODULE VirtArena ------------------------------
(***************************************************************************)
(* VirtMemArenaDynArray (common/containers/virtual_dyn_array.rs): an       *)
(* append-only array in reserved virtual memory, pushed to concurrently    *)
(* without a lock.  One action per shared-memory access of push() and of   *)
(* ensure_committed_for_index(); atomics are sequentially consistent here. *)
(*                                                                         *)
(* The value a thread pushes is the thread itself, so that a slot tells    *)
(* who wrote it.  A panic ends the process (rayon::spawn jobs abort it).   *)
(***************************************************************************)
EXTENDS Integers

CONSTANTS
  Threads,           \* pool threads that push
  Capacity,          \* elements of the reservation
  ElemSize,          \* size_of::<T>()
  GranularityBytes,  \* COMMIT_GRANULARITY_IN_BYTES
  PageSize,          \* alignment that mprotect demands
  MaxClaims,         \* bound on fetch_add calls
  Builds             \* builds considered: [unix, overflow_checks]

ASSUME ArenaAssumption ==
  /\ Capacity \in Nat \ {0}
  /\ ElemSize \in Nat \ {0}
  /\ GranularityBytes \in Nat \ {0}
  /\ PageSize \in Nat \ {0}
  /\ MaxClaims \in Nat
  /\ Builds \subseteq [unix : BOOLEAN, overflow_checks : BOOLEAN]

Unset == "unset"
ASSUME UnsetAssumption == Unset \notin Threads

VARIABLES
  build,        \* the build that runs (never changes)
  len,          \* len: AtomicUsize, indices handed out
  initialized,  \* initialized: AtomicUsize, published prefix
  committed,    \* committed_elements: AtomicUsize
  mapped,       \* elements whose pages the OS has committed
  slot,         \* contents of the reservation
  pc,           \* where each thread is in push()
  index,        \* local `index` of push()
  current,      \* local `current_committed`
  aborted       \* a panic ended the process

vars == <<build, len, initialized, committed, mapped, slot, pc, index, current, aborted>>

Indices == 0 .. Capacity - 1
Steps == {"idle", "check", "load", "commit", "store", "write", "publish", "done"}
InPush == Steps \ {"idle", "done"}

(* COMMIT_GRANULARITY_IN_ELEMENTS: bytes.div_ceil(size_of::<T>()). *)
Granularity == (GranularityBytes + ElemSize - 1) \div ElemSize

(* Variant of CommitTarget: one granule short. *)
CommitTargetShort(i) == (i \div Granularity) * Granularity

(* new_committed: the end of index's granule, at most the reservation. *)
CommitTarget(i) ==
  LET end == ((i \div Granularity) + 1) * Granularity
  IN  IF end < Capacity THEN end ELSE Capacity

Init ==
  /\ build \in Builds
  /\ len = 0
  /\ initialized = 0
  /\ committed = 0
  /\ mapped = {}
  /\ slot = [i \in Indices |-> Unset]
  /\ pc = [t \in Threads |-> "idle"]
  /\ index = [t \in Threads |-> 0]
  /\ current = [t \in Threads |-> 0]
  /\ aborted = FALSE

Goto(t, step) == pc' = [pc EXCEPT ![t] = step]

Panic ==
  /\ aborted' = TRUE
  /\ UNCHANGED <<build, len, initialized, committed, mapped, slot, pc, index, current>>

(* Variant: a load in place of the fetch_add. *)
ClaimLoad(t) ==
  /\ pc[t] \in {"idle", "done"}
  /\ len < Capacity
  /\ Goto(t, "check")
  /\ index' = [index EXCEPT ![t] = len]
  /\ UNCHANGED <<build, len, initialized, committed, mapped, slot, current, aborted>>

(* len.fetch_add(1), then the capacity assertion. *)
Claim(t) ==
  /\ pc[t] \in {"idle", "done"}
  /\ len < MaxClaims
  /\ len' = len + 1
  /\ IF len < Capacity
       THEN Goto(t, "check") /\ index' = [index EXCEPT ![t] = len] /\ UNCHANGED aborted
       ELSE aborted' = TRUE /\ UNCHANGED <<pc, index>>
  /\ UNCHANGED <<build, initialized, committed, mapped, slot, current>>

(* First load of committed_elements: skip the commit if it covers index. *)
CheckCommitted(t) ==
  /\ pc[t] = "check"
  /\ Goto(t, IF index[t] < committed THEN "write" ELSE "load")
  /\ UNCHANGED <<build, len, initialized, committed, mapped, slot, index, current, aborted>>

(* Second load of committed_elements, the start of the range to commit. *)
LoadCommitted(t) ==
  /\ pc[t] = "load"
  /\ current' = [current EXCEPT ![t] = committed]
  /\ Goto(t, "commit")
  /\ UNCHANGED <<build, len, initialized, committed, mapped, slot, index, aborted>>

(* The subtraction new_committed - current_committed and virtmem_commit:   *)
(* on unix an assertion needs a non-empty range, and mprotect fails on a   *)
(* length that wrapped and on a start that is not page-aligned.  On        *)
(* Windows the result of VirtualAlloc is ignored.                          *)
CommitPanics(t) ==
  LET elements == CommitTarget(index[t]) - current[t]
  IN  \/ build.overflow_checks /\ elements < 0
      \/ build.unix /\ elements <= 0
      \/ build.unix /\ (current[t] * ElemSize) % PageSize # 0

Commit(t) ==
  /\ pc[t] = "commit"
  /\ ~CommitPanics(t)
  /\ mapped' = mapped \cup current[t] .. CommitTarget(index[t]) - 1
  /\ Goto(t, "store")
  /\ UNCHANGED <<build, len, initialized, committed, slot, index, current, aborted>>

CommitPanic(t) ==
  /\ pc[t] = "commit"
  /\ CommitPanics(t)
  /\ Panic

(* committed_elements.store(new_committed): not a maximum. *)
StoreCommitted(t) ==
  /\ pc[t] = "store"
  /\ committed' = CommitTarget(index[t])
  /\ Goto(t, "write")
  /\ UNCHANGED <<build, len, initialized, mapped, slot, index, current, aborted>>

(* Variant: the write goes to the end of the published prefix. *)
WriteAtInitialized(t) ==
  /\ pc[t] = "write"
  /\ slot' = [slot EXCEPT ![initialized] = t]
  /\ Goto(t, "publish")
  /\ UNCHANGED <<build, len, initialized, committed, mapped, index, current, aborted>>

(* ptr.write(value) *)
Write(t) ==
  /\ pc[t] = "write"
  /\ slot' = [slot EXCEPT ![index[t]] = t]
  /\ Goto(t, "publish")
  /\ UNCHANGED <<build, len, initialized, committed, mapped, index, current, aborted>>

(* Variants: fetch_add in place of the compare_exchange; it expects one more. *)
PublishAny(t) ==
  /\ pc[t] = "publish"
  /\ initialized' = initialized + 1
  /\ Goto(t, "done")
  /\ UNCHANGED <<build, len, committed, mapped, slot, index, current, aborted>>

PublishLate(t) ==
  /\ pc[t] = "publish"
  /\ initialized = index[t] + 1
  /\ Goto(t, "done")
  /\ UNCHANGED <<build, len, initialized, committed, mapped, slot, index, current, aborted>>

(* The compare_exchange loop: succeeds only when every smaller index is in. *)
Publish(t) ==
  /\ pc[t] = "publish"
  /\ initialized = index[t]
  /\ initialized' = index[t] + 1
  /\ Goto(t, "done")
  /\ UNCHANGED <<build, len, committed, mapped, slot, index, current, aborted>>

Step(t) ==
  \/ CheckCommitted(t)
  \/ LoadCommitted(t)
  \/ Commit(t)
  \/ CommitPanic(t)
  \/ StoreCommitted(t)
  \/ Write(t)
  \/ Publish(t)

Next == ~aborted /\ \E t \in Threads : Claim(t) \/ Step(t)

Spec == Init /\ [][Next]_vars

(* The operating system keeps running every pool thread that is in push(). *)
FairSpec == Spec /\ \A t \in Threads : WF_vars(~aborted /\ Step(t))
------------------------------------------------------------------------------
TypeOK ==
  /\ build \in Builds
  /\ len \in Nat
  /\ initialized \in 0 .. Capacity
  /\ committed \in 0 .. Capacity
  /\ mapped \in SUBSET Indices
  /\ slot \in [Indices -> Threads \cup {Unset}]
  /\ pc \in [Threads -> Steps]
  /\ index \in [Threads -> Nat]
  /\ current \in [Threads -> 0 .. Capacity]
  /\ aborted \in BOOLEAN

(* A thread that is about to write its element (ptr.write in push) has its *)
(* page committed, whatever the order in which racing threads commit       *)
(* granules and overwrite committed_elements: "ensure_committed commit the *)
(* pages covered by the ptr".                                              *)
MappedBeforeWrite == \A t \in Threads : pc[t] = "write" => index[t] \in mapped

(* Everything below `initialized` has been written: get() and              *)
(* get_unchecked() accept exactly these indices.                           *)
PublishedWritten == \A i \in 0 .. initialized - 1 : slot[i] # Unset

(* push "returns the index to the element, which is guaranteed to be       *)
(* initialized when returned": the index is in the published prefix and    *)
(* its slot holds the caller's own value, so no other push shared it.      *)
ReturnedReadable ==
  \A t \in Threads :
    pc[t] = "done" => index[t] < initialized /\ slot[index[t]] = t

(* A published element never changes: references into the arena are stable. *)
PublishedStable == [][\A i \in 0 .. initialized - 1 : slot'[i] = slot[i]]_vars

(* Every push that claimed an index returns, unless the process aborts: no *)
(* pusher is left spinning on `initialized` for a predecessor.             *)
PushReturns ==
  \A t \in Threads : (pc[t] \in InPush) ~> (pc[t] = "done" \/ aborted)

(* What the test push_exactly_at_capacity_does_not_panic says: pushing no  *)
(* more than the capacity never panics.                                    *)
NoPanicWithinCapacity == aborted => len > Capacity
==============================================================================
