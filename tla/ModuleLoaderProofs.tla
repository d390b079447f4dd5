-------------------------- MODULE ModuleLoaderProofs --------------------------
(***************************************************************************)
(* The parse phase makes one module of a file, parses it once, and leaves  *)
(* every module ready or reported, for any number of threads and any graph *)
(* of imports.                                                             *)
(***************************************************************************)
EXTENDS ModuleLoader, SequenceTheorems, TLAPS

TypeOK ==
  /\ modules \in Seq(Paths)
  /\ importer \in Seq(Nat) /\ Len(importer) = Len(modules)
  /\ pathToId \in [Paths -> 0 .. Len(modules)]
  /\ pending \subseteq Ids
  /\ running \in [Threads -> 0 .. Len(modules)]
  /\ next \in Seq(Nat) /\ Len(next) = Len(modules)
  /\ hasSource \subseteq Ids
  /\ hasVuir \subseteq Ids
  /\ failed \in Seq(Nat)
  /\ panicked \subseteq Ids

(* module_path_to_id names no module but the one of the path. *)
PathNamed ==
  \A p \in Paths : pathToId[p] # NoModule => modules[pathToId[p]] = p

(* A job that was spawned but not taken has done nothing. *)
PendingFresh ==
  \A m \in pending : next[m] = 0 /\ m \notin hasVuir

(* A failure is recorded once, of a job that has ended and set no VUIR. *)
FailedOnce ==
  /\ \A i, j \in 1 .. Len(failed) : failed[i] = failed[j] => i = j
  /\ \A i \in 1 .. Len(failed) :
       /\ failed[i] \in Ids
       /\ failed[i] \notin pending \cup hasVuir
       /\ \A t \in Threads : running[t] # failed[i]

(* A job that panicked has ended, set no VUIR and recorded no failure. *)
PanickedOut ==
  \A m \in panicked :
    /\ m \notin pending \cup hasVuir
    /\ \A t \in Threads : running[t] # m
    /\ \A i \in 1 .. Len(failed) : failed[i] # m

(* A module waits, is being parsed, has its VUIR, has failed, or its job   *)
(* panicked.                                                               *)
Accounted ==
  \A m \in Ids :
    \/ m \in pending
    \/ \E t \in Threads : running[t] = m
    \/ m \in hasVuir
    \/ \E i \in 1 .. Len(failed) : failed[i] = m
    \/ m \in panicked

Resolved(m, i) ==
  Imports[modules[m]][i] \notin Special =>
    pathToId[Resolve[modules[m]][Imports[modules[m]][i]]] # NoModule

(* The imports that a job has passed have a module; a VUIR is set when all *)
(* have been passed.                                                       *)
PassedResolve ==
  /\ \A m \in Ids : \A i \in 1 .. Len(Imports[modules[m]]) : i < next[m] => Resolved(m, i)
  /\ \A m \in hasVuir : next[m] = Len(Imports[modules[m]]) + 1

IInv ==
  /\ TypeOK
  /\ OneModulePerPath
  /\ PathNamed
  /\ ParsedOnce
  /\ PendingFresh
  /\ FailedOnce
  /\ PanickedOut
  /\ Accounted
  /\ PassedResolve

(* A job that runs is of a module, and it is in no other set. *)
LEMMA RunningModule ==
  ASSUME IInv, NEW t \in Threads, running[t] # NoModule
  PROVE  /\ running[t] \in Ids
         /\ modules[running[t]] \in Paths
         /\ next[running[t]] \in Nat
         /\ running[t] \notin pending
         /\ running[t] \notin hasVuir
         /\ \A u \in Threads : running[u] = running[t] => u = t
         /\ \A i \in 1 .. Len(failed) : failed[i] # running[t]
         /\ running[t] \notin panicked
<1>1. running[t] \in Ids
  BY DEF IInv, TypeOK, Ids, NoModule
<1>2. modules[running[t]] \in Paths /\ next[running[t]] \in Nat
  BY <1>1, ElementOfSeq DEF IInv, TypeOK, Ids
<1>. QED
  BY <1>1, <1>2 DEF IInv, ParsedOnce, FailedOnce, PanickedOut

(* An import that is not special names a path. *)
LEMMA ResolveType ==
  ASSUME NEW q \in Paths, NEW i \in 1 .. Len(Imports[q]), Imports[q][i] \notin Special
  PROVE  Resolve[q][Imports[q][i]] \in Paths
<1>1. Imports[q] \in Seq(ImportNames \cup Special)
  BY LoaderAssumption
<1>2. Imports[q][i] \in ImportNames \cup Special
  BY <1>1, ElementOfSeq
<1>. QED
  BY <1>2, LoaderAssumption

(* PassedResolve' of a step that names no path. *)
LEMMA PassedKept ==
  ASSUME modules' = modules, pathToId' = pathToId,
         \A k \in Ids : \A i \in 1 .. Len(Imports[modules[k]]) : i < next'[k] => Resolved(k, i),
         \A k \in hasVuir' : next'[k] = Len(Imports[modules[k]]) + 1
  PROVE  PassedResolve'
<1>1. Ids' = Ids
  BY DEF Ids
<1>2. \A k, i : Resolved(k, i) <=> Resolved(k, i)'
  BY DEF Resolved
<1>3. \A k \in Ids' : \A i \in 1 .. Len(Imports[modules'[k]]) : i < next'[k] => Resolved(k, i)'
  BY <1>1, <1>2, Zenon
<1>. QED
  BY <1>3, Zenon DEF PassedResolve

(* The initial paths differ, so each is its own module. *)
LEMMA InitInv == Init => IInv
<1>. SUFFICES ASSUME Init PROVE IInv
  OBVIOUS
<1>. DEFINE n == Len(Initial)
<1>1. n \in Nat /\ Initial \in Seq(Paths) /\ \A i \in 1 .. n : Initial[i] \in Paths
  BY LoaderAssumption, ElementOfSeq, LenProperties
<1>2. ASSUME NEW p \in Paths
      PROVE  \/ pathToId[p] = NoModule /\ \A i \in 1 .. n : Initial[i] # p
             \/ pathToId[p] \in 1 .. n /\ Initial[pathToId[p]] = p
  BY DEF Init
<1>. HIDE DEF n
<1>3. TypeOK
  <2>1. modules \in Seq(Paths) /\ Len(modules) = n /\ Ids = 1 .. n
    BY <1>1 DEF Init, Ids, n
  <2>2. importer \in Seq(Nat) /\ Len(importer) = n
    BY <1>1 DEF Init, NoModule, n
  <2>3. next \in Seq(Nat) /\ Len(next) = n
    BY <1>1 DEF Init, n
  <2>4. pathToId \in [Paths -> 0 .. n]
    <3>1. DOMAIN pathToId = Paths /\ pathToId = [p \in DOMAIN pathToId |-> pathToId[p]]
      BY DEF Init
    <3>. QED
      BY <1>1, <1>2, <3>1 DEF NoModule
  <2>. QED
    BY <1>1, <2>1, <2>2, <2>3, <2>4 DEF Init, TypeOK, NoModule, n
<1>4. OneModulePerPath
  <2>1. SUFFICES ASSUME NEW m \in 1 .. n PROVE pathToId[Initial[m]] = m
    BY DEF Init, OneModulePerPath, Ids, n
  <2>. QED
    BY <1>1, <1>2, <2>1, LoaderAssumption DEF n
<1>5. PathNamed
  BY <1>2 DEF Init, PathNamed
<1>6. ParsedOnce /\ PendingFresh /\ FailedOnce /\ PanickedOut /\ Accounted
  BY DEF Init, ParsedOnce, PendingFresh, FailedOnce, PanickedOut, Accounted, Ids
<1>7. PassedResolve
  BY DEF Init, PassedResolve, Ids
<1>. QED
  BY <1>3, <1>4, <1>5, <1>6, <1>7 DEF IInv

(* An idle thread takes a job of the scope. *)
LEMMA StartInv == ASSUME IInv, NEW t \in Threads, Start(t) PROVE IInv'
<1>1. PICK m \in pending :
        /\ running[t] = NoModule
        /\ running' = [running EXCEPT ![t] = m]
        /\ pending' = pending \ {m}
        /\ UNCHANGED <<modules, importer, pathToId, next, hasSource, hasVuir, failed, panicked>>
  BY DEF Start
<1>2. /\ m \in Ids /\ Ids' = Ids
      /\ running'[t] = m
      /\ \A u \in Threads : u # t => running'[u] = running[u]
  BY <1>1 DEF IInv, TypeOK, Ids
<1>3. m \notin hasVuir /\ m \notin hasSource /\ (\A u \in Threads : running[u] # m)
  BY <1>1, <1>2 DEF IInv, PendingFresh, ParsedOnce, NoModule, Ids
<1>4. TypeOK'
  BY <1>1, <1>2, SMTT(60) DEF IInv, TypeOK, Ids
<1>5. OneModulePerPath' /\ PathNamed' /\ PassedResolve'
  BY <1>1, <1>2 DEF IInv, OneModulePerPath, PathNamed, PassedResolve, Resolved
<1>6. ParsedOnce'
  BY <1>1, <1>2, <1>3 DEF IInv, ParsedOnce
<1>7. PendingFresh' /\ FailedOnce' /\ PanickedOut'
  BY <1>1, <1>2 DEF IInv, PendingFresh, FailedOnce, PanickedOut
<1>8. Accounted'
  <2>1. SUFFICES ASSUME NEW k \in Ids,
                        ~ \E u \in Threads : running'[u] = k,
                        k \notin pending'
                 PROVE  \/ k \in hasVuir \cup panicked
                        \/ \E i \in 1 .. Len(failed) : failed[i] = k
    BY <1>1, <1>2 DEF Accounted
  <2>2. k # m /\ k \notin pending /\ k # NoModule
    BY <1>1, <1>2, <2>1 DEF Ids, NoModule
  <2>3. ~ \E u \in Threads : running[u] = k
    BY <1>1, <1>2, <2>1, <2>2
  <2>. QED
    BY <2>1, <2>2, <2>3 DEF IInv, Accounted
<1>. QED
  BY <1>4, <1>5, <1>6, <1>7, <1>8 DEF IInv

(* A job that fails ends with one more entry in failed_modules, whether or *)
(* not it has set its source.                                              *)
LEMMA FailInv ==
  ASSUME IInv, NEW t \in Threads,
         running[t] # NoModule,
         failed' = Append(failed, running[t]),
         running' = [running EXCEPT ![t] = NoModule],
         hasSource' \subseteq hasSource \cup {running[t]},
         UNCHANGED <<modules, importer, pathToId, pending, next, hasVuir, panicked>>
  PROVE  IInv'
<1>. DEFINE m == running[t]
<1>1. /\ m \in Ids /\ m \notin pending /\ m \notin hasVuir
      /\ \A u \in Threads : running[u] = m => u = t
      /\ \A i \in 1 .. Len(failed) : failed[i] # m
      /\ m \notin panicked
  BY RunningModule
<1>2. /\ Ids' = Ids
      /\ running'[t] = NoModule
      /\ \A u \in Threads : u # t => running'[u] = running[u] /\ running[u] # m
  BY <1>1 DEF IInv, TypeOK, Ids
<1>3. /\ failed' \in Seq(Nat)
      /\ Len(failed') = Len(failed) + 1
      /\ failed'[Len(failed) + 1] = m
      /\ \A i \in 1 .. Len(failed) : failed'[i] = failed[i]
      /\ Len(failed) \in Nat
  BY <1>1, AppendProperties, LenProperties DEF IInv, TypeOK, Ids
<1>. HIDE DEF m
<1>4. TypeOK'
  <2>1. running' \in [Threads -> 0 .. Len(modules')]
    BY LenProperties DEF IInv, TypeOK, NoModule
  <2>2. hasSource' \subseteq Ids'
    BY <1>1, <1>2 DEF IInv, TypeOK, m
  <2>. QED
    BY <1>2, <1>3, <2>1, <2>2 DEF IInv, TypeOK
<1>5. OneModulePerPath' /\ PathNamed' /\ PassedResolve' /\ PendingFresh'
  <2>1. OneModulePerPath' /\ PathNamed' /\ PendingFresh'
    BY <1>2 DEF IInv, OneModulePerPath, PathNamed, PendingFresh
  <2>2. PassedResolve'
    BY PassedKept DEF IInv, PassedResolve
  <2>. QED
    BY <2>1, <2>2
<1>6. ParsedOnce'
  <2>1. pending' \cap hasSource' = {}
    BY <1>1 DEF IInv, ParsedOnce, m
  <2>2. ASSUME NEW u \in Threads, running'[u] # NoModule
        PROVE  u # t /\ running'[u] = running[u] /\ running[u] # m
    BY <1>2, <2>2
  <2>. QED
    BY <2>1, <2>2 DEF IInv, ParsedOnce, m
<1>7. FailedOnce'
  <2>1. \A i, j \in 1 .. Len(failed') : failed'[i] = failed'[j] => i = j
    BY <1>1, <1>3 DEF IInv, FailedOnce
  <2>2. ASSUME NEW i \in 1 .. Len(failed')
        PROVE  /\ failed'[i] \in Ids
               /\ failed'[i] \notin pending \cup hasVuir
               /\ \A u \in Threads : running'[u] # failed'[i]
    <3>1. CASE i \in 1 .. Len(failed)
      <4>1. failed[i] \in Ids /\ failed[i] # NoModule
        BY <3>1 DEF IInv, FailedOnce, Ids, NoModule
      <4>. QED
        BY <1>2, <1>3, <3>1, <4>1 DEF IInv, FailedOnce
    <3>2. CASE i = Len(failed) + 1
      <4>1. m # NoModule
        BY DEF m
      <4>. QED
        BY <1>1, <1>2, <1>3, <3>2, <4>1
    <3>. QED
      BY <1>3, <2>2, <3>1, <3>2
  <2>. QED
    BY <1>2, <2>1, <2>2 DEF FailedOnce
<1>8. Accounted'
  <2>1. SUFFICES ASSUME NEW k \in Ids, k \notin pending, k \notin hasVuir, k \notin panicked,
                        ~ \E u \in Threads : running'[u] = k
                 PROVE  \E i \in 1 .. Len(failed') : failed'[i] = k
    BY <1>2 DEF Accounted
  <2>2. CASE k = m
    BY <1>3, <2>2
  <2>3. CASE k # m
    <3>1. ~ \E u \in Threads : running[u] = k
      BY <1>2, <2>1, <2>3 DEF m
    <3>2. PICK i \in 1 .. Len(failed) : failed[i] = k
      BY <2>1, <3>1 DEF IInv, Accounted
    <3>. QED
      BY <1>3, <3>2, SMTT(60)
  <2>. QED
    BY <2>2, <2>3
<1>9. PanickedOut'
  <2>1. ASSUME NEW k \in panicked PROVE \A i \in 1 .. Len(failed') : failed'[i] # k
    BY <1>1, <1>3 DEF IInv, PanickedOut
  <2>2. ASSUME NEW k \in panicked, NEW u \in Threads PROVE running'[u] # k
    BY <1>2 DEF IInv, PanickedOut, TypeOK, Ids, NoModule
  <2>. QED
    BY <2>1, <2>2 DEF IInv, PanickedOut
<1>. QED
  BY <1>4, <1>5, <1>6, <1>7, <1>8, <1>9 DEF IInv

(* The file parsed, and the visit of its imports begins. *)
LEMMA ParsedInv == ASSUME IInv, NEW t \in Threads, Parsed(t) PROVE IInv'
<1>. DEFINE m == running[t]
<1>1. /\ m # NoModule /\ next[m] = 0
      /\ hasSource' = hasSource \cup {m}
      /\ next' = [next EXCEPT ![m] = 1]
      /\ UNCHANGED <<modules, importer, pathToId, pending, running, hasVuir, failed, panicked>>
  BY DEF Parsed
<1>2. /\ m \in Ids /\ m \notin pending /\ m \notin hasVuir
      /\ \A u \in Threads : running[u] = m => u = t
  BY <1>1, RunningModule
<1>. HIDE DEF m
<1>3. /\ next' \in Seq(Nat) /\ Len(next') = Len(next)
      /\ next'[m] = 1
      /\ \A k \in Ids : k # m => next'[k] = next[k]
      /\ Ids' = Ids
  BY <1>1, <1>2, ExceptSeq DEF IInv, TypeOK, Ids
<1>4. TypeOK'
  BY <1>1, <1>2, <1>3 DEF IInv, TypeOK, Ids
<1>5. OneModulePerPath' /\ PathNamed' /\ FailedOnce' /\ PanickedOut' /\ Accounted'
  BY <1>1, <1>3 DEF IInv, OneModulePerPath, PathNamed, FailedOnce, PanickedOut, Accounted
<1>6. PendingFresh'
  BY <1>1, <1>2, <1>3 DEF IInv, PendingFresh, TypeOK
<1>7. ParsedOnce'
  <2>1. ASSUME NEW u \in Threads, running[u] # NoModule, next'[running[u]] = 0
        PROVE  running[u] \notin hasSource'
    BY <1>1, <1>2, <1>3, <2>1, RunningModule DEF IInv, ParsedOnce
  <2>. QED
    BY <1>1, <1>2, <2>1 DEF IInv, ParsedOnce
<1>8. PassedResolve'
  <2>1. ASSUME NEW k \in Ids, NEW i \in 1 .. Len(Imports[modules[k]]), i < next'[k]
        PROVE  Resolved(k, i)
    BY <1>3, <2>1 DEF IInv, PassedResolve
  <2>2. ASSUME NEW k \in hasVuir PROVE next'[k] = Len(Imports[modules[k]]) + 1
    BY <1>2, <1>3 DEF IInv, PassedResolve, TypeOK
  <2>. QED
    BY <1>1, <2>1, <2>2, PassedKept
<1>. QED
  BY <1>4, <1>5, <1>6, <1>7, <1>8 DEF IInv

(* A special name or a known path: the job passes the import. *)
LEMMA SkipImportInv == ASSUME IInv, NEW t \in Threads, SkipImport(t) PROVE IInv'
<1>. DEFINE m == running[t]
            n == next[m]
<1>1. /\ m # NoModule
      /\ n \in 1 .. Len(Imports[modules[m]])
      /\ Resolved(m, n)
      /\ next' = [next EXCEPT ![m] = n + 1]
      /\ UNCHANGED <<modules, importer, pathToId, pending, running, hasSource, hasVuir, failed, panicked>>
  BY DEF SkipImport, Visiting, AtImport, NeedsModule, ImportPath, ImportName, Resolved
<1>2. /\ m \in Ids /\ m \notin pending /\ m \notin hasVuir
      /\ \A u \in Threads : running[u] = m => u = t
      /\ n \in Nat
  BY <1>1, RunningModule
<1>3. /\ next' \in Seq(Nat) /\ Len(next') = Len(next)
      /\ next'[m] = n + 1
      /\ \A k \in Ids : k # m => next'[k] = next[k]
      /\ Ids' = Ids
  BY <1>1, <1>2, ExceptSeq, SMTT(60) DEF IInv, TypeOK, Ids
<1>. HIDE DEF m, n
<1>4. TypeOK'
  BY <1>1, <1>2, <1>3 DEF IInv, TypeOK, Ids
<1>5. OneModulePerPath' /\ PathNamed' /\ FailedOnce' /\ PanickedOut' /\ Accounted'
  BY <1>1, <1>3 DEF IInv, OneModulePerPath, PathNamed, FailedOnce, PanickedOut, Accounted
<1>6. PendingFresh'
  BY <1>1, <1>2, <1>3 DEF IInv, PendingFresh, TypeOK
<1>7. ParsedOnce'
  <2>1. ASSUME NEW u \in Threads, running[u] # NoModule, next'[running[u]] = 0
        PROVE  running[u] \notin hasSource
    <3>1. running[u] # m
      BY <1>2, <1>3, <2>1
    <3>2. running[u] \in Ids
      BY <2>1, RunningModule
    <3>. QED
      BY <1>3, <2>1, <3>1, <3>2 DEF IInv, ParsedOnce
  <2>. QED
    BY <1>1, <2>1 DEF IInv, ParsedOnce
<1>8. PassedResolve'
  <2>1. ASSUME NEW k \in Ids, NEW i \in 1 .. Len(Imports[modules[k]]), i < next'[k]
        PROVE  Resolved(k, i)
    <3>1. CASE k = m
      <4>1. i < n \/ i = n
        BY <1>2, <1>3, <2>1, <3>1
      <4>. QED
        BY <1>1, <1>2, <3>1, <4>1 DEF IInv, PassedResolve, m, n
    <3>2. CASE k # m
      BY <1>3, <2>1, <3>2 DEF IInv, PassedResolve
    <3>. QED
      BY <3>1, <3>2
  <2>2. ASSUME NEW k \in hasVuir PROVE next'[k] = Len(Imports[modules[k]]) + 1
    BY <1>2, <1>3 DEF IInv, PassedResolve, TypeOK
  <2>. QED
    BY <1>1, <2>1, <2>2, PassedKept
<1>. QED
  BY <1>4, <1>5, <1>6, <1>7, <1>8 DEF IInv

(* The last import has been passed: the job sets the VUIR and ends. *)
LEMMA SetVuirInv == ASSUME IInv, NEW t \in Threads, SetVuir(t) PROVE IInv'
<1>. DEFINE m == running[t]
<1>1. /\ m # NoModule
      /\ next[m] = Len(Imports[modules[m]]) + 1
      /\ hasVuir' = hasVuir \cup {m}
      /\ running' = [running EXCEPT ![t] = NoModule]
      /\ UNCHANGED <<modules, importer, pathToId, pending, next, hasSource, failed, panicked>>
  BY DEF SetVuir
<1>2. /\ m \in Ids /\ m \notin pending /\ m \notin panicked
      /\ \A u \in Threads : running[u] = m => u = t
      /\ \A i \in 1 .. Len(failed) : failed[i] # m
  BY <1>1, RunningModule
<1>. HIDE DEF m
<1>3. /\ Ids' = Ids
      /\ running'[t] = NoModule
      /\ \A u \in Threads : u # t => running'[u] = running[u] /\ running[u] # m
  BY <1>1, <1>2 DEF IInv, TypeOK, Ids
<1>4. TypeOK'
  <2>1. running' \in [Threads -> 0 .. Len(modules')]
    BY <1>1, LenProperties DEF IInv, TypeOK, NoModule
  <2>. QED
    BY <1>1, <1>2, <1>3, <2>1 DEF IInv, TypeOK
<1>5. OneModulePerPath' /\ PathNamed'
  BY <1>1, <1>3 DEF IInv, OneModulePerPath, PathNamed
<1>6. PassedResolve'
  <2>1. \A k \in Ids : \A i \in 1 .. Len(Imports[modules[k]]) : i < next[k] => Resolved(k, i)
    BY DEF IInv, PassedResolve
  <2>2. \A k \in hasVuir' : next[k] = Len(Imports[modules[k]]) + 1
    BY <1>1 DEF IInv, PassedResolve
  <2>. QED
    BY <1>1, <2>1, <2>2, PassedKept
<1>7. PendingFresh'
  BY <1>1, <1>2 DEF IInv, PendingFresh
<1>8. ParsedOnce'
  <2>1. ASSUME NEW u \in Threads, running'[u] # NoModule
        PROVE  u # t /\ running'[u] = running[u] /\ running[u] # m
    BY <1>3, <2>1
  <2>. QED
    BY <1>1, <2>1 DEF IInv, ParsedOnce
<1>9. FailedOnce'
  <2>1. ASSUME NEW i \in 1 .. Len(failed), NEW u \in Threads PROVE running'[u] # failed[i]
    BY <1>3 DEF IInv, FailedOnce, Ids, NoModule
  <2>. QED
    BY <1>1, <1>2, <1>3, <2>1 DEF IInv, FailedOnce
<1>10. Accounted'
  BY <1>1, <1>3 DEF IInv, Accounted, m
<1>11. PanickedOut'
  <2>1. ASSUME NEW k \in panicked, NEW u \in Threads PROVE running'[u] # k
    BY <1>3 DEF IInv, PanickedOut, TypeOK, Ids, NoModule
  <2>. QED
    BY <1>1, <1>2, <2>1 DEF IInv, PanickedOut
<1>. QED
  BY <1>4, <1>5, <1>6, <1>7, <1>8, <1>9, <1>10, <1>11 DEF IInv

(* The job panics at a string that is not UTF-8: it ends, and what it did  *)
(* before stays.                                                           *)
LEMMA PanicImportInv == ASSUME IInv, NEW t \in Threads, PanicImport(t) PROVE IInv'
<1>. DEFINE m == running[t]
<1>1. /\ m # NoModule
      /\ panicked' = panicked \cup {m}
      /\ running' = [running EXCEPT ![t] = NoModule]
      /\ UNCHANGED <<modules, importer, pathToId, pending, next, hasSource, hasVuir, failed>>
  BY DEF PanicImport, AtImport
<1>2. /\ m \in Ids /\ m \notin pending /\ m \notin hasVuir
      /\ \A u \in Threads : running[u] = m => u = t
      /\ \A i \in 1 .. Len(failed) : failed[i] # m
  BY <1>1, RunningModule
<1>. HIDE DEF m
<1>3. /\ Ids' = Ids
      /\ running'[t] = NoModule
      /\ \A u \in Threads : u # t => running'[u] = running[u] /\ running[u] # m
  BY <1>1, <1>2 DEF IInv, TypeOK, Ids
<1>4. TypeOK'
  <2>1. running' \in [Threads -> 0 .. Len(modules')]
    BY <1>1, LenProperties DEF IInv, TypeOK, NoModule
  <2>. QED
    BY <1>1, <1>2, <1>3, <2>1 DEF IInv, TypeOK
<1>5. OneModulePerPath' /\ PathNamed' /\ PendingFresh'
  BY <1>1, <1>3 DEF IInv, OneModulePerPath, PathNamed, PendingFresh
<1>6. PassedResolve'
  BY <1>1, PassedKept DEF IInv, PassedResolve
<1>7. ParsedOnce'
  <2>1. ASSUME NEW u \in Threads, running'[u] # NoModule
        PROVE  u # t /\ running'[u] = running[u] /\ running[u] # m
    BY <1>3, <2>1
  <2>. QED
    BY <1>1, <2>1 DEF IInv, ParsedOnce
<1>8. FailedOnce'
  <2>1. ASSUME NEW i \in 1 .. Len(failed), NEW u \in Threads PROVE running'[u] # failed[i]
    BY <1>3 DEF IInv, FailedOnce, Ids, NoModule
  <2>. QED
    BY <1>1, <1>2, <1>3, <2>1 DEF IInv, FailedOnce
<1>9. PanickedOut'
  <2>1. ASSUME NEW k \in panicked', NEW u \in Threads PROVE running'[u] # k
    <3>1. k \in Ids /\ k # NoModule
      BY <1>1, <1>2 DEF IInv, TypeOK, Ids, NoModule
    <3>. QED
      BY <1>1, <1>3, <3>1 DEF IInv, PanickedOut
  <2>. QED
    BY <1>1, <1>2, <2>1 DEF IInv, PanickedOut
<1>10. Accounted'
  BY <1>1, <1>3 DEF IInv, Accounted, m
<1>. QED
  BY <1>4, <1>5, <1>6, <1>7, <1>8, <1>9, <1>10 DEF IInv

(* A path without a module: under the lock of module_path_to_id the module *)
(* is made, named by its path, and its job spawned.                        *)
LEMMA NewImportInv == ASSUME IInv, NEW t \in Threads, NewImport(t) PROVE IInv'
<1>1. PICK m \in Ids, n \in Nat, p \in Paths, new \in Nat :
        /\ running[t] = m
        /\ next[m] = n
        /\ n \in 1 .. Len(Imports[modules[m]])
        /\ p = Resolve[modules[m]][Imports[modules[m]][n]]
        /\ pathToId[p] = NoModule
        /\ new = Len(modules) + 1
        /\ modules' = Append(modules, p)
        /\ importer' = Append(importer, m)
        /\ pathToId' = [pathToId EXCEPT ![p] = new]
        /\ pending' = pending \cup {new}
        /\ next' = Append([next EXCEPT ![m] = n + 1], 0)
        /\ UNCHANGED <<running, hasSource, hasVuir, failed, panicked>>
  <2>1. Len(modules) + 1 \in Nat
    BY LenProperties DEF IInv, TypeOK
  <2>2. /\ running[t] \in Ids
        /\ modules[running[t]] \in Paths
        /\ next[running[t]] \in Nat
    BY RunningModule DEF NewImport, Visiting, AtImport
  <2>3. ImportPath(t) \in Paths
    BY <2>2, ResolveType DEF NewImport, Visiting, AtImport, NeedsModule, ImportPath, ImportName
  <2>. QED
    BY <2>1, <2>2, <2>3 DEF NewImport, Visiting, AtImport, NeedsModule, ImportPath, ImportName
<1>2. /\ m \notin pending /\ m \notin hasVuir /\ m # NoModule
      /\ modules[m] \in Paths
      /\ \A u \in Threads : running[u] = m => u = t
  BY <1>1, RunningModule DEF Ids, NoModule
<1>4. /\ modules' \in Seq(Paths) /\ Len(modules') = new /\ new = Len(modules) + 1
      /\ modules'[new] = p
      /\ \A k \in Ids : modules'[k] = modules[k] /\ modules[k] \in Paths
      /\ Len(modules) \in Nat
  <2>1. modules \in Seq(Paths) /\ Len(modules) \in Nat
    BY LenProperties DEF IInv, TypeOK
  <2>2. \A k \in Ids : modules[k] \in Paths
    BY <2>1, ElementOfSeq DEF Ids
  <2>3. /\ modules' \in Seq(Paths) /\ Len(modules') = Len(modules) + 1
        /\ modules'[Len(modules) + 1] = p
        /\ \A k \in 1 .. Len(modules) : modules'[k] = modules[k]
    BY <1>1, <2>1, AppendProperties
  <2>. QED
    BY <1>1, <2>1, <2>2, <2>3 DEF Ids
<1>5. importer' \in Seq(Nat) /\ Len(importer') = new
  <2>1. m \in Nat
    BY <1>1 DEF Ids
  <2>. QED
    BY <1>1, <2>1, AppendProperties DEF IInv, TypeOK
<1>6. /\ next' \in Seq(Nat) /\ Len(next') = new
      /\ next'[new] = 0
      /\ next'[m] = n + 1
      /\ \A k \in Ids : k # m => next'[k] = next[k]
  <2>. DEFINE adv == [next EXCEPT ![m] = n + 1]
  <2>1. /\ adv \in Seq(Nat) /\ Len(adv) = Len(modules)
        /\ adv[m] = n + 1 /\ \A k \in Ids : k # m => adv[k] = next[k]
    BY <1>1, ExceptSeq DEF IInv, TypeOK, Ids
  <2>2. next' = Append(adv, 0)
    BY <1>1
  <2>. HIDE DEF adv
  <2>. QED
    <3>1. /\ next' \in Seq(Nat) /\ Len(next') = Len(adv) + 1
          /\ next'[Len(adv) + 1] = 0
          /\ \A k \in 1 .. Len(adv) : next'[k] = adv[k]
      BY <2>1, <2>2, AppendProperties
    <3>. QED
      BY <1>1, <2>1, <3>1 DEF Ids
<1>7. /\ Ids' = Ids \cup {new} /\ new \notin Ids /\ new # NoModule /\ m # new
      /\ new \notin pending /\ new \notin hasVuir /\ new \notin hasSource /\ new \notin panicked
      /\ \A u \in Threads : running[u] # new
  <2>1. Ids' = Ids \cup {new} /\ new \notin Ids /\ new # NoModule
    BY <1>4 DEF Ids, NoModule
  <2>2. pending \subseteq Ids /\ hasVuir \subseteq Ids /\ hasSource \subseteq Ids /\ panicked \subseteq Ids
    BY DEF IInv, TypeOK
  <2>3. \A u \in Threads : running[u] = NoModule \/ running[u] \in Ids
    BY DEF IInv, TypeOK, Ids, NoModule
  <2>. QED
    BY <1>1, <2>1, <2>2, <2>3
<1>8. /\ pathToId'[p] = new
      /\ \A q \in Paths : q # p => pathToId'[q] = pathToId[q]
  BY <1>1 DEF IInv, TypeOK
<1>9. TypeOK'
  <2>1. pathToId' \in [Paths -> 0 .. Len(modules')]
    <3>1. new \in 0 .. Len(modules') /\ \A k \in 0 .. Len(modules) : k \in 0 .. Len(modules')
      BY <1>4
    <3>2. pathToId \in [Paths -> 0 .. Len(modules)]
      BY DEF IInv, TypeOK
    <3>3. \A q \in Paths : pathToId'[q] \in 0 .. Len(modules')
      BY <1>8, <3>1, <3>2
    <3>. QED
      BY <1>1, <3>2, <3>3
  <2>2. running' \in [Threads -> 0 .. Len(modules')]
    <3>1. running \in [Threads -> 0 .. Len(modules)]
      BY DEF IInv, TypeOK
    <3>2. \A k \in 0 .. Len(modules) : k \in 0 .. Len(modules')
      BY <1>4
    <3>. QED
      BY <1>1, <3>1, <3>2
  <2>3. pending' \subseteq Ids' /\ hasSource' \subseteq Ids' /\ hasVuir' \subseteq Ids' /\ panicked' \subseteq Ids'
    BY <1>1, <1>7 DEF IInv, TypeOK
  <2>. QED
    BY <1>1, <1>4, <1>5, <1>6, <2>1, <2>2, <2>3 DEF IInv, TypeOK
<1>10. OneModulePerPath'
  <2>1. \A k \in Ids : pathToId[modules[k]] = k /\ k # NoModule
    BY DEF IInv, OneModulePerPath, Ids, NoModule
  <2>. QED
    <3>1. ASSUME NEW k \in Ids PROVE pathToId'[modules'[k]] = k
      <4>1. modules[k] \in Paths /\ modules[k] # p /\ modules'[k] = modules[k]
        BY <1>1, <1>4, <2>1, ZenonT(60)
      <4>. QED
        BY <1>8, <2>1, <4>1
    <3>2. pathToId'[modules'[new]] = new
      BY <1>4, <1>8
    <3>. QED
      BY <1>7, <3>1, <3>2 DEF OneModulePerPath
<1>11. PathNamed'
  <2>1. ASSUME NEW q \in Paths, q # p, pathToId[q] # NoModule
        PROVE  modules'[pathToId[q]] = q
    <3>1. pathToId[q] \in Ids
      BY <1>4, <2>1 DEF IInv, TypeOK, Ids, NoModule
    <3>. QED
      BY <1>4, <2>1, <3>1 DEF IInv, PathNamed
  <2>. QED
    BY <1>4, <1>8, <2>1 DEF PathNamed
<1>12. PendingFresh'
  BY <1>1, <1>2, <1>6, <1>7, ZenonT(60) DEF IInv, PendingFresh, TypeOK
<1>13. ParsedOnce'
  <2>1. ASSUME NEW u \in Threads, running[u] # NoModule, next'[running[u]] = 0
        PROVE  running[u] \notin hasSource
    <3>1. running[u] # m
      BY <1>2, <1>6, <2>1
    <3>2. running[u] \in Ids
      BY <2>1, RunningModule
    <3>. QED
      BY <1>6, <2>1, <3>1, <3>2 DEF IInv, ParsedOnce
  <2>. QED
    BY <1>1, <1>7, <2>1 DEF IInv, ParsedOnce
<1>14. FailedOnce' /\ PanickedOut'
  BY <1>1, <1>7 DEF IInv, FailedOnce, PanickedOut
<1>15. Accounted'
  BY <1>1, <1>7 DEF IInv, Accounted
<1>16. PassedResolve'
  <2>1. ASSUME NEW k \in Ids, NEW i \in 1 .. Len(Imports[modules[k]]), Resolved(k, i)
        PROVE  Resolved(k, i)'
    <3>1. SUFFICES ASSUME Imports[modules[k]][i] \notin Special
                   PROVE  pathToId'[Resolve[modules[k]][Imports[modules[k]][i]]] # NoModule
      BY <1>4 DEF Resolved
    <3>2. Resolve[modules[k]][Imports[modules[k]][i]] \in Paths
      BY <1>4, <3>1, ResolveType
    <3>. QED
      BY <1>7, <1>8, <2>1, <3>1, <3>2 DEF Resolved
  <2>2. Resolved(m, n)'
    <3>1. modules'[m] = modules[m]
      BY <1>2, <1>4
    <3>. QED
      BY <1>1, <1>7, <1>8, <3>1 DEF Resolved
  <2>3. ASSUME NEW k \in Ids', NEW i \in 1 .. Len(Imports[modules'[k]]), i < next'[k]
        PROVE  Resolved(k, i)'
    <3>1. CASE k = new
      BY <1>6, <2>3, <3>1
    <3>2. CASE k = m
      <4>1. i < n \/ i = n
        BY <1>2, <1>6, <2>3, <3>2
      <4>2. CASE i < n
        BY <1>1, <1>4, <2>1, <2>3, <3>2, <4>2 DEF IInv, PassedResolve
      <4>3. CASE i = n
        BY <2>2, <3>2, <4>3
      <4>. QED
        BY <4>1, <4>2, <4>3
    <3>3. CASE k # new /\ k # m
      BY <1>4, <1>6, <1>7, <2>1, <2>3, <3>3 DEF IInv, PassedResolve
    <3>. QED
      BY <3>1, <3>2, <3>3
  <2>4. ASSUME NEW k \in hasVuir PROVE next'[k] = Len(Imports[modules'[k]]) + 1
    BY <1>2, <1>4, <1>6 DEF IInv, PassedResolve, TypeOK
  <2>. QED
    BY <1>1, <2>3, <2>4 DEF PassedResolve
<1>. QED
  BY <1>9, <1>10, <1>11, <1>12, <1>13, <1>14, <1>15, <1>16 DEF IInv

(* Every step of a job keeps the invariant. *)
LEMMA NextInv == IInv /\ [Next]_vars => IInv'
<1>. SUFFICES ASSUME IInv, [Next]_vars PROVE IInv'
  OBVIOUS
<1>1. CASE UNCHANGED vars
  <2>1. Ids' = Ids /\ TypeOK'
    BY <1>1 DEF vars, IInv, TypeOK, Ids
  <2>2. OneModulePerPath' /\ PathNamed' /\ ParsedOnce' /\ PendingFresh'
    BY <1>1, <2>1 DEF vars, IInv, OneModulePerPath, PathNamed, ParsedOnce, PendingFresh
  <2>3. FailedOnce' /\ PanickedOut' /\ Accounted' /\ PassedResolve'
    BY <1>1, <2>1 DEF vars, IInv, FailedOnce, PanickedOut, Accounted, PassedResolve, Resolved
  <2>. QED
    BY <2>1, <2>2, <2>3 DEF IInv
<1>2. ASSUME NEW t \in Threads, Unreadable(t) PROVE IInv'
  BY <1>2, FailInv DEF Unreadable
<1>3. ASSUME NEW t \in Threads, Malformed(t) PROVE IInv'
  BY <1>3, FailInv DEF Malformed
<1>. QED
  BY <1>1, <1>2, <1>3, StartInv, ParsedInv, SkipImportInv, NewImportInv, PanicImportInv, SetVuirInv DEF Next, Step
-------------------------------------------------------------------------------
(* The inductive invariant holds of every behaviour of the parse phase. *)
THEOREM LoaderInvariant == Spec => []IInv
<1>1. Init => IInv
  BY InitInv
<1>2. IInv /\ [Next]_vars => IInv'
  BY NextInv
<1>. QED
  BY <1>1, <1>2, PTL DEF Spec

(* A file is one module, for any number of threads that import it at once: *)
(* module_path_to_id leads from the path of a module to that module.       *)
THEOREM LoaderOneModule == Spec => []OneModulePerPath
<1>1. IInv => OneModulePerPath
  BY DEF IInv
<1>. QED
  BY <1>1, LoaderInvariant, PTL

(* One job parses a module, once: neither source.set nor vuir.set of a     *)
(* module finds a value, whatever the import graph.                        *)
THEOREM LoaderParsesOnce == Spec => []ParsedOnce
<1>1. IInv => ParsedOnce
  BY DEF IInv
<1>. QED
  BY <1>1, LoaderInvariant, PTL

(* When the scope is over, a module has its VUIR or exactly one entry in   *)
(* failed_modules, or its job panicked and it has neither.                 *)
THEOREM LoaderSettles == Spec => []Settled
<1>1. ASSUME IInv PROVE Settled
  <2>1. SUFFICES ASSUME ScopeOver, NEW m \in Ids
                 PROVE  \/ m \in hasVuir \ panicked /\ {i \in 1 .. Len(failed) : failed[i] = m} = {}
                        \/ m \notin hasVuir \cup panicked /\
                             \E i \in {j \in 1 .. Len(failed) : failed[j] = m} :
                               {j \in 1 .. Len(failed) : failed[j] = m} = {i}
                        \/ m \in panicked \ hasVuir /\ {i \in 1 .. Len(failed) : failed[i] = m} = {}
    BY DEF Settled
  <2>2. m \notin pending /\ \A t \in Threads : running[t] # m
    BY <2>1 DEF ScopeOver, Ids, NoModule
  <2>3. m \in hasVuir \cup panicked \/ \E i \in 1 .. Len(failed) : failed[i] = m
    BY <1>1, <2>2 DEF IInv, Accounted
  <2>. QED
    BY <1>1, <2>3 DEF IInv, FailedOnce, PanickedOut
<1>2. IInv => Settled
  BY <1>1
<1>. QED
  BY <1>2, LoaderInvariant, PTL

(* When the scope is over, every import of a module with VUIR leads to a   *)
(* module, for any import graph and any order of the jobs.                 *)
THEOREM LoaderResolves == Spec => []ImportsResolve
<1>1. ASSUME IInv PROVE ImportsResolve
  <2>1. SUFFICES ASSUME NEW m \in hasVuir, NEW i \in 1 .. Len(Imports[modules[m]]),
                        Imports[modules[m]][i] \notin Special
                 PROVE  pathToId[Resolve[modules[m]][Imports[modules[m]][i]]] \in Ids
    BY DEF ImportsResolve
  <2>2. m \in Ids /\ modules[m] \in Paths
    BY <1>1, ElementOfSeq DEF IInv, TypeOK, Ids
  <2>3. Resolve[modules[m]][Imports[modules[m]][i]] \in Paths
    BY <2>1, <2>2, ResolveType
  <2>4. Len(Imports[modules[m]]) \in Nat
    BY <2>2, LoaderAssumption, LenProperties
  <2>5. Resolved(m, i)
    BY <1>1, <2>2, <2>4 DEF IInv, PassedResolve
  <2>. QED
    <3>1. pathToId[Resolve[modules[m]][Imports[modules[m]][i]]] # NoModule
      BY <2>1, <2>5 DEF Resolved
    <3>2. Len(modules) \in Nat /\ pathToId \in [Paths -> 0 .. Len(modules)]
      BY <1>1, LenProperties DEF IInv, TypeOK
    <3>. QED
      BY <2>3, <3>1, <3>2 DEF Ids, NoModule
<1>2. IInv => ImportsResolve
  BY <1>1
<1>. QED
  BY <1>2, LoaderInvariant, PTL
===============================================================================
