----------------------------- MODULE ModuleLoader -----------------------------
(***************************************************************************)
(* The parse phase of CompilationUnit::compile (compile_unit.rs): a        *)
(* rayon::scope in which job_parse_module reads, parses and lowers a file  *)
(* and spawns a job for every import that no job has claimed yet.          *)
(* A module's id is its place in `modules`; 0 stands for no module.        *)
(***************************************************************************)
EXTENDS Integers, Sequences

CONSTANTS
  Threads,
  Paths,        \* normalised file paths
  Initial,      \* the paths known at start: root, prelude, std, builtin, rt
  Imports,      \* Imports[p]: the import strings of the file at p, in order
  ImportNames,  \* the strings that may be imported
  NotUtf8,      \* those of them that are not UTF-8, by an escape
  Resolve,      \* Resolve[p][s]: the path that s names in the file at p
  Contents      \* what is found at each path: "ok", "unreadable", "malformed"

Special == {"root", "std", "builtin"}  \* imports that are not files

ASSUME LoaderAssumption ==
  /\ Initial \in Seq(Paths)
  /\ \A i, j \in 1 .. Len(Initial) : Initial[i] = Initial[j] => i = j
  /\ NotUtf8 \subseteq ImportNames
  /\ Imports \in [Paths -> Seq(ImportNames \cup Special)]
  /\ Resolve \in [Paths -> [ImportNames -> Paths]]
  /\ Contents \in [Paths -> {"ok", "unreadable", "malformed"}]

VARIABLES
  modules,     \* modules: the path of each module, in creation order
  importer,    \* first_imported_by of each module, 0 for the initial ones
  pathToId,    \* module_path_to_id
  pending,     \* jobs spawned in the scope that no thread runs yet
  running,     \* the module each thread parses, 0 for none
  next,        \* the import each module's job is at
  hasSource,   \* modules whose source is set
  hasVuir,     \* modules whose vuir is set
  failed,      \* failed_modules, in order
  panicked     \* modules whose job panicked

vars == <<modules, importer, pathToId, pending, running, next, hasSource, hasVuir, failed, panicked>>

Ids == 1 .. Len(modules)
NoModule == 0

Init ==
  /\ modules = Initial
  /\ importer = [i \in 1 .. Len(Initial) |-> NoModule]
  /\ pathToId = [p \in Paths |->
       IF \E i \in 1 .. Len(Initial) : Initial[i] = p
         THEN CHOOSE i \in 1 .. Len(Initial) : Initial[i] = p
         ELSE NoModule]
  /\ pending = 1 .. Len(Initial)
  /\ running = [t \in Threads |-> NoModule]
  /\ next = [i \in 1 .. Len(Initial) |-> 0]
  /\ hasSource = {}
  /\ hasVuir = {}
  /\ failed = <<>>
  /\ panicked = {}

(* Variant: the job stays in the queue. *)
StartAgain(t) ==
  /\ running[t] = NoModule
  /\ \E m \in pending : running' = [running EXCEPT ![t] = m]
  /\ UNCHANGED <<modules, importer, pathToId, pending, next, hasSource, hasVuir, failed, panicked>>

(* An idle thread of the scope takes a job. *)
Start(t) ==
  /\ running[t] = NoModule
  /\ \E m \in pending :
       /\ running' = [running EXCEPT ![t] = m]
       /\ pending' = pending \ {m}
  /\ UNCHANGED <<modules, importer, pathToId, next, hasSource, hasVuir, failed, panicked>>

(* File::open or read_to_string fails: the job ends, without a source. *)
Unreadable(t) ==
  LET m == running[t]
  IN  /\ m # NoModule
      /\ next[m] = 0
      /\ Contents[modules[m]] = "unreadable"
      /\ failed' = Append(failed, m)
      /\ running' = [running EXCEPT ![t] = NoModule]
      /\ UNCHANGED <<modules, importer, pathToId, pending, next, hasSource, hasVuir, panicked>>

(* Variant: the failure is not recorded. *)
MalformedForgets(t) ==
  LET m == running[t]
  IN  /\ m # NoModule
      /\ next[m] = 0
      /\ Contents[modules[m]] = "malformed"
      /\ hasSource' = hasSource \cup {m}
      /\ running' = [running EXCEPT ![t] = NoModule]
      /\ UNCHANGED <<modules, importer, pathToId, pending, next, hasVuir, failed, panicked>>

(* The parser or the lowering reports errors: the job ends. *)
Malformed(t) ==
  LET m == running[t]
  IN  /\ m # NoModule
      /\ next[m] = 0
      /\ Contents[modules[m]] = "malformed"
      /\ failed' = Append(failed, m)
      /\ hasSource' = hasSource \cup {m}
      /\ running' = [running EXCEPT ![t] = NoModule]
      /\ UNCHANGED <<modules, importer, pathToId, pending, next, hasVuir, panicked>>

(* The file parsed: its source is set and its imports are visited. *)
Parsed(t) ==
  LET m == running[t]
  IN  /\ m # NoModule
      /\ next[m] = 0
      /\ Contents[modules[m]] = "ok"
      /\ hasSource' = hasSource \cup {m}
      /\ next' = [next EXCEPT ![m] = 1]
      /\ UNCHANGED <<modules, importer, pathToId, pending, running, hasVuir, failed, panicked>>

(* The next import, under the lock of module_path_to_id: the special names *)
(* and a known path need nothing, a new path gets a module and a job.      *)
AtImport(t) ==
  /\ running[t] # NoModule
  /\ next[running[t]] \in 1 .. Len(Imports[modules[running[t]]])

ImportName(t) == Imports[modules[running[t]]][next[running[t]]]
ImportPath(t) == Resolve[modules[running[t]]][ImportName(t)]

Visiting(t) == AtImport(t) /\ ImportName(t) \notin NotUtf8

(* str::from_utf8(..).unwrap() of a string that is not: the job panics.    *)
(* The scope keeps the panic until its other jobs are done.                *)
PanicImport(t) ==
  /\ AtImport(t)
  /\ ImportName(t) \in NotUtf8
  /\ panicked' = panicked \cup {running[t]}
  /\ running' = [running EXCEPT ![t] = NoModule]
  /\ UNCHANGED <<modules, importer, pathToId, pending, next, hasSource, hasVuir, failed>>

(* Variant: module_path_to_id is not looked at. *)
NeedsModuleAlways(t) == ImportName(t) \notin Special

NeedsModule(t) == ImportName(t) \notin Special /\ pathToId[ImportPath(t)] = NoModule

SkipImport(t) ==
  /\ Visiting(t)
  /\ ~NeedsModule(t)
  /\ next' = [next EXCEPT ![running[t]] = @ + 1]
  /\ UNCHANGED <<modules, importer, pathToId, pending, running, hasSource, hasVuir, failed, panicked>>

NewImport(t) ==
  /\ Visiting(t)
  /\ NeedsModule(t)
  /\ LET new == Len(modules) + 1
     IN  /\ modules' = Append(modules, ImportPath(t))
         /\ importer' = Append(importer, running[t])
         /\ pathToId' = [pathToId EXCEPT ![ImportPath(t)] = new]
         /\ pending' = pending \cup {new}
         /\ next' = Append([next EXCEPT ![running[t]] = @ + 1], 0)
  /\ UNCHANGED <<running, hasSource, hasVuir, failed, panicked>>

(* Variants: before the imports have been visited; one import too early. *)
SetVuirEarly(t) ==
  LET m == running[t]
  IN  /\ m # NoModule
      /\ next[m] > 0
      /\ hasVuir' = hasVuir \cup {m}
      /\ running' = [running EXCEPT ![t] = NoModule]
      /\ UNCHANGED <<modules, importer, pathToId, pending, next, hasSource, failed, panicked>>

SetVuirOff(t) ==
  LET m == running[t]
  IN  /\ m # NoModule
      /\ next[m] > 0
      /\ next[m] = Len(Imports[modules[m]])
      /\ hasVuir' = hasVuir \cup {m}
      /\ running' = [running EXCEPT ![t] = NoModule]
      /\ UNCHANGED <<modules, importer, pathToId, pending, next, hasSource, failed, panicked>>

(* After the last import, module.vuir.set(vuir). *)
SetVuir(t) ==
  LET m == running[t]
  IN  /\ m # NoModule
      /\ next[m] = Len(Imports[modules[m]]) + 1
      /\ hasVuir' = hasVuir \cup {m}
      /\ running' = [running EXCEPT ![t] = NoModule]
      /\ UNCHANGED <<modules, importer, pathToId, pending, next, hasSource, failed, panicked>>

Step(t) ==
  \/ Start(t) \/ Unreadable(t) \/ Malformed(t) \/ Parsed(t)
  \/ SkipImport(t) \/ NewImport(t) \/ PanicImport(t) \/ SetVuir(t)

(* The scope ends when no job is left; analysis starts if none panicked. *)
ScopeOver == pending = {} /\ \A t \in Threads : running[t] = NoModule

Next == \E t \in Threads : Step(t)

Spec == Init /\ [][Next]_vars

(* The threads of the pool keep running jobs. *)
FairSpec == Spec /\ \A t \in Threads : WF_vars(Step(t))
-------------------------------------------------------------------------------
(* A file is one module, however many files import it at the same moment:  *)
(* two modules never have the same path (their types would differ), and    *)
(* module_path_to_id leads to the one.                                     *)
OneModulePerPath ==
  \A m \in Ids : pathToId[modules[m]] = m

(* A module is parsed by one job, once: source.set(..).unwrap() and        *)
(* vuir.set(..).unwrap() never find a value.                               *)
ParsedOnce ==
  /\ \A t, u \in Threads : running[t] = running[u] /\ running[t] # NoModule => t = u
  /\ \A t \in Threads : running[t] # NoModule =>
       /\ running[t] \notin pending \cup hasVuir
       /\ next[running[t]] = 0 => running[t] \notin hasSource
  /\ pending \cap hasSource = {}

(* When the scope ends every module has its VUIR or one entry in           *)
(* failed_modules, never both, unless its job panicked: compile() reports  *)
(* a failure if and only if there was one, and the analysis never meets a  *)
(* module that is not ready.                                               *)
Settled ==
  ScopeOver =>
    \A m \in Ids :
      LET entries == {i \in 1 .. Len(failed) : failed[i] = m}
      IN  \/ m \in hasVuir \ panicked /\ entries = {}
          \/ m \notin hasVuir \cup panicked /\ \E i \in entries : entries = {i}
          \/ m \in panicked \ hasVuir /\ entries = {}

(* When the scope ends an @import in a module with VUIR finds its module:  *)
(* the analysis resolves the string again, through module_path_to_id.      *)
ImportsResolve ==
  ScopeOver =>
    \A m \in hasVuir : \A i \in 1 .. Len(Imports[modules[m]]) :
      LET s == Imports[modules[m]][i]
      IN  s \notin Special => pathToId[Resolve[modules[m]][s]] \in Ids

(* The parse phase ends, also when files import each other in a cycle. *)
ScopeEnds == <>[]ScopeOver
===============================================================================
