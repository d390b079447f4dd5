------------------------------- MODULE SemaJobs -------------------------------
(***************************************************************************)
(* The semantic-analysis job system of CompilationUnit (compile_unit.rs),  *)
(* from the end of parsing to the result of compile().                     *)
(*                                                                         *)
(* A unit of work is a declaration (SemaUnit::DeclValue), a function       *)
(* instance (SemaUnit::RuntimeFunc), a module, one of the two closures     *)
(* that start the analysis, or compile() itself.  What the analysis of a   *)
(* unit asks of the job system is its body, a sequence of requests:        *)
(*   "decl"    get_or_analyze_decl_value, waits for the declaration        *)
(*   "module"  get_or_analyze_module_sync, analyses the module in place    *)
(*   "fn"      queue_runtime_function_analysis_if_needed, does not wait    *)
(*   "spawn"   rayon::spawn_fifo of one of the starting closures           *)
(* The program under compilation gives every unit its body and its own     *)
(* verdict.                                                                *)
(*                                                                         *)
(* A rayon worker runs a stack of units: a unit that waits calls           *)
(* yield_now, which runs another job to its end on top of it.  The queue   *)
(* of a worker is first-in first-out (spawn_fifo); it takes from its own   *)
(* queue first and steals from the others otherwise.                       *)
(***************************************************************************)
EXTENDS Integers, Sequences

CONSTANTS
  Workers,   \* threads of the pool
  Main,      \* the worker that runs compile()
  Decls,     \* declarations
  Funcs,     \* interned function instances
  Modules,   \* modules found by the parse phase
  Programs   \* the programs considered, records [body, verdict, parsed]

RtTask == "std_rt closure"      \* spawned by compile()
MainTask == "main closure"      \* spawned by job_analyze_module(std_rt)
Compile == "compile"
Tasks == {RtTask, MainTask}
Jobs == Decls \cup Funcs \cup Tasks    \* what runs as a closure of its own
Units == Jobs \cup Modules \cup {Compile}
Requests ==
  [kind : {"decl"}, unit : Decls] \cup [kind : {"module"}, unit : Modules] \cup
  [kind : {"fn"}, unit : Funcs] \cup [kind : {"spawn"}, unit : Tasks]

(* How analysing a unit ends once its requests are answered: "error" after *)
(* a diagnostic, "silent" without one, "runtime" for a declaration whose   *)
(* value is not comptime-known.                                            *)
Verdicts == {"ok", "error", "silent", "runtime"}

ASSUME JobsAssumption ==
  /\ Main \in Workers
  /\ Programs \subseteq [body : [Units -> Seq(Requests)], verdict : [Units -> Verdicts],
                         parsed : SUBSET Modules]
  /\ Decls \cap Funcs = {}
  /\ Modules \cap (Decls \cup Funcs) = {}
  /\ (Tasks \cup {Compile}) \cap (Decls \cup Funcs \cup Modules) = {}

(* compile() starts the analysis the same way for every program: it spawns *)
(* the closure that analyses the module std_rt, whose analysis spawns the  *)
(* main closure; nothing else spawns them.                                 *)
Starting(t) == [kind |-> "spawn", unit |-> t]
StartsOnce(p) ==
  \A u, v \in Units : \A i \in DOMAIN p.body[u], j \in DOMAIN p.body[v] :
    p.body[u][i].kind = "spawn" /\ p.body[u][i] = p.body[v][j] => u = v /\ i = j
StartsAll(p) ==
  \E m \in Modules :
    /\ \E i \in DOMAIN p.body[Compile] : p.body[Compile][i] = Starting(RtTask)
    /\ \E i \in DOMAIN p.body[RtTask] : p.body[RtTask][i] = [kind |-> "module", unit |-> m]
    /\ \E i \in DOMAIN p.body[m] : p.body[m][i] = Starting(MainTask)

ASSUME StartAssumption == \A p \in Programs : StartsOnce(p) /\ StartsAll(p)

VARIABLES
  prog,      \* the program being compiled (never changes)
  stack,     \* the units each worker runs, the last one on top
  pos,       \* the request each unit is at; Over once its body has ended
  queue,     \* the spawn_fifo queue of each worker
  jobs,      \* sema_jobs: "absent", "queued" or "done"
  clones,    \* closures that hold a clone of the Arc<CompilationUnit>
  dstate,    \* analysis_state of each declaration
  mstate,    \* sema_state of each module
  errors,    \* is sema_errors non-empty?
  tasks,     \* codegen_tasks, the functions to lower
  lowered,   \* functions lowered by the code generator
  mainpc,    \* where compile() is in its last loop
  result,    \* what compile() returned
  aborted    \* a panic ended the process

vars == <<prog, stack, pos, queue, jobs, clones, dstate, mstate, errors, tasks,
          lowered, mainpc, result, aborted>>

Over == 0
Terminal == {"analysed", "failed"}

Init ==
  /\ prog \in Programs
  /\ stack = [w \in Workers |-> IF w = Main THEN <<Compile>> ELSE <<>>]
  /\ pos = [u \in Units |-> 1]
  /\ queue = [w \in Workers |-> <<>>]
  /\ jobs = [u \in Decls \cup Funcs |-> "absent"]
  /\ clones = {}
  /\ dstate = [d \in Decls |-> "unanalysed"]
  /\ mstate = [m \in Modules |-> "pending"]
  /\ errors = FALSE
  /\ tasks = <<>>
  /\ lowered = {}
  /\ mainpc = "count"
  /\ result = "none"
  /\ aborted = FALSE

-------------------------------------------------------------------------------
Running(w) == stack[w] # <<>>
Top(w) == stack[w][Len(stack[w])]
Body(w) == prog.body[Top(w)]
InBody(w) == Running(w) /\ pos[Top(w)] \in 1 .. Len(Body(w))
AtEnd(w) == Running(w) /\ pos[Top(w)] = Len(Body(w)) + 1
Request(w) == Body(w)[pos[Top(w)]]
Asks(w, kind) == InBody(w) /\ Request(w).kind = kind
Target(w) == Request(w).unit

Advance(w) == pos' = [pos EXCEPT ![Top(w)] = @ + 1]
Finish(w) == pos' = [pos EXCEPT ![Top(w)] = Over]
Pop(w) == stack' = [stack EXCEPT ![w] = SubSeq(@, 1, Len(@) - 1)]

(* rayon::spawn_fifo of a closure that owns a clone of the Arc. *)
Spawn(w, u) ==
  /\ queue' = [queue EXCEPT ![w] = Append(@, u)]
  /\ clones' = clones \cup {u}

(* Variant: every request spawns a job. *)
AnalyzeAlways(w, u) == jobs' = [jobs EXCEPT ![u] = "queued"] /\ Spawn(w, u)

(* analyze_sema_unit_if_needed: one entry per unit, never removed, under   *)
(* the lock of sema_jobs.                                                  *)
AnalyzeIfNeeded(w, u) ==
  IF jobs[u] = "absent"
    THEN jobs' = [jobs EXCEPT ![u] = "queued"] /\ Spawn(w, u)
    ELSE UNCHANGED <<jobs, queue, clones>>

(* Variant: the spawn does not look into sema_jobs. *)
DemandDeclAgain(w) ==
  /\ Asks(w, "decl")
  /\ dstate[Target(w)] \notin Terminal
  /\ jobs' = [jobs EXCEPT ![Target(w)] = "queued"]
  /\ Spawn(w, Target(w))
  /\ UNCHANGED <<prog, stack, pos, dstate, mstate, errors, tasks, lowered, mainpc, result, aborted>>

(* get_or_analyze_decl_value on a declaration nobody has asked for: after  *)
(* the spawn the caller starts to wait.                                    *)
DemandDecl(w) ==
  /\ Asks(w, "decl")
  /\ dstate[Target(w)] \notin Terminal
  /\ jobs[Target(w)] = "absent"
  /\ AnalyzeIfNeeded(w, Target(w))
  /\ UNCHANGED <<prog, stack, pos, dstate, mstate, errors, tasks, lowered, mainpc, result, aborted>>

(* The answer is there: the first look or a later one finds Analysed. *)
DeclReady(w) ==
  /\ Asks(w, "decl")
  /\ dstate[Target(w)] = "analysed"
  /\ Advance(w)
  /\ UNCHANGED <<prog, stack, queue, jobs, clones, dstate, mstate, errors, tasks, lowered, mainpc, result, aborted>>

(* queue_runtime_function_analysis_if_needed *)
CallFn(w) ==
  /\ Asks(w, "fn")
  /\ AnalyzeIfNeeded(w, Target(w))
  /\ Advance(w)
  /\ UNCHANGED <<prog, stack, dstate, mstate, errors, tasks, lowered, mainpc, result, aborted>>

(* The closures of compile() and of job_analyze_module(std_rt). *)
SpawnTask(w) ==
  /\ Asks(w, "spawn")
  /\ Spawn(w, Target(w))
  /\ Advance(w)
  /\ UNCHANGED <<prog, stack, jobs, dstate, mstate, errors, tasks, lowered, mainpc, result, aborted>>

(* get_or_analyze_module_sync: the first caller claims the module and      *)
(* analyses it on its own stack.                                           *)
ClaimModule(w) ==
  /\ Asks(w, "module")
  /\ Target(w) \in prog.parsed
  /\ mstate[Target(w)] = "pending"
  /\ mstate' = [mstate EXCEPT ![Target(w)] = "in_progress"]
  /\ stack' = [stack EXCEPT ![w] = Append(@, Target(w))]
  /\ UNCHANGED <<prog, pos, queue, jobs, clones, dstate, errors, tasks, lowered, mainpc, result, aborted>>

ModuleReady(w) ==
  /\ Asks(w, "module")
  /\ mstate[Target(w)] = "done"
  /\ Advance(w)
  /\ UNCHANGED <<prog, stack, queue, jobs, clones, dstate, mstate, errors, tasks, lowered, mainpc, result, aborted>>

(* A request that cannot be met: a failed declaration, a module without    *)
(* VUIR.  The error ends the unit: a declaration becomes Failed, a         *)
(* function is not generated, a closure returns, compile() skips the rest  *)
(* of its start; job_analyze_module unwraps the error and panics.          *)
RequestFails(w) ==
  \/ Asks(w, "decl") /\ dstate[Target(w)] = "failed"
  \/ Asks(w, "module") /\ Target(w) \notin prog.parsed

Propagate(w) ==
  /\ RequestFails(w)
  /\ Top(w) \notin Modules
  /\ Finish(w)
  /\ dstate' = IF Top(w) \in Decls THEN [dstate EXCEPT ![Top(w)] = "failed"] ELSE dstate
  /\ UNCHANGED <<prog, stack, queue, jobs, clones, mstate, errors, tasks, lowered, mainpc, result, aborted>>

ModuleUnwraps(w) ==
  /\ RequestFails(w)
  /\ Top(w) \in Modules
  /\ aborted' = TRUE
  /\ UNCHANGED <<prog, stack, pos, queue, jobs, clones, dstate, mstate, errors, tasks, lowered, mainpc, result>>

(* Waiting loops: nothing to do until another job has run. *)
Waits(w) ==
  \/ /\ Asks(w, "decl")
     /\ dstate[Target(w)] \notin Terminal
     /\ jobs[Target(w)] # "absent"
  \/ /\ Asks(w, "module")
     /\ Target(w) \in prog.parsed
     /\ mstate[Target(w)] = "in_progress"

(* find_work of rayon: the own queue, or the queue of another worker. *)
Sources(w) ==
  IF queue[w] # <<>> THEN {w} ELSE {v \in Workers : queue[v] # <<>>}

Take(w) ==
  \E v \in Sources(w) :
    /\ queue' = [queue EXCEPT ![v] = Tail(@)]
    /\ stack' = [stack EXCEPT ![w] = Append(@, Head(queue[v]))]

(* rayon::yield_now in a waiting loop, and a worker without work. *)
Yield(w) ==
  /\ Waits(w) \/ ~Running(w)
  /\ Take(w)
  /\ UNCHANGED <<prog, pos, jobs, clones, dstate, mstate, errors, tasks, lowered, mainpc, result, aborted>>

(* Variants: an error fails every declaration; Failed is not stored. *)
CompleteDeclFailsAll(w) ==
  /\ AtEnd(w)
  /\ Top(w) \in Decls
  /\ Finish(w)
  /\ dstate' = IF prog.verdict[Top(w)] = "ok"
                 THEN [dstate EXCEPT ![Top(w)] = "analysed"]
                 ELSE [d \in Decls |-> "failed"]
  /\ UNCHANGED <<prog, stack, queue, jobs, clones, mstate, errors, tasks, lowered, mainpc, result, aborted>>

CompleteDeclForgets(w) ==
  /\ AtEnd(w)
  /\ Top(w) \in Decls
  /\ Finish(w)
  /\ dstate' = IF prog.verdict[Top(w)] = "ok"
                 THEN [dstate EXCEPT ![Top(w)] = "analysed"]
                 ELSE dstate
  /\ UNCHANGED <<prog, stack, queue, jobs, clones, mstate, errors, tasks, lowered, mainpc, result, aborted>>

(* The end of job_sema_analyze_unit(DeclValue): Analysed or Failed, except *)
(* on the path "global initializer must be comptime-known".                *)
CompleteDecl(w) ==
  /\ AtEnd(w)
  /\ Top(w) \in Decls
  /\ Finish(w)
  /\ LET verdict == prog.verdict[Top(w)]
     IN  /\ dstate' = CASE verdict = "ok"      -> [dstate EXCEPT ![Top(w)] = "analysed"]
                        [] verdict = "runtime" -> dstate
                        [] OTHER               -> [dstate EXCEPT ![Top(w)] = "failed"]
         /\ errors' = (errors \/ verdict \in {"error", "runtime"})
  /\ UNCHANGED <<prog, stack, queue, jobs, clones, mstate, tasks, lowered, mainpc, result, aborted>>

(* The end of job_sema_analyze_unit(RuntimeFunc): only a function that was *)
(* analysed without error is handed to the code generator.                 *)
CompleteFunc(w) ==
  /\ AtEnd(w)
  /\ Top(w) \in Funcs
  /\ Finish(w)
  /\ tasks' = IF prog.verdict[Top(w)] = "ok" THEN Append(tasks, Top(w)) ELSE tasks
  /\ errors' = (errors \/ prog.verdict[Top(w)] \in {"error", "runtime"})
  /\ UNCHANGED <<prog, stack, queue, jobs, clones, dstate, mstate, lowered, mainpc, result, aborted>>

(* The end of job_analyze_module and of the claim around it. *)
CompleteModule(w) ==
  /\ AtEnd(w)
  /\ Top(w) \in Modules
  /\ mstate' = [mstate EXCEPT ![Top(w)] = "done"]
  /\ Finish(w)
  /\ Pop(w)
  /\ UNCHANGED <<prog, queue, jobs, clones, dstate, errors, tasks, lowered, mainpc, result, aborted>>

(* The starting closures and the start of compile() have nothing to store. *)
CompleteTask(w) ==
  /\ AtEnd(w)
  /\ Top(w) \in Tasks \cup {Compile}
  /\ Finish(w)
  /\ UNCHANGED <<prog, stack, queue, jobs, clones, dstate, mstate, errors, tasks, lowered, mainpc, result, aborted>>

(* Variant: the clone of the Arc leaks. *)
ExitLeaks(w) ==
  /\ Running(w)
  /\ Top(w) \in Jobs
  /\ pos[Top(w)] = Over
  /\ jobs' = IF Top(w) \in Decls \cup Funcs THEN [jobs EXCEPT ![Top(w)] = "done"] ELSE jobs
  /\ Pop(w)
  /\ UNCHANGED <<prog, pos, queue, clones, dstate, mstate, errors, tasks, lowered, mainpc, result, aborted>>

(* The closure marks its job Done and drops its clone of the Arc. *)
Exit(w) ==
  /\ Running(w)
  /\ Top(w) \in Jobs
  /\ pos[Top(w)] = Over
  /\ jobs' = IF Top(w) \in Decls \cup Funcs THEN [jobs EXCEPT ![Top(w)] = "done"] ELSE jobs
  /\ clones' = clones \ {Top(w)}
  /\ Pop(w)
  /\ UNCHANGED <<prog, pos, queue, dstate, mstate, errors, tasks, lowered, mainpc, result, aborted>>

-------------------------------------------------------------------------------
(* The last loop of compile(), which runs at the bottom of Main's stack.   *)
InLoop(step) ==
  /\ stack[Main] = <<Compile>>
  /\ pos[Compile] = Over
  /\ mainpc = step

(* Arc::strong_count(&self) == 1, then codegen_tasks.is_empty(): two reads *)
(* in this order.                                                          *)
CheckCount ==
  /\ InLoop("count")
  /\ mainpc' = IF clones = {} THEN "empty" ELSE "drain"
  /\ UNCHANGED <<prog, stack, pos, queue, jobs, clones, dstate, mstate, errors, tasks, lowered, result, aborted>>

(* Variant: codegen_tasks is not looked at. *)
CheckEmptyDropped ==
  /\ InLoop("empty")
  /\ mainpc' = "finish"
  /\ UNCHANGED <<prog, stack, pos, queue, jobs, clones, dstate, mstate, errors, tasks, lowered, result, aborted>>

CheckEmpty ==
  /\ InLoop("empty")
  /\ mainpc' = IF tasks = <<>> THEN "finish" ELSE "drain"
  /\ UNCHANGED <<prog, stack, pos, queue, jobs, clones, dstate, mstate, errors, tasks, lowered, result, aborted>>

(* while let Some(task) = codegen_tasks.pop() { lower_function } *)
Lower ==
  /\ InLoop("drain")
  /\ tasks # <<>>
  /\ lowered' = lowered \cup {Head(tasks)}
  /\ tasks' = Tail(tasks)
  /\ UNCHANGED <<prog, stack, pos, queue, jobs, clones, dstate, mstate, errors, mainpc, result, aborted>>

(* rayon::yield_now: one job at most, then the loop starts again. *)
MainYield ==
  /\ InLoop("drain")
  /\ tasks = <<>>
  /\ mainpc' = "count"
  /\ IF Sources(Main) = {} THEN UNCHANGED <<queue, stack>> ELSE Take(Main)
  /\ UNCHANGED <<prog, pos, jobs, clones, dstate, mstate, errors, tasks, lowered, result, aborted>>

(* Variant: semantic errors do not fail the build. *)
ReturnLenient ==
  /\ InLoop("finish")
  /\ mainpc' = "returned"
  /\ result' = IF prog.parsed # Modules THEN "parsing_error" ELSE "object"
  /\ UNCHANGED <<prog, stack, pos, queue, jobs, clones, dstate, mstate, errors, tasks, lowered, aborted>>

(* The result: failed modules, then semantic errors, then the object. *)
Return ==
  /\ InLoop("finish")
  /\ mainpc' = "returned"
  /\ result' = CASE prog.parsed # Modules -> "parsing_error"
                 [] errors /\ prog.parsed = Modules -> "semantic_error"
                 [] OTHER -> "object"
  /\ UNCHANGED <<prog, stack, pos, queue, jobs, clones, dstate, mstate, errors, tasks, lowered, aborted>>

Analyse(w) ==
  \/ DemandDecl(w) \/ DeclReady(w) \/ CallFn(w) \/ SpawnTask(w)
  \/ ClaimModule(w) \/ ModuleReady(w) \/ Propagate(w) \/ ModuleUnwraps(w)
  \/ CompleteDecl(w) \/ CompleteFunc(w) \/ CompleteModule(w) \/ CompleteTask(w)

Loop == CheckCount \/ CheckEmpty \/ Lower \/ MainYield \/ Return

Next ==
  /\ ~aborted
  /\ \/ \E w \in Workers : Analyse(w) \/ Yield(w) \/ Exit(w)
     \/ Loop

Spec == Init /\ [][Next]_vars

(* Every worker thread keeps running, compile() with its own. *)
FairSpec ==
  /\ Spec
  /\ \A w \in Workers : WF_vars(~aborted /\ (Analyse(w) \/ Yield(w) \/ Exit(w)))
  /\ WF_vars(~aborted /\ Loop)
-------------------------------------------------------------------------------
(* The places where a closure waits or runs: in queues and on stacks. *)
Places(u) ==
  UNION {{<<"queue", w, i>> : i \in {j \in DOMAIN queue[w] : queue[w][j] = u}} \cup
         {<<"stack", w, i>> : i \in {j \in DOMAIN stack[w] : stack[w][j] = u}} : w \in Workers}

(* No unit is ever analysed twice, whoever asks for it at whatever moment: *)
(* a closure is in one queue or on one stack, exactly as long as it holds  *)
(* its clone of the Arc, so that strong_count tells how many are alive.    *)
OneClosurePerUnit ==
  \A u \in Jobs :
    /\ \A p, q \in Places(u) : p = q
    /\ u \in clones <=> Places(u) # {}

(* A DeclValue job finds its declaration Unanalysed when it starts: the    *)
(* unreachable!("job_analyze_decl queued with already analysed decl") of   *)
(* job_sema_analyze_unit is never reached.                                 *)
StartsUnanalysed ==
  \A d \in Decls :
    (\E w \in Workers : \E i \in DOMAIN queue[w] : queue[w][i] = d)
      => dstate[d] = "unanalysed"

(* compile() returns only when every job has ended and every function that *)
(* was handed over has been lowered, although it reads strong_count and    *)
(* codegen_tasks at different moments while workers spawn and push.        *)
ReturnsAfterAll ==
  result # "none" =>
    /\ tasks = <<>>
    /\ \A w \in Workers : queue[w] = <<>> /\ (w # Main => stack[w] = <<>>)
    /\ \A u \in Decls \cup Funcs : jobs[u] # "queued"

(* The object is complete: compile() returns one only if the program's     *)
(* main function was lowered, and every function that a lowered function   *)
(* calls, and every declaration it uses was analysed.                      *)
RequestMet(r) ==
  CASE r.kind = "fn"     -> r.unit \in lowered
    [] r.kind = "decl"   -> dstate[r.unit] = "analysed"
    [] r.kind = "module" -> mstate[r.unit] = "done"
    [] OTHER             -> TRUE

ObjectComplete ==
  result = "object" =>
    \A u \in lowered \cup Tasks \cup {Compile} :
      \A i \in DOMAIN prog.body[u] : RequestMet(prog.body[u][i])

(* A declaration's outcome is final: what a waiter was told stays true. *)
OutcomeFinal ==
  [][\A d \in Decls : dstate[d] \in Terminal => dstate'[d] = dstate[d]]_vars

(* compile() returns: the last loop ends once the work is done. *)
CompileReturns == <>(result # "none" \/ aborted)

(* "Blocks (cooperatively via rayon) until done": a declaration that was   *)
(* asked for is eventually Analysed or Failed.                             *)
DemandAnswered ==
  \A d \in Decls : jobs[d] # "absent" ~> (dstate[d] \in Terminal \/ aborted)
===============================================================================
