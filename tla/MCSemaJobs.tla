------------------------------ MODULE MCSemaJobs ------------------------------
(***************************************************************************)
(* Small programs for SemaJobs.  Every one starts like compile() does:     *)
(* analyse `builtin`, spawn the std_rt closure, which analyses the `rt`    *)
(* module, which spawns the main closure, which asks for the declaration   *)
(* of main and queues its function.                                        *)
(***************************************************************************)
EXTENDS SemaJobs, TLC

CONSTANTS w0, w1, w2, builtin, rt, lib, main, a, b, mainFn, f, g

Decl(d) == [kind |-> "decl", unit |-> d]
Mod(m) == [kind |-> "module", unit |-> m]
Fn(h) == [kind |-> "fn", unit |-> h]
SpawnOf(t) == [kind |-> "spawn", unit |-> t]

Start ==
  (Compile :> <<Mod(builtin), SpawnOf(RtTask)>>) @@
  (RtTask :> <<Mod(rt)>>) @@
  (rt :> <<SpawnOf(MainTask)>>) @@
  (MainTask :> <<Decl(main), Fn(mainFn)>>)

Program(body, verdict, parsed) ==
  [body |-> [u \in Units |-> (body @@ Start @@ [v \in Units |-> <<>>])[u]],
   verdict |-> [u \in Units |-> (verdict @@ [v \in Units |-> "ok"])[u]],
   parsed |-> parsed]

AllOk == [u \in {} |-> "ok"]

(* Declarations that ask for nothing: main calls f and g, which share a. *)
Leaves == (mainFn :> <<Fn(f), Decl(a), Fn(g)>>) @@ (f :> <<Decl(a)>>) @@ (g :> <<Decl(b), Decl(a), Fn(f)>>)

LeafPrograms ==
  {Program(Leaves, AllOk, Modules), Program(Leaves, a :> "error", Modules),
   Program(Leaves, g :> "error", Modules), Program(Leaves, AllOk, Modules \ {builtin})}

(* Declarations that use each other and import a module; f and g share a,  *)
(* a is initialised from b; b is not comptime-known, fails or is missing   *)
(* its module; a cycle; a file-level field type that fails.                *)
Nested ==
  (mainFn :> <<Fn(f), Decl(b)>>) @@ (f :> <<Decl(a), Fn(f)>>) @@
  (a :> <<Mod(lib), Decl(b)>>) @@ (b :> <<Mod(lib)>>)

NestedPrograms ==
  {Program(Nested, AllOk, Modules), Program(Nested, b :> "error", Modules),
   Program(Nested, b :> "runtime", Modules), Program(Nested, AllOk, Modules \ {lib}),
   Program((b :> <<Decl(a)>>) @@ Nested, AllOk, Modules),
   Program((lib :> <<Decl(b)>>) @@ (b :> <<>>) @@ Nested, b :> "error", Modules)}

(* f and g both use a, which is initialised from b: no cycle anywhere. *)
SharedPrograms ==
  {Program((mainFn :> <<Fn(f), Fn(g), Decl(b)>>) @@ (f :> <<Decl(a)>>) @@ (g :> <<Decl(a)>>) @@ (a :> <<Decl(b)>>),
           AllOk, Modules)}

(* The initialiser of a is not comptime-known. *)
RuntimePrograms == {Program(mainFn :> <<Decl(a)>>, a :> "runtime", Modules)}

(* a is analysed to an error that no diagnostic reports. *)
SilentPrograms == {Program(mainFn :> <<Decl(a)>>, a :> "silent", Modules)}
===============================================================================
