---------------------------- MODULE MCFnPipeline ----------------------------
(***************************************************************************)
(* Functions for SemaBody, FnCodegen and FnMeaning: jumps and moves of     *)
(* linear values in statements up to two deep, switches, and variables.    *)
(***************************************************************************)
EXTENDS FnMeaning

MCBuiltins == {"@import"}

Type     == [ty |-> "type", params |-> <<>>, ret |-> ""]
Const(t) == [ty |-> t, params |-> <<>>, ret |-> ""]
Fun(ps, ret) == [ty |-> "fn", params |-> ps, ret |-> ret]

(* E names no tag type; F names one of two bits and gives values out of    *)
(* order; G gives a value twice; N names a type too narrow for three.      *)
MCEnums ==
  [E |-> [bits |-> 0, fields |-> <<<<"A", Implicit>>, <<"B", Implicit>>>>],
   F |-> [bits |-> 2, fields |-> <<<<"P", 2>>, <<"Q", Implicit>>, <<"R", 0>>>>],
   G |-> [bits |-> 2, fields |-> <<<<"I", 1>>, <<"J", Implicit>>>>],
   N |-> [bits |-> 1, fields |-> <<<<"N0", Implicit>>, <<"N1", Implicit>>, <<"N2", Implicit>>>>]]

MCTagTy == [U |-> "F"]

MCDecls ==
  [n \in {"T", "E", "F", "G", "N", "U", "V", "L", "bool", "void", "never"} |-> Type]
    @@ [n \in {"A", "B"} |-> Const("E")] @@ [n \in {"P", "Q", "R"} |-> Const("F")]
    @@ [n \in {"N0", "N1", "N2"} |-> Const("N")] @@ [n \in {"yes", "no"} |-> Const("bool")]
    @@ [n \in {"one", "two", "three", "other", "after"} |-> Fun(<<>>, "void")]
    @@ [drop |-> Fun(<<"L">>, "void"), make |-> Fun(<<>>, "L"), stop |-> Fun(<<>>, "never"),
        use |-> Fun(<<"E">>, "E")]

MCKind ==
  [n \in {"T", "bool", "void", "never", "none", "fn"} |-> "plain"] @@ [n \in DOMAIN MCEnums |-> "enum"]
    @@ [U |-> "tagged", V |-> "bare", L |-> "linear", type |-> "comptime"]

Id(n)   == <<"id", n>>
Lit     == <<"lit">>
Call(f, args) == <<"call", Id(f), args>>
Expr(e) == <<"expr", e>>
Do(f, args) == Expr(Call(f, args))
Mark(f) == Do(f, <<>>)
Blk(b)  == <<"blk", b>>
If(c, b, e) == Expr(<<"if", Id(c), b, e>>)
Case(ps, body) == <<[k \in DOMAIN ps |-> Id(ps[k])], "", body>>
SwitchOn(x, cases, else) == <<"switch", "", Id(x), cases, else>>
Switch(x, cases, else) == Expr(SwitchOn(x, cases, else))

(* Every name used has an item, so that lowering finds it; `f` is the      *)
(* function.                                                               *)
Item(n) == IF MCDecls[n].ty = "fn" THEN <<"fn", n, <<>>, Id("void"), <<>>, <<>>>>
           ELSE <<"let", n, <<>>, Lit>>
Names == <<"E", "F", "G", "N", "U", "V", "L", "bool", "void", "A", "B", "P", "Q", "R", "N0", "N1", "N2",
           "yes", "no", "one", "two", "three", "other", "after", "drop", "make", "stop", "use">>
Items == [k \in DOMAIN Names |-> Item(Names[k])]

Param(n, t) == <<n, Id(t)>>

Module(params, ret, body) ==
  <<"struct", <<>>, <<>>, <<<<"fn", "f", params, Id(ret), <<>>, Blk(body)>>>> \o Items>>

Ret  == <<"return", <<>>>>
RetX == <<"return", Id("x")>>
Drop(n) == Do("drop", <<Id(n)>>)
Make == Call("make", <<>>)
Break(label, v) == <<"break", label, v>>
Set(n, v) == <<"assign", Id(n), "=", Id(v)>>

----------------------------------------------------------------------------
(* Control flow: r is how the function returns. *)

Jumps(r) == {r, RetX, Break("", <<>>), Break("l", <<>>), <<"continue", "">>, Mark("stop")}
Moving == {Drop("v"), Drop("h"), <<"var", "v", Id("L"), Make>>}

UpToTwo(S) == {<<a>> : a \in S} \cup {<<a, b>> : a \in S, b \in S}

(* Statements around a body, with a condition that is known or not.        *)
Compound(r, b) ==
  {Expr(<<"block", "l", b>>), Expr(<<"loop", "l", b>>), Expr(<<"while", "", Id("c"), b>>),
   If("c", Blk(b), <<>>), If("c", Blk(<<r>>), <<"if", Id("c"), Blk(b), Blk(<<r>>)>>),
   If("yes", Blk(b), <<>>), If("no", Blk(<<r>>), Blk(b)),
   Switch("x", <<Case(<<"A">>, Blk(b)), Case(<<"B">>, Blk(<<>>))>>, <<>>),
   Switch("A", <<Case(<<"B", "B">>, Blk(<<>>)), Case(<<"A">>, Blk(b))>>, Blk(<<r>>))}

(* One compound statement around two simple ones or around another.       *)
Statements(r) ==
  UNION {Compound(r, b) : b \in UpToTwo((Jumps(r) \ {RetX, <<"continue", "">>}) \cup Moving)
                                  \cup {<<d>> : d \in UNION {Compound(r, <<a>>) : a \in Jumps(r)}}}

(* What is around the statement: a linear parameter `h` and variable `v`   *)
(* that are dropped before it, after it, both or neither.                  *)
Frame(pre, post) == [pre |-> pre, post |-> post]

VoidFrames ==
  {Frame(<<<<"const", "v", <<>>, Make>>>>, post) : post \in {<<>>, <<Drop("h"), Drop("v")>>}}
  \cup {Frame(<<<<"var", "v", Id("L"), Make>>, <<"defer", Call("drop", <<Id("h")>>)>>>>, <<Drop("v")>>),
        Frame(<<Drop("h"), <<"defer", Call("use", <<Id("x")>>)>>>>, <<>>)}

ValueFrames == {Frame(<<Drop("h")>>, <<RetX>>), Frame(<<Drop("h")>>, <<>>)}

Framed(ret, f, s) ==
  Module(<<Param("c", "bool"), Param("x", "E"), Param("h", "L")>>, ret, f.pre \o <<s>> \o f.post)

Flow ==
  {Framed("void", f, s) : f \in VoidFrames, s \in Statements(Ret)}
  \cup {Framed("E", f, s) : f \in ValueFrames, s \in Statements(RetX)}

(* Defers of two blocks, the inner one left in each way.                   *)
Defer(f) == <<"defer", Call(f, <<>>)>>

Inner(j) == {<<Defer("two"), j>>, <<j, Defer("two")>>,
             <<Defer("two"), If("c", Blk(<<Defer("three"), j>>), <<>>), Mark("other")>>}

Deferring ==
  UNION {{Module(<<Param("c", "bool"), Param("x", "E")>>, "void", <<Defer("one"), s, Mark("after")>>) : s \in Compound(Ret, b)} :
           b \in UNION {Inner(j) : j \in (Jumps(Ret) \ {RetX}) \cup {Mark("other")}}}

----------------------------------------------------------------------------
(* Switches: every case calls a function of its own, so that the arm taken *)
(* is seen; the last case may return.                                      *)

Marks == <<"one", "two", "three">>

(* Up to three cases without a variant in two of them.                     *)
CasesOver(lists) ==
  {cs \in UNION {[1 .. n -> lists] : n \in 1 .. 3} :
     \A i, j \in DOMAIN cs : i # j => ToSet(cs[i]) \cap ToSet(cs[j]) = {}}

OverF == CasesOver({<<"P">>, <<"Q">>, <<"R">>, <<"P", "Q">>, <<"R", "P">>, <<"Q", "R">>, <<"R", "Q", "P">>})
OverE == CasesOver({<<"A">>, <<"B">>, <<"B", "A">>})
OverBool == CasesOver({<<"yes">>, <<"no">>})

Arms(cs, last) ==
  [k \in DOMAIN cs |-> Case(cs[k], Blk(<<Mark(Marks[k])>> \o IF k = Len(cs) THEN last ELSE <<>>))]

Elses == {<<>>, Blk(<<Mark("other")>>), Blk(<<Ret>>)}

SwitchFn(x, ty, cs, last, else) ==
  Module(<<Param(x, ty)>>, "void", <<Switch(x, Arms(cs, last), else), Mark("after")>>)

OnConstant(else) ==
  {Module(<<>>, "void", <<Switch("P", Arms(cs, <<>>), else), Mark("after")>>) : cs \in OverF}

Switches ==
  {SwitchFn(x[1], x[2], cs, last, else) : x \in {<<"z", "F">>, <<"u", "U">>}, cs \in OverF,
     last \in {<<>>, <<Ret>>}, else \in Elses}
  \cup {SwitchFn(x[1], x[2], cs, <<>>, else) : x \in {<<"x", "E">>, <<"z", "F">>}, cs \in OverE, else \in Elses}
  \cup {SwitchFn("c", "bool", cs, <<>>, else) : cs \in OverBool, else \in Elses}
  \cup {SwitchFn("w", "V", cs, <<>>, else) : cs \in OverE, else \in Elses}
  \cup UNION {OnConstant(else) : else \in Elses \ {<<>>}}
  \cup {Module(<<Param("g", "G")>>, "void", <<Mark("after")>>)}

----------------------------------------------------------------------------
(* Variables of every kind, initialised, read and assigned; the values of  *)
(* blocks, loops, branches and switches.                                   *)

Valued ==
  {Id("A"), <<"while", "", Id("no"), <<>>>>, Id("x"), Call("use", <<Id("x")>>), Call("use", <<>>), Call("drop", <<Make>>), Id("P"),
   <<"if", Id("c"), Id("A"), Id("B")>>, <<"if", Id("c"), Id("A"), Id("P")>>,
   <<"if", Id("yes"), Id("A"), Id("x")>>, <<"if", Id("c"), Call("use", <<Id("x")>>), Id("x")>>,
   SwitchOn("x", <<Case(<<"A">>, Id("B")), Case(<<"B">>, Id("x"))>>, <<>>),
   SwitchOn("x", <<Case(<<"A">>, Id("B"))>>, Id("A")),
   SwitchOn("A", <<Case(<<"A">>, Id("B"))>>, Id("x")),
   <<"block", "l", <<Break("l", Id("A"))>>>>, <<"block", "l", <<>>>>,
   <<"block", "l", <<If("c", Blk(<<Break("l", Id("A"))>>), <<>>), Break("l", Id("x"))>>>>,
   <<"block", "l", <<If("c", Blk(<<Break("l", Id("A"))>>), <<>>), Break("l", Id("P"))>>>>,
   <<"block", "l", <<If("c", Blk(<<Break("l", Id("x"))>>), <<>>), RetX>>>>,
   <<"loop", "", <<If("c", Blk(<<Break("", Call("use", <<Id("x")>>))>>), <<>>), Break("", Id("B"))>>>>,
   <<"while", "", Id("c"), <<>>>>}

(* A Break that a comptime block would meet outside of any branch.         *)
JumpsOut(e) == (e[1] \in {"block", "loop"} /\ e[3] # <<>>) \/ (e[1] = "switch" /\ e[5] = <<>>)

Plain == {<<Set("y", "x"), Expr(<<"if", Id("c"), Call("use", <<Id("y")>>), Id("y")>>)>>, <<Set("y", "B")>>, <<>>}
InArm == <<If("c", Blk(<<Set("y", "B")>>), <<>>)>>

Bindings(kind, es) == {<<kind, "y", ty, e>> : ty \in {<<>>, Id("E")}, e \in es}

FnE(body) == Module(<<Param("c", "bool"), Param("x", "E")>>, "E", body)
Using(v, uses) == {FnE(<<v>> \o use \o <<<<"return", Id("y")>>>>) : use \in uses}

Variables ==
  UNION {Using(v, Plain \cup {InArm}) : v \in UNION {Bindings(kind, Valued) : kind \in {"var", "const"}}}
  \cup UNION {Using(v, Plain) : v \in Bindings("comptime", {e \in Valued : ~ JumpsOut(e)})}
  \cup {FnE(<<<<"return", e>>>>) : e \in Valued}
  \cup {Module(<<>>, "void", <<<<"assign", Lit, "=", Lit>>>>)}

----------------------------------------------------------------------------
(* Left out of MCModules, each with the property that fails on it.         *)

(* Analysed: a comptime block that is left from outside of any branch.     *)
ComptimeJumps == UNION {Using(v, {<<>>}) : v \in Bindings("comptime", {e \in Valued : JumpsOut(e)})}

(* BehavesAsSource: a comptime variable assigned in an arm.                *)
ComptimeStores == UNION {Using(v, {InArm}) : v \in Bindings("comptime", {Id("A")})}

(* WellFormed: a switch on a constant without an else.                     *)
ConstantNoElse == OnConstant(<<>>)

(* WellFormed: a pattern that is there twice.                              *)
RepeatedPatterns ==
  {SwitchFn("z", "F", cs, <<>>, Blk(<<Mark("other")>>)) : cs \in {<<<<"P">>, <<"P">>>>, <<<<"P", "P">>>>}}

(* WellFormed: an enum whose named tag type is too narrow for a position.  *)
NarrowTags ==
  {SwitchFn("n", "N", <<<<"N0">>, <<"N1">>, <<"N2">>>>, <<>>, else) : else \in {<<>>, Blk(<<Mark("other")>>)}}

(* WellFormed: a block that is left with a value, or run to its end.       *)
OneWayValues ==
  UNION {Using(v, {<<>>}) :
    v \in Bindings("const", {<<"block", "l", <<If("c", Blk(<<Break("l", Id("A"))>>), <<>>)>>>>})}

(* WellFormed: a return without a value from a function that gives one.    *)
BareReturns == {FnE(<<If("c", Blk(<<Ret>>), <<>>), RetX>>)}

MCModules == Flow \cup Deferring \cup Switches \cup Variables
=============================================================================
