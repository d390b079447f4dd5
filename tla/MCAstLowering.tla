-------------------------- MODULE MCAstLowering ----------------------------
(***************************************************************************)
(* Modules for AstLowering: every function whose body is a compound        *)
(* statement around up to two simple ones, between a statement before and  *)
(* one after it; and modules written for types, captures and errors.       *)
(***************************************************************************)
EXTENDS AstLowering

MCBuiltins == {"@import", "@size_of", "@type_of", "@d1", "@d2", "@d3"}

Id(n)      == <<"id", n>>
Lit        == <<"lit">>
Do(n)      == <<"call", Id(n), <<>>>>
Expr(e)    == <<"expr", e>>
DeferOf(n) == <<"defer", Do(n)>>
Ret        == <<"return", <<>>>>
Fn(name, params, body) == <<"fn", name, params, Id("T"), <<>>, <<"blk", body>>>>
Struct(fields, items)  == <<"struct", <<>>, fields, items>>
TheType    == <<"let", "T", <<>>, <<"struct", <<>>, <<>>, <<>>>>>>
Module(items) == Struct(<<>>, <<TheType>> \o items)

Simple == {Ret, <<"return", Id("x")>>, <<"break", "", <<>>>>, <<"break", "l", Id("x")>>,
           <<"continue", "">>, DeferOf("@d2"), DeferOf("@d3"),
           <<"var", "x", <<>>, Id("x")>>, <<"assign", Id("x"), "=", Id("x")>>}

Inner == {<<>>} \cup {<<a>> : a \in Simple} \cup {<<a, b>> : a \in Simple, b \in Simple}

Compound(b) ==
  {<<"block", "l", b>>, <<"loop", "l", b>>, <<"while", "", Id("x"), b>>,
   <<"if", Id("x"), <<"blk", b>>, <<"if", Id("x"), <<"blk", b>>, <<>>>>>>,
   <<"switch", "l", Id("x"), <<<<<<Lit>>, "c", <<"blk", b>>>>, <<<<Lit, Lit>>, "", Lit>>>>, <<>>>>}

Flow ==
  {Module(<<Fn("f", <<<<"x", Id("T")>>>>, pre \o <<Expr(c)>> \o post)>>) :
     c \in UNION {Compound(b) : b \in Inner},
     pre \in {<<>>, <<<<"var", "x", Id("T"), Id("x")>>, DeferOf("@d1")>>},
     post \in {<<>>, <<<<"return", Id("x")>>>>}}

(* Initialisers of a variable, in every kind of binding.                   *)
Inits ==
  {Lit, <<"str">>, Id("p"), Id("T"), <<"un", Id("p")>>, <<"plus", Id("p")>>, <<"bin", Lit, Id("p")>>,
   <<"bits", Lit, Lit>>,
   <<"undef">>, <<"field", Id("p")>>, <<"index", Id("p"), Lit>>, <<"deref", Id("p")>>,
   <<"deref", <<"addr", Id("p")>>>>, <<"field", <<"deref", Id("p")>>>>, <<"index", <<"un", Id("p")>>, Id("p")>>,
   <<"call", Id("T"), <<Lit, <<"sinit", <<>>, <<Lit>>>>>>>>, <<"call", <<"field", Id("p")>>, <<Id("p")>>>>,
   <<"call", Id("@type_of"), <<Lit>>>>, <<"call", Id("@type_of"), <<>>>>,
   <<"call", Id("@import"), <<<<"str">>>>>>, <<"call", Id("@import"), <<Lit>>>>,
   <<"sinit", Id("T"), <<Lit, Id("p")>>>>, <<"sinit", <<>>, <<Lit>>>>, <<"ainit", <<>>, <<Lit>>>>,
   <<"ainit", Id("T"), <<Id("p"), Lit>>>>, <<"ptr", Id("T")>>, <<"array", Id("T"), Lit>>,
   <<"if", Id("p"), Lit, <<"if", Id("p"), Lit, Id("p")>>>>, <<"if", Id("p"), <<"sinit", <<>>, <<>>>>, <<>>>>,
   <<"switch", "", Id("p"), <<<<<<Lit>>, "c", Id("c")>>, <<<<Lit, Lit>>, "c", Lit>>>>, Lit>>,
   <<"block", "l", <<<<"break", "l", Lit>>>>>>, <<"loop", "", <<<<"break", "", Id("p")>>>>>>,
   <<"while", "", Id("p"), <<>>>>, <<"discard">>, Id("unknown"),
   <<"enum", Id("T"), <<<<"A", <<>>>>, <<"B", Lit>>>>, <<>>>>,
   <<"union", Id("T"), <<<<"A", Id("T")>>, <<"B", <<>>>>>>, <<>>>>}

Bindings ==
  {Module(<<Fn("f", <<<<"p", Id("T")>>>>,
     <<<<kind, "v", ty, init>>, <<"assign", Id("p"), op, Lit>>, Expr(Id("v"))>>)>>) :
     kind \in {"var", "const", "comptime"}, ty \in {<<>>, Id("T")}, init \in Inits,
     op \in {"op", "unsupported"}}

(* Parameter and return types that read parameters or not.                 *)
ParamTypes == {Id("T"), Id("a"), <<"ptr", Id("a")>>, Struct(<<<<"m", Id("a")>>>>, <<>>)}

Generics ==
  {Module(<<<<"fn", "f", <<<<"a", Id("T")>>, <<"b", tb>>, <<"c", tc>>>>, ret, conv, body>>>>) :
     tb \in ParamTypes, tc \in ParamTypes \cup {Id("b")}, ret \in {Id("T"), Id("c")},
     conv \in {<<>>, Lit}, body \in {<<>>, <<"blk", <<>>>>}}

(* Locals read in types declared inside a function, up to three levels down. *)
Reads(n) == <<"let", "r", Id("T"), Id(n)>>
Nested(kind, n, items) == <<kind, <<>>, IF kind = "enum" THEN <<>> ELSE <<<<"m", Id(n)>>>>, items>>

Captures ==
  {Module(<<Fn("f", <<<<"p", Id("T")>>>>,
     <<<<"var", "v", <<>>, Lit>>, <<"const", "w", Id("T"), Lit>>,
       <<"const", "S", <<>>, Nested(outer, a,
         <<Reads(b), <<"let", "U", <<>>, Nested(inner, c,
           <<Reads(a), <<"let", "V", <<>>, Nested("struct", d, <<Reads(c)>>)>>>>)>>>>)>>>>)>>) :
     outer \in {"struct", "enum", "union"}, inner \in {"struct", "enum", "union"},
     a \in {"p", "v"}, b \in {"v", "w"}, c \in {"p", "w", "T"}, d \in {"p", "v"}}

(* Names and labels used twice.                                            *)
Errors ==
  {Module(<<TheType>>),
   Module(<<<<"let", "E", <<>>, <<"enum", <<>>, <<<<"T", <<>>>>, <<"T", <<>>>>>>, <<TheType>>>>>>>>),
   Module(<<<<"let", "U", <<>>, <<"union", <<>>, <<<<"a", <<>>>>, <<"a", Id("T")>>>>, <<>>>>>>>>),
   Module(<<Fn("@d1", <<>>, <<>>), Fn("@size_of", <<>>, <<>>)>>),
   Module(<<Fn("f", <<>>, <<Expr(<<"loop", "l", <<Expr(<<"block", "l", <<>>>>)>>>>)>>)>>)}

Fields == {Struct(<<<<"a", Id("T")>>, <<"b", <<"slice", Id("Self")>>>>>>, <<TheType>>)}

MCModules == Flow \cup Bindings \cup Generics \cup Captures \cup Errors \cup Fields

(* `&p` as the initialiser of a variable.                                  *)
MCAddress == {Module(<<Fn("f", <<<<"p", Id("T")>>>>, <<<<"const", "v", Id("T"), <<"addr", Id("p")>>>>>>)>>)}
============================================================================
