------------------------------ MODULE Parser -------------------------------
(***************************************************************************)
(* The recursive-descent parser of src/src/frontend/parser.rs.             *)
(*                                                                         *)
(* Every parse_* function is an operator that returns what the function    *)
(* does, as a sequence of instructions on the token stream; a state holds  *)
(* the offset and what is left to do of the calls under way, and one step  *)
(* executes one instruction.  `?` and `return Err` are a raise, which unwinds to    *)
(* the innermost call whose error is matched (push_error and go on).       *)
(* The tree is its nodes in the order in which they are built (`out`), and *)
(* a diagnostic is counted, not worded.                                    *)
(*                                                                         *)
(* Tokens are tags.  "Ident" is a user's identifier, "Builtin" @name,      *)
(* "Generic" $name; "Ty" is a primitive type that is no literal suffix,    *)
(* "TyInt" and "TyFloat" one that is; "OpEq" is any `op=` token.           *)
(***************************************************************************)
EXTENDS Naturals, Sequences, FiniteSets, SequencesExt, TLC

CONSTANTS Files,        \* token sequences, without the final Eof
          LexErrors,    \* the numbers of diagnostics the lexer may hand over
          MaxDepth,     \* instructions the stack has room for
          MaxErrors,    \* diagnostics that are counted
          MaxNodes      \* nodes that are recorded

(* The lexer emits Eof once, behind the tokens of the file.                *)
ASSUME FilesAssumption ==
  Files \subseteq Seq(STRING) /\ \A f \in Files : \A k \in DOMAIN f : f[k] # "Eof"

VARIABLES toks,         \* tokens, the last one Eof
          offset,       \* offset (1 is the first token)
          todo,         \* what is left to do of the calls under way, innermost first
          some,         \* whether the last call returned Some
          comma,        \* whether the last member had a trailing comma
          ext,          \* whether parse_decl_modifiers saw `extern`
          errors,       \* number of diagnostics
          out,          \* nodes built
          result        \* "parsing", "ok" or "err"

vars == <<toks, offset, todo, some, comma, ext, errors, out, result>>

----------------------------------------------------------------------------
(* Instructions. *)

Expect(t)        == <<"expect", {t}>>      \* eat_expect(t)?
ExpectAny(T)     == <<"expect", T>>
Soft(t)          == <<"soft", t>>          \* eat_expect(t), the error pushed
EatIf(t, a, b)   == <<"eatif", t, a, b>>   \* eat_if(t)
Opt(t)           == EatIf(t, <<>>, <<>>)
Case(arms, dflt) == <<"case", arms, dflt>> \* match peek().kind
Arm(T, code)     == <<T, code>>
Peek1(T, a, b)   == <<"peek1", T, a, b>>   \* match peek_nth(1).kind
Bump             == <<"bump">>             \* offset += 1
Call(r)          == <<"call", r>>
Try(r, handler)  == <<"try", r, handler>>  \* match r { Err(e) => handler }
Raise            == <<"raise">>
PushError        == <<"pusherror">>
EatUntil(T)      == <<"eatuntil", T>>
IfSome(a, b)     == <<"ifsome", a, b>>
Mk(n)            == <<"mk", n>>            \* Some(node)
Ok               == <<"ok">>               \* Some, the node is built already
None             == <<"none">>             \* Ok(None)
Suffix(T)        == <<"suffix", T>>        \* maybe_parse_*_suffix, maybe_assign_op
Infix(bp, init)  == <<"infix", bp, init>>
SetComma(b)      == <<"comma", b>>
SetExt(b)        == <<"ext", b>>
TryFn            == <<"tryfn">>            \* parse_associated_function, the error pushed
NextMember(kind) == <<"nextmember", kind>>
Skip             == <<"skip">>             \* bump(): Eof stays
Progress(o, T)   == <<"progress", o, T>>

Need(r) == <<Call(r), IfSome(<<>>, <<Raise>>)>>     \* expect_*: None is an error

IdentTags == {"Ident", "Builtin", "Generic"}
Ident     == ExpectAny(IdentTags)
TyTags    == {"Ty", "TyInt", "TyFloat"}

(* Rules that take a context choose between parse_ty_expr and parse_expr.  *)
Expr        == <<"expr", 0, TRUE>>
NoInit      == <<"expr", 0, FALSE>>
TyExpr      == <<"ty">>
InCtx(ctx)       == Need(IF ctx = "Ty" THEN TyExpr ELSE Expr)
InCtxNoInit(ctx) == Need(IF ctx = "Ty" THEN TyExpr ELSE NoInit)
Paren(code) == <<Expect("LParen")>> \o code \o <<Expect("RParen")>>

----------------------------------------------------------------------------
(* Declarations. *)

(* An empty file is an empty struct; any other is the members of one.      *)
ParseModule == <<Case(<<Arm({"Eof"}, <<Mk("module")>>)>>, <<Call(<<"decl", "root">>)>>)>>

EnumTag  == <<Case(<<Arm({"LParen"}, Paren(Need(Expr)))>>, <<>>)>>
UnionTag == <<Case(<<Arm({"LParen"},
                <<Bump, EatIf("KwEnum", <<Expect("RParen")>>,
                              Need(Expr) \o <<Expect("RParen")>>)>>)>>, <<>>)>>

(* parse_struct_decl, parse_enum_decl, parse_union_decl; "root" is the     *)
(* struct that a file is.                                                  *)
ParseDecl(kind) ==
  IF kind = "root" THEN <<Call(<<"members", kind, TRUE>>), Mk("struct")>>
  ELSE (IF kind = "enum" THEN EnumTag ELSE IF kind = "union" THEN UnionTag ELSE <<>>)
       \o <<Try(<<"open">>, <<EatUntil({"RBrace"}), Raise>>),
            Call(<<"members", kind, TRUE>>), Expect("RBrace"), Mk(kind)>>

(* The loop over the members: one member, then the next.                   *)
ParseMembers(kind, hadComma) ==
  <<Case(<<Arm({"Eof"} \cup (IF kind = "root" THEN {} ELSE {"RBrace"}), <<>>)>>,
         (IF hadComma THEN <<>> ELSE <<PushError>>)
         \o <<SetComma(TRUE), Call(<<"member", kind>>), NextMember(kind)>>)>>

(* One function, constant, variable or field.  Errors of a member are      *)
(* recorded and the loop goes on; a token that starts none is skipped.     *)
VariantParseMember(kind) ==
  LET function == <<TryFn, SetComma(TRUE)>>
      binding  == <<Try(<<"binding">>, <<PushError>>), SetComma(TRUE)>>
      FnOr(code) == <<EatIf("KwFn", function, code)>>
  IN  <<Opt("KwPub"), SetExt(FALSE), Call(<<"modifiers", FALSE, FALSE>>)>>
      \o (IF kind \in {"root", "struct"} THEN <<Opt("KwComptime")>> ELSE <<>>)
      \o <<EatIf("KwConst", FnOr(binding),
           <<EatIf("KwVar", FnOr(binding),
             FnOr(<<Case(<<Arm(IdentTags, <<Try(<<"field", kind>>, <<PushError, SetComma(TRUE)>>)>>)>>,
                         <<Skip>>)>>))>>)>>

ParseMember(kind) ==
  LET function == <<TryFn, SetComma(TRUE)>>
      binding  == <<Try(<<"binding">>, <<PushError>>), SetComma(TRUE)>>
      FnOr(code) == <<EatIf("KwFn", function, code)>>
  IN  <<Opt("KwPub"), SetExt(FALSE), Call(<<"modifiers", FALSE, FALSE>>)>>
      \o (IF kind \in {"root", "struct"} THEN <<Opt("KwComptime")>> ELSE <<>>)
      \o <<EatIf("KwConst", FnOr(binding),
           <<EatIf("KwVar", FnOr(binding),
             FnOr(<<Case(<<Arm(IdentTags, <<Try(<<"field", kind>>, <<PushError, SetComma(TRUE)>>)>>)>>,
                         <<Skip, PushError>>)>>))>>)>>

(* What follows the name of an enum variant, a union field, a field.       *)
ParseEnumVariantDef == <<EatIf("Eq", Need(Expr), <<>>)>>
ParseUnionFieldDef == <<EatIf("Colon", Need(TyExpr), <<>>)>>
ParseFieldDef ==
  <<Try(<<"colon">>, <<EatUntil({"Comma"}), Raise>>)>> \o Need(TyExpr)
  \o <<EatIf("Eq", Need(Expr), <<>>)>>

ParseField(kind) ==
  <<Ident>>
  \o (CASE kind = "enum"  -> ParseEnumVariantDef
        [] kind = "union" -> ParseUnionFieldDef
        [] OTHER          -> ParseFieldDef)
  \o <<EatIf("Comma", <<SetComma(TRUE)>>, <<SetComma(FALSE)>>), Mk("field")>>

ParseAssociatedBinding == <<Call(<<"var">>), Mk("item")>>

(* parse_decl_modifiers: extern with an optional name, (no)inline.         *)
ParseDeclModifiers(e, i) ==
  <<Case(<<Arm({"KwExtern"}, (IF e THEN <<PushError>> ELSE <<>>)
                 \o <<Bump, Opt("LitStr"), SetExt(TRUE), Call(<<"modifiers", TRUE, i>>)>>),
           Arm({"DirInline", "DirNoinline"}, (IF i THEN <<PushError>> ELSE <<>>)
                 \o <<Bump, Call(<<"modifiers", e, TRUE>>)>>)>>, <<>>)>>

(* The rest of a function: only an extern one has no body.                 *)
ParseAssociatedFunction(isExt) ==
  <<Case(<<Arm({"Generic"}, <<Bump, Raise>>)>>, <<Ident>>), Call(<<"fndecl">>),
    Case(<<Arm({"LBrace"}, (IF isExt THEN <<PushError>> ELSE <<>>)
                           \o <<Call(<<"block", "Value">>)>>)>>,
         IF isExt THEN <<>> ELSE <<Raise>>),
    Mk("fn")>>

ParseFnDecl ==
  <<Soft("LParen"), Call(<<"params">>), Opt("Ellipsis"), Soft("RParen"),
    EatIf("DirCallconv", Paren(Need(Expr)), <<>>)>> \o Need(TyExpr)

ParseParams ==
  <<Case(<<Arm({"RParen", "Ellipsis", "Eof"}, <<>>)>>,
     <<Opt("KwComptime"), Case(<<Arm({"KwConst"}, <<PushError, Bump>>)>>, <<>>),
       Case(<<Arm({"Generic"}, <<Bump, PushError>>)>>, <<Ident>>), Expect("Colon")>>
     \o Need(TyExpr)
     \o <<Mk("param"), EatIf("Comma", <<Call(<<"params">>)>>, <<>>)>>)>>

----------------------------------------------------------------------------
(* Types and primary expressions. *)

ParseTyExpr ==
  <<Case(<<Arm({"QuestionMark", "Star", "StarStar", "LBracket"}, <<Call(<<"prefixed">>)>>)>>,
         <<Call(<<"suffixed">>)>>)>>

(* A pointer, slice, array or nullable layer and the type under it.        *)
ParsePrefixedTyExpr ==
  LET mods == <<Call(<<"ptrmods", {}>>)>>
      close == <<Expect("RBracket")>>
      sentinel == <<EatIf("Colon", Need(Expr), <<>>)>>
      Under(layer) == Need(TyExpr) \o layer
  IN  <<Case(<<
        Arm({"QuestionMark"}, <<Bump>> \o Under(<<Mk("Nullable")>>)),
        Arm({"Star"}, <<Bump>> \o mods \o Under(<<Mk("Ptr")>>)),
        Arm({"StarStar"}, <<Bump>> \o mods \o Under(<<Mk("Ptr"), Mk("Ptr")>>))>>,
        <<Bump, Case(<<
           Arm({"Star"}, <<Bump>> \o sentinel \o close \o mods \o Under(<<Mk("ManyPtr")>>)),
           Arm({"RBracket"}, <<Bump>> \o mods \o Under(<<Mk("Slice")>>)),
           Arm({"Colon"}, <<Bump>> \o Need(Expr) \o close \o mods \o Under(<<Mk("Slice")>>))>>,
           Need(Expr) \o sentinel \o close \o <<Opt("KwConst")>> \o Under(<<Mk("Array")>>))>>)>>

ParsePtrModifiers(seen) ==
  LET Redundant(t) == IF t \in seen THEN <<PushError>> ELSE <<>>
      More(t) == <<Call(<<"ptrmods", seen \cup {t}>>)>>
  IN  <<Case(<<
        Arm({"KwConst"}, Redundant("KwConst") \o <<Bump>> \o More("KwConst")),
        Arm({"DirVolatile"}, Redundant("DirVolatile") \o <<Bump>> \o More("DirVolatile")),
        Arm({"DirAddrspace"}, Redundant("DirAddrspace") \o <<Bump>> \o Paren(Need(Expr))
                              \o More("DirAddrspace"))>>, <<>>)>>

ParseSuffixTyExpr ==
  <<Call(<<"primaryty">>), IfSome(<<Call(<<"suffixes", FALSE>>)>>, <<>>)>>

(* Suffixes as long as there are some; a call directly after a call ends   *)
(* the expression.                                                         *)
ParseSuffixes(justCalled) ==
  <<Call(<<"suffixop">>),
    IfSome(<<Call(<<"suffixes", FALSE>>)>>,
           IF justCalled THEN <<Ok>>
           ELSE <<Case(<<Arm({"LParen"}, <<Call(<<"fncall">>), Mk("call"),
                                           Call(<<"suffixes", TRUE>>)>>)>>, <<Ok>>)>>)>>

ParseSuffixTyOp ==
  <<Case(<<
    Arm({"LBracket"}, <<Bump, Call(<<"index">>)>>),
    Arm({"DotStar", "DotQuestionMark"}, <<Bump, Mk("deref")>>),
    Arm({"Dot"}, <<Bump, Case(<<
       Arm({"Ident"}, <<Bump, Mk("access")>>),
       Arm({"QuestionMark", "Star"}, <<Bump, PushError, None>>),
       Arm({"LBrace"}, <<PushError, None>>)>>, <<Raise>>)>>)>>, <<None>>)>>

(* After `[`: an index, or a range with or without its ends.               *)
ParseIndex ==
  LET endAnd == Need(Expr) \o <<Expect("RBracket")>>
      range  == <<Bump, Case(<<Arm({"RBracket"}, <<Bump>>)>>, endAnd)>>
      inclusive == <<Bump>> \o endAnd
  IN  <<Case(<<Arm({"DotDot"}, range), Arm({"DotDotEq"}, inclusive)>>,
             Need(Expr) \o <<Case(<<Arm({"DotDot"}, range), Arm({"DotDotEq"}, inclusive),
                                    Arm({"RBracket"}, <<Bump>>)>>, <<Raise>>)>>),
        Mk("index")>>

LiteralArms == <<
  Arm({"LitStr", "LitBool", "KwUndefined"}, <<Bump, Mk("lit")>>),
  Arm({"LitMultiLineStr"}, <<Bump, Call(<<"lines">>), Mk("lit")>>),
  Arm({"LitInt"}, <<Bump, Suffix({"TyInt"}), Mk("lit")>>),
  Arm({"LitFloat"}, <<Bump, Suffix({"TyFloat"}), Mk("lit")>>)>>

DeclArms ==
  LET packed == Arm({"DirPacked"}, <<Bump, Expect("KwStruct"), Call(<<"decl", "struct">>)>>)
      plain  == <<Arm({"KwStruct"}, <<Bump, Call(<<"decl", "struct">>)>>),
                  Arm({"KwEnum"}, <<Bump, Call(<<"decl", "enum">>)>>),
                  Arm({"KwUnion"}, <<Bump, Call(<<"decl", "union">>)>>)>>
  IN  <<Arm({"DirLinear"}, <<Bump, Case(<<packed>> \o plain, <<Skip, Raise>>)>>), packed>> \o plain

ParsePrimaryTyExpr ==
  <<Case(<<Arm(TyTags, <<Bump, Mk("Ty")>>)>> \o LiteralArms \o DeclArms \o <<
    Arm({"Dot"}, <<Peek1({"Ident"}, <<Bump, Bump, Mk("variant")>>,
                   <<Peek1({"LBrace"}, <<Bump, Call(<<"init">>)>>,
                           <<Call(<<"initexpr">>)>>)>>)>>),
    Arm({"Builtin"}, <<Bump, Mk("id"), Call(<<"fncall">>), Mk("call")>>),
    Arm({"LParen"}, <<Call(<<"groupty">>)>>),
    Arm({"Ident"}, <<Peek1({"Colon"}, <<Bump, Bump, Call(<<"labeled", "Ty">>)>>,
                           <<Bump, Mk("id")>>)>>),
    Arm({"KwIf", "KwWhile", "KwFor", "KwLoop", "KwSwitch"}, <<Call(<<"control", "Ty">>)>>),
    Arm({"DirInline"}, <<Bump, Call(<<"inline", "Ty">>)>>),
    Arm({"Generic"}, <<Bump, Mk("id")>>)>>, <<None>>)>>

ParseLines == <<EatIf("LitMultiLineStr", <<Call(<<"lines">>)>>, <<>>)>>

(* (...(e)...): nothing but the closing parentheses may follow e.          *)
ParseGroup(rule, inner) ==
  <<Bump, Case(<<Arm({"LParen"}, <<Call(rule)>>)>>, Need(inner)), Expect("RParen"), Mk("group")>>

ParseGroupTyExpr == ParseGroup(<<"groupty">>, TyExpr)
ParseGroupExpr(init) == ParseGroup(<<"group", init>>, <<"expr", 0, init>>)

----------------------------------------------------------------------------
(* Expressions. *)

InfixBp ==
  [Plus |-> 50, PlusPipe |-> 50, Minus |-> 50, MinusPipe |-> 50, Star |-> 60, StarPipe |-> 60,
   Slash |-> 60, Percent |-> 60, Amp |-> 30, Pipe |-> 20, Caret |-> 25, Lt |-> 35, LtEq |-> 35,
   Gt |-> 35, GtEq |-> 35, KwAnd |-> 15, KwOr |-> 10, EqEq |-> 30, BangEq |-> 30, LtLt |-> 40,
   LtLtPipe |-> 40, LtLtPercent |-> 40, GtGt |-> 40, GtGtPipe |-> 40, GtGtPercent |-> 40]

ParseExprPrecedence(bp, init) ==
  <<Call(<<"prefix", init>>), IfSome(<<Infix(bp, init)>>, <<>>)>>

PrefixOps == {"Minus", "Plus", "Bang", "Tilde", "Amp", "KwTry"}

ParsePrefixExpr(init) ==
  <<Case(<<Arm(PrefixOps, <<Bump>> \o Need(<<"prefix", init>>) \o <<Mk("prefix")>>)>>,
         <<Call(<<"primary", init>>)>>)>>

ParsePrimaryExpr(init) ==
  <<Case(<<
    Arm({"LParen"}, <<Call(<<"group", init>>)>>),
    Arm({"LBrace"}, <<Call(<<"block", "Value">>)>>),
    Arm({"KwIf", "KwWhile", "KwFor", "KwLoop", "KwSwitch"}, <<Call(<<"control", "Value">>)>>),
    Arm({"DirInline"}, <<Bump, Call(<<"inline", "Value">>)>>),
    Arm({"Underscore"}, <<Bump, Mk("discard")>>),
    Arm({"Ident"}, <<Peek1({"Colon"}, <<Bump, Bump, Call(<<"labeled", "Value">>)>>,
                           <<Call(IF init THEN <<"initexpr">> ELSE TyExpr)>>)>>)>>,
    <<Call(IF init THEN <<"initexpr">> ELSE TyExpr)>>)>>

(* A type followed by `{` is an initializer where `{` can start no block.  *)
ParseInitExpr ==
  <<Call(TyExpr), IfSome(<<Case(<<Arm({"LBrace"}, <<Call(<<"init">>)>>)>>, <<Ok>>)>>, <<>>)>>

(* `{ .f = v, ... }` and `{}` initialize a struct, `{ v, ... }` an array.  *)
ParseInit ==
  <<Peek1({"Dot", "RBrace"},
          <<Call(<<"delimited", "fieldinit">>), Mk("structinit")>>,
          <<Call(<<"delimited", "element">>), Mk("arrayinit")>>)>>

ParseStructFieldInit == <<Expect("Dot"), Ident, Expect("Eq")>> \o Need(Expr)

ParseFnCall == <<Soft("LParen"), Call(<<"args">>), Expect("RParen")>>

ParseArgs ==
  LET next == <<EatIf("Comma", <<Call(<<"args">>)>>, <<>>)>>
      positional == <<Call(Expr), IfSome(next, <<>>)>>
  IN  <<Case(<<Arm({"RParen", "Eof"}, <<>>),
               Arm({"Ident"}, <<Peek1({"Colon"}, <<Bump, Bump>> \o Need(Expr) \o next, positional)>>)>>,
             positional)>>

----------------------------------------------------------------------------
(* Control flow and statements. *)

ParseLabeled(ctx) ==
  <<Case(<<Arm({"DirInline"}, <<Bump, Call(<<"inline", ctx>>)>>),
           Arm({"KwFor", "KwWhile", "KwLoop", "KwSwitch"}, <<Call(<<"control", ctx>>)>>),
           Arm({"LBrace"}, <<Call(<<"block", ctx>>)>>)>>, <<Raise>>)>>

ParseInlineLoop(ctx) ==
  <<Case(<<Arm({"KwFor", "KwWhile"}, <<Call(<<"control", ctx>>)>>)>>, <<Raise>>)>>

(* parse_if_impl, parse_while_impl, parse_for_impl, parse_loop_impl,       *)
(* parse_switch_impl, by the keyword they expect.  An `if` whose body is   *)
(* no block has an `else`.                                                 *)
ParseIf(ctx) ==
  LET after(isBlock) == <<Call(<<"else", ctx, isBlock>>), Mk("if")>>
  IN  <<Bump>> \o InCtxNoInit(ctx)
      \o <<Case(<<Arm({"LBrace"}, <<Call(<<"block", ctx>>)>> \o after(TRUE))>>,
                InCtx(ctx) \o after(FALSE))>>

ParseElse(ctx, mayEnd) ==
  <<EatIf("KwElse",
      <<EatIf("KwIf", InCtxNoInit(ctx) \o <<Call(<<"body", ctx>>), Call(<<"else", ctx, TRUE>>)>>,
              <<Call(<<"body", ctx>>)>>)>>,
      IF mayEnd THEN <<>> ELSE <<Raise>>)>>

(* parse_if_body, parse_switch_body *)
ParseBody(ctx) == <<Case(<<Arm({"LBrace"}, <<Call(<<"block", ctx>>)>>)>>, InCtx(ctx))>>

ParseWhile(ctx) == <<Bump>> \o InCtxNoInit(ctx) \o <<Call(<<"block", ctx>>), Mk("while")>>

ParseFor(ctx) ==
  <<Bump>> \o InCtx(ctx) \o <<Expect("KwIn")>> \o InCtxNoInit(ctx)
  \o <<Call(<<"block", ctx>>), Mk("for")>>

ParseLoop(ctx) == <<Bump, Call(<<"block", ctx>>), Mk("loop")>>

ParseSwitch(ctx) ==
  <<Bump>> \o InCtxNoInit(ctx) \o <<Expect("LBrace"), Call(<<"cases", ctx>>),
    EatIf("KwElse",
      <<EatIf("FatArrow", <<Call(<<"body", ctx>>)>>,
              InCtx(ctx) \o <<Expect("FatArrow"), Call(<<"body", ctx>>)>>)>>, <<>>),
    Expect("RBrace"), Mk("switch")>>

ParseCases(ctx) ==
  <<Case(<<Arm({"RBrace", "KwElse"}, <<>>)>>,
     <<Call(<<"patterns", ctx>>), Opt("Comma"), Expect("FatArrow"),
       EatIf("Pipe", <<Ident, Expect("Pipe")>>, <<>>),
       Call(<<"body", ctx>>), Mk("case"), Call(<<"cases", ctx>>)>>)>>

(* eat_delimited: patterns up to `=>`. *)
ParsePatterns(ctx) ==
  <<Case(<<Arm({"FatArrow", "Eof"}, <<>>)>>,
         InCtx(ctx) \o <<EatIf("Comma", <<Call(<<"patterns", ctx>>)>>, <<>>)>>)>>

ParseControl(ctx) ==
  <<Case(<<Arm({"KwIf"}, ParseIf(ctx)), Arm({"KwWhile"}, ParseWhile(ctx)),
           Arm({"KwFor"}, ParseFor(ctx)), Arm({"KwLoop"}, ParseLoop(ctx))>>, ParseSwitch(ctx))>>

ParseBlock(ctx) == <<Call(<<"eatgroup", ctx>>), Mk("block")>>

(* eat_group: an item that fails is recorded, and a token skipped if it    *)
(* consumed none.                                                          *)
EatGroup(ctx) ==
  <<Soft("LBrace"), EatIf("RBrace", <<>>, <<Call(<<"stmts", ctx>>), Expect("RBrace")>>)>>

EatItems(ctx, at) ==
  <<Case(<<Arm({"RBrace", "Eof"}, <<>>)>>,
         <<Try(<<"stmt", ctx>>, <<PushError, Progress(at, {})>>), Call(<<"stmts", ctx>>)>>)>>

(* eat_delimited_group: the same with a delimiter, up to which a failed    *)
(* item is skipped.                                                        *)
EatDelimitedGroup(item) ==
  <<Soft("LBrace"), EatIf("RBrace", <<>>, <<Call(<<"items", item>>), Expect("RBrace")>>)>>

EatDelimitedItems(item, at) ==
  <<Case(<<Arm({"RBrace", "Eof"}, <<>>)>>,
         <<Try(<<item>>, <<PushError, Progress(at, {"Comma", "RBrace"})>>),
           EatIf("Comma", <<Call(<<"items", item>>)>>, <<>>)>>)>>

ParseStatement(ctx) ==
  LET ValueUnlessEnd(code) == <<Case(<<Arm({"RBrace", "Comma", "Eof"}, <<>>)>>, code)>>
      jump == <<Bump, EatIf("Colon", <<Ident>>, <<>>)>> \o ValueUnlessEnd(Need(Expr))
  IN  <<Case(<<
        Arm({"KwReturn"}, <<Bump>> \o ValueUnlessEnd(InCtx(ctx))),
        Arm({"KwDefer", "KwErrdefer"}, <<Bump>> \o InCtx(ctx)),
        Arm({"KwContinue", "KwBreak"}, jump),
        Arm({"KwVar", "KwConst"}, <<Bump, Call(<<"var">>)>>),
        Arm({"KwComptime"}, <<Bump, Case(<<Arm({"KwConst", "KwVar"}, <<Bump>>)>>, <<Raise>>),
                              Call(<<"var">>)>>)>>,
        InCtx(ctx) \o <<Suffix({"Eq", "OpEq"}), IfSome(InCtx(ctx), <<>>)>>),
        Mk("stmt")>>

(* Names and types that fail are recorded and skipped up to the `=`.       *)
ParseVarBinding ==
  <<Try(<<"userident">>, <<EatUntil({"Colon", "Eq"}), PushError>>),
    EatIf("Colon", <<Try(<<"needty">>, <<EatUntil({"Eq"}), PushError>>)>>, <<>>),
    Expect("Eq")>> \o Need(Expr)

ParseUserIdent == <<Case(<<Arm({"Builtin", "Generic"}, <<Bump, Raise>>)>>, <<Ident>>)>>

(* What a call of a rule does. *)
Body(r) ==
  CASE r[1] = "module"    -> ParseModule
    [] r[1] = "decl"      -> ParseDecl(r[2])
    [] r[1] = "open"      -> <<Expect("LBrace")>>
    [] r[1] = "colon"     -> <<Expect("Colon")>>
    [] r[1] = "members"   -> ParseMembers(r[2], r[3])
    [] r[1] = "member"    -> ParseMember(r[2])
    [] r[1] = "field"     -> ParseField(r[2])
    [] r[1] = "binding"   -> ParseAssociatedBinding
    [] r[1] = "modifiers" -> ParseDeclModifiers(r[2], r[3])
    [] r[1] = "fn"        -> ParseAssociatedFunction(r[2])
    [] r[1] = "fndecl"    -> ParseFnDecl
    [] r[1] = "params"    -> ParseParams
    [] r[1] = "ty"        -> ParseTyExpr
    [] r[1] = "needty"    -> Need(TyExpr)
    [] r[1] = "prefixed"  -> ParsePrefixedTyExpr
    [] r[1] = "ptrmods"   -> ParsePtrModifiers(r[2])
    [] r[1] = "suffixed"  -> ParseSuffixTyExpr
    [] r[1] = "suffixes"  -> ParseSuffixes(r[2])
    [] r[1] = "suffixop"  -> ParseSuffixTyOp
    [] r[1] = "index"     -> ParseIndex
    [] r[1] = "primaryty" -> ParsePrimaryTyExpr
    [] r[1] = "lines"     -> ParseLines
    [] r[1] = "groupty"   -> ParseGroupTyExpr
    [] r[1] = "group"     -> ParseGroupExpr(r[2])
    [] r[1] = "expr"      -> ParseExprPrecedence(r[2], r[3])
    [] r[1] = "prefix"    -> ParsePrefixExpr(r[2])
    [] r[1] = "primary"   -> ParsePrimaryExpr(r[2])
    [] r[1] = "initexpr"  -> ParseInitExpr
    [] r[1] = "init"      -> ParseInit
    [] r[1] = "delimited" -> EatDelimitedGroup(r[2])
    [] r[1] = "items"     -> EatDelimitedItems(r[2], offset)
    [] r[1] = "fieldinit" -> ParseStructFieldInit
    [] r[1] = "element"   -> Need(Expr)
    [] r[1] = "fncall"    -> ParseFnCall
    [] r[1] = "args"      -> ParseArgs
    [] r[1] = "labeled"   -> ParseLabeled(r[2])
    [] r[1] = "inline"    -> ParseInlineLoop(r[2])
    [] r[1] = "control"   -> ParseControl(r[2])
    [] r[1] = "else"      -> ParseElse(r[2], r[3])
    [] r[1] = "body"      -> ParseBody(r[2])
    [] r[1] = "cases"     -> ParseCases(r[2])
    [] r[1] = "patterns"  -> ParsePatterns(r[2])
    [] r[1] = "block"     -> ParseBlock(r[2])
    [] r[1] = "eatgroup"  -> EatGroup(r[2])
    [] r[1] = "stmts"     -> EatItems(r[2], offset)
    [] r[1] = "stmt"      -> ParseStatement(r[2])
    [] r[1] = "var"       -> ParseVarBinding
    [] r[1] = "userident" -> ParseUserIdent

----------------------------------------------------------------------------
(* Steps: the first instruction of todo.                                   *)

At(o) == toks[o]
Op == todo[1][1]
Arg(n) == todo[1][n]
Rest == Tail(todo)
Running(ops) == result = "parsing" /\ todo # <<>> /\ Op \in ops

(* The token at the offset is consumed, unless it is Eof.                  *)
VariantBumpTo(o) == o + 1

BumpTo(o) == IF At(o) = "Eof" THEN o ELSE o + 1

(* One more diagnostic; the model counts no further than MaxErrors.        *)
Reported == IF errors < MaxErrors THEN errors + 1 ELSE errors

(* An error propagates to the innermost handler, past what it skips.       *)
Unwind(code) ==
  LET catches == {k \in DOMAIN code : code[k][1] = "catch"}
      k == CHOOSE n \in catches : \A m \in catches : n <= m
  IN  IF catches = {} THEN <<<<"fail">>>>
      ELSE code[k][2] \o SubSeq(code, k + 1, Len(code))

EatExpect ==
  /\ Running({"expect", "soft"})
  /\ offset' = BumpTo(offset)
  /\ IF Op = "soft"
     THEN todo' = Rest /\ errors' = IF At(offset) = Arg(2) THEN errors ELSE Reported
     ELSE /\ todo' = IF At(offset) \in Arg(2) THEN Rest ELSE Unwind(Rest)
          /\ UNCHANGED errors
  /\ UNCHANGED <<toks, some, comma, ext, out, result>>

(* match on the current token, or on the one after it (the last one stands *)
(* for those behind the end).                                              *)
Match ==
  /\ Running({"eatif", "case", "peek1"})
  /\ LET next == IF offset + 1 <= Len(toks) THEN At(offset + 1) ELSE At(Len(toks))
         hits == {k \in DOMAIN Arg(2) : At(offset) \in Arg(2)[k][1]}
     IN  /\ todo' = (CASE Op = "eatif" -> IF At(offset) = Arg(2) THEN Arg(3) ELSE Arg(4)
                       [] Op = "peek1" -> IF next \in Arg(2) THEN Arg(3) ELSE Arg(4)
                       [] OTHER -> IF hits = {} THEN Arg(3)
                                   ELSE Arg(2)[CHOOSE k \in hits : \A m \in hits : k <= m][2])
                    \o Rest
         /\ offset' = IF Op = "eatif" /\ At(offset) = Arg(2) THEN BumpTo(offset) ELSE offset
  /\ UNCHANGED <<toks, some, comma, ext, errors, out, result>>

Until(T) == CHOOSE p \in offset .. Len(toks) :
              At(p) \in T \cup {"Eof"} /\ \A q \in offset .. p - 1 : At(q) \notin T \cup {"Eof"}

(* A failed item that consumed nothing: its first token is skipped, and    *)
(* what follows up to the delimiter, the delimiter included.               *)
VariantSkipItem(T) == offset

SkipItem(T) ==
  LET p == CHOOSE p \in offset + 1 .. Len(toks) :
             At(p) \in T \cup {"Eof"} /\ \A q \in offset + 1 .. p - 1 : At(q) \notin T \cup {"Eof"}
  IN  IF T = {} THEN offset + 1 ELSE IF At(p) = "Comma" THEN p + 1 ELSE p

Advance ==
  /\ Running({"bump", "skip", "eatuntil", "progress"})
  /\ offset' = CASE Op = "bump"     -> offset + 1
                 [] Op = "skip"     -> BumpTo(offset)
                 [] Op = "eatuntil" -> Until(Arg(2))
                 [] OTHER -> IF offset = Arg(2) THEN SkipItem(Arg(3)) ELSE offset
  /\ todo' = Rest
  /\ UNCHANGED <<toks, some, comma, ext, errors, out, result>>

(* Calls; the stack has to have room for them. *)
Invoke ==
  /\ Running({"call", "try", "tryfn", "nextmember"})
  /\ Len(todo) < MaxDepth
  /\ todo' = (CASE Op = "call"       -> Body(Arg(2))
               [] Op = "try"        -> Body(Arg(2)) \o <<<<"catch", Arg(3)>>>>
               [] Op = "tryfn"      -> Body(<<"fn", ext>>) \o <<<<"catch", <<PushError>>>>>>
               [] Op = "nextmember" -> Body(<<"members", Arg(2), comma>>)) \o Rest
  /\ UNCHANGED <<toks, offset, some, comma, ext, errors, out, result>>

Fail ==
  /\ Running({"raise"})
  /\ todo' = Unwind(Rest)
  /\ UNCHANGED <<toks, offset, some, comma, ext, errors, out, result>>

Report ==
  /\ Running({"pusherror"})
  /\ errors' = Reported
  /\ todo' = Rest
  /\ UNCHANGED <<toks, offset, some, comma, ext, out, result>>

(* Results and the parser's local flags. *)
Yield ==
  /\ Running({"mk", "ok", "none", "ifsome", "comma", "ext", "catch"})
  /\ some' = IF Op \in {"mk", "ok"} THEN TRUE ELSE IF Op = "none" THEN FALSE ELSE some
  /\ out' = IF Op = "mk" /\ Len(out) < MaxNodes THEN Append(out, Arg(2)) ELSE out
  /\ comma' = IF Op = "comma" THEN Arg(2) ELSE comma
  /\ ext' = IF Op = "ext" THEN Arg(2) ELSE ext
  /\ todo' = IF Op = "ifsome" THEN (IF some THEN Arg(2) ELSE Arg(3)) \o Rest ELSE Rest
  /\ UNCHANGED <<toks, offset, errors, result>>

(* maybe_parse_int_suffix, maybe_parse_float_suffix, maybe_assign_op: the  *)
(* token is bumped and given back by offset -= 1 if it does not fit; bump  *)
(* does not move over Eof, but the offset is given back all the same.      *)
MaybeSuffix ==
  /\ Running({"suffix"})
  /\ some' = (At(offset) \in Arg(2))
  /\ offset' = IF At(offset) \in Arg(2) THEN offset + 1 ELSE BumpTo(offset) - 1
  /\ todo' = Rest
  /\ UNCHANGED <<toks, comma, ext, errors, out, result>>

(* The loop of parse_expr_precedence: an operator that binds at least as   *)
(* tightly as asked for, with the operand on its right.                    *)
VariantBindsRight(bp) == bp

BindsRight(bp) == bp + 1

InfixLoop ==
  /\ Running({"infix"})
  /\ LET op == At(offset)
         binds == op \in DOMAIN InfixBp /\ InfixBp[op] >= Arg(2) /\ At(offset + 1) # "Eq"
     IN  IF binds
         THEN /\ offset' = offset + 1
              /\ todo' = <<Call(<<"expr", BindsRight(InfixBp[op]), Arg(3)>>),
                           IfSome(<<Mk(op), Infix(Arg(2), Arg(3))>>, <<Raise>>)>> \o Rest
         ELSE todo' = Rest /\ UNCHANGED offset
  /\ UNCHANGED <<toks, some, comma, ext, errors, out, result>>

(* parse_module returns; a file of no tokens is accepted whatever the      *)
(* lexer reported.                                                         *)
Return ==
  /\ result = "parsing"
  /\ todo \in {<<>>, <<<<"fail">>>>}
  /\ result' = IF todo = <<>> /\ (errors = 0 \/ toks = <<"Eof">>) THEN "ok" ELSE "err"
  /\ UNCHANGED <<toks, offset, todo, some, comma, ext, errors, out>>

Done == result # "parsing" /\ UNCHANGED vars

Init ==
  /\ \E file \in Files : toks = Append(file, "Eof")
  /\ offset = 1
  /\ todo = <<Call(<<"module">>)>>
  /\ some = TRUE /\ comma = TRUE /\ ext = FALSE
  /\ errors \in LexErrors
  /\ out = <<>>
  /\ result = "parsing"

Next ==
  \/ EatExpect \/ Match \/ Advance \/ Invoke \/ Fail \/ Report \/ Yield
  \/ MaybeSuffix \/ InfixLoop \/ Return \/ Done

(* The parser is one thread's loop: it goes on while it can. *)
Spec == Init /\ [][Next]_vars /\ WF_vars(Next)

----------------------------------------------------------------------------
(* Properties. *)

(* peek and bump index the tokens unchecked (parser.rs:2816, "assume!"):    *)
(* the offset stays on a token, however a rule fails or skips.             *)
InBounds == offset \in DOMAIN toks

(* Parsing ends: every loop of the parser consumes something on every      *)
(* path, the error paths included, and no rule calls itself on the same    *)
(* token.                                                                  *)
Terminates == <>(result # "parsing")

(* A file that is accepted was consumed up to its Eof, and neither lexer   *)
(* nor parser had anything to report, unless it has no tokens              *)
(* (parse_module returns before it looks at the errors).                   *)
ReadsToEnd ==
  result = "ok" => (errors = 0 \/ toks = <<"Eof">>) /\ At(offset) = "Eof"

Count(t) == Cardinality({k \in DOMAIN toks : toks[k] = t})

(* A file that is accepted was read whole and closes what it opens.        *)
AcceptsWhole ==
  /\ ReadsToEnd
  /\ result = "ok" => /\ Count("LBrace") = Count("RBrace")
                      /\ Count("LParen") = Count("RParen")
                      /\ Count("LBracket") = Count("RBracket")

(* An operand or operators between operands, as a reference for the tree.  *)
IsInfix(e) ==
  /\ Len(e) % 2 = 1
  /\ \A k \in DOMAIN e : IF k % 2 = 1 THEN e[k] = "Ident" ELSE e[k] \in DOMAIN InfixBp

(* The tree of an infix expression in postfix order: the loosest operator, *)
(* the last one of them, is applied last.                                  *)
Postfix[e \in Seq(STRING)] ==
  IF Len(e) = 1 THEN <<"id">>
  ELSE LET ops == {k \in DOMAIN e : k % 2 = 0}
           top == CHOOSE k \in ops : \A m \in ops :
                    InfixBp[e[k]] < InfixBp[e[m]] \/ (InfixBp[e[k]] = InfixBp[e[m]] /\ k >= m)
       IN  Postfix[SubSeq(e, 1, top - 1)] \o Postfix[SubSeq(e, top + 1, Len(e))] \o <<e[top]>>

(* Operators bind by their table: for `const x = e` and a field behind it  *)
(* the parser builds the tree in which looser operators are above tighter  *)
(* ones and operators of one level associate to the left.                  *)
OperatorTree ==
  LET e == SubSeq(toks, 4, Len(toks) - 5)
  IN  /\ result # "parsing"
      /\ Len(toks) > 8
      /\ SubSeq(toks, 1, 3) = <<"KwConst", "Ident", "Eq">>
      /\ IsInfix(e)
      => out = Postfix[e] \o <<"item", "Ty", "field", "struct">>

============================================================================
