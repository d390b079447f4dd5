----------------------------- MODULE MCParser ------------------------------
(* Files for the parser: one program per construct, each with every token   *)
(* left out or replaced once, and infix expressions.  A field ends each     *)
(* file, so that Eof never follows an expression.                           *)
EXTENDS Parser

Field == <<"Ident", "Colon", "Ty", "Comma">>
FnOpen == <<"KwFn", "Ident", "LParen", "RParen", "Ty", "LBrace">>
InFn(stmts) == FnOpen \o stmts \o <<"RBrace">>
Const(e) == <<"KwConst", "Ident", "Eq">> \o e
Decls == {
  <<"KwPub", "KwExtern", "LitStr", "DirInline", "KwFn", "Ident", "LParen", "Ident", "Colon", "Ty",
    "Comma", "Ellipsis", "RParen", "DirCallconv", "LParen", "Dot", "Ident", "RParen", "Ty">>,
  <<"KwFn", "Ident", "LParen", "KwComptime", "Ident", "Colon", "Generic", "RParen", "Ty", "LBrace",
    "RBrace">>,
  <<"KwExtern", "KwExtern", "DirInline", "DirNoinline", "KwConst", "KwFn", "Ident", "LParen",
    "KwConst", "Generic", "Colon", "Ty", "RParen", "Ty", "LBrace", "RBrace">>,
  <<"KwVar", "Ident", "Colon", "Ty", "Eq", "LitInt", "TyInt">>,
  <<"Ident", "Colon", "Ty", "Eq", "LitFloat", "TyFloat", "Comma", "KwComptime", "KwVar", "KwFn",
    "Ident", "LParen", "RParen", "Ty", "LBrace", "RBrace">>,
  <<"Ident", "Colon", "Ty", "Ident", "Colon", "Ty", "Comma">>,
  Const(<<"KwStruct", "LBrace", "KwPub">> \o Field \o Const(<<"LitBool">>) \o <<"RBrace">>),
  Const(<<"DirLinear", "DirPacked", "KwStruct", "LBrace">> \o Field \o <<"RBrace">>),
  Const(<<"DirLinear", "KwStruct", "LBrace", "RBrace">>),
  Const(<<"DirLinear", "KwEnum", "LBrace", "RBrace">>),
  Const(<<"DirLinear", "KwUnion", "LBrace", "RBrace">>),
  Const(<<"DirPacked", "KwStruct", "LBrace", "RBrace">>),
  Const(<<"KwEnum", "LParen", "Ty", "RParen", "LBrace", "Ident", "Eq", "LitInt", "Comma", "Ident",
          "Comma", "KwFn", "Ident", "LParen", "RParen", "Ty", "LBrace", "RBrace", "RBrace">>),
  Const(<<"KwUnion", "LParen", "KwEnum", "RParen", "LBrace", "Ident", "Colon", "Ty", "Comma",
          "Ident", "Comma", "RBrace">>),
  Const(<<"KwUnion", "LParen", "Ident", "RParen", "LBrace", "Ident", "RBrace">>)}

Types == {
  Const(<<"QuestionMark", "Star", "KwConst", "DirVolatile", "DirAddrspace", "LParen", "Ident",
          "RParen", "KwConst", "StarStar", "Ident">>),
  Const(<<"LBracket", "Star", "Colon", "LitInt", "RBracket", "DirVolatile", "DirVolatile", "Ty">>),
  Const(<<"LBracket", "RBracket", "LBracket", "Colon", "Ident", "RBracket", "Ty">>),
  Const(<<"LBracket", "Ident", "Colon", "Ident", "RBracket", "KwConst", "Ty">>),
  Const(<<"LParen", "LParen", "Ident", "RParen", "RParen">>),
  Const(<<"Ident", "LBracket", "Ident", "DotDot", "Ident", "RBracket", "DotStar", "Dot", "Ident">>),
  Const(<<"Ident", "LBracket", "DotDotEq", "Ident", "RBracket", "DotQuestionMark">>),
  Const(<<"Ident", "LBracket", "DotDot", "RBracket", "Dot", "Star">>),
  Const(<<"Ident", "LBracket", "Ident", "DotDot", "RBracket", "LBracket", "Ident", "DotDotEq",
          "Ident", "RBracket">>),
  Const(<<"Builtin", "LParen", "LitStr", "Comma", "Ident", "Colon", "LitInt", "RParen">>),
  Const(<<"Ident", "LParen", "Ident", "Comma", "RParen", "LParen", "RParen">>),
  Const(<<"Ident", "LBrace", "Dot", "Ident", "Eq", "KwUndefined", "Comma", "Dot", "Ident", "Eq",
          "Ident", "RBrace">>),
  Const(<<"Dot", "LBrace", "LitInt", "Comma", "LitInt", "RBrace">>),
  Const(<<"Dot", "LBrace", "RBrace">>),
  Const(<<"LitMultiLineStr", "LitMultiLineStr">>),
  <<"KwVar", "Ident", "Colon", "Ident", "Colon", "LBrace", "RBrace", "Eq", "Minus", "KwTry", "Generic">>,
  <<"KwVar", "Ident", "Colon", "DirInline", "KwWhile", "Ident", "LBrace", "RBrace", "Eq", "Ident">>}

Bodies == {
  InFn(<<"Ident", "Eq", "Ident", "Ident", "OpEq", "Ident", "Underscore", "Eq", "Ident">>),
  InFn(<<"KwReturn", "Ident", "KwDefer", "Ident", "KwErrdefer", "LBrace", "RBrace", "KwReturn">>),
  InFn(<<"Ident", "Colon", "KwLoop", "LBrace", "KwBreak", "Colon", "Ident", "Ident", "KwContinue",
         "RBrace">>),
  InFn(<<"KwVar", "Ident", "Eq", "LitInt", "KwComptime", "KwConst", "Ident", "Colon", "Ty", "Eq",
         "LitInt">>),
  InFn(<<"KwIf", "Ident", "LBrace", "RBrace", "KwElse", "KwIf", "Ident", "LBrace", "RBrace",
         "KwElse", "LBrace", "RBrace">>),
  InFn(<<"KwReturn", "KwIf", "Ident", "Ident", "KwElse", "Ident">>),
  InFn(<<"KwWhile", "Ident", "LBrace", "Ident", "Colon", "LBrace", "RBrace", "RBrace">>),
  InFn(<<"DirInline", "KwFor", "Ident", "KwIn", "Ident", "LBrace", "RBrace">>),
  InFn(<<"KwSwitch", "Ident", "LBrace", "Dot", "Ident", "Comma", "LitInt", "FatArrow", "Pipe",
         "Ident", "Pipe", "LBrace", "RBrace", "KwElse", "FatArrow", "Ident", "RBrace">>),
  InFn(<<"KwSwitch", "Ident", "LBrace", "LitInt", "Comma", "FatArrow", "Ident", "KwElse", "Ident",
         "FatArrow", "LBrace", "RBrace", "RBrace">>)}

Programs == Decls \cup Types \cup Bodies
Without(p, k) == SubSeq(p, 1, k - 1) \o SubSeq(p, k + 1, Len(p))
Broken == UNION {{Without(p, k) : k \in DOMAIN p}
                 \cup {[p EXCEPT ![k] = t] : k \in DOMAIN p, t \in {"RBrace", "Builtin"}} : p \in Programs}

Sums == {<<"Ident", o, "Ident">> : o \in DOMAIN InfixBp}
        \cup {<<"Ident", o1, "Ident", o2, "Ident", o3, "Ident">> :
                o1, o2, o3 \in {"Plus", "Star", "KwOr", "Lt"}}

(* `.` before anything but a name or `{` calls parse_init_expr on itself.  *)
NoEndlessDot(f) == \A k \in DOMAIN f : f[k] = "Dot" => f[k + 1] \in {"Ident", "LBrace"}

MCFiles == {<<>>} \cup {p \o Field : p \in Programs \cup {f \in Broken : NoEndlessDot(f \o Field)}}
           \cup {Const(e) \o Field : e \in Sums}

(* A block left open at the end of the file. *)
OpenFiles == {FnOpen \o <<"Ident">>, FnOpen \o <<"LBrace", "RBrace">>}
============================================================================
