--------------------------- MODULE AstLowering -----------------------------
(***************************************************************************)
(* The lowering of a module's AST to VUIR, src/src/ir/vuir/from_ast.rs.    *)
(*                                                                         *)
(* The Lowerer is a record; every lower_* function is an operator from a   *)
(* Lowerer to the Lowerer after it, with what the function returns in      *)
(* `ref` (an instruction), `scope` or `body`.  An instruction keeps its    *)
(* opcode, the name it is about, the instruction it jumps or stores to,    *)
(* its operand (the last one, where it has several) and the instruction    *)
(* lists it owns; spans and the operator of an expression are left out.    *)
(*                                                                         *)
(* Expressions are tuples: <<"lit">>, <<"id", n>>, <<"un", e>>,            *)
(* <<"bin" or "bits", e, e>>, <<"call", e, es>>, <<"str">>,                *)
(* <<"field", e>>, <<"index", e, e>>, <<"addr", e>>, <<"deref", e>>,       *)
(* <<"undef">>, <<"discard">>, <<"sinit", ty, es>>, <<"ainit", ty, es>>,   *)
(* <<"ptr", e>>, <<"slice", e>>, <<"array", e, e>>,                        *)
(* <<"block" or "loop", label, stmts>>, <<"while", label, e, stmts>>,      *)
(* <<"if", e, body, else>>, <<"switch", label, e, cases, else>> and        *)
(* <<"struct" or "enum" or "union", tag, fields, items>>.  <<>> is an      *)
(* absent part, "" an absent label; a body is an expression or             *)
(* <<"blk", stmts>>.                                                       *)
(***************************************************************************)
EXTENDS Integers, Sequences, FiniteSets, SequencesExt, TLC

CONSTANTS Modules,      \* item sequences of the modules to lower
          Builtins      \* the names `@...` of builtin functions

VARIABLES module,       \* the items of the module
          lowerer,      \* the Lowerer
          result        \* "lowering", then "ok", "err" or "panic"

vars == <<module, lowerer, result>>

Interned  == 0          \* a value known already, no instruction
NoRef     == -1
VoidValue == -2         \* the interned value of void

----------------------------------------------------------------------------
(* Instructions and scopes. *)

Node(op) == [op |-> op, name |-> "", to |-> NoRef, val |-> NoRef, bodies |-> <<>>,
             items |-> <<>>, captures |-> <<>>, generic |-> FALSE, kind |-> ""]
To(op, target)      == [Node(op) EXCEPT !.to = target, !.val = VoidValue]
Of(node, operand)   == [node EXCEPT !.val = operand]
Owns(op, bodies)    == [Node(op) EXCEPT !.bodies = bodies]
Named(op, n, to)    == [Node(op) EXCEPT !.name = n, !.to = to]
Invalid             == Node("Invalid")

(* inst, inst_id: the instruction joins the list of the open block. *)
Inst(st, node) ==
  [st EXCEPT !.insts = Append(@, node), !.flat = Append(@, Len(st.insts) + 1),
             !.ref = Len(st.insts) + 1]

NextId(st)         == Len(st.insts) + 1
Fill(st, id, node) == [st EXCEPT !.insts[id] = node, !.ref = id]
FillBody(st, id, op) == Fill(st, id, Owns(op, <<st.body>>))
Returns(st, ref)   == [st EXCEPT !.ref = ref]
Error(st)          == [st EXCEPT !.errors = @ + 1]

(* A panic is the end of it. *)
Onward(st, F(_))   == IF st.panic THEN st ELSE F(st)

ReturnsNever(op) == op \in {"Break", "Return", "Repeat"}

Body            == [kind |-> "Body", inst |-> NoRef, label |-> ""]
Branch(i)       == [kind |-> "Branch", inst |-> i, label |-> ""]
Block(i, label) == [kind |-> "Block", inst |-> i, label |-> label]
Loop(i, label)  == [kind |-> "Loop", inst |-> i, label |-> label]

Push(st, scope) == [st EXCEPT !.scopes = Append(@, scope), !.scope = Len(st.scopes) + 1]

StackBlock(st, parent, block) ==
  Push(st, [tag |-> "block", parent |-> parent, start |-> Len(st.flat), block |-> block])

(* Scopes are popped up to the block; another block before it is an ICE.   *)
IsTopBlock(st, id) ==
  /\ st.scopes[id].tag = "block"
  /\ \A k \in id + 1 .. Len(st.scopes) : st.scopes[k].tag # "block"

VariantUnstackBlock(st, id) ==
  IF ~ IsTopBlock(st, id) THEN [st EXCEPT !.panic = TRUE]
  ELSE [st EXCEPT !.scopes = SubSeq(@, 1, id - 1)]

UnstackBlock(st, id) ==
  IF ~ IsTopBlock(st, id) THEN [st EXCEPT !.panic = TRUE]
  ELSE [st EXCEPT !.scopes = SubSeq(@, 1, id - 1), !.flat = SubSeq(@, 1, st.scopes[id].start)]

InstructionsOf(st, id) == SubSeq(st.flat, st.scopes[id].start + 1, Len(st.flat))

(* collect_instructions_and_unstack_block *)
Collect(st, id) == [UnstackBlock(st, id) EXCEPT !.body = InstructionsOf(st, id)]

EndsWithNever(st, id) ==
  LET body == InstructionsOf(st, id)
  IN  body # <<>> /\ ReturnsNever(st.insts[Last(body)].op)

InstUnlessNever(st, id, node) ==
  Onward(st, LAMBDA x : IF EndsWithNever(x, id) THEN x ELSE Inst(x, node))

(* What code does in a block of its own. *)
InBlock(st, parent, block, Code(_, _)) ==
  LET id == Len(st.scopes) + 1
  IN  Onward(Code(StackBlock(st, parent, block), id), LAMBDA x : Collect(x, id))

(* traverse_scopes_from: a scope and those around it, innermost first.     *)
RECURSIVE ScopesFrom(_, _)
ScopesFrom(st, id) ==
  IF id = 0 THEN <<>> ELSE <<id>> \o ScopesFrom(st, st.scopes[id].parent)

(* Indices of a chain of scopes whose scope satisfies Test; the first one. *)
FirstOf(chain, Test(_)) ==
  LET hits == {k \in DOMAIN chain : Test(chain[k])}
  IN  IF hits = {} THEN 0 ELSE CHOOSE k \in hits : \A m \in hits : k <= m

(* The scopes of the defers between start and stop, the last one first.    *)
DefersSince(st, start, stop) ==
  LET chain == ScopesFrom(st, start)
      end == FirstOf(chain, LAMBDA c : st.scopes[c].tag # "defer" /\ c = stop)
  IN  SelectSeq(SubSeq(chain, 1, IF end = 0 THEN Len(chain) ELSE end),
                LAMBDA c : st.scopes[c].tag = "defer")

RunDefers(st, defers) ==
  FoldLeft(LAMBDA acc, c : Inst(acc, Owns("Defer", <<acc.scopes[c].body>>)), st, defers)

(* append_defers *)
VariantAppendDefers(st, start, stop) == RunDefers(st, Reverse(DefersSince(st, start, stop)))

AppendDefers(st, start, stop) == RunDefers(st, DefersSince(st, start, stop))

----------------------------------------------------------------------------
(* Result locations and names. *)

NoCtx        == [loc |-> "None", ptr |-> NoRef]
CoerceTo(ty) == [loc |-> "Coerce", ptr |-> ty]
StoreTo(p)   == [loc |-> "Store", ptr |-> p]
Infer(p)     == [loc |-> "Inferred", ptr |-> p]
AddressOf    == [loc |-> "Address", ptr |-> NoRef]

Rvalue(st, ctx) ==
  CASE ctx.loc = "Store"    -> Inst(st, Of(To("Store", ctx.ptr), st.ref))
    [] ctx.loc = "Inferred" -> Returns(Inst(st, Of(To("Store", ctx.ptr), st.ref)), VoidValue)
    [] ctx.loc = "Address"  -> Inst(st, Of(Node("RvalueToLvalue"), st.ref))
    [] ctx.loc = "Coerce"   -> Inst(st, Of(To("Coerce", ctx.ptr), st.ref))
    [] OTHER                -> st

(* try_lower_coerce_into_result_loc_expected_ty *)
ExpectedTy(st, ctx) ==
  CASE ctx.loc = "Coerce" -> Returns(st, ctx.ptr)
    [] ctx.loc = "Store"  -> Inst(st, To("TypeOfPtrPointee", ctx.ptr))
    [] OTHER              -> Returns(st, NoRef)

BranchCtx(st) == IF st.ref = NoRef THEN NoCtx ELSE CoerceTo(st.ref)

Found(kind, inst, depth) == [kind |-> kind, inst |-> inst, depth |-> depth]

(* resolve_symbol: the innermost local of the name, or a namespace that    *)
(* declares it; depth is the number of namespaces on the way.              *)
ResolveSymbol(st, s, name) ==
  LET chain == ScopesFrom(st, s)
      sc(k) == st.scopes[chain[k]]
      at == FirstOf(chain, LAMBDA c :
              LET scope == st.scopes[c]
              IN  \/ scope.tag \in {"stack", "value"} /\ scope.name = name
                  \/ scope.tag = "namespace" /\ (name = "Self" \/ name \in scope.names))
      depth == Cardinality({k \in 1 .. at - 1 : sc(k).tag = "namespace"})
  IN  IF name \in Builtins THEN Found("decl", NoRef, 0)
      ELSE IF at = 0 THEN Found("none", NoRef, 0)
      ELSE IF sc(at).tag = "namespace" THEN Found("decl", NoRef, 0)
      ELSE IF depth > 0 THEN Found("capture", sc(at).inst, depth)
      ELSE Found(sc(at).tag, sc(at).inst, 0)

(* A local value that is resolved notes it in the flag of its function.    *)
VariantMarkResolved(st, s, name) == st

MarkResolved(st, s, name) ==
  LET chain == ScopesFrom(st, s)
      at == FirstOf(chain, LAMBDA c :
              st.scopes[c].tag \in {"stack", "value"} /\ st.scopes[c].name = name)
      flag == IF at = 0 \/ st.scopes[chain[at]].tag = "stack" THEN 0 ELSE st.scopes[chain[at]].flag
  IN  IF flag = 0 THEN st ELSE [st EXCEPT !.flags[flag] = TRUE]

(* entry(key).or_insert_with on the captures of a namespace. *)
CaptureIn(st, ns, key) ==
  LET known == st.scopes[ns].captures
  IN  IF key \in ToSet(known) THEN Returns(st, CHOOSE k \in DOMAIN known : known[k] = key)
      ELSE [st EXCEPT !.scopes[ns].captures = Append(@, key), !.ref = Len(known) + 1]

(* The namespaces between a scope and the one depth levels out, outermost  *)
(* first.                                                                  *)
VariantNamespacesAround(st, s, depth) ==
  LET around == SelectSeq(Tail(ScopesFrom(st, s)), LAMBDA c : st.scopes[c].tag = "namespace")
  IN  SubSeq(around, 1, depth)

NamespacesAround(st, s, depth) ==
  LET around == SelectSeq(Tail(ScopesFrom(st, s)), LAMBDA c : st.scopes[c].tag = "namespace")
  IN  Reverse(SubSeq(around, 1, depth))

(* capture_outer_scope_inst: the instruction is captured by the outermost  *)
(* namespace on the way and handed down to the innermost one.              *)
CaptureOuterScopeInst(st, s, inst, depth, name) ==
  LET around == NamespacesAround(st, s, depth)
      got == FoldLeft(LAMBDA acc, ns : CaptureIn(acc, ns, <<"FromParent", acc.ref>>),
                      CaptureIn(st, Head(around), <<"Id", inst>>), Tail(around))
  IN  IF inst = Interned THEN Returns(st, inst)
      ELSE Inst(got, Named("CaptureGet", name, got.ref))

LowerIdent(st, s, name, ctx) ==
  LET found == ResolveSymbol(st, s, name)
      seen == IF found.kind \in {"value", "capture"} THEN MarkResolved(st, s, name) ELSE st
  IN  CASE found.kind = "stack" ->
             IF ctx = AddressOf THEN Returns(st, found.inst)
             ELSE Rvalue(Inst(st, Named("Load", name, found.inst)), ctx)
        [] found.kind = "value" -> Rvalue(Returns(seen, found.inst), ctx)
        [] found.kind = "decl" ->
             IF ctx = AddressOf THEN Inst(st, Named("DeclRef", name, NoRef))
             ELSE Rvalue(Inst(st, Named("DeclVal", name, NoRef)), ctx)
        [] found.kind = "capture" ->
             CaptureOuterScopeInst(seen, s, found.inst, found.depth, name)
        [] OTHER -> Inst(Error(st), Invalid)

(* check_label_already_defined *)
CheckLabel(st, s, label) ==
  LET Same(c) == st.scopes[c].tag = "block" /\ st.scopes[c].block.label = label
  IN  IF label # "" /\ FirstOf(ScopesFrom(st, s), Same) # 0 THEN Error(st) ELSE st


----------------------------------------------------------------------------
(* Expressions. *)

(* LowerTree lowers an expression, a block or an item by its tag.          *)
RECURSIVE LowerTree(_, _, _, _)

LowerExpr(st, s, e, ctx)   == LowerTree(st, s, e, ctx)
LowerBlock(st, s, stmts)   == LowerTree(st, s, <<"blk", stmts>>, NoCtx)
LowerItem(st, s, item)     == LowerTree(st, s, item, NoCtx)
LowerElseIf(st, s, e, ctx) == LowerTree(st, s, <<"else if", e>>, ctx)

(* An instruction that keeps its place and is filled in later.             *)
Hold(st) == Inst(st, Invalid)

LowerAll(st, s, es, ctx) ==
  FoldLeft(LAMBDA acc, e : Onward(acc, LAMBDA x : LowerExpr(x, s, e, ctx)), st, es)

(* Lowers xs in turn; the bodies, the instructions and the lists of them   *)
(* that they returned.                                                     *)
Each(st, xs, Lower(_, _)) ==
  FoldLeft(LAMBDA acc, x :
             LET next == Onward(acc.st, LAMBDA y : Lower(y, x))
             IN  [st |-> next, bodies |-> Append(acc.bodies, next.body),
                  refs |-> Append(acc.refs, next.ref), items |-> Append(acc.items, next.items)],
           [st |-> st, bodies |-> <<>>, refs |-> <<>>, items |-> <<>>], xs)

(* A type, an argument or a value in a body that ends by handing it to id. *)
Give(st, id) == Inst(st, Of(To("BreakComptime", id), st.ref))
GiveUnlessNever(st, s, id) == InstUnlessNever(st, s, Of(To("BreakComptime", id), st.ref))

ComptimeBody(st, s, id, Code(_, _)) ==
  InBlock(st, s, Body, LAMBDA b, k : Give(Code(b, k), id))

(* wrap_in_comptime_block *)
WrapComptime(st, s, Code(_, _)) ==
  LET id == NextId(st)
  IN  FillBody(InBlock(Hold(st), s, Body, LAMBDA b, k : GiveUnlessNever(Code(b, k), k, id)),
               id, "BlockComptime")

Untyped(e) == e[1] \in {"sinit", "ainit"} /\ e[2] = <<>>

(* @import notes the path, which must be a string literal.                 *)
NoteImport(st, fun, args) ==
  IF fun # <<"id", "@import">> THEN st
  ELSE IF args # <<>> /\ args[1] = <<"str">> THEN [st EXCEPT !.imports = @ + 1]
  ELSE Error(st)

(* The callee or its receiver, then the call, then each argument in a body *)
(* of its own that hands its value to the call.                            *)
LowerCall(st, s, fun, args, ctx) ==
  LET callee == IF fun[1] = "field" THEN LowerExpr(st, s, fun[2], AddressOf)
                ELSE LowerExpr(st, s, fun, NoCtx)
      held == Hold(ExpectedTy(callee, ctx))
      id == held.ref
      Arg(acc, a) == ComptimeBody(acc, s, id, LAMBDA b, k :
                       LowerExpr(b, k, a, IF Untyped(a) THEN CoerceTo(id) ELSE NoCtx))
      lowered == Each(held, args, Arg)
  IN  Fill(NoteImport(lowered.st, fun, args), id,
           Of(Owns("FnCall", lowered.bodies), callee.ref))

LowerTypeOf(st, s, args, ctx) ==
  IF Len(args) # 1 THEN Inst(Error(st), Invalid)
  ELSE Rvalue(Inst(LowerExpr(st, s, args[1], NoCtx), Node("TypeOf")), ctx)

(* Struct and array initialisers: an explicit type, the one the context    *)
(* expects, or none that can be inferred.                                  *)
LowerInit(st, s, e, ctx) ==
  LET expected == ExpectedTy(st, ctx)
      typed == IF e[2] # <<>> THEN LowerExpr(st, s, e[2], NoCtx)
               ELSE IF expected.ref # NoRef THEN expected
               ELSE Inst(Error(st), Invalid)
      Field(acc, f) == LET ty == Inst(acc, Node("StructInitTypeOfField"))
                       IN  LowerExpr(ty, s, f, CoerceTo(ty.ref))
  IN  Inst(IF e[1] = "sinit" THEN FoldLeft(Field, typed, e[3]) ELSE LowerAll(typed, s, e[3], NoCtx),
           Node("AggregateInit"))

(* A body is a block of statements or an expression.                       *)
LowerBody(st, s, body, ctx) ==
  IF body[1] = "blk" THEN Returns(LowerBlock(st, s, body[2]), VoidValue)
  ELSE LowerExpr(st, s, body, ctx)

(* What a body hands to the block it leaves. *)
Leave(st, s, id) == InstUnlessNever(st, s, Of(To("Break", id), st.ref))

VariantLowerIfBody(st, s, body, id, ctx) == LowerBody(st, s, body, ctx)

LowerIfBody(st, s, body, id, ctx) ==
  Leave(LowerBody(st, s, body, ctx), s, id)

(* lower_expr_if: a block that holds only the branch, and two arms that    *)
(* leave that block.                                                       *)
LowerIf(st, s, e, ctx) ==
  LET cond == LowerExpr(st, s, e[2], NoCtx)
      want == ExpectedTy(cond, ctx)
      inner == BranchCtx(want)
      held == Hold(want)
      id == held.ref
      then == InBlock(held, s, Branch(id), LAMBDA b, k : LowerIfBody(b, k, e[3], id, inner))
      Else(b, k) == IF e[4] = <<>> THEN b
                    ELSE IF e[4][1] = "if"
                    THEN LET value == LowerElseIf(b, k, e[4], inner)
                         IN  Inst(value, Of(To("Break", id), value.ref))
                    ELSE LowerIfBody(b, k, e[4], id, inner)
      other == InBlock(then, s, Branch(id), LAMBDA b, k :
                 InstUnlessNever(Else(b, k), k, To("Break", id)))
      whole == InBlock(other, s, Body, LAMBDA b, k :
                 Inst(b, Of(Owns("Branch", <<then.body, other.body>>), cond.ref)))
  IN  Fill(whole, id, Owns("Block", <<whole.body>>))

(* A block falls off its end; a loop repeats there.                        *)
LowerBlockOrLoop(st, s, e) ==
  LET id == NextId(st)
      loop == e[1] = "loop"
      Code(b, k) == IF loop THEN InstUnlessNever(LowerBlock(b, k, e[3]), k, To("Repeat", id))
                    ELSE LowerBlock(b, k, e[3])
      kind == IF loop THEN Loop(id, e[2]) ELSE Block(id, e[2])
  IN  FillBody(InBlock(Hold(CheckLabel(st, s, e[2])), s, kind, Code), id,
               IF loop THEN "Loop" ELSE "Block")

(* if !cond { break; }, in a block of its own; cond was lowered last.      *)
LowerWhileTest(st, s, id) ==
  LET br == NextId(st) + 1
      branch == Hold(Inst(st, Of(Node("BitNot"), st.ref)))
      then == InBlock(branch, s, Branch(br), LAMBDA b, k : Inst(b, To("Break", id)))
      other == InBlock(then, s, Branch(br), LAMBDA b, k : Inst(b, To("Break", br)))
      test == InBlock(other, s, Body, LAMBDA b, k :
                 Inst(b, Of(Owns("Branch", <<then.body, other.body>>), br - 1)))
  IN  FillBody(test, br, "Block")

(* loop { if !cond { break; } body; repeat; }                              *)
LowerWhile(st, s, e) ==
  LET id == NextId(st)
      Code(b, k) == LowerBlock(LowerWhileTest(LowerExpr(b, k, e[3], NoCtx), s, id), k, e[4])
  IN  FillBody(InBlock(Hold(CheckLabel(st, s, e[2])), s, Loop(id, e[2]),
                       LAMBDA b, k : InstUnlessNever(Code(b, k), k, To("Repeat", id))),
               id, "Loop")

(* The body of a case in a block of its own; a capture is a local of it.   *)
LowerCase(st, s, id, capture, body, ctx) ==
  InBlock(st, s, Branch(id), LAMBDA b, k :
    LET got == Inst(b, Node("SwitchCapture"))
        local == Push(got, [tag |-> "value", parent |-> k, name |-> capture,
                            inst |-> got.ref, flag |-> 0])
        done == IF capture = "" THEN LowerBody(b, k, body, ctx)
                ELSE LowerBody(local, local.scope, body, ctx)
    IN  Leave(done, k, id))

(* A case is <<patterns, capture, body>>.  One pattern is lowered before   *)
(* its body, several after it, and those take no capture.                  *)
LowerSingle(st, s, sw, id, c, ctx) ==
  LET pattern == LowerExpr(st, sw, c[1][1], NoCtx)
  IN  [LowerCase(pattern, s, id, c[2], c[3], ctx) EXCEPT !.items = <<pattern.ref>>]

LowerMulti(st, s, sw, id, c, ctx) ==
  LET body == LowerCase(IF c[2] = "" THEN st ELSE Error(st), s, id, "", c[3], ctx)
      patterns == Each(body, c[1], LAMBDA a, p : LowerExpr(a, sw, p, NoCtx))
  IN  [patterns.st EXCEPT !.body = body.body, !.items = patterns.refs]

LowerCases(st, s, sw, id, e, ctx) ==
  Each(st, e[4], LAMBDA acc, c : IF Len(c[1]) = 1 THEN LowerSingle(acc, s, sw, id, c, ctx)
                                 ELSE LowerMulti(acc, s, sw, id, c, ctx))

(* The else, then the Switch itself; without an else the block is left     *)
(* behind it.                                                              *)
LowerElse(cases, s, sw, id, e, operand, ctx) ==
  LET other == IF e[5] = <<>> THEN cases.st ELSE LowerCase(cases.st, s, id, "", e[5], ctx)
      arms == cases.bodies \o IF e[5] = <<>> THEN <<>> ELSE <<other.body>>
      switch == Inst(other, [Of(Owns("Switch", arms), operand) EXCEPT !.items = cases.items])
  IN  IF e[5] = <<>> THEN InstUnlessNever(switch, sw, To("Break", id)) ELSE switch

(* st has the operand and the type the context wants.                      *)
LowerSwitchArms(st, s, sw, id, e, operand) ==
  LowerElse(LowerCases(st, s, sw, id, e, BranchCtx(st)), s, sw, id, e, operand, BranchCtx(st))

LowerSwitch(st, s, e, ctx) ==
  LET id == NextId(st)
      Code(b, k) == LET operand == LowerExpr(b, k, e[3], NoCtx)
                    IN  LowerSwitchArms(ExpectedTy(Inst(operand, Of(Node("TypeOf"), operand.ref)), ctx),
                                  s, k, id, e, operand.ref)
  IN  FillBody(InBlock(Hold(CheckLabel(st, s, e[2])), s, Block(id, e[2]), Code), id, "Block")

----------------------------------------------------------------------------
(* Structs, enums, unions and their items. *)

(* collect_namespace_items: a name twice in a namespace is an error.       *)
PushNamespace(st, s, items) ==
  LET names == {items[k][2] : k \in DOMAIN items}
  IN  Push([st EXCEPT !.errors = @ + (Len(items) - Cardinality(names))],
           [tag |-> "namespace", parent |-> s, names |-> names, captures |-> <<>>])

(* The type of a struct or union field.                                    *)
FieldType(st, ns, id, ty) ==
  InBlock(st, ns, Body, LAMBDA b, k :
    GiveUnlessNever(LowerExpr(b, k, ty, NoCtx), k, id))

Redefined(fields, k) == \E m \in 1 .. k - 1 : fields[m][1] = fields[k][1]

(* The value of a variant is lowered outside the enum's namespace.         *)
EnumVariant(st, s, ns, e, k) ==
  LET variant == e[3][k]
      valued == IF variant[2] = <<>> THEN st ELSE LowerExpr(st, s, variant[2], NoCtx)
      checked == IF variant[1] \in valued.scopes[ns].names THEN Error(valued) ELSE valued
  IN  [(IF Redefined(e[3], k) THEN Error(checked) ELSE checked) EXCEPT !.body = <<>>]

UnionField(st, ns, id, e, k) ==
  LET checked == IF Redefined(e[3], k) THEN Error(st) ELSE st
  IN  IF e[3][k][2] = <<>> THEN [checked EXCEPT !.body = <<>>]
      ELSE FieldType(checked, ns, id, e[3][k][2])

(* The declaration, its fields, then its items, all of them in the         *)
(* namespace; what was captured is read when the namespace is left.        *)
DeclareAdt(st, s, e, Field(_, _, _, _)) ==
  LET held == Hold(st)
      id == held.ref
      named == PushNamespace(held, s, e[4])
      ns == named.scope
      fields == Each(named, [k \in DOMAIN e[3] |-> k], LAMBDA acc, k : Field(acc, ns, id, k))
      open == StackBlock(fields.st, ns, Body)
      decls == Each(open, e[4], LAMBDA acc, item : LowerItem(acc, open.scope, item))
      closed == UnstackBlock(decls.st, open.scope)
      node == [Owns("DeclAdt", Append(fields.bodies, decls.refs))
                 EXCEPT !.captures = closed.scopes[ns].captures]
  IN  Fill([closed EXCEPT !.scopes = Front(@)], id, node)

LowerTag(st, s, tag) == IF tag = <<>> THEN st ELSE LowerExpr(st, s, tag, NoCtx)

LowerStruct(st, s, e) ==
  DeclareAdt(st, s, e, LAMBDA acc, ns, id, k : FieldType(acc, ns, id, e[3][k][2]))

LowerEnum(st, s, e) ==
  DeclareAdt(LowerTag(st, s, e[2]), s, e, LAMBDA acc, ns, id, k : EnumVariant(acc, s, ns, e, k))

LowerUnion(st, s, e) ==
  DeclareAdt(LowerTag(st, s, e[2]), s, e, LAMBDA acc, ns, id, k : UnionField(acc, ns, id, e, k))

LowerAdt(st, s, e) ==
  CASE e[1] = "struct" -> LowerStruct(st, s, e)
    [] e[1] = "enum"   -> LowerEnum(st, s, e)
    [] OTHER           -> LowerUnion(st, s, e)

LowerType(st, s, e) ==
  CASE e[1] \in {"ptr", "slice"} -> Inst(LowerExpr(st, s, e[2], NoCtx), Node("Type"))
    [] e[1] = "array" -> Inst(LowerAll(st, s, <<e[2], e[3]>>, NoCtx), Node("Type"))
    [] OTHER -> LowerAdt(st, s, e)

----------------------------------------------------------------------------
(* The other expressions. *)

LowerField(st, s, e, ctx) ==
  LET lhs == LowerExpr(st, s, e[2], AddressOf)
  IN  IF ctx = AddressOf THEN Inst(lhs, Node("FieldPtrFromPtr"))
      ELSE Rvalue(Inst(lhs, Node("FieldValFromPtr")), ctx)

VariantLowerIndex(st, s, e, ctx) ==
  LET elem == LowerExpr(LowerExpr(st, s, e[2], AddressOf), s, e[3], CoerceTo(Interned))
  IN  Inst(elem, Node(IF ctx = AddressOf THEN "ArrayIndexElemPtr" ELSE "ArrayIndexElemVal"))

LowerIndex(st, s, e, ctx) ==
  LET elem == LowerExpr(LowerExpr(st, s, e[2], AddressOf), s, e[3], CoerceTo(Interned))
  IN  IF ctx = AddressOf THEN Inst(elem, Node("ArrayIndexElemPtr"))
      ELSE Rvalue(Inst(elem, Node("ArrayIndexElemVal")), ctx)

Applied(st, op)       == Inst(st, Of(Node(op), st.ref))
LowerUnary(st, s, e)  == LET op == LowerExpr(st, s, e[2], NoCtx)
                         IN  IF e[1] = "plus" THEN op ELSE Applied(op, "Unary")
LowerArith(st, s, e)  == Applied(LowerAll(st, s, <<e[2], e[3]>>, NoCtx), "Arith")
LowerBitwise(st, s, e) == Applied(LowerAll(st, s, <<e[2], e[3]>>, NoCtx), "Bitwise")
LowerDeref(st, s, e)  == LET ptr == LowerExpr(st, s, e[2], NoCtx) IN Inst(ptr, To("Load", ptr.ref))
LowerLit(st)          == Returns(st, Interned)
LowerUndefined(st, ctx) == Inst(ExpectedTy(st, ctx), Node("Undefined"))

----------------------------------------------------------------------------
(* Statements: var, const and comptime are <<kind, name, type, init>>.     *)

(* st.ref is the type of the variable, if it has one.                      *)
LowerVar(st, s, v) ==
  LET a == NextId(st)
      alloc == Inst(st, [Of(Named("StackAlloc", v[2], NoRef), st.ref) EXCEPT !.kind = v[1]])
      ctx == IF v[3] = <<>> THEN Infer(a) ELSE StoreTo(a)
      init == IF v[1] = "comptime"
              THEN WrapComptime(alloc, s, LAMBDA b, k : LowerExpr(b, k, v[4], ctx))
              ELSE LowerExpr(alloc, s, v[4], ctx)
  IN  IF v[3] = <<>> THEN Inst(init, Named("ReifyInferredAlloc", v[2], a))
      ELSE IF v[1] # "const" THEN Inst(init, Named("FreezeStackAlloc", v[2], a))
      ELSE Returns(init, a)

PushStack(st, s, name) ==
  Push(st, [tag |-> "stack", parent |-> s, name |-> name, inst |-> st.ref])

LowerVarBinding(st, s, v) ==
  LET typed == IF v[3] = <<>> THEN Returns(st, NoRef)
               ELSE WrapComptime(st, s, LAMBDA b, k : LowerExpr(b, s, v[3], NoCtx))
  IN  PushStack(LowerVar(typed, s, v), s, v[2])

(* The defers of the whole function run before it returns.                 *)
LowerReturn(st, s, value) ==
  LET ty == Inst(st, Node("TypeOfCurFnRet"))
      valued == IF value = <<>> THEN st
                ELSE LET got == LowerExpr(ty, s, value, CoerceTo(ty.ref))
                     IN  Inst(got, Of(To("Coerce", ty.ref), got.ref))
  IN  IF st.root = 0 THEN [valued EXCEPT !.panic = TRUE]
      ELSE Inst(AppendDefers(valued, s, st.root),
                Of(Node("Return"), IF value = <<>> THEN NoRef ELSE valued.ref))

IsLoop(block, label) == block.kind = "Loop" /\ label \in {"", block.label}
IsLabelled(block, label) == block.kind = "Block" /\ label # "" /\ block.label = label

(* The innermost loop, or the loop or block of the label; no defer runs.   *)
Target(st, s, label) ==
  LET chain == ScopesFrom(st, s)
      at == FirstOf(chain, LAMBDA c : /\ st.scopes[c].tag = "block"
                                      /\ \/ IsLoop(st.scopes[c].block, label)
                                         \/ IsLabelled(st.scopes[c].block, label))
  IN  IF at = 0 THEN Body ELSE st.scopes[chain[at]].block

LowerBreak(st, s, label, value) ==
  LET target == Target(st, s, label)
      valued == IF value = <<>> THEN Returns(st, VoidValue) ELSE LowerExpr(st, s, value, NoCtx)
  IN  IF target = Body THEN Inst(Error(st), Invalid)
      ELSE Inst(valued, Of(To("Break", target.inst), valued.ref))

LowerContinue(st, s, label) ==
  LET target == Target(st, s, label)
  IN  IF target.kind = "Loop" THEN Inst(st, To("Repeat", target.inst)) ELSE Inst(Error(st), Invalid)

LowerAssign(st, s, lhs, op, rhs) ==
  LET addr == LowerExpr(st, s, lhs, AddressOf)
      value == LowerExpr(Inst(addr, To("Load", addr.ref)), s, rhs, NoCtx)
      applied == IF op = "unsupported" THEN Inst(Error(value), Invalid)
                 ELSE Inst(value, Of(Node("Arith"), value.ref))
  IN  IF op = "=" THEN LowerExpr(addr, s, rhs, StoreTo(addr.ref))
      ELSE Inst(applied, Of(To("Store", addr.ref), applied.ref))

LowerDefer(st, s, e) ==
  LET done == InBlock(st, s, Body, LAMBDA b, k : LowerExpr(b, k, e, NoCtx))
  IN  Push(done, [tag |-> "defer", parent |-> s, body |-> done.body])

LowerStmt(st, s, x) ==
  LET located == Inst(st, Node("DbgSrcLoc"))
      In(next) == [next EXCEPT !.scope = s]
  IN  CASE x[1] \in {"var", "const", "comptime"} -> LowerVarBinding(located, s, x)
        [] x[1] = "expr"     -> In(LowerExpr(located, s, x[2], NoCtx))
        [] x[1] = "return"   -> In(LowerReturn(located, s, x[2]))
        [] x[1] = "break"    -> In(LowerBreak(located, s, x[2], x[3]))
        [] x[1] = "continue" -> In(LowerContinue(located, s, x[2]))
        [] x[1] = "assign"   -> In(LowerAssign(located, s, x[2], x[3], x[4]))
        [] OTHER             -> LowerDefer(located, s, x[2])

(* Each statement in the scope the one before it left; then the defers.    *)
LowerStmts(st, s, stmts) ==
  LET Stmt(acc, x) == Onward(acc, LAMBDA y : LowerStmt(y, y.scope, x))
  IN  Onward(FoldLeft(Stmt, [st EXCEPT !.scope = s], stmts), LAMBDA x : AppendDefers(x, x.scope, s))

----------------------------------------------------------------------------
(* Items: <<"let", name, type, init>> and                                  *)
(* <<"fn", name, params, return type, callconv, body>>.                    *)

(* lower_decl_init_expr: a struct or an enum ignores the context.          *)
LowerDeclInit(st, s, e, ctx) ==
  LowerExpr(st, s, e, IF e[1] \in {"struct", "enum"} THEN NoCtx ELSE ctx)

LowerItemVarBinding(st, s, v) ==
  LET held == Hold(st)
      id == held.ref
      done == ComptimeBody(held, s, id, LAMBDA b, k :
                LET typed == IF v[3] = <<>> THEN b ELSE LowerExpr(b, s, v[3], NoCtx)
                    ctx == IF v[3] = <<>> THEN NoCtx ELSE CoerceTo(typed.ref)
                IN  LowerDeclInit(typed, k, v[4], ctx))
  IN  Fill(done, id, [Owns("Declaration", <<done.body>>) EXCEPT !.name = v[2]])

(* A parameter: its type sees the ones before it, and is generic when it   *)
(* reads one of them.                                                      *)
LowerParam(st, flag, param) ==
  LET s == st.scope
      held == Hold([st EXCEPT !.flags[flag] = FALSE])
      id == held.ref
      typed == ComptimeBody(held, s, id, LAMBDA b, k : LowerExpr(b, k, param[2], NoCtx))
      node == [Owns("DeclFnParam", <<typed.body>>)
                 EXCEPT !.name = param[1], !.generic = typed.flags[flag]]
  IN  Push(Fill(typed, id, node),
           [tag |-> "value", parent |-> s, name |-> param[1], inst |-> id, flag |-> flag])

(* The return type and the calling convention, each a comptime block.      *)
LowerFnType(st, s, ty) ==
  LET id == NextId(st)
      Code(b, k) == Give(LowerExpr(b, k, ty, CoerceTo(Interned)), id)
  IN  FillBody(InBlock(Hold(st), s, Block(id, ""), Code), id, "BlockComptime")

LowerCallconv(st, s, e) ==
  LET id == NextId(st)
      Code(b, k) == LET ty == Inst(b, Node("TypeBuiltinCallingConvention"))
                    IN  Give(LowerExpr(ty, k, e, CoerceTo(ty.ref)), id)
  IN  IF e = <<>> THEN st
      ELSE FillBody(InBlock(Hold(st), s, Block(id, ""), Code), id, "BlockComptime")

(* Only the compiler's builtins may be declared with an `@` name.          *)
CheckBuiltinName(st, name) ==
  IF name \in Builtins /\ name \notin {"@import", "@size_of"} THEN Error(st) ELSE st

LowerParams(st, s, flag, params) ==
  FoldLeft(LAMBDA acc, p : Onward(acc, LAMBDA x : LowerParam(x, flag, p)),
           StackBlock([Hold(st) EXCEPT !.flags = Append(@, FALSE)], s, Body), params)

(* The function's value, once its block is closed: the declaration's body  *)
(* holds the DeclFn and nothing else.                                      *)
DeclareFn(st, s, decl, node) ==
  LET value == ComptimeBody(CheckBuiltinName(st, node.name), s, decl, LAMBDA b, k : Inst(b, node))
  IN  Fill(value, decl, [Owns("Declaration", <<value.body>>) EXCEPT !.name = node.name])

(* conv is the state after the types, params the one after the parameters. *)
LowerFnStmts(conv, params, f) ==
  LET ps == params.scope
  IN  IF f[6] = <<>> THEN conv
      ELSE [LowerBlock([conv EXCEPT !.root = ps], ps, f[6][2]) EXCEPT !.root = params.root]

(* The instructions of the block, split where the parameters and the types *)
(* end.                                                                    *)
FnNode(st, top, params, conv, f, generic) ==
  LET Part(from, to) == SubSeq(st.flat, from + 1, to)
      start == st.scopes[top].start
  IN  [Owns("DeclFn", <<Part(start, Len(params.flat)), Part(Len(params.flat), Len(conv.flat)),
                        Part(Len(conv.flat), Len(st.flat))>>)
         EXCEPT !.name = f[2], !.generic = generic]

LowerFn(st, s, f) ==
  LET flag == Len(st.flags) + 1
      top == Len(st.scopes) + 1
      params == LowerParams(st, s, flag, f[3])
      ret == LowerFnType([params EXCEPT !.flags[flag] = FALSE], params.scope, f[4])
      conv == LowerCallconv(ret, params.scope, f[5])
  IN  Onward(LowerFnStmts(conv, params, f), LAMBDA x :
        DeclareFn(UnstackBlock(x, top), s, NextId(st),
                  FnNode(x, top, params, conv, f, ret.flags[flag])))

(* lower_expr: most expressions hand their value to Rvalue; an identifier, *)
(* a field, an element and `&` answer for their own result location.       *)
LowerTree(st, s, e, ctx) ==
  CASE e[1] = "blk"     -> LowerStmts(st, s, e[2])
    [] e[1] = "let"     -> LowerItemVarBinding(st, s, e)
    [] e[1] = "fn"      -> LowerFn(st, s, e)
    [] e[1] = "else if" -> LowerIf(st, s, e[2], ctx)
    [] e[1] = "id"      -> LowerIdent(st, s, e[2], ctx)
    [] e[1] = "field"   -> LowerField(st, s, e, ctx)
    [] e[1] = "index"   -> LowerIndex(st, s, e, ctx)
    [] e[1] = "addr"    -> LowerExpr(st, s, e[2], AddressOf)
    [] e[1] = "deref" /\ ctx = AddressOf -> LowerExpr(st, s, e[2], NoCtx)
    [] e[1] = "discard" -> Returns(Error(st), Interned)
    [] e[1] = "call" /\ e[2] = <<"id", "@type_of">> -> LowerTypeOf(st, s, e[3], ctx)
    [] e[1] = "call"    -> Rvalue(LowerCall(st, s, e[2], e[3], ctx), ctx)
    [] e[1] \in {"lit", "str"} -> Rvalue(LowerLit(st), ctx)
    [] e[1] = "undef"   -> Rvalue(LowerUndefined(st, ctx), ctx)
    [] e[1] \in {"un", "plus"} -> Rvalue(LowerUnary(st, s, e), ctx)
    [] e[1] = "bin"     -> Rvalue(LowerArith(st, s, e), ctx)
    [] e[1] = "bits"    -> Rvalue(LowerBitwise(st, s, e), ctx)
    [] e[1] = "deref"   -> Rvalue(LowerDeref(st, s, e), ctx)
    [] e[1] \in {"sinit", "ainit"} -> Rvalue(LowerInit(st, s, e, ctx), ctx)
    [] e[1] = "if"      -> Rvalue(LowerIf(st, s, e, ctx), ctx)
    [] e[1] \in {"block", "loop"} -> Rvalue(LowerBlockOrLoop(st, s, e), ctx)
    [] e[1] = "while"   -> Rvalue(LowerWhile(st, s, e), ctx)
    [] e[1] = "switch"  -> Rvalue(LowerSwitch(st, s, e, ctx), ctx)
    [] OTHER            -> Rvalue(LowerType(st, s, e), ctx)

----------------------------------------------------------------------------
(* to_vuir: the module is a struct in a block of its own. *)

NewLowerer ==
  [insts |-> <<>>, flat |-> <<>>, scopes |-> <<>>, flags |-> <<>>, errors |-> 0, root |-> 0,
   imports |-> 0, panic |-> FALSE, ref |-> NoRef, scope |-> 0, body |-> <<>>, items |-> <<>>]

LowerModule(m) ==
  LET open == StackBlock(NewLowerer, 0, Body)
  IN  UnstackBlock(LowerExpr(open, open.scope, m, NoCtx), open.scope)

Init ==
  /\ module \in Modules
  /\ lowerer = NewLowerer
  /\ result = "lowering"

Lower ==
  /\ result = "lowering"
  /\ lowerer' = LowerModule(module)
  /\ result' = CASE lowerer'.panic -> "panic" [] lowerer'.errors = 0 -> "ok" [] OTHER -> "err"
  /\ UNCHANGED module

Next == Lower

Spec == Init /\ [][Next]_vars

----------------------------------------------------------------------------
(* Properties of the instructions a module was lowered to. *)

insts == lowerer.insts
Ids(op) == {i \in DOMAIN insts : insts[i].op = op}
BodiesOf(i) == ToSet(insts[i].bodies)

(* The instructions an instruction is part of, its own body first.         *)
Owners(S) == {o \in DOMAIN insts : \E b \in BodiesOf(o) : ToSet(b) \cap S # {}}

RECURSIVE Above(_)
Above(S) == LET up == Owners(S) IN IF up \subseteq S THEN S ELSE Above(S \cup up)

Enclosing(i) == Above({i}) \ {i}

(* Whatever the module, lowering ends with every scope closed and every    *)
(* instruction in one body (a deferred body is shared by the places it     *)
(* runs at), and one without an error leaves no Invalid placeholder.       *)
Placed ==
  result # "lowering" =>
    LET bodies == UNION {BodiesOf(i) : i \in DOMAIN insts}
    IN  /\ result # "panic"
        /\ lowerer.scopes = <<>> /\ lowerer.flat = <<>> /\ lowerer.root = 0
        /\ result = "ok" => Ids("Invalid") = {}
        /\ result = "ok" => \A i \in DOMAIN insts \ {1} :
                              Cardinality({b \in bodies : i \in ToSet(b)}) = 1

(* Break, Repeat and BreakComptime leave something they are part of, and   *)
(* control never falls off the end of a branch, a case or a loop.          *)
TargetsEnclose ==
  result = "ok" =>
    /\ \A i \in UNION {Ids(op) : op \in {"Break", "Repeat", "BreakComptime"}} :
         /\ insts[i].to \in Enclosing(i)
         /\ insts[i].op # "BreakComptime" =>
              ~ \E f \in Enclosing(i) \cap Ids("DeclFn") : insts[i].to \in Enclosing(f)
         /\ insts[i].op = "Repeat" => insts[insts[i].to].op = "Loop"
    /\ \A i \in UNION {Ids(op) : op \in {"Branch", "Switch", "Loop"}} : \A b \in BodiesOf(i) :
         b # <<>> /\ ReturnsNever(insts[Last(b)].op)

(* What runs on the way out of a function: the names of the deferred calls *)
(* and "return", in the order of the instructions; nothing runs after an   *)
(* instruction that does not return.                                       *)
DeferName(body) == LET k == CHOOSE k \in ToSet(body) : insts[k].op = "DeclVal" IN insts[k].name

RECURSIVE Trace(_)
Trace(body) ==
  IF body = <<>> THEN <<>>
  ELSE LET i == Head(body)
           here == CASE insts[i].op = "Defer" -> <<DeferName(insts[i].bodies[1])>>
                     [] insts[i].op = "Return" -> <<"return">>
                     [] insts[i].op \in {"Block", "Loop", "Branch", "Switch"} ->
                          FlattenSeq([k \in DOMAIN insts[i].bodies |-> Trace(insts[i].bodies[k])])
                     [] OTHER -> <<>>
       IN  IF ReturnsNever(insts[i].op) THEN here ELSE here \o Trace(Tail(body))

(* The same from the statements: mine are the defers of the block so far   *)
(* and outer those of the blocks around it, the last one first.            *)
RECURSIVE Defers(_, _, _)
Defers(stmts, mine, outer) ==
  LET x == Head(stmts)
      In(body) == IF body = <<>> THEN <<>>
                  ELSE IF body[1] = "if" THEN Defers(<<<<"expr", body>>>>, <<>>, mine \o outer)
                  ELSE IF body[1] = "blk" THEN Defers(body[2], <<>>, mine \o outer)
                  ELSE <<>>
      Inner(e) == CASE e[1] \in {"block", "loop"} -> In(<<"blk", e[3]>>)
                    [] e[1] = "while"  -> In(<<"blk", e[4]>>)
                    [] e[1] = "if"     -> In(e[3]) \o In(e[4])
                    [] e[1] = "switch" ->
                         FlattenSeq([k \in DOMAIN e[4] |-> In(e[4][k][3])]) \o In(e[5])
                    [] OTHER           -> <<>>
  IN  IF stmts = <<>> THEN mine
      ELSE CASE x[1] = "defer"  -> Defers(Tail(stmts), <<x[2][2][2]>> \o mine, outer)
             [] x[1] = "return" -> mine \o outer \o <<"return">>
             [] x[1] \in {"break", "continue"} -> <<>>
             [] x[1] = "expr"   -> Inner(x[2]) \o Defers(Tail(stmts), mine, outer)
             [] OTHER           -> Defers(Tail(stmts), mine, outer)

(* Every return runs all the defers of its function that were reached, the *)
(* end of a block those of the block, and each of them the last one first. *)
DefersRun ==
  result = "ok" =>
    \A k \in DOMAIN module[4] :
      LET f == module[4][k]
      IN  f[1] = "fn" /\ f[6] # <<>> =>
            \A i \in Ids("DeclFn") : insts[i].name = f[2] /\ Cardinality(Enclosing(i)) = 2 =>
              Trace(insts[i].bodies[3]) = Defers(f[6][2], <<>>, <<>>)

(* "The RHS expression must store its result to this typed pointer": a     *)
(* variable is initialised by exactly one store.                           *)
InitStored ==
  result = "ok" => \A a \in Ids("StackAlloc") :
                     Cardinality({i \in Ids("Store") : insts[i].to = a}) = 1

(* What a captured value stands for: the chain of captures from the        *)
(* namespace it is read in ends at an instruction of the name, in a body   *)
(* around the namespace that captured it.                                  *)
Adt(i) == LET around == Enclosing(i) \cap Ids("DeclAdt")
          IN  CHOOSE a \in around : around \ {a} \subseteq Enclosing(a)

RECURSIVE Captured(_, _)
Captured(adt, idx) ==
  IF idx \notin DOMAIN insts[adt].captures THEN <<adt, 0>>
  ELSE LET capture == insts[adt].captures[idx]
       IN  IF capture[1] = "Id" THEN <<adt, capture[2]>> ELSE Captured(Adt(adt), capture[2])

CapturesResolve ==
  result = "ok" => \A i \in Ids("CaptureGet") :
    LET found == Captured(Adt(i), insts[i].to)
    IN  /\ found[2] # 0 /\ insts[found[2]].name = insts[i].name
        /\ Owners({found[2]}) \subseteq Enclosing(found[1])
        /\ found[2] < found[1]

(* A parameter or a return type is generic exactly when it reads a         *)
(* parameter before it, directly or through a type declared inside it.     *)
RECURSIVE Mentions(_, _)
Mentions(e, names) ==
  CASE e = <<>> -> FALSE
    [] e[1] = "id" -> e[2] \in names
    [] e[1] \in {"ptr", "slice", "un", "plus"} -> Mentions(e[2], names)
    [] e[1] \in {"bin", "bits", "array", "index"} -> Mentions(e[2], names) \/ Mentions(e[3], names)
    [] e[1] = "struct" -> \E k \in DOMAIN e[3] : Mentions(e[3][k][2], names)
    [] OTHER -> FALSE

GenericExact ==
  result = "ok" => \A k \in DOMAIN module[4] :
    LET f == module[4][k]
        Before(n) == {f[3][m][1] : m \in 1 .. n - 1}
        decl == CHOOSE i \in Ids("DeclFn") : insts[i].name = f[2]
        params == insts[decl].bodies[1]
    IN  f[1] = "fn" =>
          /\ \A n \in DOMAIN f[3] : insts[params[n]].generic = Mentions(f[3][n][2], Before(n))
          /\ insts[decl].generic = Mentions(f[4], Before(Len(f[3]) + 1))
============================================================================
