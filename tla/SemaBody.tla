------------------------------ MODULE SemaBody ------------------------------
(***************************************************************************)
(* The analysis of a function's body, src/src/compile_unit/sema.rs and     *)
(* sema/call.rs: the VUIR that AstLowering leaves becomes VTIR.            *)
(*                                                                         *)
(* The Sema is a record; analyze_* functions are operators from a Sema to  *)
(* the Sema after them, with the value they return in `out`, the flow in   *)
(* `flow` and the error that is on its way up in `err`.  What is kept of   *)
(* a value is whether it is known at compile time (id 0, and the name of   *)
(* the value) or the VTIR instruction that computes it, and its type; a    *)
(* pointer carries the type it points to.  Coercions that change a value,  *)
(* and inlined calls, are left out.                                        *)
(***************************************************************************)
EXTENDS AstLowering

CONSTANTS Decls,        \* name -> [ty, params, ret] of each declaration
          Kind,         \* type -> "enum", "tagged", "bare", "linear", "comptime", "plain"
          Enums,        \* enum -> [bits, fields]: the width of the tag type it names,
                        \* 0 if it names none, and <<name, value>> of each variant
          TagTy         \* tagged union -> the enum of its tags

VARIABLES fun,          \* the DeclFn analysed, 0 before that
          sema          \* the Sema

semaVars == <<module, lowerer, result, fun, sema>>

----------------------------------------------------------------------------
(* Values and the block stack. *)

Value(id, name, ty) == [id |-> id, name |-> name, ty |-> ty, const |-> FALSE, mem |-> 0]
Known(name, ty)     == Value(0, name, ty)
Void                == Known("void", "void")
Unreachable         == Known("unreachable", "never")
NoValue             == Known("none", "none")

IsKnown(v)   == v.id = 0
IsLinear(ty) == Kind[ty] = "linear"

Vtir(op, ty) == [op |-> op, ty |-> ty, val |-> NoValue, to |-> 0, args |-> <<>>,
                 bodies |-> <<>>, items |-> <<>>]

Going(se)        == se.err = "" /\ ~ se.panic
Then(se, F(_))   == IF Going(se) THEN F(se) ELSE se
Gives(se, v)     == [se EXCEPT !.out = v, !.flow = "May"]
Panic(se)        == [se EXCEPT !.panic = TRUE]
Fail(se)         == [se EXCEPT !.errors = @ + 1, !.err = "AnalysisFailed"]
Raise(se, error, v) == [se EXCEPT !.err = error, !.out = v]
Mapped(se, id)   == [se EXCEPT !.map[id] = se.out]

(* coerce: between these types only one that is the same, or not known yet *)
(* (generic_poison_t), is accepted.                                        *)
CoercesTo(v, ty)        == ty \in {v.ty, "none"}
Coerced(se, v, ty, F(_)) == IF CoercesTo(v, ty) THEN F(v) ELSE Fail(se)

(* type_is_comptime_only, which ensure_type_exist_in_runtime refuses.      *)
ComptimeOnly(ty) == Kind[ty] = "comptime"

(* inst, inst_id: the instruction joins a block's list.                    *)
Emit(se, b, node) ==
  LET id == Len(se.code) + 1
  IN  Gives([se EXCEPT !.code = Append(@, node), !.blocks[b].insts = Append(@, id)],
            Value(id, "", node.ty))

(* child_block, child_block_from_vuir_block                                *)
ChildBlock(se, parent, vuir, comptime) ==
  [se EXCEPT !.blocks = Append(@, [parent |-> parent, insts |-> <<>>, vuir |-> vuir,
                                   breaks |-> <<>>, comptime |-> comptime])]
TopBlock(se) == Len(se.blocks)

UnstackTo(se, b) == IF b # TopBlock(se) THEN Panic(se) ELSE [se EXCEPT !.blocks = Front(@)]

(* resolve_inst: an instruction that was not visited is a panic.           *)
Visited(se, ref)    == ref \in {Interned, VoidValue} \/ se.map[ref] # NoValue
Resolve(se, ref)    == CASE ref = Interned  -> Known("lit", "T")
                         [] ref = VoidValue -> Void
                         [] OTHER           -> se.map[ref]
Resolved(se, ref, F(_)) == IF Visited(se, ref) THEN F(Resolve(se, ref)) ELSE Panic(se)

RECURSIVE AnalyzeInst(_, _, _), AnalyzeBody(_, _, _)

(* analyze_instruction_block: up to the first instruction that does not    *)
(* come back.  No instruction answers Never, so May joined with it is May. *)
AnalyzeBody(se, b, body) ==
  IF body = <<>> THEN [se EXCEPT !.flow = "May"]
  ELSE LET first == AnalyzeInst(se, b, Head(body))
       IN  Then(first, LAMBDA s :
             IF s.out = Unreachable \/ s.flow = "Always" THEN [s EXCEPT !.flow = "Always"]
             ELSE AnalyzeBody(s, b, Tail(body)))

(* analyze_comptime_block: a break of any block ends it with its value.    *)
AnalyzeComptime(se, b, body) ==
  LET done == AnalyzeBody(se, b, body)
  IN  IF done.err = "ComptimeBreak" THEN [done EXCEPT !.err = "", !.flow = "May"]
      ELSE Then(done, LAMBDA s : Gives(s, NoValue))

OrElse(v, default) == IF v = NoValue THEN default ELSE v

(* A body analysed in a block of its own, which F is given.                *)
InChild(se, b, body, F(_, _)) ==
  LET open == ChildBlock(se, b, 0, FALSE)
      done == AnalyzeComptime(open, TopBlock(open), body)
  IN  Then(done, LAMBDA s :
        Then(UnstackTo(s, TopBlock(open)), LAMBDA t : F(t, s.blocks[TopBlock(open)].insts)))

----------------------------------------------------------------------------
(* Enums: a variant without a value has its position for its tag. *)

Implicit == -1

FieldValue(enum, i) ==
  LET value == Enums[enum].fields[i][2] IN IF value = Implicit THEN i - 1 ELSE value

(* The tag type: the one that is named, or one that holds every position.  *)
TagBits(enum) ==
  LET e == Enums[enum]
      Holds(bits) == 2 ^ bits >= Len(e.fields)
  IN  IF e.bits # 0 THEN e.bits
      ELSE CHOOSE b \in 1 .. Len(e.fields) + 1 : Holds(b) /\ \A c \in 1 .. b - 1 : ~ Holds(c)

(* DeclEnum: a value needs a tag type that it fits in, and is used once.   *)
EnumDeclared(enum) ==
  LET e == Enums[enum]
  IN  \A i \in DOMAIN e.fields :
        /\ e.fields[i][2] # Implicit => e.bits # 0 /\ e.fields[i][2] < 2 ^ e.bits
        /\ \A j \in DOMAIN e.fields : FieldValue(enum, i) = FieldValue(enum, j) => i = j

(* The value of a variant, Key::EnumTag.                                   *)
TagValue(v) ==
  FieldValue(v.ty, CHOOSE i \in DOMAIN Enums[v.ty].fields : Enums[v.ty].fields[i][1] = v.name)

----------------------------------------------------------------------------
(* Linear values: a slot per variable or parameter of a linear type, set   *)
(* once it is moved.                                                       *)

Track(se, id, ty) == IF IsLinear(ty) THEN [se EXCEPT !.slots = (id :> FALSE) @@ @] ELSE se

(* The first move of a slot; a second one is "use of moved linear value".  *)
VariantMove(se, v) ==
  IF v.id \notin DOMAIN se.slots THEN se ELSE [se EXCEPT !.slots[v.id] = TRUE]

Move(se, v) ==
  IF v.id \notin DOMAIN se.slots THEN se
  ELSE IF se.slots[v.id] THEN Fail(se)
  ELSE [se EXCEPT !.slots[v.id] = TRUE]

(* analyze_load: a known pointer is not loaded from at run time.           *)
AnalyzeLoad(se, b, src) ==
  Then(IF IsLinear(src.ty) THEN Move(se, src) ELSE se, LAMBDA s :
    IF src.mem # 0 THEN Gives(s, s.mem[src.mem])
    ELSE IF IsKnown(src) THEN Gives(s, Known(src.name, src.ty))
    ELSE Emit(s, b, [Vtir("Load", src.ty) EXCEPT !.val = src]))

(* A value handed to a function is moved if it is a linear parameter.      *)
TryConsume(se, v) == IF IsLinear(v.ty) THEN Move(se, v) ELSE se

----------------------------------------------------------------------------
(* Variables. *)

AnalyzeStackAlloc(se, b, n) ==
  Resolved(se, n.val, LAMBDA ty :
    LET alloc == Emit(se, b, Vtir("StackAlloc", ty.name))
    IN  IF ComptimeOnly(ty.name) THEN Fail(se)
        ELSE [Track(alloc, alloc.out.id, ty.name) EXCEPT !.out = alloc.out])

(* StackAllocComptime: memory of the compiler, undefined until a store.    *)
AnalyzeStackAllocComptime(se, n) ==
  Resolved(se, n.val, LAMBDA ty :
    Gives([se EXCEPT !.mem = Append(@, Known("undefined", ty.name))],
          [Known("", ty.name) EXCEPT !.mem = Len(se.mem) + 1]))

(* A const, or a comptime variable, may turn out to be known.              *)
AnalyzeStackAllocInferred(se, b, n) ==
  LET alloc == Emit(se, b, Vtir("StackAllocInferred", "none"))
      id == alloc.out.id
  IN  [alloc EXCEPT !.pending = (id :> "none") @@ @,
                    !.stores = IF n.kind = "var" THEN @ ELSE (id :> <<>>) @@ @]

(* StoreToInferredAlloc gives the variable its type.  A destination that   *)
(* is no inferred allocation is an assertion.                              *)
StoreInferred(se, b, dst, src) ==
  LET store == Emit(IF src.ty = "void" THEN [se EXCEPT !.errors = @ + 1] ELSE se, b,
                    [Vtir("Store", "void") EXCEPT !.val = src, !.to = dst.id])
  IN  IF IsKnown(dst) \/ se.code[dst.id].op # "StackAllocInferred" THEN Panic(se)
      ELSE [store EXCEPT !.pending[dst.id] = src.ty,
             !.stores = IF dst.id \in DOMAIN @ THEN [@ EXCEPT ![dst.id] = Append(@, store.out.id)] ELSE @]

(* Store; it does not move the value it stores.                            *)
StoreTyped(se, b, dst, src) ==
  IF dst.const \/ (dst.mem # 0 /\ ~ IsKnown(src)) THEN Fail(se)
  ELSE Coerced(se, src, dst.ty, LAMBDA v :
         IF dst.mem # 0 THEN Gives([se EXCEPT !.mem[dst.mem] = v], Void)
         ELSE Emit(se, b, [Vtir("Store", "void") EXCEPT !.val = v, !.to = dst.id]))

(* The opcode is chosen by the result location, StoreToInferredPtr.        *)
ToInferred(n) == insts[n.to].op = "StackAlloc" /\ insts[n.to].val = NoRef

AnalyzeStore(se, b, n) ==
  Resolved(se, n.val, LAMBDA src : Resolved(se, n.to, LAMBDA dst :
    IF ToInferred(n) THEN StoreInferred(se, b, dst, src) ELSE StoreTyped(se, b, dst, src)))

(* ReifyInferredAlloc: a variable with one store of a known value becomes  *)
(* that value, and neither the variable nor the store is left.             *)
AnalyzeReify(se, n) ==
  Resolved(se, n.to, LAMBDA alloc :
    LET kind == insts[n.to].kind
        ty == se.pending[alloc.id]
        may == alloc.id \in DOMAIN se.stores
        store == IF may /\ Len(se.stores[alloc.id]) = 1 THEN se.stores[alloc.id][1] ELSE 0
        value == IF store = 0 THEN NoValue ELSE se.code[store].val
        var == IF store # 0 /\ IsKnown(value)
               THEN Gives([se EXCEPT !.code[store].op = "Noop", !.code[alloc.id].op = "Noop"],
                          [Known(value.name, ty) EXCEPT !.const = TRUE])
               ELSE Gives([se EXCEPT !.code[alloc.id] = Vtir("StackAlloc", ty)],
                          [Value(alloc.id, "", ty) EXCEPT !.const = kind = "const"])
    IN  IF ty = "none" THEN Fail(se)
        ELSE IF may /\ store = 0 THEN Panic(se)
        ELSE IF ~ IsKnown(var.out) /\ "comptime" \in {kind, Kind[ty]} THEN Fail(se)
        ELSE [Track(var, var.out.id, ty) EXCEPT !.out = var.out])

(* FreezeStackAlloc: the slot goes with the new pointer.                   *)
AnalyzeFreeze(se, b, n) ==
  Resolved(se, n.to, LAMBDA alloc :
    LET cast == IF IsKnown(alloc) THEN Gives(se, alloc)
                ELSE Emit(se, b, [Vtir("BitCast", alloc.ty) EXCEPT !.val = alloc])
        others == [i \in DOMAIN cast.slots \ {alloc.id} |-> cast.slots[i]]
    IN  IF alloc.id \notin DOMAIN cast.slots THEN cast
        ELSE [cast EXCEPT !.slots = (cast.out.id :> @[alloc.id]) @@ others])

AnalyzeRvalueToLvalue(se, b, n) ==
  Resolved(se, n.val, LAMBDA rvalue :
    LET alloc == Emit(se, b, Vtir("StackAlloc", rvalue.ty))
        store == Emit(alloc, b, [Vtir("Store", "void") EXCEPT !.val = rvalue, !.to = alloc.out.id])
    IN  IF IsKnown(rvalue) THEN Gives(se, rvalue)
        ELSE [store EXCEPT !.out = alloc.out])

TypeOfPtrPointee(se, n) ==
  Resolved(se, n.to, LAMBDA ptr :
    Gives(se, Known(IF ptr.id \in DOMAIN se.pending /\ se.code[ptr.id].op = "StackAllocInferred"
                    THEN se.pending[ptr.id] ELSE ptr.ty, "type")))

----------------------------------------------------------------------------
(* Control flow. *)

(* The blocks from b outwards.                                             *)
RECURSIVE Outwards(_, _)
Outwards(se, b) == IF b = 0 THEN <<>> ELSE <<b>> \o Outwards(se, se.blocks[b].parent)

(* Break: the block it leaves is on the way out and keeps the value; in a  *)
(* comptime block it is an error on its way up instead.                    *)
RuntimeBreak(se, b, target, v) ==
  LET emitted == Emit(se, b, [Vtir("Break", "never") EXCEPT !.val = v, !.to = target.id])
      hits == SelectSeq(Outwards(se, b), LAMBDA k : se.blocks[k].vuir = target.id)
  IN  IF ComptimeOnly(v.ty) THEN Fail(se)
      ELSE IF hits = <<>> THEN Panic(se)
      ELSE [emitted EXCEPT !.blocks[Head(hits)].breaks = Append(@, v), !.flow = "Always"]

AnalyzeBreak(se, b, n) ==
  Resolved(se, n.val, LAMBDA v :
    IF se.blocks[b].comptime THEN Raise(se, "ComptimeBreak", v)
    ELSE Resolved(se, n.to, LAMBDA target : RuntimeBreak(se, b, target, v)))

AnalyzeRepeat(se, b, n) ==
  Resolved(se, n.to, LAMBDA target :
    [Emit(se, b, [Vtir("Repeat", "never") EXCEPT !.to = target.id]) EXCEPT !.flow = "Always"])

AnalyzeReturn(se, b, n) ==
  LET Left(v) == [Emit(se, b, [Vtir("Return", "never") EXCEPT !.val = v]) EXCEPT !.flow = "Always"]
  IN  IF n.val = NoRef THEN Left(NoValue)
      ELSE Resolved(se, n.val, LAMBDA v : Coerced(se, v, se.ret, Left))

(* The type of a Block or a Loop is that of the first value it is left     *)
(* with; the others must coerce to it.                                     *)
BlockType(breaks) == IF breaks = <<>> THEN "void" ELSE Head(breaks).ty

CloseBlock(se, v, closed) ==
  LET ty == BlockType(closed.breaks)
  IN  IF \E k \in DOMAIN closed.breaks : ~ CoercesTo(closed.breaks[k], ty) THEN Fail(se)
      ELSE Gives([se EXCEPT !.code[v.id].bodies = <<closed.insts>>, !.code[v.id].ty = ty],
                 [v EXCEPT !.ty = ty])

(* A Block or a Loop is mapped before its body, which may leave it; how    *)
(* the body ends is not looked at.                                         *)
VariantMapBlockLate(se, b, id, n) ==
  LET held == Emit(se, b, Vtir(n.op, "void"))
      v == held.out
      open == ChildBlock(held, b, v.id, held.blocks[b].comptime)
      child == TopBlock(open)
  IN  Then(AnalyzeBody(open, child, n.bodies[1]), LAMBDA s :
        Then(UnstackTo(s, child), LAMBDA t : Mapped(CloseBlock(t, v, s.blocks[child]), id)))

AnalyzeBlock(se, b, id, n) ==
  LET held == Mapped(Emit(se, b, Vtir(n.op, "void")), id)
      v == held.out
      open == ChildBlock(held, b, v.id, held.blocks[b].comptime)
      child == TopBlock(open)
  IN  Then(AnalyzeBody(open, child, n.bodies[1]), LAMBDA s :
        Then(UnstackTo(s, child), LAMBDA t : CloseBlock(t, v, s.blocks[child])))

AnalyzeBlockComptime(se, b, n) ==
  LET open == ChildBlock(se, b, 0, TRUE)
      done == AnalyzeComptime(open, TopBlock(open), n.bodies[1])
  IN  Then(done, LAMBDA s : IF s.out = NoValue THEN Panic(s) ELSE UnstackTo(s, TopBlock(open)))

(* Branch: only the arm of a known condition is analysed, in place.        *)
AnalyzeBranch(se, b, n) ==
  Resolved(se, n.val, LAMBDA bool : Coerced(se, bool, "bool", LAMBDA cond :
    LET taken == AnalyzeComptime(se, b, n.bodies[IF cond.name = "yes" THEN 1 ELSE 2])
    IN  IF IsKnown(cond) THEN Then(taken, LAMBDA s : Gives(s, OrElse(s.out, Void)))
        ELSE InChild(se, b, n.bodies[1], LAMBDA s, then :
               InChild(s, b, n.bodies[2], LAMBDA t, other :
                 Emit(t, b, [Vtir("Branch", "void") EXCEPT !.val = cond, !.bodies = <<then, other>>])))))

(* The patterns of a case; a switch goes through the cases of one pattern  *)
(* first and those of several after them.                                  *)
CaseOrder(n) ==
  LET all == [k \in DOMAIN n.items |-> k]
  IN  SelectSeq(all, LAMBDA k : Len(n.items[k]) = 1) \o SelectSeq(all, LAMBDA k : Len(n.items[k]) # 1)

CaseItems(se, refs) == [k \in DOMAIN refs |-> Resolve(se, refs[k])]
HasElse(n)      == Len(n.bodies) > Len(n.items)

(* check_switch_exhaustive: the values that are covered, then every field  *)
(* of the enum, or of a tagged union's enum.  Others need an else.         *)
VariantCheckExhaustive(ty, items) ==
  LET enum == IF Kind[ty] = "tagged" THEN TagTy[ty] ELSE ty
      covered == {TagValue(items[k]) : k \in DOMAIN items}
  IN  Kind[ty] \in {"enum", "tagged"} /\ Cardinality(covered) >= Len(Enums[enum].fields) - 1

CheckExhaustive(ty, items) ==
  LET enum == IF Kind[ty] = "tagged" THEN TagTy[ty] ELSE ty
      covered == {TagValue(items[k]) : k \in DOMAIN items}
  IN  /\ Kind[ty] \in {"enum", "tagged"}
      /\ \A i \in DOMAIN Enums[enum].fields : FieldValue(enum, i) \in covered

(* A known operand: the arm of the first case that has it is analysed in   *)
(* place, or the else; there must be one.  Patterns are coerced up to it.  *)
SwitchKnown(se, b, n, operand) ==
  LET tests == FlattenSeq([k \in DOMAIN CaseOrder(n) |->
                 LET case == CaseOrder(n)[k]
                 IN  [j \in DOMAIN n.items[case] |-> [case |-> case, item |-> Resolve(se, n.items[case][j])]]])
      Stops(t) == ~ CoercesTo(t.item, operand.ty) \/ t.item.name = operand.name
      hits == SelectSeq(tests, Stops)
      arm == IF hits # <<>> THEN Head(hits).case ELSE Len(n.bodies)
  IN  IF hits # <<>> /\ ~ CoercesTo(Head(hits).item, operand.ty) THEN Fail(se)
      ELSE IF hits = <<>> /\ ~ HasElse(n) THEN Panic(se)
      ELSE Then(AnalyzeComptime(se, b, n.bodies[arm]), LAMBDA s : Gives(s, OrElse(s.out, Void)))

(* The blocks an arm left open are closed with it.                         *)
SwitchArm(se, b, body) ==
  LET open == ChildBlock(se, b, 0, FALSE)
      top == TopBlock(open)
      done == AnalyzeComptime(open, top, body)
      Close(s) == [s EXCEPT !.blocks = SubSeq(@, 1, top - 1),
                            !.arms = Append(@, s.blocks[top].insts)]
  IN  Then(done, LAMBDA s : Close(s))

(* ty is the type switched on: the operand's, or the union it is the tag of. *)
SwitchRuntime(se, b, n, operand, ty) ==
  LET order == CaseOrder(n)
      items == [k \in DOMAIN order |-> CaseItems(se, n.items[order[k]])]
      Arm(acc, body) == Then(acc, LAMBDA s : SwitchArm(s, b, body))
      Case(acc, k) == IF \A v \in ToSet(items[k]) : CoercesTo(v, operand.ty)
                      THEN Arm(acc, n.bodies[order[k]]) ELSE Then(acc, Fail)
      cases == FoldLeft(Case, [se EXCEPT !.arms = <<>>], [k \in DOMAIN order |-> k])
      whole == IF HasElse(n) THEN Arm(cases, Last(n.bodies)) ELSE cases
      node == [Vtir("Switch", "void") EXCEPT !.val = operand, !.bodies = whole.arms, !.items = items]
  IN  Then(cases, LAMBDA s :
        IF ~ HasElse(n) /\ ~ CheckExhaustive(ty, FlattenSeq(items)) THEN Fail(s)
        ELSE Then(whole, LAMBDA t : [Emit(t, b, node) EXCEPT !.arms = se.arms]))

(* A tagged union is switched on by its tag; a bare one cannot be.         *)
AnalyzeSwitch(se, b, n) ==
  Resolved(se, n.val, LAMBDA v :
    LET tag == Emit(se, b, [Vtir("UnionTag", TagTy[v.ty]) EXCEPT !.val = v])
    IN  IF \E k \in DOMAIN n.items : \E r \in ToSet(n.items[k]) : ~ Visited(se, r) THEN Panic(se)
        ELSE CASE Kind[v.ty] = "bare"   -> Fail(se)
               [] Kind[v.ty] = "tagged" -> SwitchRuntime(tag, b, n, tag.out, v.ty)
               [] IsKnown(v)            -> SwitchKnown(se, b, n, v)
               [] OTHER                 -> SwitchRuntime(se, b, n, v, v.ty))

(* A deferred body is analysed wherever it was appended.                   *)
AnalyzeDefer(se, b, n) == Then(AnalyzeBody(se, b, n.bodies[1]), LAMBDA s : Gives(s, Void))

----------------------------------------------------------------------------
(* Calls: sema/call.rs. *)

(* One argument: the call stands for the type of the parameter while its   *)
(* body is analysed, and a linear parameter that is passed on is moved.    *)
CallArg(se, b, id, body, ty) ==
  LET typed == [se EXCEPT !.map[id] = Known(ty, "type")]
  IN  Then(AnalyzeComptime(typed, b, body), LAMBDA s :
        Coerced(s, OrElse(s.out, Unreachable), ty, LAMBDA arg :
          TryConsume([s EXCEPT !.args = Append(@, arg)], arg)))

(* The types of the parameters are resolved in a block of their own.  A    *)
(* call of a function that does not return is followed by Unreachable.     *)
AnalyzeFnCall(se, b, id, n) ==
  Resolved(se, n.val, LAMBDA callee :
    LET type == Decls[callee.name]
        open == [ChildBlock(se, b, 0, TRUE) EXCEPT !.args = <<>>]
        called == FoldLeft(LAMBDA acc, k : Then(acc, LAMBDA s :
                             CallArg(s, b, id, n.bodies[k], type.params[k])),
                           open, [k \in DOMAIN n.bodies |-> k])
        Call(s) == Emit([s EXCEPT !.args = se.args], b,
                        [Vtir("FnCall", type.ret) EXCEPT !.val = callee, !.args = s.args])
        Stop(s) == Gives(Emit(s, b, Vtir("Unreachable", "never")), Unreachable)
    IN  IF Len(n.bodies) # Len(type.params) THEN Fail(se)
        ELSE Then(called, LAMBDA s : Then(UnstackTo(s, TopBlock(open)), LAMBDA t :
               IF type.ret = "never" THEN Stop(Mapped(Call(t), id)) ELSE Call(t))))

----------------------------------------------------------------------------
(* analyze_inst *)

AnalyzeCoerce(se, n) ==
  Resolved(se, n.to, LAMBDA ty : Resolved(se, n.val, LAMBDA v :
    Coerced(se, v, ty.name, LAMBDA w : Gives(se, w))))

AnalyzeBitNot(se, b, n) ==
  Resolved(se, n.val, LAMBDA v :
    IF IsKnown(v) THEN Gives(se, [v EXCEPT !.name = IF @ = "yes" THEN "no" ELSE "yes"])
    ELSE Emit(se, b, [Vtir("BitNot", v.ty) EXCEPT !.val = v]))

Analyzed(se, b, id, n) ==
  CASE n.op = "DbgSrcLoc"          -> Emit(se, b, Vtir("DbgSrcLoc", "void"))
    [] n.op = "DeclVal"            -> Gives(se, Known(n.name, Decls[n.name].ty))
    [] n.op = "Load"               -> Resolved(se, n.to, LAMBDA src : AnalyzeLoad(se, b, src))
    [] n.op = "Store"              -> AnalyzeStore(se, b, n)
    [] n.op = "StackAlloc" /\ n.val = NoRef -> AnalyzeStackAllocInferred(se, b, n)
    [] n.op = "StackAlloc" /\ n.val # NoRef /\ n.kind = "comptime" -> AnalyzeStackAllocComptime(se, n)
    [] n.op = "StackAlloc" /\ n.val # NoRef /\ n.kind # "comptime" -> AnalyzeStackAlloc(se, b, n)
    [] n.op = "ReifyInferredAlloc" -> AnalyzeReify(se, n)
    [] n.op = "FreezeStackAlloc"   -> AnalyzeFreeze(se, b, n)
    [] n.op = "RvalueToLvalue"     -> AnalyzeRvalueToLvalue(se, b, n)
    [] n.op = "TypeOfPtrPointee"   -> TypeOfPtrPointee(se, n)
    [] n.op = "TypeOfCurFnRet"     -> Gives(se, Known(se.ret, "type"))
    [] n.op = "TypeOf"             -> Resolved(se, n.val, LAMBDA v : Gives(se, Known(v.ty, "type")))
    [] n.op = "Coerce"             -> AnalyzeCoerce(se, n)
    [] n.op = "BitNot"             -> AnalyzeBitNot(se, b, n)
    [] n.op = "Break"              -> AnalyzeBreak(se, b, n)
    [] n.op = "BreakComptime"      -> Resolved(se, n.val, LAMBDA v : Raise(se, "ComptimeBreak", v))
    [] n.op = "Repeat"             -> AnalyzeRepeat(se, b, n)
    [] n.op = "Return"             -> AnalyzeReturn(se, b, n)
    [] n.op \in {"Block", "Loop"}  -> AnalyzeBlock(se, b, id, n)
    [] n.op = "BlockComptime"      -> AnalyzeBlockComptime(se, b, n)
    [] n.op = "Branch"             -> AnalyzeBranch(se, b, n)
    [] n.op = "Switch"             -> AnalyzeSwitch(se, b, n)
    [] n.op = "Defer"              -> AnalyzeDefer(se, b, n)
    [] n.op = "FnCall"             -> AnalyzeFnCall(se, b, id, n)

(* What is left out of the map: the statements nothing refers to, and the  *)
(* branch that was decided.                                                *)
NotMapped(se, n) ==
  \/ n.op = "DbgSrcLoc"
  \/ n.op = "Store" /\ ToInferred(n)
  \/ n.op = "Branch" /\ IsKnown(Resolve(se, n.val))

AnalyzeInst(se, b, id) == Then(Analyzed(se, b, id, insts[id]), LAMBDA s :
  IF s.out = Unreachable \/ NotMapped(se, insts[id]) THEN s ELSE Mapped(s, id))

NewSema(ret) ==
  [code |-> <<>>, blocks |-> <<>>, map |-> [i \in DOMAIN insts |-> NoValue], pending |-> <<>>,
   stores |-> <<>>, slots |-> <<>>, mem |-> <<>>, args |-> <<>>, arms |-> <<>>, errors |-> 0,
   err |-> "", out |-> NoValue, flow |-> "May", panic |-> FALSE, ret |-> ret]

(* The parameters, each an FnArg; one of a linear type has a slot.  Its    *)
(* type is declared by then, or the function fails.                        *)
FnParam(se, id, ty) ==
  LET arg == Mapped(Emit(se, 1, Vtir("FnArg", ty)), id)
  IN  IF Kind[ty] = "enum" /\ ~ EnumDeclared(ty) THEN Fail(se) ELSE Track(arg, arg.out.id, ty)

(* analyze_fn_body: off the end of a void function is a return; what is    *)
(* left of the linear slots is an error each.                              *)
AnalyzeFnBody(se, body) ==
  Then(AnalyzeBody(se, 1, body), LAMBDA s :
    LET ended == IF s.flow = "Always" THEN s
                 ELSE IF s.ret = "void" THEN Emit(s, 1, Vtir("Return", "never"))
                 ELSE [s EXCEPT !.errors = @ + 1]
    IN  [ended EXCEPT !.errors = @ + Cardinality({i \in DOMAIN ended.slots : ~ ended.slots[i]})])

AnalyzeFn(f) ==
  LET ast == CHOOSE item \in ToSet(module[4]) : item[1] = "fn" /\ item[2] = insts[f].name
      params == insts[f].bodies[1]
      start == FoldLeft(LAMBDA acc, k : Then(acc, LAMBDA s : FnParam(s, params[k], ast[3][k][2][2])),
                        ChildBlock(NewSema(ast[4][2]), 0, 0, FALSE), [k \in DOMAIN params |-> k])
  IN  Then(start, LAMBDA s : AnalyzeFnBody(s, insts[f].bodies[3]))

----------------------------------------------------------------------------

Fns == {i \in DOMAIN insts : insts[i].op = "DeclFn" /\ insts[i].bodies[3] # <<>>}

SemaInit == Init /\ fun = 0 /\ sema = <<>>

LowerModuleStep == Lower /\ UNCHANGED <<fun, sema>>

Analyze ==
  /\ result = "ok" /\ fun = 0
  /\ \E f \in Fns : fun' = f /\ sema' = AnalyzeFn(f)
  /\ UNCHANGED <<module, lowerer, result>>

SemaNext == LowerModuleStep \/ Analyze

SemaSpec == SemaInit /\ [][SemaNext]_semaVars

----------------------------------------------------------------------------
(* Properties. *)

Accepted == fun # 0 /\ Going(sema) /\ sema.errors = 0

(* Whatever was lowered can be analysed: every operand was visited before  *)
(* it is read, every break leaves a block that is open, and the stack of   *)
(* blocks is as it was when an instruction is done.                        *)
Analysed ==
  fun # 0 => /\ ~ sema.panic
             /\ sema.err \in {"", "AnalysisFailed"}
             /\ sema.err = "" => TopBlock(sema) = 1

(* The ways through a body, each with the linear values moved on it and    *)
(* how it ends: "end", "return", "stop", "again" or the block it leaves.   *)
(* A loop is gone through at most once.                                    *)
LinearVars == {i \in DOMAIN sema.code : sema.code[i].op \in {"StackAlloc", "FnArg"} /\ IsLinear(sema.code[i].ty)}

RECURSIVE Var(_)
Var(id) == IF id # 0 /\ sema.code[id].op = "BitCast" THEN Var(sema.code[id].val.id) ELSE id

Way(moved, out) == [moved |-> moved, out |-> out]

RECURSIVE Ways(_), WaysOf(_)
Ways(body) ==
  IF body = <<>> THEN {Way(<<>>, "end")}
  ELSE LET firsts == WaysOf(Head(body))
           rest == IF \E w \in firsts : w.out = "end" THEN Ways(Tail(body)) ELSE {}
       IN  {w \in firsts : w.out # "end"}
             \cup {Way(w.moved \o r.moved, r.out) : w \in {v \in firsts : v.out = "end"}, r \in rest}

WaysOf(i) ==
  LET n == sema.code[i]
      Linear(vs) == SelectSeq(vs, LAMBDA v : Var(v) \in LinearVars)
      Through(body) == {IF w.out = ToString(i) THEN [w EXCEPT !.out = "end"] ELSE w : w \in Ways(body)}
  IN  CASE n.op = "Load"        -> {Way(Linear(<<Var(n.val.id)>>), "end")}
        [] n.op = "FnCall"      -> {Way(Linear([k \in DOMAIN n.args |-> n.args[k].id]), "end")}
        [] n.op = "Return"      -> {Way(<<>>, "return")}
        [] n.op = "Unreachable" -> {Way(<<>>, "stop")}
        [] n.op = "Repeat"      -> {Way(<<>>, "again")}
        [] n.op = "Break"       -> {Way(<<>>, ToString(n.to))}
        [] n.op \in {"Block", "Loop"}    -> Through(n.bodies[1])
        [] n.op \in {"Branch", "Switch"} -> UNION {Ways(n.bodies[k]) : k \in DOMAIN n.bodies}
        [] OTHER                -> {Way(<<>>, "end")}

Moves(way, v) == Len(SelectSeq(way.moved, LAMBDA m : m = v))

(* On no way through an accepted function is a linear value moved twice.   *)
MovedOnce ==
  Accepted => \A w \in Ways(sema.blocks[1].insts) : \A v \in LinearVars : Moves(w, v) <= 1
=============================================================================
