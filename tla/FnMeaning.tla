----------------------------- MODULE FnMeaning ------------------------------
(***************************************************************************)
(* What a function does, twice: read off its AST, and off the basic blocks *)
(* that FnCodegen leaves.  A function is run on arguments; what can be     *)
(* seen of it are the calls it makes, with their arguments, and how it     *)
(* ends.  The n-th call gives the value Result(n), whatever its function,  *)
(* and a run is cut when loops have taken Turns turns altogether.          *)
(***************************************************************************)
EXTENDS FnCodegen

Turns == 3

Result(n) == ToString(<<n>>)

(* out: "" while it goes on, then "return", "unreachable", "again" when it *)
(* was cut, or what is wrong.                                              *)
Start == [calls |-> <<>>, turns |-> 0, out |-> "", val |-> "void"]

Called(r, f, args) ==
  [r EXCEPT !.calls = Append(@, <<f, args>>), !.val = Result(Len(r.calls) + 1)]

Seen(r, Repr(_)) ==
  [out |-> r.out, val |-> IF r.out = "return" THEN Repr(r.val) ELSE "",
   calls |-> [k \in DOMAIN r.calls |->
               <<r.calls[k][1], [j \in DOMAIN r.calls[k][2] |-> Repr(r.calls[k][2][j])]>>]]

----------------------------------------------------------------------------
(* The source.  env has the locals, the last one of a name counts; defers  *)
(* has what was deferred, with the number of locals it sees.               *)

AndThen(s, F(_)) == IF s.out = "" THEN F(s) ELSE s
Yields(s, v)     == [s EXCEPT !.val = v]

LastOf(env, name) ==
  LET hits == {k \in DOMAIN env : env[k][1] = name}
  IN  IF hits = {} THEN 0 ELSE CHOOSE k \in hits : \A m \in hits : m <= k

ReadName(s, name) ==
  LET k == LastOf(s.env, name) IN IF k = 0 THEN name ELSE s.env[k][2]

RECURSIVE Eval(_, _)

(* The deferred expressions after the first k, the last one first.         *)
RunDeferred(s, k) ==
  LET One(acc, d) == AndThen(acc, LAMBDA t :
        LET done == Eval([t EXCEPT !.env = SubSeq(@, 1, d.depth)], d.expr)
        IN  [done EXCEPT !.env = @ \o SubSeq(t.env, d.depth + 1, Len(t.env)), !.val = t.val])
  IN  FoldLeft(One, s, Reverse(SubSeq(s.defers, k + 1, Len(s.defers))))

EvalExit(s, e, default, F(_)) ==
  AndThen(IF e = <<>> THEN Yields(s, default) ELSE Eval(s, e), F)

EvalReturn(s, e) ==
  EvalExit(s, e, "none", LAMBDA t : [RunDeferred(t, 0) EXCEPT !.out = IF @ = "" THEN "return" ELSE @])

EvalBreak(s, label, e) ==
  EvalExit(s, e, "void", LAMBDA t : [t EXCEPT !.out = "break", !.label = label])

EvalLet(s, name, e) ==
  AndThen(Eval(s, e), LAMBDA t : [t EXCEPT !.env = Append(@, <<name, t.val>>)])

EvalAssign(s, to, e) ==
  AndThen(Eval(s, e), LAMBDA t :
    IF to[1] = "id" THEN [t EXCEPT !.env[LastOf(t.env, to[2])][2] = t.val] ELSE t)

(* A block that is run to its end runs its defers; one that is left by a   *)
(* break or a continue does not, and a return ran them all.                *)
EvalBlock(s, stmts) ==
  LET ended == FoldLeft(LAMBDA acc, x : AndThen(acc, LAMBDA t : Eval(t, x)), s, stmts)
      done == AndThen(ended, LAMBDA t : Yields(RunDeferred(t, Len(s.defers)), "void"))
  IN  [done EXCEPT !.env = SubSeq(@, 1, Len(s.env)), !.defers = SubSeq(@, 1, Len(s.defers))]

EvalIf(s, cond, then, else) ==
  AndThen(Eval(s, cond), LAMBDA t :
    LET arm == IF t.val = "yes" THEN then ELSE else
    IN  IF arm = <<>> THEN Yields(t, "void") ELSE Eval(t, arm))

Labelled(s, label) ==
  IF s.out = "break" /\ label # "" /\ s.label = label THEN [s EXCEPT !.out = ""] ELSE s

(* A turn of the loop, and the turns after it.                             *)
EvalLoop(s, loop, stmts) ==
  LET done == Eval([s EXCEPT !.turns = @ + 1], <<"blk", stmts>>)
      mine == done.label \in {"", loop[2]}
  IN  IF s.turns = Turns THEN [s EXCEPT !.out = "again"]
      ELSE IF done.out = "" \/ (done.out = "continue" /\ mine)
      THEN Eval([done EXCEPT !.out = ""], loop)
      ELSE IF done.out = "break" /\ mine THEN [done EXCEPT !.out = ""]
      ELSE done

(* A while is a loop that is left, without a value, once its condition     *)
(* does not hold.                                                          *)
WhileBody(cond, stmts) == <<<<"if", cond, <<>>, <<"break", "", <<>>>>>>>> \o stmts

(* The case that has the variant, or the else.                             *)
EvalSwitch(s, on, cases, else) ==
  AndThen(Eval(s, on), LAMBDA t :
    LET hits == SelectSeq(cases, LAMBDA c : \E p \in ToSet(c[1]) : p = <<"id", t.val>>)
        arm == IF hits # <<>> THEN Head(hits)[3] ELSE else
    IN  IF arm = <<>> THEN [t EXCEPT !.out = "unmatched"] ELSE Eval(t, arm))

EvalCall(s, f, args) ==
  LET Arg(acc, e) == IF acc.s.out # "" THEN acc
                     ELSE LET t == Eval(acc.s, e) IN [s |-> t, vals |-> Append(acc.vals, t.val)]
      done == FoldLeft(Arg, [s |-> s, vals |-> <<>>], args)
      called == Called(done.s, f, done.vals)
  IN  IF done.s.out # "" THEN done.s
      ELSE IF Decls[f].ret = "never" THEN [called EXCEPT !.out = "unreachable"]
      ELSE called

Eval(s, e) ==
  CASE e[1] = "lit"      -> Yields(s, "lit")
    [] e[1] = "id"       -> Yields(s, ReadName(s, e[2]))
    [] e[1] = "call"     -> EvalCall(s, e[2][2], e[3])
    [] e[1] = "blk"      -> EvalBlock(s, e[2])
    [] e[1] = "block"    -> Labelled(EvalBlock(s, e[3]), e[2])
    [] e[1] = "loop"     -> EvalLoop(s, e, e[3])
    [] e[1] = "while"    -> EvalLoop(s, e, WhileBody(e[3], e[4]))
    [] e[1] = "if"       -> EvalIf(s, e[2], e[3], e[4])
    [] e[1] = "switch"   -> Labelled(EvalSwitch(s, e[3], e[4], e[5]), e[2])
    [] e[1] = "assign"   -> EvalAssign(s, e[2], e[4])
    [] e[1] = "return"   -> EvalReturn(s, e[2])
    [] e[1] = "break"    -> EvalBreak(s, e[2], e[3])
    [] e[1] = "continue" -> [s EXCEPT !.out = "continue", !.label = e[2]]
    [] e[1] = "defer"    -> [s EXCEPT !.defers = Append(@, [expr |-> e[2], depth |-> Len(s.env)])]
    [] e[1] = "expr"     -> Eval(s, e[2])
    [] e[1] \in {"var", "const", "comptime"} -> EvalLet(s, e[2], e[4])

FnAst == CHOOSE item \in ToSet(module[4]) : item[1] = "fn" /\ item[2] = insts[fun].name

(* A variant stands for its tag in the code.                               *)
Represented(v) ==
  IF v \in DOMAIN Decls /\ Decls[v].ty \in DOMAIN Enums THEN LowerConst(Known(v, Decls[v].ty)) ELSE v

SourceRun(args) ==
  LET env == [k \in DOMAIN args |-> <<FnAst[3][k][1], args[k]>>]
      done == Eval(Start @@ [env |-> env, defers |-> <<>>, label |-> ""], FnAst[6])
      ended == IF done.out = "" THEN [done EXCEPT !.out = "return"] ELSE done
  IN  Seen(IF FnAst[4][2] = "void" THEN Yields(ended, "none") ELSE ended, Represented)

----------------------------------------------------------------------------
(* The code.  env has the values of the instructions, mem the variables.   *)

ReadValue(r, v) ==
  IF IsKnown(v) THEN LowerConst(v) ELSE IF v.id \in DOMAIN r.env THEN r.env[v.id] ELSE "undefined"

ReadMem(r, ptr) ==
  LET var == Var(ptr.id) IN IF var \in DOMAIN r.mem THEN r.mem[var] ELSE "undefined"

Negated(v) == CASE v = "yes" -> "no" [] v = "no" -> "yes" [] OTHER -> v

RunInst(r, i) ==
  LET n == sema.code[i.id]
      Sets(v) == [r EXCEPT !.env = (i.id :> v) @@ @]
      from == SelectSeq(i.in, LAMBDA e : e.bb = r.prev)
      call == Called(r, n.val.name, [k \in DOMAIN n.args |-> ReadValue(r, n.args[k])])
  IN  CASE i.op = "phi"      -> Sets(IF from = <<>> THEN "undefined" ELSE ReadValue(r, from[1].val))
        [] i.op = "op" /\ n.op = "FnCall" -> [call EXCEPT !.env = (i.id :> call.val) @@ @]
        [] i.op = "op" /\ n.op = "Load"   -> Sets(ReadMem(r, n.val))
        [] i.op = "op" /\ n.op = "Store"  -> [r EXCEPT !.mem = (Var(n.to) :> ReadValue(r, n.val)) @@ @]
        [] i.op = "op" /\ n.op = "BitNot" -> Sets(Negated(ReadValue(r, n.val)))
        [] OTHER             -> Sets(ReadValue(r, n.val))

LoopHeads == {llvm.lists[id].body : id \in DOMAIN llvm.lists} \ {0}

JumpTo(r, bb) ==
  IF bb \notin LoopHeads THEN [r EXCEPT !.prev = r.at, !.at = bb]
  ELSE IF r.turns = Turns THEN [r EXCEPT !.out = "again"]
  ELSE [r EXCEPT !.prev = r.at, !.at = bb, !.turns = @ + 1]

RunTerminator(r, i) ==
  LET v == ReadValue(r, i.val)
      case == SelectSeq(i.cases, LAMBDA c : c.tag = v)
  IN  CASE i.op = "br"     -> JumpTo(r, i.to[1])
        [] i.op = "cond"   -> JumpTo(r, i.to[IF v = "yes" THEN 1 ELSE 2])
        [] i.op = "switch" -> JumpTo(r, IF case = <<>> THEN i.to[1] ELSE Head(case).bb)
        [] i.op = "ret"    -> [r EXCEPT !.out = "return", !.val = v]
        [] OTHER           -> [r EXCEPT !.out = "unreachable"]

(* Up to the first terminator of the block, then on from where it goes.    *)
RECURSIVE RunBlocks(_, _)
RunBlocks(r, fuel) ==
  LET bb == llvm.bbs[r.at]
      end == FirstOf(bb, IsTerminator)
  IN  IF r.out # "" THEN r
      ELSE IF end = 0 \/ fuel = 0 THEN [r EXCEPT !.out = "stuck"]
      ELSE RunBlocks(RunTerminator(FoldLeft(RunInst, r, SubSeq(bb, 1, end - 1)), bb[end]), fuel - 1)

(* Between two turns of loops no block is entered twice.                   *)
CodeRun(args) ==
  LET params == insts[fun].bodies[1]
      env == [i \in {sema.map[params[k]].id : k \in DOMAIN params} |->
                Represented(args[CHOOSE k \in DOMAIN params : sema.map[params[k]].id = i])]
  IN  Seen(RunBlocks(Start @@ [env |-> env, mem |-> <<>>, at |-> 1, prev |-> 0],
                     (Turns + 1) * Len(llvm.bbs)), LAMBDA v : v)

----------------------------------------------------------------------------

(* What a parameter may be given: a variant, a truth value or some value.  *)
Given(name, ty) ==
  CASE Kind[ty] = "enum"   -> {Enums[ty].fields[k][1] : k \in DOMAIN Enums[ty].fields}
    [] Kind[ty] = "tagged" -> {Enums[TagTy[ty]].fields[k][1] : k \in DOMAIN Enums[TagTy[ty]].fields}
    [] ty = "bool"         -> {"yes", "no"}
    [] OTHER               -> {name}

Arguments ==
  LET params == FnAst[3]
      given == [k \in DOMAIN params |-> Given(params[k][1], params[k][2][2])]
  IN  {args \in [DOMAIN params -> UNION {given[k] : k \in DOMAIN params}] :
         \A k \in DOMAIN params : args[k] \in given[k]}

(* Whatever its arguments are, the code of an accepted function makes the  *)
(* calls its source makes, in that order and with those arguments, and     *)
(* ends as the source does: the arm a switch or an if takes is the one of  *)
(* the operand's variant, no value is left to a switch's `unreachable`,    *)
(* what a block, a variable or a branch known at compile time gives is     *)
(* what was written, and the defers run where they should.                 *)
BehavesAsSource == llvm # <<>> => \A args \in Arguments : CodeRun(args) = SourceRun(args)
=============================================================================
