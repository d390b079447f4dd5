----------------------------- MODULE FnCodegen ------------------------------
(***************************************************************************)
(* The control flow that src/src/codegen/llvm.rs generates for a function  *)
(* SemaBody accepted: VTIR becomes LLVM basic blocks.  A basic block is    *)
(* the sequence of its instructions: the terminators, the phi that gives a *)
(* block its value, and for the others the VTIR they compute.  Variables   *)
(* live in the entry block and debug locations are no instructions, so     *)
(* neither appears.                                                        *)
(***************************************************************************)
EXTENDS SemaBody

VARIABLE llvm           \* the blocks, the builder and the break lists

genVars == <<module, lowerer, result, fun, sema, llvm>>

(* to: the blocks a jump goes to; of a Switch, where the other values go.  *)
Ins(op, id)     == [op |-> op, id |-> id, val |-> NoValue, to |-> <<>>, cases |-> <<>>, in |-> <<>>]
Br(to)          == [Ins("br", 0) EXCEPT !.to = <<to>>]
IsTerminator(i) == i.op \in {"br", "cond", "switch", "ret", "unreachable"}

Put(g, inst)       == [g EXCEPT !.bbs[g.at] = Append(@, inst)]
NewBlocks(g, n)    == [g EXCEPT !.bbs = @ \o [k \in 1 .. n |-> <<>>]]
Newest(g)          == Len(g.bbs)
PositionAt(g, bb)  == [g EXCEPT !.at = bb]
Terminated(g)      == g.bbs[g.at] # <<>> /\ IsTerminator(Last(g.bbs[g.at]))
Broken(g)          == [g EXCEPT !.panic = TRUE]

(* body is 0 where there is no loop to go back to.                         *)
BreakList(g, id, body, after) ==
  [g EXCEPT !.lists = (id :> [body |-> body, after |-> after, breaks |-> <<>>]) @@ @]

(* A constant; a variant is its tag, an integer as wide as the tag type.   *)
LowerConst(v) ==
  IF Kind[v.ty] = "enum" THEN ToString(TagValue(v) % (2 ^ TagBits(v.ty))) ELSE v.name

RECURSIVE LowerVtirInst(_, _)

(* lower_body *)
LowerVtirBody(g, body) ==
  FoldLeft(LAMBDA acc, id : IF acc.panic THEN acc ELSE LowerVtirInst(acc, id), g, body)

(* The value of a block that was left with values.                         *)
PutPhi(g, id) ==
  LET breaks == g.lists[id].breaks
  IN  IF g.panic \/ sema.code[id].ty = "void" \/ breaks = <<>> THEN g
      ELSE Put(g, [Ins("phi", id) EXCEPT !.in = breaks])

(* lower_block: a body that did not end by itself goes on after the block. *)
VariantLowerVtirBlock(g, id, body) ==
  LET new == NewBlocks(g, 1)
      after == Newest(new)
      done == LowerVtirBody(BreakList(new, id, 0, after), body)
  IN  PutPhi(PositionAt(Put(done, Br(after)), after), id)

LowerVtirBlock(g, id, body) ==
  LET new == NewBlocks(g, 1)
      after == Newest(new)
      done == LowerVtirBody(BreakList(new, id, 0, after), body)
  IN  PutPhi(PositionAt(IF Terminated(done) THEN done ELSE Put(done, Br(after)), after), id)

LowerVtirLoop(g, id, body) ==
  LET head == Newest(g) + 1
      after == head + 1
      entered == NewBlocks(Put(g, Br(head)), 2)
      done == LowerVtirBody(PositionAt(BreakList(entered, id, head, after), head), body)
  IN  PutPhi(PositionAt(done, after), id)

(* A jump to a block that has no list, or back to one that is no loop, is  *)
(* an unwrap of None.                                                      *)
LowerVtirRepeat(g, to) ==
  IF to \in DOMAIN g.lists /\ g.lists[to].body # 0 THEN Put(g, Br(g.lists[to].body)) ELSE Broken(g)

LowerVtirBreak(g, to, v) ==
  LET noted == IF v.ty = "void" THEN g
               ELSE [g EXCEPT !.lists[to].breaks = Append(@, [bb |-> g.at, val |-> v])]
  IN  IF to \in DOMAIN g.lists THEN Put(noted, Br(g.lists[to].after)) ELSE Broken(g)

(* Each body in a block of its own, the first of them in first + 1.        *)
LowerArms(g, first, bodies) ==
  FoldLeft(LAMBDA acc, k : IF acc.panic THEN acc
                           ELSE LowerVtirBody(PositionAt(acc, first + k), bodies[k]),
           g, [k \in DOMAIN bodies |-> k])

LowerVtirBranch(g, n) ==
  LET first == Newest(g)
      jump == [Ins("cond", 0) EXCEPT !.val = n.val, !.to = <<first + 1, first + 2>>]
  IN  LowerArms(Put(NewBlocks(g, 2), jump), first, n.bodies)

(* The block of the else comes first, then one per case.  Without an else  *)
(* it is unreachable, and the code goes on in a block of its own.          *)
SwitchCases(n, first) ==
  FlattenSeq([k \in DOMAIN n.items |->
    [j \in DOMAIN n.items[k] |-> [tag |-> LowerConst(n.items[k][j]), bb |-> first + k]]])

LowerVtirSwitch(g, n) ==
  LET other == Newest(g) + 1
      else == IF Len(n.bodies) > Len(n.items) THEN Last(n.bodies) ELSE <<>>
      jump == [Ins("switch", 0) EXCEPT !.val = n.val, !.to = <<other>>, !.cases = SwitchCases(n, other)]
      arms == LowerArms(Put(NewBlocks(g, 1 + Len(n.items)), jump), other, SubSeq(n.bodies, 1, Len(n.items)))
      stop == NewBlocks(Put(PositionAt(arms, other), Ins("unreachable", 0)), 1)
  IN  IF arms.panic THEN arms
      ELSE IF else = <<>> THEN PositionAt(stop, Newest(stop))
      ELSE LowerVtirBody(PositionAt(arms, other), else)

(* lower_body_inst *)
LowerVtirInst(g, id) ==
  LET n == sema.code[id]
  IN  CASE n.op \in {"Noop", "DbgSrcLoc", "StackAlloc", "FnArg"} -> g
        [] n.op = "StackAllocInferred" -> Broken(g)
        [] n.op = "Block"       -> LowerVtirBlock(g, id, n.bodies[1])
        [] n.op = "Loop"        -> LowerVtirLoop(g, id, n.bodies[1])
        [] n.op = "Repeat"      -> LowerVtirRepeat(g, n.to)
        [] n.op = "Break"       -> LowerVtirBreak(g, n.to, n.val)
        [] n.op = "Branch"      -> LowerVtirBranch(g, n)
        [] n.op = "Switch"      -> LowerVtirSwitch(g, n)
        [] n.op = "Return"      -> Put(g, [Ins("ret", 0) EXCEPT !.val = IF n.val.ty = "void" THEN NoValue ELSE n.val])
        [] n.op = "Unreachable" -> Put(g, Ins("unreachable", 0))
        [] OTHER                -> Put(g, Ins("op", id))

(* lower_fn_body, from the entry block.                                    *)
LowerFnBody(body) ==
  LowerVtirBody([bbs |-> <<<<>>>>, at |-> 1, lists |-> <<>>, panic |-> FALSE], body)

GenInit == SemaInit /\ llvm = <<>>

GenLower   == LowerModuleStep /\ UNCHANGED llvm
GenAnalyze == Analyze /\ UNCHANGED llvm

(* Functions are generated once all of them are analysed without an error. *)
Generate ==
  /\ Accepted /\ llvm = <<>>
  /\ llvm' = LowerFnBody(sema.blocks[1].insts)
  /\ UNCHANGED semaVars

GenNext == GenLower \/ GenAnalyze \/ Generate

GenSpec == GenInit /\ [][GenNext]_genVars

(* An accepted function has code that module.verify takes: every basic     *)
(* block ends with a terminator and has no other, so that control never    *)
(* runs off the end of a function, an arm or a loop and nothing follows a  *)
(* jump; a switch has one case per value; a phi has one value for each     *)
(* block that jumps to its own; and a function that gives a value returns  *)
(* with one.                                                               *)
Targets(i) == ToSet(i.to) \cup {c.bb : c \in ToSet(i.cases)}
Into(k)    == {m \in DOMAIN llvm.bbs : k \in UNION {Targets(i) : i \in ToSet(llvm.bbs[m])}}

WellFormed ==
  llvm # <<>> =>
    /\ ~ llvm.panic
    /\ \A k \in DOMAIN llvm.bbs :
         LET bb == llvm.bbs[k]
         IN  /\ bb # <<>> /\ {m \in DOMAIN bb : IsTerminator(bb[m])} = {Len(bb)}
             /\ \A i \in ToSet(bb) :
                  /\ Cardinality({c.tag : c \in ToSet(i.cases)}) = Len(i.cases)
                  /\ i.op = "phi" => /\ {e.bb : e \in ToSet(i.in)} = Into(k)
                                     /\ Len(i.in) = Cardinality(Into(k))
                  /\ i.op = "ret" => (i.val = NoValue <=> sema.ret = "void")
=============================================================================
