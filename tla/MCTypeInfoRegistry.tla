------------------------ MODULE MCTypeInfoRegistry ------------------------
(***************************************************************************)
(* A struct, a union, an enum and a function type over an integer and a    *)
(* pointer, in two shards; three workers that ask for types which share    *)
(* others.  No type refers to itself.                                      *)
(***************************************************************************)
EXTENDS TypeInfoRegistry

CONSTANTS int, void, ptr, rec, un, en, fn, none, w1, w2, w3

MCTypes == {int, void, ptr, rec, un, en, fn}

Of(kind, parts, tag) == [kind |-> kind, parts |-> parts, tag |-> tag]

MCShape ==
  [t \in MCTypes |->
     CASE t \in {int, void} -> Of("leaf", <<>>, none)
       [] t = ptr -> Of("ptr", <<int>>, none)
       [] t = rec -> Of("struct", <<ptr, int>>, none)
       [] t = un  -> Of("union", <<ptr, none>>, none)
       [] t = en  -> Of("enum", <<>>, int)
       [] t = fn  -> Of("fn", <<en, rec>>, none)]

MCShardOf == [t \in MCTypes |-> IF t \in {int, rec, void} THEN 0 ELSE 1]

Ask(use, t) == [use |-> use, ty |-> t]

MCRequests ==
  [w \in {w1, w2, w3} |->
     CASE w = w1 -> <<Ask("any", rec), Ask("info", un)>>
       [] w = w2 -> <<Ask("info", ptr), Ask("any", rec)>>
       [] w = w3 -> <<Ask("any", fn)>>]
=============================================================================
