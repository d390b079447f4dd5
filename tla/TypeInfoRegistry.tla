-------------------------- MODULE TypeInfoRegistry --------------------------
(***************************************************************************)
(* The run-time type information of src/src/compile_unit/sema.rs,          *)
(* analyze_type_info, and its readers in src/src/codegen/llvm.rs.          *)
(*                                                                         *)
(* Workers that analyse functions ask for the information of types, for    *)
(* @type_info ("info") and for anyptr ("any").  The information of a type  *)
(* names others by their ids, so a request walks through the types before  *)
(* it registers anything; the work may be done twice, and the sharded map  *)
(* keeps the first.  Meanwhile the code generator lowers the functions     *)
(* that are done, and at the end it writes the table of all entries.       *)
(*                                                                         *)
(* Interning and the arenas are ShardedMap and VirtArena, waiting for the  *)
(* declarations of builtin.Type is SemaJobs; none of them is repeated.     *)
(***************************************************************************)
EXTENDS Naturals, Sequences, SequencesExt, FiniteSets

CONSTANTS
  Types,        \* the types
  Shape,        \* type -> [kind, parts, tag]: element, result or field types
  VoidType,     \* values.common.void_t
  NoType,       \* the type of a field or tag that has none
  ShardOf,      \* type -> its shard in type_to_type_info_id
  Workers,
  Requests      \* worker -> sequence of [use, ty]

VARIABLES
  ids,          \* type_to_type_info_id: type -> id, 0 if it has none
  owner,        \* shard -> the worker that holds its mutex, or Nobody
  entries,      \* type_info_entries; an id is a position
  decls,        \* the declarations made for arrays of fields, by type
  work,         \* worker -> requests that are left
  stack,        \* worker -> the calls of analyze_type_info it is in
  pc,           \* worker -> where the top call is
  seen,         \* <<type, entry>> that @type_info returned
  toLower,      \* worker -> requests the code generator has not met yet
  emitted,      \* <<type, id>> in generated code
  object        \* the table finish() wrote, <<>> before that

vars == <<ids, owner, entries, decls, work, stack, pc, seen, toLower, emitted, object>>

Nobody == "nobody"
None   == [ty |-> NoType, id |-> 0, refs |-> <<>>, decl |-> 0]
Shards == {ShardOf[t] : t \in Types}
Free(t) == owner[ShardOf[t]] = Nobody

----------------------------------------------------------------------------
(* The order in which the information of a type is put together: the types *)
(* it refers to and the declaration of its array of fields.                *)

MakeDecl == "decl"

OrVoid(t) == IF t = NoType THEN VoidType ELSE t

Element(sh) == sh.parts

StructVisits(sh) == sh.parts \o <<MakeDecl>>
EnumVisits(sh)   == <<MakeDecl, sh.tag>>
UnionVisits(sh)  == [k \in DOMAIN sh.parts |-> OrVoid(sh.parts[k])] \o <<MakeDecl, OrVoid(sh.tag)>>

(* Of a function only the result is referred to.                           *)
Visits(t) ==
  LET sh == Shape[t]
  IN  CASE sh.kind = "leaf"                     -> <<>>
        [] sh.kind \in {"ptr", "slice", "array"} -> Element(sh)
        [] sh.kind = "fn"                       -> <<Head(sh.parts)>>
        [] sh.kind = "struct"                   -> StructVisits(sh)
        [] sh.kind = "enum"                     -> EnumVisits(sh)
        [] sh.kind = "union"                    -> UnionVisits(sh)

(* The types that the information of a type names, in the order of its     *)
(* fields in builtin.Type.                                                 *)
Refers(t) ==
  LET sh == Shape[t]
  IN  CASE sh.kind = "leaf"                     -> <<>>
        [] sh.kind \in {"ptr", "slice", "array"} -> sh.parts
        [] sh.kind = "fn"                       -> <<Head(sh.parts)>>
        [] sh.kind = "struct"                   -> sh.parts
        [] sh.kind = "enum"                     -> <<sh.tag>>
        [] sh.kind = "union"                    -> [k \in DOMAIN sh.parts |-> OrVoid(sh.parts[k])] \o <<OrVoid(sh.tag)>>

Kinds == {"leaf", "ptr", "slice", "array", "fn", "struct", "enum", "union"}

(* Only a field of a union and the tag of a union may have no type, and a  *)
(* function has a result, the first of its parts.                          *)
ASSUME RegistryAssumption ==
  /\ VoidType \in Types /\ NoType \notin Types /\ MakeDecl \notin Types
  /\ Nobody \notin Workers
  /\ \A t \in Types :
       /\ Shape[t].kind \in Kinds
       /\ Shape[t].parts \in Seq(Types \cup {NoType})
       /\ Shape[t].tag \in Types \cup {NoType}
       /\ Shape[t].kind # "union" => Shape[t].parts \in Seq(Types)
       /\ Shape[t].kind = "fn" => Shape[t].parts # <<>>
       /\ Shape[t].kind = "enum" => Shape[t].tag \in Types
  /\ Requests \in [Workers -> Seq([use : {"any", "info"}, ty : Types])]

----------------------------------------------------------------------------

Frame(t) == [ty |-> t, at |-> 1, refs |-> <<>>, decl |-> 0, id |-> 0]
Top(w)   == Last(stack[w])
SetTop(w, f) == stack' = [stack EXCEPT ![w] = Append(Front(@), f)]
Goto(w, label) == pc' = [pc EXCEPT ![w] = label]

Init ==
  /\ ids = [t \in Types |-> 0]
  /\ owner = [s \in Shards |-> Nobody]
  /\ entries = <<>> /\ decls = <<>>
  /\ work = Requests /\ toLower = Requests
  /\ stack = [w \in Workers |-> <<>>]
  /\ pc = [w \in Workers |-> "idle"]
  /\ seen = {} /\ emitted = {} /\ object = <<>>

(* AnyptrIs, AnyptrInit and @type_info call analyze_type_info.             *)
Request(w) ==
  /\ pc[w] = "idle" /\ work[w] # <<>>
  /\ stack' = [stack EXCEPT ![w] = <<Frame(Head(work[w]).ty)>>]
  /\ Goto(w, "find")
  /\ UNCHANGED <<ids, owner, entries, decls, work, seen, toLower, emitted, object>>

(* The top call returns an id to the call below it, or to the request,     *)
(* where @type_info reads the entry.                                       *)
Answer(w, id) ==
  LET below == Front(stack[w])
      caller == Last(below)
      request == Head(work[w])
  IN  IF below # <<>>
      THEN /\ stack' = [stack EXCEPT ![w] = Append(Front(below),
                          [caller EXCEPT !.refs = Append(@, id), !.at = @ + 1])]
           /\ Goto(w, "walk")
           /\ UNCHANGED <<work, seen>>
      ELSE /\ stack' = [stack EXCEPT ![w] = <<>>]
           /\ Goto(w, "idle")
           /\ work' = [work EXCEPT ![w] = Tail(@)]
           /\ seen' = IF request.use = "info" THEN seen \cup {<<request.ty, entries[id]>>} ELSE seen

VariantFind(w) ==
  LET t == Top(w).ty
  IN  /\ pc[w] = "find" /\ Free(t)
      /\ IF ids[t] # 0 THEN Answer(w, ids[t]) /\ UNCHANGED owner
         ELSE /\ Goto(w, "walk") /\ UNCHANGED <<stack, work, seen>>
              /\ owner' = [owner EXCEPT ![ShardOf[t]] = w]
      /\ UNCHANGED <<ids, entries, decls, toLower, emitted, object>>

(* The type is looked up under its shard's mutex, which is given back.     *)
Find(w) ==
  LET t == Top(w).ty
  IN  /\ pc[w] = "find" /\ Free(t)
      /\ IF ids[t] # 0 THEN Answer(w, ids[t])
         ELSE Goto(w, "walk") /\ UNCHANGED <<stack, work, seen>>
      /\ UNCHANGED <<ids, owner, entries, decls, toLower, emitted, object>>

(* The next type the information refers to, or its declaration.            *)
Visit(w) ==
  LET f == Top(w)
      next == Visits(f.ty)[f.at]
  IN  /\ pc[w] = "walk" /\ f.at <= Len(Visits(f.ty))
      /\ IF next = MakeDecl
         THEN /\ decls' = Append(decls, f.ty)
              /\ SetTop(w, [f EXCEPT !.decl = Len(decls) + 1, !.at = @ + 1])
              /\ UNCHANGED pc
         ELSE /\ stack' = [stack EXCEPT ![w] = Append(@, Frame(next))]
              /\ Goto(w, "find")
              /\ UNCHANGED decls
      /\ UNCHANGED <<ids, owner, entries, work, seen, toLower, emitted, object>>

VariantEnter(w) ==
  LET t == Top(w).ty
  IN  /\ pc[w] = "walk" /\ Top(w).at > Len(Visits(t)) /\ Free(t)
      /\ owner' = [owner EXCEPT ![ShardOf[t]] = w]
      /\ Goto(w, "reserve")
      /\ UNCHANGED <<ids, entries, decls, work, stack, seen, toLower, emitted, object>>

(* entry(): a type another worker registered in the meantime is kept, a    *)
(* vacant entry keeps the mutex.                                           *)
Enter(w) ==
  LET t == Top(w).ty
  IN  /\ pc[w] = "walk" /\ Top(w).at > Len(Visits(t)) /\ Free(t)
      /\ IF ids[t] # 0 THEN Answer(w, ids[t]) /\ UNCHANGED owner
         ELSE /\ owner' = [owner EXCEPT ![ShardOf[t]] = w]
              /\ Goto(w, "reserve")
              /\ UNCHANGED <<work, stack, seen>>
      /\ UNCHANGED <<ids, entries, decls, toLower, emitted, object>>

(* or_insert_with: the id is the position of an entry that is still NONE.  *)
Reserve(w) ==
  /\ pc[w] = "reserve"
  /\ entries' = Append(entries, None)
  /\ SetTop(w, [Top(w) EXCEPT !.id = Len(entries) + 1])
  /\ Goto(w, "fill")
  /\ UNCHANGED <<ids, owner, decls, work, seen, toLower, emitted, object>>

Info(f) == [ty |-> f.ty, id |-> f.id, refs |-> f.refs, decl |-> f.decl]

(* replace(): the entry now has the information.                           *)
Fill(w) ==
  /\ pc[w] = "fill"
  /\ entries' = [entries EXCEPT ![Top(w).id] = Info(Top(w))]
  /\ Goto(w, "insert")
  /\ UNCHANGED <<ids, owner, decls, work, stack, seen, toLower, emitted, object>>

(* The id is inserted, the mutex given back, and the call returns.         *)
Insert(w) ==
  LET f == Top(w)
  IN  /\ pc[w] = "insert"
      /\ ids' = [ids EXCEPT ![f.ty] = f.id]
      /\ owner' = [owner EXCEPT ![ShardOf[f.ty]] = Nobody]
      /\ Answer(w, f.id)
      /\ UNCHANGED <<entries, decls, toLower, emitted, object>>

(* The code generator meets the next request of a function that is         *)
(* analysed: an anyptr has the type's id.  One that is missing ends the    *)
(* compiler (expect), so no step is taken from there.                      *)
LowerAny(w) ==
  LET t == Head(toLower[w]).ty
  IN  /\ pc[w] = "idle" /\ work[w] = <<>> /\ toLower[w] # <<>>
      /\ IF Head(toLower[w]).use = "any"
         THEN /\ Free(t) /\ ids[t] # 0
              /\ emitted' = emitted \cup {<<t, ids[t]>>}
         ELSE UNCHANGED emitted
      /\ toLower' = [toLower EXCEPT ![w] = Tail(@)]
      /\ UNCHANGED <<ids, owner, entries, decls, work, stack, pc, seen, object>>

(* finish(): once all is analysed and lowered.                             *)
Finish ==
  /\ \A w \in Workers : pc[w] = "idle" /\ work[w] = <<>> /\ toLower[w] = <<>>
  /\ object = <<>> /\ entries # <<>>
  /\ object' = entries
  /\ UNCHANGED <<ids, owner, entries, decls, work, stack, pc, seen, toLower, emitted>>

Analyze(w) ==
  Request(w) \/ Find(w) \/ Visit(w) \/ Enter(w) \/ Reserve(w) \/ Fill(w) \/ Insert(w)

Next == (\E w \in Workers : Analyze(w) \/ LowerAny(w)) \/ Finish

(* Workers are threads, and the main thread lowers what is done.           *)
Fairness ==
  /\ \A w \in Workers : WF_vars(Analyze(w)) /\ WF_vars(LowerAny(w))
  /\ WF_vars(Finish)

Spec == Init /\ [][Next]_vars /\ Fairness

----------------------------------------------------------------------------
(* Properties. *)

(* An entry is the information of a type, under the id of that type, and   *)
(* names each type it refers to by the id that type has for everyone.      *)
Follows(t, e) ==
  /\ e # None
  /\ e.ty = t /\ e.id = ids[t]
  /\ e.refs = [k \in DOMAIN Refers(t) |-> ids[Refers(t)[k]]]
  /\ MakeDecl \in ToSet(Visits(t)) => e.decl # 0 /\ decls[e.decl] = t

(* Whatever order workers register types in, an id that can be looked up   *)
(* leads to information that is complete and that the program can follow   *)
(* to any depth, @type_info never returned another, and an id in generated *)
(* code is the one in the table of the object, which has no empty entry.   *)
TypeInfoFollows ==
  /\ \A t \in Types : ids[t] # 0 => Follows(t, entries[ids[t]])
  /\ \A p \in seen : Follows(p[1], p[2])
  /\ \A p \in emitted : p[2] = ids[p[1]]
  /\ object # <<>> => \A k \in DOMAIN object : object[k] # None /\ Follows(object[k].ty, object[k])

(* Every request for type information returns, every id a function needs   *)
(* is there when it is lowered, and the table is written.                  *)
TableWritten == <>(object # <<>>)
=============================================================================
