------------------------ MODULE TypeInfoRegistryProofs ------------------------
(***************************************************************************)
(* Type information is complete when it can be found, for any types, any   *)
(* number of workers and any requests.  The parts of the invariant are     *)
(* operators of the state they speak of, so that one lemma serves for      *)
(* every step that lets this state grow.                                   *)
(***************************************************************************)
EXTENDS TypeInfoRegistry, SequenceTheorems, TLAPS

Entry  == [ty : Types \cup {NoType}, id : Nat, refs : Seq(Nat), decl : Nat]
Call   == [ty : Types, at : Nat, refs : Seq(Nat), decl : Nat, id : Nat]
Ask    == [use : {"any", "info"}, ty : Types]
Owning == {"fill", "insert"}             \* has reserved an id
Locked == {"reserve"} \cup Owning        \* holds the mutex of the type's shard
Labels == {"idle", "find", "walk"} \cup Locked

TypeOK ==
  /\ ids \in [Types -> Nat]
  /\ owner \in [Shards -> Workers \cup {Nobody}]
  /\ entries \in Seq(Entry)
  /\ decls \in Seq(Types)
  /\ work \in [Workers -> Seq(Ask)]
  /\ toLower \in [Workers -> Seq(Ask)]
  /\ stack \in [Workers -> Seq(Call)]
  /\ pc \in [Workers -> Labels]
  /\ seen \subseteq Types \X Entry
  /\ emitted \subseteq Types \X Nat
  /\ object \in Seq(Entry)

(* Where Visits makes the declaration: after its end if it makes none. *)
DeclAt(t) ==
  CASE Shape[t].kind \in {"struct", "union"} -> Len(Shape[t].parts) + 1
    [] Shape[t].kind = "enum"                -> 1
    [] OTHER                                 -> Len(Visits(t)) + 1

(* How many types come before the i-th place of Visits. *)
RefsBefore(t, i) == IF i > DeclAt(t) THEN i - 2 ELSE i - 1

Named(I, t, id) == id # 0 /\ I[t] = id
DeclOf(D, t, d) == d \in 1 .. Len(D) /\ D[d] = t

(* The information of t is all there, and what it names is registered. *)
Complete(I, D, t, e) ==
  /\ t \in Types
  /\ e.ty = t
  /\ Named(I, t, e.id)
  /\ Len(e.refs) = Len(Refers(t))
  /\ \A k \in 1 .. Len(Refers(t)) : Named(I, Refers(t)[k], e.refs[k])
  /\ DeclAt(t) <= Len(Visits(t)) => DeclOf(D, t, e.decl)

(* A call has the ids of the types it has visited, in order. *)
CallOK(I, D, f) ==
  /\ f.at \in 1 .. Len(Visits(f.ty)) + 1
  /\ Len(f.refs) = RefsBefore(f.ty, f.at)
  /\ \A k \in 1 .. Len(f.refs) : Named(I, Refers(f.ty)[k], f.refs[k])
  /\ f.at > DeclAt(f.ty) => DeclOf(D, f.ty, f.decl)

(* The calls of a worker: each is for the type its caller is at. *)
Nested(I, D, label, calls, asks) ==
  /\ label = "idle" <=> calls = <<>>
  /\ label # "idle" => asks # <<>> /\ calls[1].ty = Head(asks).ty
  /\ \A i \in 1 .. Len(calls) : CallOK(I, D, calls[i])
  /\ \A i \in 1 .. Len(calls) - 1 :
       /\ calls[i].at <= Len(Visits(calls[i].ty))
       /\ Visits(calls[i].ty)[calls[i].at] = calls[i + 1].ty

(* A worker that registers a type holds its mutex. *)
Registers(w, I, O, E, label, f) ==
  /\ label \in Locked =>
       /\ f.at = Len(Visits(f.ty)) + 1
       /\ O[ShardOf[f.ty]] = w
       /\ I[f.ty] = 0
  /\ label \in Owning => f.id \in 1 .. Len(E)
  /\ label = "insert" => E[f.id] = Info(f)

WorkersOK ==
  \A w \in Workers :
    /\ Nested(ids, decls, pc[w], stack[w], work[w])
    /\ Registers(w, ids, owner, entries, pc[w], Top(w))

(* An id that is reserved belongs to one worker and to no type yet. *)
ReservedAlone ==
  \A w \in Workers : pc[w] \in Owning =>
    /\ \A u \in Workers : u # w /\ pc[u] \in Owning => Top(u).id # Top(w).id
    /\ \A t \in Types : ids[t] # Top(w).id

(* An entry is registered, or some worker is about to register it. *)
Covered ==
  \A k \in 1 .. Len(entries) :
    \/ \E t \in Types : ids[t] = k
    \/ \E w \in Workers : pc[w] \in Owning /\ Top(w).id = k

Registered ==
  \A t \in Types : ids[t] # 0 =>
    ids[t] \in 1 .. Len(entries) /\ Complete(ids, decls, t, entries[ids[t]])

(* What was given to the program and to the object. *)
Returned ==
  /\ \A p \in seen : Complete(ids, decls, p[1], p[2])
  /\ \A p \in emitted : Named(ids, p[1], p[2])
  /\ \A k \in 1 .. Len(object) : Complete(ids, decls, object[k].ty, object[k])

IInv ==
  /\ TypeOK
  /\ WorkersOK
  /\ ReservedAlone
  /\ Covered
  /\ Registered
  /\ Returned
-------------------------------------------------------------------------------
(* Sequences. *)

(* The first n elements of a sequence. *)
LEMMA Prefix ==
  ASSUME NEW S, NEW s \in Seq(S), NEW n \in Nat, n <= Len(s)
  PROVE  /\ SubSeq(s, 1, n) \in Seq(S)
         /\ Len(SubSeq(s, 1, n)) = n
         /\ \A i \in 1 .. n : SubSeq(s, 1, n)[i] = s[i]
<1>1. SubSeq(s, 1, n) \in Seq(S)
  OBVIOUS
<1>2. Len(SubSeq(s, 1, n)) = n
  OBVIOUS
<1>3. ASSUME NEW i \in 1 .. n PROVE SubSeq(s, 1, n)[i] = s[i]
  OBVIOUS
<1>. QED
  BY <1>1, <1>2, <1>3

(* A sequence without its last element. *)
LEMMA FrontLast ==
  ASSUME NEW S, NEW s \in Seq(S), s # <<>>
  PROVE  /\ Len(s) \in Nat /\ Len(s) >= 1
         /\ Last(s) = s[Len(s)] /\ Last(s) \in S
         /\ Front(s) \in Seq(S) /\ Len(Front(s)) = Len(s) - 1
         /\ \A i \in 1 .. Len(s) - 1 : Front(s)[i] = s[i]
<1>1. Len(s) \in Nat /\ Len(s) >= 1 /\ Len(s) - 1 \in Nat /\ Len(s) - 1 <= Len(s)
  BY LenProperties, EmptySeq
<1>2. Last(s) = s[Len(s)] /\ s[Len(s)] \in S
  BY <1>1, ElementOfSeq DEF Last
<1>3. Front(s) \in Seq(S)
  BY <1>1, Prefix DEF Front
<1>4. Len(Front(s)) = Len(s) - 1
  BY <1>1, Prefix DEF Front
<1>5. \A i \in 1 .. Len(s) - 1 : Front(s)[i] = s[i]
  BY <1>1, Prefix DEF Front
<1>. QED
  BY <1>1, <1>2, <1>3, <1>4, <1>5

(* One or two elements put after a sequence. *)
LEMMA Trailing ==
  ASSUME NEW S, NEW s \in Seq(S), NEW a, NEW b
  PROVE  /\ Len(s) \in Nat
         /\ Len(s \o <<a>>) = Len(s) + 1
         /\ (s \o <<a>>)[Len(s) + 1] = a
         /\ \A i \in 1 .. Len(s) : (s \o <<a>>)[i] = s[i]
         /\ a \in S => s \o <<a>> \in Seq(S)
         /\ Len(s \o <<a, b>>) = Len(s) + 2
         /\ (s \o <<a, b>>)[Len(s) + 1] = a
         /\ (s \o <<a, b>>)[Len(s) + 2] = b
         /\ \A i \in 1 .. Len(s) : (s \o <<a, b>>)[i] = s[i]
<1>. DEFINE A == S \cup {a, b}
<1>1. Len(s) \in Nat /\ s \in Seq(A) /\ <<a>> \in Seq(A) /\ <<a, b>> \in Seq(A)
      /\ Len(<<a>>) = 1 /\ Len(<<a, b>>) = 2
  BY LenProperties
<1>2. /\ Len(s \o <<a>>) = Len(s) + Len(<<a>>)
      /\ \A i \in 1 .. Len(s) + Len(<<a>>) :
           (s \o <<a>>)[i] = IF i <= Len(s) THEN s[i] ELSE <<a>>[i - Len(s)]
  BY <1>1, ConcatProperties
<1>3. /\ Len(s \o <<a, b>>) = Len(s) + Len(<<a, b>>)
      /\ \A i \in 1 .. Len(s) + Len(<<a, b>>) :
           (s \o <<a, b>>)[i] = IF i <= Len(s) THEN s[i] ELSE <<a, b>>[i - Len(s)]
  BY <1>1, ConcatProperties
<1>4. a \in S => s \o <<a>> \in Seq(S)
  BY ConcatProperties
<1>5. Len(s \o <<a>>) = Len(s) + 1 /\ Len(s \o <<a, b>>) = Len(s) + 2
  BY <1>1, <1>2, <1>3
<1>6. (s \o <<a>>)[Len(s) + 1] = a /\ \A i \in 1 .. Len(s) : (s \o <<a>>)[i] = s[i]
  BY <1>1, <1>2
<1>7. /\ (s \o <<a, b>>)[Len(s) + 1] = a /\ (s \o <<a, b>>)[Len(s) + 2] = b
      /\ \A i \in 1 .. Len(s) : (s \o <<a, b>>)[i] = s[i]
  BY <1>1, <1>3
<1>. QED
  BY <1>1, <1>4, <1>5, <1>6, <1>7

(* A sequence with another last element. *)
LEMMA ReplaceLast ==
  ASSUME NEW S, NEW s \in Seq(S), s # <<>>, NEW f \in S
  PROVE  LET r == Append(Front(s), f)
         IN  /\ r \in Seq(S) /\ Len(r) = Len(s) /\ r # <<>>
             /\ r[Len(s)] = f /\ Last(r) = f
             /\ \A i \in 1 .. Len(s) - 1 : r[i] = s[i]
<1>. DEFINE r == Append(Front(s), f)
            g == Front(s)
<1>1. Len(s) \in Nat /\ Len(s) >= 1 /\ g \in Seq(S) /\ Len(g) = Len(s) - 1
      /\ \A i \in 1 .. Len(s) - 1 : g[i] = s[i]
  BY FrontLast
<1>2. r \in Seq(S) /\ Len(r) = Len(g) + 1 /\ r[Len(g) + 1] = f /\ \A i \in 1 .. Len(g) : r[i] = g[i]
  <2>1. r = Append(g, f)
    OBVIOUS
  <2>. HIDE DEF r, g
  <2>. QED
    BY <1>1, <2>1, AppendProperties
<1>. HIDE DEF r, g
<1>3. Len(r) = Len(s) /\ r[Len(s)] = f /\ \A i \in 1 .. Len(s) - 1 : r[i] = s[i]
  BY <1>1, <1>2
<1>4. r # <<>>
  BY <1>1, <1>3
<1>5. Last(r) = f
  BY <1>3 DEF Last
<1>. QED
  BY <1>2, <1>3, <1>4, <1>5 DEF r
-------------------------------------------------------------------------------
(* The walk through the parts of a type meets the types it refers to, in   *)
(* order, and makes the declaration once.                                  *)
LEMMA VisitFacts ==
  ASSUME NEW t \in Types
  PROVE  /\ Len(Visits(t)) \in Nat
         /\ Refers(t) \in Seq(Types) /\ Len(Refers(t)) \in Nat
         /\ DeclAt(t) \in 1 .. Len(Visits(t)) + 1
         /\ RefsBefore(t, Len(Visits(t)) + 1) = Len(Refers(t))
         /\ \A i \in 1 .. Len(Visits(t)) :
              /\ i = DeclAt(t) <=> Visits(t)[i] = MakeDecl
              /\ i # DeclAt(t) =>
                   /\ Visits(t)[i] \in Types
                   /\ RefsBefore(t, i) + 1 \in 1 .. Len(Refers(t))
                   /\ Refers(t)[RefsBefore(t, i) + 1] = Visits(t)[i]
         /\ MakeDecl \in ToSet(Visits(t)) => DeclAt(t) <= Len(Visits(t))
<1>. DEFINE sh == Shape[t]
            parts == sh.parts
            n == Len(parts)
<1>1. /\ sh.kind \in Kinds
      /\ parts \in Seq(Types \cup {NoType})
      /\ sh.tag \in Types \cup {NoType}
      /\ sh.kind # "union" => parts \in Seq(Types)
      /\ sh.kind = "fn" => parts # <<>>
      /\ sh.kind = "enum" => sh.tag \in Types
      /\ MakeDecl \notin Types /\ VoidType \in Types /\ NoType \notin Types
      /\ n \in Nat
  BY RegistryAssumption, LenProperties
<1>2. CASE sh.kind = "leaf"
  BY <1>1, <1>2 DEF Visits, Refers, DeclAt, RefsBefore, ToSet
<1>3. CASE sh.kind \in {"ptr", "slice", "array"}
  <2>1. Visits(t) = parts /\ Refers(t) = parts /\ DeclAt(t) = n + 1
    BY <1>3 DEF Visits, Refers, DeclAt, Element
  <2>2. parts \in Seq(Types) /\ \A i \in 1 .. n : parts[i] \in Types
    BY <1>1, <1>3, ElementOfSeq
  <2>. HIDE DEF parts
  <2>. QED
    BY <1>1, <2>1, <2>2 DEF RefsBefore, ToSet
<1>4. CASE sh.kind = "fn"
  <2>1. Visits(t) = <<Head(parts)>> /\ Refers(t) = <<Head(parts)>> /\ DeclAt(t) = 2
    BY <1>4 DEF Visits, Refers, DeclAt
  <2>2. Head(parts) \in Types
    BY <1>1, <1>4, HeadTailProperties
  <2>. HIDE DEF parts
  <2>. QED
    BY <1>1, <2>1, <2>2 DEF RefsBefore, ToSet
<1>5. CASE sh.kind = "struct"
  <2>1. Visits(t) = parts \o <<MakeDecl>> /\ Refers(t) = parts /\ DeclAt(t) = n + 1
    BY <1>5 DEF Visits, Refers, DeclAt, StructVisits
  <2>2. parts \in Seq(Types) /\ \A i \in 1 .. n : parts[i] \in Types
    BY <1>1, <1>5, ElementOfSeq
  <2>. HIDE DEF parts
  <2>3. /\ Len(Visits(t)) = n + 1 /\ Visits(t)[n + 1] = MakeDecl
        /\ \A i \in 1 .. n : Visits(t)[i] = parts[i]
    BY <1>1, <2>1, <2>2
  <2>. QED
    BY <1>1, <2>1, <2>2, <2>3 DEF RefsBefore
<1>6. CASE sh.kind = "enum"
  <2>1. Visits(t) = <<MakeDecl, sh.tag>> /\ Refers(t) = <<sh.tag>> /\ DeclAt(t) = 1
    BY <1>6 DEF Visits, Refers, DeclAt, EnumVisits
  <2>2. sh.tag \in Types
    BY <1>1, <1>6
  <2>. HIDE DEF sh
  <2>. QED
    BY <1>1, <2>1, <2>2 DEF RefsBefore
<1>7. CASE sh.kind = "union"
  <2>. DEFINE os == [k \in DOMAIN parts |-> OrVoid(parts[k])]
              tag == OrVoid(sh.tag)
  <2>1. /\ Visits(t) = os \o <<MakeDecl, tag>>
        /\ Refers(t) = os \o <<tag>>
        /\ DeclAt(t) = n + 1
    BY <1>7 DEF Visits, Refers, DeclAt, UnionVisits
  <2>2. os \in Seq(Types) /\ Len(os) = n /\ \A i \in 1 .. n : os[i] \in Types
    <3>1. \A i \in 1 .. n : parts[i] \in Types \cup {NoType}
      BY <1>1, ElementOfSeq
    <3>2. DOMAIN parts = 1 .. n
      BY <1>1
    <3>. HIDE DEF parts
    <3>. QED
      BY <1>1, <3>1, <3>2 DEF OrVoid
  <2>3. tag \in Types
    BY <1>1 DEF OrVoid
  <2>. HIDE DEF parts, os, tag, n, sh
  <2>4. /\ Len(Visits(t)) = n + 2 /\ Visits(t)[n + 1] = MakeDecl /\ Visits(t)[n + 2] = tag
        /\ \A i \in 1 .. n : Visits(t)[i] = os[i]
    BY <2>1, <2>2, Trailing
  <2>5. /\ Refers(t) \in Seq(Types) /\ Len(Refers(t)) = n + 1 /\ Refers(t)[n + 1] = tag
        /\ \A i \in 1 .. n : Refers(t)[i] = os[i]
    BY <2>1, <2>2, <2>3, Trailing
  <2>. QED
    BY <1>1, <2>1, <2>2, <2>3, <2>4, <2>5 DEF RefsBefore
<1>. QED
  BY <1>1, <1>2, <1>3, <1>4, <1>5, <1>6, <1>7 DEF Kinds
-------------------------------------------------------------------------------
(* What holds of the ids and the declarations still holds when there are   *)
(* more of them.                                                           *)
Grows(I, J)   == \A t \in Types : I[t] # 0 => J[t] = I[t]
Extends(D, E) == /\ Len(D) \in Nat /\ Len(E) \in Nat /\ Len(D) <= Len(E)
                 /\ \A d \in 1 .. Len(D) : E[d] = D[d]

(* Complete information stays complete. *)
LEMMA CompleteGrows ==
  ASSUME NEW I, NEW J, NEW D, NEW E, Grows(I, J), Extends(D, E),
         NEW t, NEW e, Complete(I, D, t, e)
  PROVE  Complete(J, E, t, e)
<1>1. t \in Types /\ e.ty = t /\ Len(e.refs) = Len(Refers(t))
  BY DEF Complete
<1>2. Named(J, t, e.id)
  BY <1>1 DEF Complete, Named, Grows
<1>3. ASSUME NEW k \in 1 .. Len(Refers(t)) PROVE Named(J, Refers(t)[k], e.refs[k])
  BY <1>1, VisitFacts, ElementOfSeq DEF Complete, Named, Grows
<1>4. DeclAt(t) <= Len(Visits(t)) => DeclOf(E, t, e.decl)
  BY DEF Complete, DeclOf, Extends
<1>. QED
  BY <1>1, <1>2, <1>3, <1>4 DEF Complete

(* What a call has visited stays registered. *)
LEMMA CallGrows ==
  ASSUME NEW I, NEW J, NEW D, NEW E, Grows(I, J), Extends(D, E),
         NEW f \in Call, CallOK(I, D, f)
  PROVE  CallOK(J, E, f)
<1>1. f.ty \in Types /\ f.refs \in Seq(Nat) /\ f.at \in Nat
  BY DEF Call
<1>2. Len(f.refs) \in Nat /\ Len(f.refs) <= Len(Refers(f.ty))
  BY <1>1, VisitFacts, LenProperties, SMTT(60) DEF CallOK, RefsBefore
<1>3. ASSUME NEW k \in 1 .. Len(f.refs) PROVE Named(J, Refers(f.ty)[k], f.refs[k])
  <2>1. Refers(f.ty)[k] \in Types
    BY <1>1, <1>2, VisitFacts, ElementOfSeq
  <2>. QED
    BY <2>1 DEF CallOK, Named, Grows
<1>4. f.at > DeclAt(f.ty) => DeclOf(E, f.ty, f.decl)
  BY DEF CallOK, DeclOf, Extends
<1>. QED
  BY <1>3, <1>4 DEF CallOK

(* So do the calls of a worker. *)
LEMMA NestedGrows ==
  ASSUME NEW I, NEW J, NEW D, NEW E, Grows(I, J), Extends(D, E),
         NEW label, NEW calls \in Seq(Call), NEW asks,
         Nested(I, D, label, calls, asks)
  PROVE  Nested(J, E, label, calls, asks)
<1>1. ASSUME NEW i \in 1 .. Len(calls) PROVE CallOK(J, E, calls[i])
  <2>1. calls[i] \in Call
    BY ElementOfSeq
  <2>. QED
    BY <2>1, CallGrows DEF Nested
<1>. QED
  BY <1>1 DEF Nested

(* The state a step of w shares with the other workers: it may add ids of  *)
(* types whose mutex it holds, add entries, fill the one it reserved, take *)
(* a free mutex and give back its own.                                     *)
StepOf(w) ==
  /\ TypeOK'
  /\ Grows(ids, ids')
  /\ Extends(decls, decls')
  /\ \A t \in Types : ids'[t] # ids[t] => owner[ShardOf[t]] = w
  /\ Len(entries) <= Len(entries')
  /\ \A k \in 1 .. Len(entries) :
       entries'[k] # entries[k] => pc[w] = "fill" /\ k = Top(w).id
  /\ \A u \in Workers \ {w} :
       /\ pc'[u] = pc[u] /\ stack'[u] = stack[u] /\ work'[u] = work[u]
       /\ \A s \in Shards : owner[s] = u => owner'[s] = u

(* A step of one worker leaves the others as they are. *)
LEMMA OthersKept ==
  ASSUME IInv, NEW w \in Workers, StepOf(w), NEW u \in Workers, u # w
  PROVE  /\ Nested(ids, decls, pc[u], stack[u], work[u])'
         /\ Registers(u, ids, owner, entries, pc[u], Top(u))'
<1>1. /\ pc'[u] = pc[u] /\ stack'[u] = stack[u] /\ work'[u] = work[u]
      /\ stack[u] \in Seq(Call) /\ Top(u)' = Top(u)
  BY DEF StepOf, IInv, TypeOK, Top
<1>2. /\ Nested(ids, decls, pc[u], stack[u], work[u])
      /\ Registers(u, ids, owner, entries, pc[u], Top(u))
  BY DEF IInv, WorkersOK
<1>3. Nested(ids', decls', pc[u], stack[u], work[u])
  BY <1>1, <1>2, NestedGrows DEF StepOf
<1>4. ASSUME pc[u] \in Locked
      PROVE  /\ Top(u).ty \in Types
             /\ owner'[ShardOf[Top(u).ty]] = u
             /\ ids'[Top(u).ty] = 0
  <2>1. stack[u] # <<>>
    BY <1>2, <1>4 DEF Nested, Locked, Owning
  <2>2. Top(u) \in Call
    BY <1>1, <2>1, FrontLast DEF Top
  <2>3. Top(u).ty \in Types /\ ShardOf[Top(u).ty] \in Shards
    BY <2>2 DEF Call, Shards
  <2>. QED
    BY <1>2, <1>4, <2>3 DEF Registers, StepOf
<1>5. ASSUME pc[u] \in Owning PROVE Top(u).id \in 1 .. Len(entries')
  BY <1>2, <1>5, LenProperties, SMTT(60) DEF Registers, StepOf, IInv, TypeOK
<1>6. ASSUME pc[u] = "insert" PROVE entries'[Top(u).id] = Info(Top(u))
  <2>1. pc[u] \in Owning
    BY <1>6 DEF Owning
  <2>2. pc[w] = "fill" => Top(w).id # Top(u).id
    BY <2>1 DEF IInv, ReservedAlone, Owning
  <2>. QED
    BY <1>2, <1>6, <2>1, <2>2 DEF Registers, StepOf
<1>7. Registers(u, ids', owner', entries', pc[u], Top(u))
  BY <1>2, <1>4, <1>5, <1>6 DEF Registers
<1>. QED
  BY <1>1, <1>3, <1>7

(* The top call of a worker that is not idle. *)
LEMMA TopCall ==
  ASSUME IInv, NEW w \in Workers, pc[w] # "idle"
  PROVE  /\ stack[w] \in Seq(Call) /\ stack[w] # <<>>
         /\ Len(stack[w]) \in Nat /\ Len(stack[w]) >= 1
         /\ Top(w) = stack[w][Len(stack[w])]
         /\ Top(w) \in Call /\ Top(w).ty \in Types
         /\ CallOK(ids, decls, Top(w))
         /\ work[w] \in Seq(Ask) /\ work[w] # <<>>
<1>1. Nested(ids, decls, pc[w], stack[w], work[w])
  BY DEF IInv, WorkersOK
<1>2. stack[w] \in Seq(Call) /\ stack[w] # <<>> /\ work[w] \in Seq(Ask) /\ work[w] # <<>>
  BY <1>1 DEF Nested, IInv, TypeOK
<1>3. /\ Len(stack[w]) \in Nat /\ Len(stack[w]) >= 1
      /\ Top(w) = stack[w][Len(stack[w])] /\ Top(w) \in Call
  BY <1>2, FrontLast DEF Top
<1>4. CallOK(ids, decls, Top(w))
  BY <1>1, <1>3 DEF Nested
<1>. QED
  BY <1>2, <1>3, <1>4 DEF Call

(* A call that gets the id of the type it is at has one more reference. *)
Advance(f, id) == [f EXCEPT !.refs = Append(@, id), !.at = @ + 1]

(* A call at its next place. *)
LEMMA CallAdvances ==
  ASSUME NEW I, NEW D, NEW f \in Call, CallOK(I, D, f),
         f.at <= Len(Visits(f.ty)), Visits(f.ty)[f.at] \in Types,
         NEW id \in Nat, Named(I, Visits(f.ty)[f.at], id)
  PROVE  /\ Advance(f, id) \in Call /\ Advance(f, id).ty = f.ty
         /\ CallOK(I, D, Advance(f, id))
<1>. DEFINE g == [f EXCEPT !.refs = Append(@, id), !.at = @ + 1]
            t == f.ty
            n == Len(f.refs)
<1>1. t \in Types /\ f.refs \in Seq(Nat) /\ f.at \in Nat /\ f.decl \in Nat /\ f.id \in Nat
  BY DEF Call
<1>2. /\ Append(f.refs, id) \in Seq(Nat) /\ n \in Nat
      /\ Len(Append(f.refs, id)) = n + 1 /\ Append(f.refs, id)[n + 1] = id
      /\ \A k \in 1 .. n : Append(f.refs, id)[k] = f.refs[k]
  BY <1>1, AppendProperties, LenProperties
<1>3. /\ g.ty = t /\ g.at = f.at + 1 /\ g.decl = f.decl /\ g.id = f.id
      /\ g.refs = Append(f.refs, id)
  BY DEF Call
<1>4. g \in Call
  <2>1. \A r \in Seq(Nat), a \in Nat : [f EXCEPT !.refs = r, !.at = a] \in Call
    BY DEF Call
  <2>2. f.at + 1 \in Nat
    BY <1>1
  <2>. QED
    BY <1>2, <2>1, <2>2
<1>5. f.at \in 1 .. Len(Visits(t)) /\ f.at # DeclAt(t)
  BY <1>1, VisitFacts, RegistryAssumption, SMTT(60) DEF CallOK
<1>6. /\ RefsBefore(t, f.at + 1) = n + 1
      /\ Refers(t)[n + 1] = Visits(t)[f.at]
      /\ f.at + 1 > DeclAt(t) => f.at > DeclAt(t)
      /\ f.at + 1 \in 1 .. Len(Visits(t)) + 1
  <2>1. DeclAt(t) \in Nat /\ Len(Visits(t)) \in Nat
    BY <1>1, VisitFacts
  <2>2. n = RefsBefore(t, f.at)
    BY DEF CallOK
  <2>3. Refers(t)[RefsBefore(t, f.at) + 1] = Visits(t)[f.at]
    BY <1>1, <1>5, VisitFacts
  <2>4. RefsBefore(t, f.at + 1) = RefsBefore(t, f.at) + 1
    BY <1>1, <1>5, <2>1 DEF RefsBefore
  <2>5. f.at + 1 > DeclAt(t) => f.at > DeclAt(t)
    BY <1>1, <1>5, <2>1
  <2>6. f.at + 1 \in 1 .. Len(Visits(t)) + 1
    BY <1>1, <1>5, <2>1
  <2>. QED
    BY <2>2, <2>3, <2>4, <2>5, <2>6
<1>. HIDE DEF g
<1>7. ASSUME NEW k \in 1 .. n + 1 PROVE Named(I, Refers(t)[k], g.refs[k])
  BY <1>2, <1>3, <1>6 DEF CallOK
<1>. HIDE DEF t
<1>8. CallOK(I, D, g)
  BY <1>2, <1>3, <1>6, <1>7 DEF CallOK, t
<1>. QED
  BY <1>3, <1>4, <1>8 DEF Advance, g, t

(* The answer to a call goes to its caller, or ends the request. *)
LEMMA AnswerKeeps ==
  ASSUME IInv, NEW w \in Workers, pc[w] # "idle", NEW I, Grows(ids, I),
         NEW id \in 1 .. Len(entries), Named(I, Top(w).ty, id), Answer(w, id)
  PROVE  /\ stack' \in [Workers -> Seq(Call)]
         /\ pc' \in [Workers -> Labels] /\ pc'[w] \in {"idle", "walk"}
         /\ work' \in [Workers -> Seq(Ask)]
         /\ \A u \in Workers \ {w} :
              pc'[u] = pc[u] /\ stack'[u] = stack[u] /\ work'[u] = work[u]
         /\ seen' \subseteq seen \cup {<<Top(w).ty, entries[id]>>}
         /\ Nested(I, decls, pc'[w], stack'[w], work'[w])
<1>. DEFINE s == stack[w]
            n == Len(s)
            below == Front(s)
            caller == Last(below)
            g == Advance(caller, id)
<1>1. /\ s \in Seq(Call) /\ s # <<>> /\ n \in Nat /\ n >= 1
      /\ Top(w) = s[n] /\ Top(w).ty \in Types
      /\ work[w] \in Seq(Ask) /\ work[w] # <<>>
  BY TopCall
<1>2. Nested(I, decls, pc[w], s, work[w])
  <2>1. Extends(decls, decls)
    BY LenProperties DEF Extends, IInv, TypeOK
  <2>. QED
    BY <1>1, <2>1, NestedGrows DEF IInv, WorkersOK
<1>3. /\ below \in Seq(Call) /\ Len(below) = n - 1
      /\ \A i \in 1 .. n - 1 : below[i] = s[i]
  BY <1>1, FrontLast
<1>4. /\ stack \in [Workers -> Seq(Call)] /\ pc \in [Workers -> Labels]
      /\ work \in [Workers -> Seq(Ask)]
  BY DEF IInv, TypeOK
<1>5. CASE below # <<>>
  <2>1. /\ n - 1 \in 1 .. n - 1 /\ caller = s[n - 1] /\ caller \in Call
    BY <1>1, <1>3, <1>5, FrontLast
  <2>2. /\ CallOK(I, decls, caller)
        /\ caller.at <= Len(Visits(caller.ty))
        /\ Visits(caller.ty)[caller.at] = Top(w).ty
    <3>1. n - 1 \in 1 .. Len(s) /\ n - 1 \in 1 .. Len(s) - 1 /\ n - 1 + 1 = n
      BY <1>1, <2>1
    <3>2. Visits(s[n - 1].ty)[s[n - 1].at] = s[n - 1 + 1].ty /\ s[n - 1].at <= Len(Visits(s[n - 1].ty))
      BY <1>2, <3>1 DEF Nested
    <3>3. CallOK(I, decls, s[n - 1])
      BY <1>2, <3>1 DEF Nested
    <3>. QED
      BY <1>1, <2>1, <3>1, <3>2, <3>3
  <2>3. g \in Call /\ g.ty = caller.ty /\ CallOK(I, decls, g)
    <3>1. id \in Nat
      OBVIOUS
    <3>2. Visits(caller.ty)[caller.at] \in Types /\ Named(I, Visits(caller.ty)[caller.at], id)
      BY <1>1, <2>2
    <3>. HIDE DEF caller
    <3>. QED
      BY <2>1, <2>2, <3>1, <3>2, CallAdvances
  <2>. DEFINE r == Append(Front(below), g)
  <2>4. /\ r \in Seq(Call) /\ Len(r) = n - 1 /\ r # <<>>
        /\ r[n - 1] = g /\ \A i \in 1 .. n - 2 : r[i] = s[i]
    <3>. HIDE DEF below, g
    <3>1. /\ r \in Seq(Call) /\ Len(r) = Len(below) /\ r # <<>> /\ r[Len(below)] = g
          /\ \A i \in 1 .. Len(below) - 1 : r[i] = below[i]
      BY <1>3, <1>5, <2>3, ReplaceLast, SMTT(60)
    <3>. HIDE DEF r
    <3>. QED
      BY <1>1, <1>3, <3>1
  <2>5. /\ stack' = [stack EXCEPT ![w] = r]
        /\ pc' = [pc EXCEPT ![w] = "walk"]
        /\ work' = work /\ seen' = seen
    BY <1>5 DEF Answer, Goto, Advance
  <2>. HIDE DEF r, g, caller, below
  <2>6. stack'[w] = r /\ pc'[w] = "walk" /\ work'[w] = work[w]
    BY <1>4, <2>5
  <2>7. Nested(I, decls, "walk", r, work[w])
    <3>1. r[1].ty = Head(work[w]).ty
      <4>1. s[1].ty = Head(work[w]).ty
        BY <1>2 DEF Nested
      <4>2. CASE n = 2
        BY <1>1, <2>1, <2>3, <2>4, <4>1, <4>2
      <4>3. CASE n > 2
        BY <1>1, <2>4, <4>1, <4>3
      <4>. QED
        <5>1. n = 2 \/ n > 2
          <6>1. n - 1 \in 1 .. n - 1 /\ n \in Nat
            BY <1>1, <2>1
          <6>. HIDE DEF n
          <6>. QED
            BY <6>1
        <5>. QED
          BY <4>2, <4>3, <5>1
    <3>2. ASSUME NEW i \in 1 .. n - 1 PROVE CallOK(I, decls, r[i])
      <4>1. CASE i = n - 1
        BY <2>3, <2>4, <4>1
      <4>2. CASE i # n - 1
        <5>1. i \in 1 .. n - 2 /\ i \in 1 .. Len(s)
          BY <1>1, <4>2
        <5>. QED
          BY <1>2, <2>4, <5>1 DEF Nested
      <4>. QED
        BY <4>1, <4>2
    <3>3. ASSUME NEW i \in 1 .. n - 2
          PROVE  /\ r[i].at <= Len(Visits(r[i].ty))
                 /\ Visits(r[i].ty)[r[i].at] = r[i + 1].ty
      <4>1. r[i] = s[i] /\ r[i + 1].ty = s[i + 1].ty
        <5>1. CASE i + 1 = n - 1
          BY <1>1, <2>1, <2>3, <2>4, <5>1
        <5>2. CASE i + 1 # n - 1
          BY <1>1, <2>4, <5>2, SMTT(60)
        <5>. QED
          BY <5>1, <5>2
      <4>2. i \in 1 .. Len(s) - 1
        BY <1>1
      <4>. QED
        BY <1>2, <4>1, <4>2 DEF Nested
    <3>4. work[w] # <<>> /\ r # <<>> /\ Len(r) = n - 1 /\ n - 1 - 1 = n - 2
      BY <1>1, <2>4
    <3>. QED
      BY <3>1, <3>2, <3>3, <3>4 DEF Nested
  <2>. QED
    BY <1>4, <2>4, <2>5, <2>6, <2>7 DEF Labels
<1>6. CASE below = <<>>
  <2>1. n = 1
    BY <1>1, <1>3, <1>6
  <2>2. /\ stack' = [stack EXCEPT ![w] = <<>>]
        /\ pc' = [pc EXCEPT ![w] = "idle"]
        /\ work' = [work EXCEPT ![w] = Tail(@)]
        /\ seen' \subseteq seen \cup {<<Head(work[w]).ty, entries[id]>>}
    BY <1>6 DEF Answer, Goto
  <2>3. Head(work[w]).ty = Top(w).ty
    BY <1>1, <1>2, <2>1 DEF Nested
  <2>4. Tail(work[w]) \in Seq(Ask)
    BY <1>1, HeadTailProperties
  <2>5. stack'[w] = <<>> /\ pc'[w] = "idle"
    BY <1>4, <2>2
  <2>6. Nested(I, decls, "idle", <<>>, work'[w])
    BY DEF Nested
  <2>. QED
    BY <1>4, <2>2, <2>3, <2>4, <2>5, <2>6 DEF Labels
<1>. QED
  BY <1>5, <1>6
-------------------------------------------------------------------------------
(* No type has an id at the start. *)
LEMMA InitInv == Init => IInv
<1>. SUFFICES ASSUME Init PROVE IInv
  OBVIOUS
<1>1. TypeOK
  <2>1. <<>> \in Seq(Entry) /\ <<>> \in Seq(Types) /\ <<>> \in Seq(Call)
    OBVIOUS
  <2>. QED
    BY <2>1, RegistryAssumption DEF Init, TypeOK, Ask, Labels
<1>2. WorkersOK
  BY DEF Init, WorkersOK, Nested, Registers, Locked, Owning
<1>3. ReservedAlone /\ Covered /\ Registered /\ Returned
  BY DEF Init, ReservedAlone, Covered, Registered, Returned, Owning
<1>. QED
  BY <1>1, <1>2, <1>3 DEF IInv

(* A step of w that gives no id and no entry, and does not concern a       *)
(* reserved one, keeps the invariant if it keeps the calls of w.           *)
LEMMA QuietStep ==
  ASSUME IInv, NEW w \in Workers, StepOf(w),
         ids' = ids, entries' = entries, object' = object,
         pc[w] \notin Owning, pc'[w] \notin Owning,
         Nested(ids, decls, pc[w], stack[w], work[w])',
         Registers(w, ids, owner, entries, pc[w], Top(w))',
         \A p \in seen' : p \in seen \/ Complete(ids, decls, p[1], p[2]),
         \A p \in emitted' : p \in emitted \/ Named(ids, p[1], p[2])
  PROVE  IInv'
<1>1. WorkersOK'
  BY OthersKept DEF WorkersOK
<1>2. \A u \in Workers : pc'[u] \in Owning => pc[u] \in Owning /\ Top(u)' = Top(u)
  BY DEF StepOf, Top
<1>3. \A u \in Workers : pc[u] \in Owning => pc'[u] \in Owning /\ Top(u)' = Top(u)
  BY DEF StepOf, Top
<1>4. ReservedAlone'
  BY <1>2 DEF IInv, ReservedAlone
<1>5. Covered'
  BY <1>3 DEF IInv, Covered
<1>6. Extends(decls, decls') /\ Grows(ids, ids)
  BY DEF StepOf, Grows
<1>7. Registered'
  BY <1>6, CompleteGrows DEF IInv, Registered
<1>8. \A p \in seen' : Complete(ids, decls', p[1], p[2])
  BY <1>6, CompleteGrows DEF IInv, Returned
<1>9. \A k \in 1 .. Len(object) : Complete(ids, decls', object[k].ty, object[k])
  BY <1>6, CompleteGrows DEF IInv, Returned
<1>10. Returned'
  BY <1>8, <1>9 DEF IInv, Returned
<1>. QED
  BY <1>1, <1>4, <1>5, <1>7, <1>10 DEF IInv, StepOf

(* The first call of a request. *)
LEMMA FirstCall ==
  ASSUME NEW I, NEW D, NEW t \in Types
  PROVE  Frame(t) \in Call /\ Frame(t).ty = t /\ CallOK(I, D, Frame(t))
<1>1. /\ Frame(t).ty = t /\ Frame(t).at = 1 /\ Frame(t).refs = <<>> /\ Frame(t).decl = 0
      /\ Frame(t) \in Call
  BY DEF Frame, Call
<1>2. RefsBefore(t, 1) = 0 /\ 1 \in 1 .. Len(Visits(t)) + 1 /\ ~(1 > DeclAt(t))
  BY VisitFacts DEF RefsBefore
<1>. QED
  BY <1>1, <1>2 DEF CallOK

(* A request makes a call. *)
LEMMA RequestInv == ASSUME IInv, NEW w \in Workers, Request(w) PROVE IInv'
<1>. DEFINE t == Head(work[w]).ty
            s == <<Frame(t)>>
<1>1. /\ pc[w] = "idle" /\ work[w] # <<>>
      /\ stack' = [stack EXCEPT ![w] = s]
      /\ pc' = [pc EXCEPT ![w] = "find"]
      /\ UNCHANGED <<ids, owner, entries, decls, work, seen, toLower, emitted, object>>
  BY DEF Request, Goto
<1>2. t \in Types
  <2>1. work[w] \in Seq(Ask)
    BY DEF IInv, TypeOK
  <2>2. Head(work[w]) \in Ask
    BY <1>1, <2>1, HeadTailProperties
  <2>. QED
    BY <2>2 DEF Ask
<1>3. Frame(t) \in Call /\ Frame(t).ty = t /\ CallOK(ids, decls, Frame(t))
  BY <1>2, FirstCall
<1>4. s \in Seq(Call) /\ Len(s) = 1 /\ s[1] = Frame(t)
  BY <1>3
<1>. HIDE DEF s
<1>5. /\ TypeOK /\ TypeOK'
      /\ stack'[w] = s /\ pc'[w] = "find"
  BY <1>1, <1>4 DEF IInv, TypeOK, Labels
<1>6. StepOf(w)
  BY <1>1, <1>5, LenProperties DEF StepOf, TypeOK, Grows, Extends
<1>7. Nested(ids, decls, "find", s, work[w])
  BY <1>1, <1>3, <1>4, SMTT(60) DEF Nested
<1>8. Nested(ids, decls, pc[w], stack[w], work[w])'
  BY <1>1, <1>5, <1>7
<1>9. Registers(w, ids, owner, entries, pc[w], Top(w))'
  BY <1>5 DEF Registers, Locked, Owning
<1>. QED
  BY <1>1, <1>5, <1>6, <1>8, <1>9, QuietStep DEF Owning

(* A type that is registered is the answer, at once. *)
LEMMA AnswerRegistered ==
  ASSUME IInv, NEW w \in Workers, pc[w] \in {"find", "walk"},
         ids[Top(w).ty] # 0, Answer(w, ids[Top(w).ty]),
         UNCHANGED <<ids, owner, entries, decls, toLower, emitted, object>>
  PROVE  IInv'
<1>. DEFINE t == Top(w).ty
            id == ids[t]
<1>1. t \in Types /\ id \in 1 .. Len(entries) /\ Complete(ids, decls, t, entries[id])
  BY TopCall DEF IInv, Registered
<1>2. Named(ids, t, id) /\ Grows(ids, ids)
  BY DEF Named, Grows
<1>3. entries[id] \in Entry
  BY <1>1, ElementOfSeq DEF IInv, TypeOK
<1>. HIDE DEF id
<1>4. /\ stack' \in [Workers -> Seq(Call)]
      /\ pc' \in [Workers -> Labels] /\ pc'[w] \in {"idle", "walk"}
      /\ work' \in [Workers -> Seq(Ask)]
      /\ \A u \in Workers \ {w} :
           pc'[u] = pc[u] /\ stack'[u] = stack[u] /\ work'[u] = work[u]
      /\ seen' \subseteq seen \cup {<<t, entries[id]>>}
      /\ Nested(ids, decls, pc'[w], stack'[w], work'[w])
  BY <1>1, <1>2, AnswerKeeps DEF id
<1>. HIDE DEF t
<1>5. TypeOK /\ TypeOK'
  <2>1. <<t, entries[id]>> \in Types \X Entry
    BY <1>1, <1>3
  <2>2. seen' \subseteq Types \X Entry
    BY <1>4, <2>1 DEF IInv, TypeOK
  <2>. QED
    BY <1>4, <2>2 DEF IInv, TypeOK
<1>6. StepOf(w)
  BY <1>4, <1>5, LenProperties, SMTT(60) DEF StepOf, TypeOK, Grows, Extends
<1>7. Registers(w, ids, owner, entries, pc[w], Top(w))'
  BY <1>4 DEF Registers, Locked, Owning
<1>8. Nested(ids, decls, pc[w], stack[w], work[w])'
  BY <1>4
<1>9. \A p \in seen' : p \in seen \/ Complete(ids, decls, p[1], p[2])
  BY <1>1, <1>4
<1>10. pc[w] \notin Owning /\ pc'[w] \notin Owning
  BY <1>4 DEF Owning
<1>. QED
  BY <1>6, <1>7, <1>8, <1>9, <1>10, QuietStep

(* The look-up under the mutex: the answer, or the walk begins. *)
LEMMA FindInv == ASSUME IInv, NEW w \in Workers, Find(w) PROVE IInv'
<1>1. /\ pc[w] = "find"
      /\ UNCHANGED <<ids, owner, entries, decls, toLower, emitted, object>>
  BY DEF Find
<1>2. CASE ids[Top(w).ty] # 0
  BY <1>1, <1>2, AnswerRegistered DEF Find
<1>3. CASE ids[Top(w).ty] = 0
  <2>1. pc' = [pc EXCEPT ![w] = "walk"] /\ UNCHANGED <<stack, work, seen>>
    BY <1>3 DEF Find, Goto
  <2>2. TypeOK /\ TypeOK' /\ pc'[w] = "walk" /\ Top(w)' = Top(w)
    BY <1>1, <2>1 DEF IInv, TypeOK, Labels, Top
  <2>3. StepOf(w)
    BY <1>1, <2>1, <2>2, LenProperties DEF StepOf, TypeOK, Grows, Extends
  <2>4. Nested(ids, decls, "walk", stack[w], work[w])
    BY <1>1 DEF IInv, WorkersOK, Nested
  <2>5. Nested(ids, decls, pc[w], stack[w], work[w])'
    BY <1>1, <2>1, <2>2, <2>4
  <2>6. Registers(w, ids, owner, entries, pc[w], Top(w))'
    BY <2>2 DEF Registers, Locked, Owning
  <2>. QED
    BY <1>1, <2>1, <2>2, <2>3, <2>5, <2>6, QuietStep DEF Owning
<1>. QED
  BY <1>2, <1>3

(* The mutex is taken for a type that has no id yet. *)
LEMMA EnterInv == ASSUME IInv, NEW w \in Workers, Enter(w) PROVE IInv'
<1>. DEFINE f == Top(w)
            t == f.ty
<1>1. /\ pc[w] = "walk" /\ f.at > Len(Visits(t)) /\ owner[ShardOf[t]] = Nobody
      /\ UNCHANGED <<ids, entries, decls, toLower, emitted, object>>
  BY DEF Enter, Free
<1>2. CASE ids[t] # 0
  BY <1>1, <1>2, AnswerRegistered DEF Enter
<1>3. CASE ids[t] = 0
  <2>1. /\ owner' = [owner EXCEPT ![ShardOf[t]] = w]
        /\ pc' = [pc EXCEPT ![w] = "reserve"]
        /\ UNCHANGED <<stack, work, seen>>
    BY <1>3 DEF Enter, Goto
  <2>2. f \in Call /\ t \in Types /\ ShardOf[t] \in Shards /\ CallOK(ids, decls, f)
    BY <1>1, TopCall DEF Shards
  <2>3. f.at = Len(Visits(t)) + 1
    BY <1>1, <2>2, VisitFacts DEF CallOK, Call
  <2>4. /\ TypeOK /\ TypeOK' /\ pc'[w] = "reserve" /\ Top(w)' = f
        /\ owner'[ShardOf[t]] = w
    BY <1>1, <2>1, <2>2 DEF IInv, TypeOK, Labels, Locked, Top
  <2>5. \A u \in Workers \ {w}, s \in Shards : owner[s] = u => owner'[s] = u
    BY <1>1, <2>1, <2>2, <2>4, RegistryAssumption DEF TypeOK
  <2>6. StepOf(w)
    BY <1>1, <2>1, <2>4, <2>5, LenProperties DEF StepOf, TypeOK, Grows, Extends
  <2>7. Nested(ids, decls, "reserve", stack[w], work[w])
    BY <1>1 DEF IInv, WorkersOK, Nested
  <2>8. Nested(ids, decls, pc[w], stack[w], work[w])'
    BY <1>1, <2>1, <2>4, <2>7
  <2>. HIDE DEF f
  <2>9. Registers(w, ids, owner', entries, "reserve", f)
    BY <1>3, <2>3, <2>4 DEF Registers, Owning
  <2>10. Registers(w, ids, owner, entries, pc[w], Top(w))'
    BY <1>1, <2>4, <2>9
  <2>. QED
    BY <1>1, <2>1, <2>4, <2>6, <2>8, <2>10, QuietStep DEF Owning
<1>. QED
  BY <1>2, <1>3

(* The top call takes another value, or one more call is made. *)
LEMMA NestedTop ==
  ASSUME NEW I, NEW D, NEW label, label # "idle", NEW s \in Seq(Call), s # <<>>, NEW asks,
         Nested(I, D, label, s, asks),
         NEW f \in Call, f.ty = Last(s).ty, CallOK(I, D, f)
  PROVE  Nested(I, D, label, Append(Front(s), f), asks)
<1>. DEFINE r == Append(Front(s), f)
            n == Len(s)
<1>1. n \in Nat /\ n >= 1 /\ Last(s) = s[n]
  BY FrontLast
<1>2. /\ r \in Seq(Call) /\ Len(r) = n /\ r # <<>> /\ r[n] = f
      /\ \A i \in 1 .. n - 1 : r[i] = s[i]
  BY ReplaceLast
<1>. HIDE DEF r, n
<1>3. \A i \in 1 .. n : r[i].ty = s[i].ty
  BY <1>1, <1>2
<1>4. \A i \in 1 .. n : CallOK(I, D, r[i])
  BY <1>1, <1>2 DEF Nested, n
<1>5. ASSUME NEW i \in 1 .. n - 1
      PROVE  /\ r[i].at <= Len(Visits(r[i].ty))
             /\ Visits(r[i].ty)[r[i].at] = r[i + 1].ty
  BY <1>1, <1>2, <1>3 DEF Nested, n
<1>6. r[1].ty = Head(asks).ty /\ asks # <<>>
  BY <1>1, <1>3 DEF Nested
<1>7. Nested(I, D, label, r, asks)
  BY <1>2, <1>4, <1>5, <1>6 DEF Nested
<1>. QED
  BY <1>7 DEF r

(* A call for the type that the caller is at. *)
LEMMA NestedPush ==
  ASSUME NEW I, NEW D, NEW label, label # "idle", NEW s \in Seq(Call), s # <<>>, NEW asks,
         Nested(I, D, label, s, asks),
         NEW f \in Call, CallOK(I, D, f),
         Last(s).at <= Len(Visits(Last(s).ty)),
         f.ty = Visits(Last(s).ty)[Last(s).at]
  PROVE  Nested(I, D, "find", Append(s, f), asks)
<1>. DEFINE r == Append(s, f)
            n == Len(s)
<1>1. n \in Nat /\ n >= 1 /\ Last(s) = s[n]
  BY FrontLast
<1>2. /\ r \in Seq(Call) /\ Len(r) = n + 1 /\ r[n + 1] = f
      /\ \A i \in 1 .. n : r[i] = s[i]
  BY AppendProperties
<1>. HIDE DEF r, n
<1>3. r # <<>>
  BY <1>1, <1>2
<1>4. \A i \in 1 .. n + 1 : CallOK(I, D, r[i])
  BY <1>1, <1>2, SMTT(60) DEF Nested, n
<1>5. ASSUME NEW i \in 1 .. n
      PROVE  /\ r[i].at <= Len(Visits(r[i].ty))
             /\ Visits(r[i].ty)[r[i].at] = r[i + 1].ty
  <2>1. CASE i = n
    BY <1>1, <1>2, <2>1
  <2>2. CASE i # n
    <3>1. i \in 1 .. Len(s) - 1 /\ i + 1 \in 1 .. n
      BY <1>1, <2>2 DEF n
    <3>. QED
      BY <1>2, <3>1 DEF Nested
  <2>. QED
    BY <2>1, <2>2
<1>6. r[1].ty = Head(asks).ty /\ asks # <<>>
  BY <1>1, <1>2 DEF Nested
<1>7. Nested(I, D, "find", r, asks)
  <2>1. Len(r) = n + 1 /\ Len(r) - 1 = n
    BY <1>1, <1>2
  <2>. QED
    BY <1>3, <1>4, <1>5, <1>6, <2>1 DEF Nested
<1>. QED
  BY <1>7 DEF r

(* The declaration of the fields is made, or the next type is asked for. *)
LEMMA VisitInv == ASSUME IInv, NEW w \in Workers, Visit(w) PROVE IInv'
<1>. DEFINE f == Top(w)
            t == f.ty
            v == Visits(t)[f.at]
<1>1. /\ pc[w] = "walk" /\ f.at <= Len(Visits(t))
      /\ UNCHANGED <<ids, owner, entries, work, seen, toLower, emitted, object>>
  BY DEF Visit
<1>2. /\ stack[w] \in Seq(Call) /\ stack[w] # <<>> /\ f = Last(stack[w])
      /\ f \in Call /\ t \in Types /\ CallOK(ids, decls, f)
  BY <1>1, TopCall DEF Top
<1>3. f.at \in 1 .. Len(Visits(t))
  BY <1>1, <1>2, VisitFacts DEF CallOK
<1>4. Nested(ids, decls, "walk", stack[w], work[w]) /\ TypeOK
  BY <1>1 DEF IInv, WorkersOK
<1>5. CASE v = MakeDecl
  <2>. DEFINE g == [f EXCEPT !.decl = Len(decls) + 1, !.at = @ + 1]
              r == Append(Front(stack[w]), g)
  <2>1. /\ decls' = Append(decls, t)
        /\ stack' = [stack EXCEPT ![w] = r]
        /\ UNCHANGED pc
    BY <1>5 DEF Visit, SetTop
  <2>2. /\ decls' \in Seq(Types) /\ Len(decls) \in Nat /\ Len(decls') = Len(decls) + 1
        /\ decls'[Len(decls) + 1] = t /\ \A d \in 1 .. Len(decls) : decls'[d] = decls[d]
    BY <1>2, <1>4, <2>1, AppendProperties, LenProperties DEF TypeOK
  <2>3. Extends(decls, decls') /\ Grows(ids, ids)
    BY <2>2 DEF Extends, Grows
  <2>4. /\ g \in Call /\ g.ty = t /\ g.at = f.at + 1 /\ g.refs = f.refs
        /\ g.decl = Len(decls) + 1
    <3>1. \A d \in Nat, a \in Nat : [f EXCEPT !.decl = d, !.at = a] \in Call
      BY <1>2 DEF Call
    <3>2. f.at + 1 \in Nat /\ Len(decls) + 1 \in Nat
      BY <1>2, <2>2, SMTT(60) DEF Call
    <3>3. g \in Call
      BY <3>1, <3>2
    <3>. QED
      BY <1>2, <3>3 DEF Call
  <2>. HIDE DEF g
  <2>5. CallOK(ids, decls', g)
    <3>1. CallOK(ids, decls', f)
      BY <1>2, <2>3, CallGrows
    <3>2. f.at = DeclAt(t) /\ Len(Visits(t)) \in Nat
      BY <1>2, <1>3, <1>5, VisitFacts
    <3>3. RefsBefore(t, f.at + 1) = RefsBefore(t, f.at) /\ f.at + 1 \in 1 .. Len(Visits(t)) + 1
      BY <1>3, <3>2 DEF RefsBefore
    <3>4. DeclOf(decls', t, g.decl)
      BY <2>2, <2>4 DEF DeclOf
    <3>. QED
      BY <2>4, <3>1, <3>3, <3>4 DEF CallOK
  <2>6. Nested(ids, decls', "walk", r, work[w])
    <3>1. Nested(ids, decls', "walk", stack[w], work[w])
      BY <1>2, <1>4, <2>3, NestedGrows
    <3>. QED
      BY <1>2, <2>4, <2>5, <3>1, NestedTop
  <2>7. r \in Seq(Call)
    BY <1>2, <2>4, ReplaceLast
  <2>. HIDE DEF r
  <2>8. TypeOK' /\ stack'[w] = r
    BY <1>1, <1>4, <2>1, <2>2, <2>7 DEF TypeOK
  <2>9. StepOf(w)
    BY <1>1, <1>4, <2>1, <2>3, <2>8, LenProperties, SMTT(60) DEF StepOf, TypeOK
  <2>10. Nested(ids, decls, pc[w], stack[w], work[w])'
    BY <1>1, <2>1, <2>6, <2>8
  <2>11. Registers(w, ids, owner, entries, pc[w], Top(w))'
    BY <1>1, <2>1 DEF Registers, Locked, Owning
  <2>. QED
    BY <1>1, <2>1, <2>9, <2>10, <2>11, QuietStep DEF Owning
<1>6. CASE v # MakeDecl
  <2>. DEFINE r == Append(stack[w], Frame(v))
  <2>1. /\ stack' = [stack EXCEPT ![w] = r]
        /\ pc' = [pc EXCEPT ![w] = "find"]
        /\ UNCHANGED decls
    BY <1>6 DEF Visit, Goto
  <2>2. v \in Types
    BY <1>2, <1>3, <1>6, VisitFacts
  <2>3. Frame(v) \in Call /\ Frame(v).ty = v /\ CallOK(ids, decls, Frame(v))
    BY <2>2, FirstCall
  <2>4. Nested(ids, decls, "find", r, work[w])
    BY <1>1, <1>2, <1>4, <2>3, NestedPush
  <2>5. r \in Seq(Call)
    BY <1>2, <2>3, AppendProperties
  <2>. HIDE DEF r
  <2>6. TypeOK' /\ stack'[w] = r /\ pc'[w] = "find"
    BY <1>1, <1>4, <2>1, <2>5 DEF TypeOK, Labels
  <2>7. StepOf(w)
    BY <1>1, <1>4, <2>1, <2>6, LenProperties DEF StepOf, TypeOK, Grows, Extends
  <2>8. Nested(ids, decls, pc[w], stack[w], work[w])'
    BY <1>1, <2>1, <2>4, <2>6
  <2>9. Registers(w, ids, owner, entries, pc[w], Top(w))'
    BY <2>6 DEF Registers, Locked, Owning
  <2>. QED
    BY <1>1, <2>1, <2>6, <2>7, <2>8, <2>9, QuietStep DEF Owning
<1>. QED
  BY <1>5, <1>6

(* What the program and the object were given stays complete. *)
LEMMA ReturnedKept ==
  ASSUME IInv, Grows(ids, ids'), Extends(decls, decls'),
         \A p \in seen' : p \in seen \/ Complete(ids', decls', p[1], p[2]),
         UNCHANGED <<emitted, object>>
  PROVE  Returned'
<1>1. \A p \in seen' : Complete(ids', decls', p[1], p[2])
  BY CompleteGrows DEF IInv, Returned
<1>2. \A k \in 1 .. Len(object) : Complete(ids', decls', object[k].ty, object[k])
  BY CompleteGrows DEF IInv, Returned
<1>3. \A p \in emitted : Named(ids', p[1], p[2])
  BY DEF IInv, TypeOK, Returned, Named, Grows
<1>. QED
  BY <1>1, <1>2, <1>3 DEF Returned

(* An id is the place of a new entry. *)
LEMMA ReserveInv == ASSUME IInv, NEW w \in Workers, Reserve(w) PROVE IInv'
<1>. DEFINE f == Top(w)
            n == Len(entries)
            g == [f EXCEPT !.id = n + 1]
            r == Append(Front(stack[w]), g)
<1>1. /\ pc[w] = "reserve"
      /\ entries' = Append(entries, None)
      /\ stack' = [stack EXCEPT ![w] = r]
      /\ pc' = [pc EXCEPT ![w] = "fill"]
      /\ UNCHANGED <<ids, owner, decls, work, seen, toLower, emitted, object>>
  BY DEF Reserve, SetTop, Goto
<1>2. /\ stack[w] \in Seq(Call) /\ stack[w] # <<>> /\ f = Last(stack[w])
      /\ f \in Call /\ f.ty \in Types /\ CallOK(ids, decls, f)
  BY <1>1, TopCall DEF Top
<1>3. /\ TypeOK /\ n \in Nat
      /\ Nested(ids, decls, "reserve", stack[w], work[w])
      /\ Registers(w, ids, owner, entries, "reserve", f)
  BY <1>1, LenProperties DEF IInv, WorkersOK, TypeOK
<1>4. /\ entries' \in Seq(Entry) /\ Len(entries') = n + 1
      /\ \A k \in 1 .. n : entries'[k] = entries[k]
  <2>1. None \in Entry
    BY DEF None, Entry
  <2>. QED
    BY <1>1, <1>3, <2>1, AppendProperties DEF TypeOK
<1>5. /\ g \in Call /\ g.ty = f.ty /\ g.at = f.at /\ g.refs = f.refs
      /\ g.decl = f.decl /\ g.id = n + 1
  <2>1. \A k \in Nat : [f EXCEPT !.id = k] \in Call
    BY <1>2 DEF Call
  <2>2. n + 1 \in Nat
    BY <1>3
  <2>3. g \in Call
    BY <2>1, <2>2
  <2>. QED
    BY <1>2, <2>3 DEF Call
<1>. HIDE DEF g
<1>6. CallOK(ids, decls, g)
  BY <1>2, <1>5 DEF CallOK
<1>7. Nested(ids, decls, "fill", r, work[w])
  <2>1. Nested(ids, decls, "fill", stack[w], work[w])
    BY <1>3 DEF Nested
  <2>. QED
    BY <1>2, <1>5, <1>6, <2>1, NestedTop
<1>8. r \in Seq(Call) /\ Last(r) = g
  BY <1>2, <1>5, ReplaceLast
<1>. HIDE DEF r
<1>9. TypeOK' /\ stack'[w] = r /\ pc'[w] = "fill" /\ Top(w)' = g
  BY <1>1, <1>3, <1>4, <1>8 DEF TypeOK, Labels, Locked, Owning, Top
<1>. HIDE DEF f
<1>10. StepOf(w)
  BY <1>1, <1>3, <1>4, <1>9, LenProperties DEF StepOf, TypeOK, Grows, Extends
<1>11. Registers(w, ids, owner, entries', "fill", g)
  BY <1>3, <1>4, <1>5 DEF Registers, Locked, Owning
<1>12. WorkersOK'
  BY <1>1, <1>7, <1>9, <1>10, <1>11, OthersKept DEF WorkersOK
<1>13. ASSUME NEW u \in Workers, u # w
       PROVE  /\ pc'[u] = pc[u] /\ Top(u)' = Top(u)
              /\ pc[u] \in Owning => Top(u).id \in 1 .. n
  BY <1>10, <1>13 DEF StepOf, Top, IInv, WorkersOK, Registers
<1>14. ReservedAlone'
  <2>1. \A t \in Types : ids[t] # n + 1
    <3>1. \A t \in Types : ids[t] = 0 \/ ids[t] \in 1 .. n
      BY DEF IInv, Registered
    <3>. HIDE DEF n
    <3>. QED
      BY <1>3, <3>1
  <2>. QED
    BY <1>1, <1>3, <1>5, <1>9, <1>13, <2>1 DEF IInv, ReservedAlone
<1>15. Covered'
  <2>1. ASSUME NEW k \in 1 .. n
        PROVE  \/ \E t \in Types : ids'[t] = k
               \/ \E u \in Workers : pc'[u] \in Owning /\ Top(u)'.id = k
    BY <1>1, <1>13 DEF IInv, Covered, Owning
  <2>2. pc'[w] \in Owning /\ Top(w)'.id = n + 1
    BY <1>5, <1>9 DEF Owning
  <2>. QED
    BY <1>3, <1>4, <2>1, <2>2 DEF Covered
<1>16. Registered'
  BY <1>1, <1>3, <1>4 DEF IInv, Registered
<1>17. Returned'
  BY <1>1, <1>10, ReturnedKept DEF StepOf
<1>. QED
  BY <1>9, <1>12, <1>14, <1>15, <1>16, <1>17 DEF IInv

(* The reserved entry gets the information. *)
LEMMA FillInv == ASSUME IInv, NEW w \in Workers, Fill(w) PROVE IInv'
<1>. DEFINE f == Top(w)
<1>1. /\ pc[w] = "fill"
      /\ entries' = [entries EXCEPT ![f.id] = Info(f)]
      /\ pc' = [pc EXCEPT ![w] = "insert"]
      /\ UNCHANGED <<ids, owner, decls, work, stack, seen, toLower, emitted, object>>
  BY DEF Fill, Goto
<1>2. f \in Call
  BY <1>1, TopCall
<1>3. /\ TypeOK
      /\ Nested(ids, decls, "fill", stack[w], work[w])
      /\ Registers(w, ids, owner, entries, "fill", f)
  BY <1>1 DEF IInv, WorkersOK
<1>4. Info(f) \in Entry /\ f.id \in 1 .. Len(entries)
  BY <1>2, <1>3 DEF Info, Entry, Call, Registers, Owning
<1>5. /\ entries' \in Seq(Entry) /\ Len(entries') = Len(entries)
      /\ entries'[f.id] = Info(f)
      /\ \A k \in 1 .. Len(entries) : k # f.id => entries'[k] = entries[k]
  BY <1>1, <1>3, <1>4, ExceptSeq DEF TypeOK
<1>6. TypeOK' /\ pc'[w] = "insert" /\ Top(w)' = f
  BY <1>1, <1>3, <1>5 DEF TypeOK, Labels, Locked, Owning, Top
<1>7. StepOf(w)
  BY <1>1, <1>3, <1>5, <1>6, LenProperties DEF StepOf, TypeOK, Grows, Extends
<1>. HIDE DEF f
<1>8. Registers(w, ids, owner, entries', "insert", f)
  BY <1>3, <1>5 DEF Registers, Locked, Owning
<1>9. Nested(ids, decls, "insert", stack[w], work[w])
  BY <1>3 DEF Nested
<1>10. WorkersOK'
  BY <1>1, <1>6, <1>7, <1>8, <1>9, OthersKept DEF WorkersOK
<1>11. ASSUME NEW u \in Workers
       PROVE  (pc'[u] \in Owning <=> pc[u] \in Owning) /\ Top(u)' = Top(u)
  BY <1>1, <1>6, <1>7 DEF StepOf, Top, Owning
<1>12. ReservedAlone'
  BY <1>1, <1>11 DEF IInv, ReservedAlone
<1>13. Covered'
  BY <1>1, <1>5, <1>11 DEF IInv, Covered
<1>14. Registered'
  <2>1. \A t \in Types : ids[t] # f.id
    BY <1>1 DEF IInv, ReservedAlone, Owning, f
  <2>. QED
    BY <1>1, <1>5, <2>1 DEF IInv, Registered
<1>15. Returned'
  BY <1>1, <1>7, ReturnedKept DEF StepOf
<1>. QED
  BY <1>6, <1>10, <1>12, <1>13, <1>14, <1>15 DEF IInv

(* A call that has visited everything has all of the information. *)
LEMMA CallCompletes ==
  ASSUME NEW I, NEW D, NEW f \in Call, CallOK(I, D, f),
         f.at = Len(Visits(f.ty)) + 1, Named(I, f.ty, f.id)
  PROVE  Complete(I, D, f.ty, Info(f))
<1>1. f.ty \in Types /\ Len(Visits(f.ty)) \in Nat /\ DeclAt(f.ty) \in Nat
  BY VisitFacts DEF Call
<1>2. /\ Info(f).ty = f.ty /\ Info(f).id = f.id /\ Info(f).refs = f.refs
      /\ Info(f).decl = f.decl
  BY DEF Info
<1>3. Len(f.refs) = Len(Refers(f.ty))
  BY <1>1, VisitFacts DEF CallOK
<1>4. DeclAt(f.ty) <= Len(Visits(f.ty)) => DeclOf(D, f.ty, f.decl)
  BY <1>1 DEF CallOK
<1>5. \A k \in 1 .. Len(Refers(f.ty)) : Named(I, Refers(f.ty)[k], f.refs[k])
  BY <1>3 DEF CallOK
<1>. QED
  BY <1>1, <1>2, <1>3, <1>4, <1>5 DEF Complete

(* The id can be looked up, and it is the answer to the call. *)
LEMMA InsertInv == ASSUME IInv, NEW w \in Workers, Insert(w) PROVE IInv'
<1>. DEFINE f == Top(w)
            t == f.ty
            id == f.id
<1>1. /\ pc[w] = "insert"
      /\ ids' = [ids EXCEPT ![t] = id]
      /\ owner' = [owner EXCEPT ![ShardOf[t]] = Nobody]
      /\ Answer(w, id)
      /\ UNCHANGED <<entries, decls, toLower, emitted, object>>
  BY DEF Insert
<1>2. f \in Call /\ t \in Types /\ CallOK(ids, decls, f) /\ ShardOf[t] \in Shards
  BY <1>1, TopCall DEF Shards
<1>3. /\ TypeOK
      /\ f.at = Len(Visits(t)) + 1 /\ owner[ShardOf[t]] = w /\ ids[t] = 0
      /\ id \in 1 .. Len(entries) /\ entries[id] = Info(f)
  BY <1>1 DEF IInv, WorkersOK, Registers, Locked, Owning
<1>4. ids' \in [Types -> Nat] /\ ids'[t] = id /\ \A q \in Types : q # t => ids'[q] = ids[q]
  BY <1>1, <1>2, <1>3 DEF TypeOK
<1>5. /\ owner' \in [Shards -> Workers \cup {Nobody}]
      /\ \A s \in Shards : s # ShardOf[t] => owner'[s] = owner[s]
  BY <1>1, <1>2, <1>3 DEF TypeOK
<1>6. Grows(ids, ids') /\ Extends(decls, decls) /\ Named(ids', t, id)
  BY <1>3, <1>4, LenProperties DEF Grows, Named, Extends, TypeOK
<1>7. /\ stack' \in [Workers -> Seq(Call)]
      /\ pc' \in [Workers -> Labels] /\ pc'[w] \in {"idle", "walk"}
      /\ work' \in [Workers -> Seq(Ask)]
      /\ \A u \in Workers \ {w} :
           pc'[u] = pc[u] /\ stack'[u] = stack[u] /\ work'[u] = work[u]
      /\ seen' \subseteq seen \cup {<<t, entries[id]>>}
      /\ Nested(ids', decls, pc'[w], stack'[w], work'[w])
  BY <1>1, <1>3, <1>6, AnswerKeeps
<1>8. Complete(ids', decls, t, entries[id])
  <2>1. CallOK(ids', decls, f)
    BY <1>2, <1>6, CallGrows
  <2>. HIDE DEF f
  <2>. QED
    BY <1>2, <1>3, <1>6, <2>1, CallCompletes
<1>9. TypeOK'
  <2>1. <<t, entries[id]>> \in Types \X Entry
    BY <1>2, <1>3, ElementOfSeq DEF TypeOK
  <2>2. seen' \subseteq Types \X Entry
    BY <1>3, <1>7, <2>1 DEF TypeOK
  <2>. QED
    BY <1>1, <1>3, <1>4, <1>5, <1>7, <2>2 DEF TypeOK
<1>. HIDE DEF f, t, id
<1>10. StepOf(w)
  BY <1>1, <1>3, <1>4, <1>5, <1>6, <1>7, <1>9, LenProperties, SMTT(60) DEF StepOf, TypeOK
<1>11. Registers(w, ids, owner, entries, pc[w], Top(w))'
  BY <1>7 DEF Registers, Locked, Owning
<1>12. Nested(ids, decls, pc[w], stack[w], work[w])'
  BY <1>1, <1>7
<1>13. WorkersOK'
  BY <1>10, <1>11, <1>12, OthersKept DEF WorkersOK
<1>14. /\ pc[w] \in Owning /\ pc'[w] \notin Owning
       /\ \A u \in Workers \ {w} : pc'[u] = pc[u] /\ Top(u)' = Top(u)
  BY <1>1, <1>7 DEF Owning, Top
<1>15. ReservedAlone'
  <2>1. ASSUME NEW u \in Workers, pc'[u] \in Owning
        PROVE  u # w /\ pc[u] \in Owning /\ Top(u)' = Top(u) /\ Top(u).id # id
    BY <1>14, <2>1 DEF IInv, ReservedAlone, f, id
  <2>2. ASSUME NEW u \in Workers, pc'[u] \in Owning, NEW q \in Types PROVE ids'[q] # Top(u).id
    BY <1>4, <2>1, <2>2 DEF IInv, ReservedAlone
  <2>3. ASSUME NEW u \in Workers, pc'[u] \in Owning, NEW v \in Workers, v # u, pc'[v] \in Owning
        PROVE  Top(v).id # Top(u).id
    BY <2>1, <2>3 DEF IInv, ReservedAlone
  <2>. QED
    BY <2>1, <2>2, <2>3 DEF ReservedAlone
<1>16. Covered'
  <2>1. ASSUME NEW k \in 1 .. Len(entries)
        PROVE  \/ \E q \in Types : ids'[q] = k
               \/ \E u \in Workers : pc'[u] \in Owning /\ Top(u)'.id = k
    <3>1. CASE k = id
      BY <1>2, <1>4, <3>1
    <3>2. ASSUME NEW q \in Types, ids[q] = k PROVE ids'[q] = k
      BY <1>3, <1>4, <3>2
    <3>3. ASSUME NEW u \in Workers, pc[u] \in Owning, Top(u).id = k, k # id
          PROVE  pc'[u] \in Owning /\ Top(u)'.id = k
      BY <1>14, <3>3 DEF f, id
    <3>. QED
      BY <3>1, <3>2, <3>3 DEF IInv, Covered
  <2>. QED
    BY <1>1, <2>1 DEF Covered
<1>17. Registered'
  <2>1. ASSUME NEW q \in Types, ids'[q] # 0
        PROVE  ids'[q] \in 1 .. Len(entries) /\ Complete(ids', decls, q, entries[ids'[q]])
    <3>1. CASE q = t
      BY <1>3, <1>4, <1>8, <3>1
    <3>2. CASE q # t
      <4>1. ids'[q] = ids[q] /\ ids[q] \in 1 .. Len(entries) /\ Complete(ids, decls, q, entries[ids[q]])
        BY <1>4, <2>1, <3>2 DEF IInv, Registered
      <4>2. \A e : Complete(ids, decls, q, e) => Complete(ids', decls, q, e)
        BY <1>6, CompleteGrows
      <4>. QED
        BY <4>1, <4>2
    <3>. QED
      BY <3>1, <3>2
  <2>. QED
    BY <1>1, <2>1 DEF Registered
<1>18. Returned'
  <2>1. \A p \in seen' : p \in seen \/ Complete(ids', decls', p[1], p[2])
    BY <1>1, <1>7, <1>8
  <2>. QED
    BY <1>1, <1>10, <2>1, ReturnedKept DEF StepOf
<1>. QED
  BY <1>9, <1>13, <1>15, <1>16, <1>17, <1>18 DEF IInv

(* The code generator takes the id of a type from the map. *)
LEMMA LowerAnyInv == ASSUME IInv, NEW w \in Workers, LowerAny(w) PROVE IInv'
<1>. DEFINE t == Head(toLower[w]).ty
<1>1. /\ pc[w] = "idle" /\ toLower[w] # <<>>
      /\ emitted' \subseteq emitted \cup {<<t, ids[t]>>}
      /\ emitted' # emitted => ids[t] # 0
      /\ toLower' = [toLower EXCEPT ![w] = Tail(@)]
      /\ UNCHANGED <<ids, owner, entries, decls, work, stack, pc, seen, object>>
  BY DEF LowerAny
<1>2. TypeOK /\ toLower[w] \in Seq(Ask)
  BY DEF IInv, TypeOK
<1>3. Tail(toLower[w]) \in Seq(Ask) /\ Head(toLower[w]) \in Ask
  BY <1>1, <1>2, HeadTailProperties
<1>4. t \in Types
  BY <1>3 DEF Ask
<1>5. TypeOK'
  <2>1. emitted' \subseteq Types \X Nat
    BY <1>1, <1>2, <1>4 DEF TypeOK
  <2>. QED
    BY <1>1, <1>2, <1>3, <2>1 DEF TypeOK
<1>. HIDE DEF t
<1>6. StepOf(w)
  BY <1>1, <1>2, <1>5, LenProperties DEF StepOf, TypeOK, Grows, Extends
<1>7. \A p \in emitted' : p \in emitted \/ Named(ids, p[1], p[2])
  BY <1>1 DEF Named
<1>8. Nested(ids, decls, pc[w], stack[w], work[w])' /\ Registers(w, ids, owner, entries, pc[w], Top(w))'
  BY <1>1 DEF IInv, WorkersOK, Top
<1>. QED
  BY <1>1, <1>6, <1>7, <1>8, QuietStep DEF Owning

(* The table is written when no worker is at an entry. *)
LEMMA FinishInv == ASSUME IInv, Finish PROVE IInv'
<1>1. /\ \A w \in Workers : pc[w] = "idle"
      /\ object' = entries
      /\ UNCHANGED <<ids, owner, entries, decls, work, stack, pc, seen, toLower, emitted>>
  BY DEF Finish
<1>2. TypeOK'
  BY <1>1 DEF IInv, TypeOK
<1>3. WorkersOK' /\ ReservedAlone' /\ Covered' /\ Registered'
  BY <1>1 DEF IInv, WorkersOK, ReservedAlone, Covered, Registered, Top
<1>4. ASSUME NEW k \in 1 .. Len(entries)
      PROVE  Complete(ids, decls, entries[k].ty, entries[k])
  <2>1. PICK t \in Types : ids[t] = k
    BY <1>1 DEF IInv, Covered, Owning
  <2>2. Complete(ids, decls, t, entries[k])
    BY <2>1 DEF IInv, Registered
  <2>. QED
    BY <2>2 DEF Complete
<1>5. Returned'
  BY <1>1, <1>4 DEF IInv, Returned
<1>. QED
  BY <1>2, <1>3, <1>5 DEF IInv

(* Every step keeps the invariant. *)
LEMMA NextInv == IInv /\ [Next]_vars => IInv'
<1>. SUFFICES ASSUME IInv, [Next]_vars PROVE IInv'
  OBVIOUS
<1>1. CASE UNCHANGED vars
  <2>1. TypeOK'
    BY <1>1 DEF vars, IInv, TypeOK
  <2>2. WorkersOK' /\ ReservedAlone' /\ Covered' /\ Registered' /\ Returned'
    BY <1>1 DEF vars, IInv, WorkersOK, ReservedAlone, Covered, Registered, Returned, Top
  <2>. QED
    BY <2>1, <2>2 DEF IInv
<1>2. CASE Next
  BY <1>2, RequestInv, FindInv, VisitInv, EnterInv, ReserveInv, FillInv, InsertInv,
     LowerAnyInv, FinishInv DEF Next, Analyze
<1>. QED
  BY <1>1, <1>2
-------------------------------------------------------------------------------
(* Complete information is what the property asks for. *)
LEMMA CompleteFollows ==
  ASSUME TypeOK, NEW t, NEW e \in Entry, Complete(ids, decls, t, e)
  PROVE  Follows(t, e)
<1>1. /\ t \in Types /\ e.ty = t /\ e.id = ids[t] /\ e.refs \in Seq(Nat)
      /\ Len(e.refs) = Len(Refers(t))
      /\ \A k \in 1 .. Len(Refers(t)) : e.refs[k] = ids[Refers(t)[k]]
  BY DEF Complete, Named, Entry
<1>2. e # None
  BY <1>1, RegistryAssumption DEF None
<1>3. /\ Refers(t) \in Seq(Types) /\ DOMAIN Refers(t) = 1 .. Len(Refers(t))
      /\ e.refs \in [1 .. Len(e.refs) -> Nat]
  BY <1>1, VisitFacts, LenProperties
<1>4. e.refs = [k \in DOMAIN Refers(t) |-> ids[Refers(t)[k]]]
  BY <1>1, <1>3
<1>5. MakeDecl \in ToSet(Visits(t)) => e.decl # 0 /\ decls[e.decl] = t
  BY <1>1, VisitFacts DEF Complete, DeclOf
<1>. QED
  BY <1>1, <1>2, <1>4, <1>5 DEF Follows

(* The inductive invariant holds of every behaviour of the registry. *)
THEOREM RegistryInvariant == Spec => []IInv
<1>1. Init => IInv
  BY InitInv
<1>2. IInv /\ [Next]_vars => IInv'
  BY NextInv
<1>. QED
  BY <1>1, <1>2, PTL DEF Spec

(* For any types, workers and requests: an id that analyze_type_info gave  *)
(* out leads to information that is complete, the ids inside it are those  *)
(* that everyone has, and so are the ids in generated code and the table   *)
(* that finish() writes.                                                   *)
THEOREM RegistryFollows == Spec => []TypeInfoFollows
<1>1. ASSUME IInv PROVE TypeInfoFollows
  <2>1. ASSUME NEW t \in Types, ids[t] # 0 PROVE Follows(t, entries[ids[t]])
    <3>1. ids[t] \in 1 .. Len(entries) /\ Complete(ids, decls, t, entries[ids[t]])
      BY <1>1, <2>1 DEF IInv, Registered
    <3>2. entries[ids[t]] \in Entry /\ TypeOK
      BY <1>1, <3>1, ElementOfSeq DEF IInv, TypeOK
    <3>. QED
      BY <3>1, <3>2, CompleteFollows
  <2>2. ASSUME NEW p \in seen PROVE Follows(p[1], p[2])
    <3>1. p[2] \in Entry /\ TypeOK
      BY <1>1 DEF IInv, TypeOK
    <3>2. Complete(ids, decls, p[1], p[2])
      BY <1>1 DEF IInv, Returned
    <3>. QED
      BY <3>1, <3>2, CompleteFollows
  <2>3. \A p \in emitted : p[2] = ids[p[1]]
    BY <1>1 DEF IInv, Returned, Named
  <2>4. ASSUME NEW k \in DOMAIN object
        PROVE  object[k] # None /\ Follows(object[k].ty, object[k])
    <3>1. k \in 1 .. Len(object) /\ object[k] \in Entry /\ TypeOK
      BY <1>1, ElementOfSeq, LenProperties DEF IInv, TypeOK
    <3>2. Complete(ids, decls, object[k].ty, object[k])
      BY <1>1, <3>1 DEF IInv, Returned
    <3>3. Follows(object[k].ty, object[k])
      BY <3>1, <3>2, CompleteFollows
    <3>. QED
      BY <3>3 DEF Follows
  <2>. QED
    BY <2>1, <2>2, <2>3, <2>4 DEF TypeInfoFollows
<1>2. IInv => TypeInfoFollows
  BY <1>1
<1>. QED
  BY <1>2, RegistryInvariant, PTL
===============================================================================
