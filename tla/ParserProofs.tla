----------------------------- MODULE ParserProofs -----------------------------
(***************************************************************************)
(* Proofs about the parser: the offset never leaves the tokens, and a file *)
(* that is accepted was read to its end, for every file.                   *)
(*                                                                         *)
(* A state holds the code that is left of the calls under way, and a rule  *)
(* is code that calls rules, so there is no bound on what is left.  The    *)
(* proof gives every piece of code one of three strengths: Code is safe on *)
(* any token, CodeOn only in front of the Eof, CodeTwo only where the next *)
(* token is in front of the Eof too.  Code is safe when its instructions   *)
(* lie in a pair of sets that no step leaves (Closed), which is what takes *)
(* the place of an induction over the code.  Every parse_* function is     *)
(* then shown to be code of its strength, and every step to go on with     *)
(* code whose strength fits the token the parser stands on.                *)
(***************************************************************************)
EXTENDS Parser, SequenceTheorems, NaturalsInduction, WellFoundedInduction, TLAPS

(* Instructions that are safe on whatever token the parser stands: they    *)
(* look at a token, or take it through bump, which leaves Eof where it is. *)
Plain == {"expect", "soft", "raise", "pusherror", "skip", "eatuntil", "mk", "ok", "none",
          "infix", "comma", "ext", "tryfn", "nextmember", "fail"}

(* Rules that take their first token unchecked: their callers have looked  *)
(* at it.                                                                  *)
OnToken == {"prefixed", "groupty", "group", "control"}

(* Rules that may be called on any token, Eof included.                    *)
Free(r) ==
  /\ r[1] \in {"module", "decl", "open", "colon", "members", "member", "field", "binding",
               "modifiers", "fn", "fndecl", "params", "ty", "needty", "ptrmods", "suffixed",
               "suffixes", "suffixop", "index", "primaryty", "lines", "expr", "prefix", "primary",
               "initexpr", "init", "delimited", "fieldinit", "element", "fncall", "args",
               "labeled", "inline", "else", "body", "cases", "patterns", "block", "eatgroup",
               "stmt", "var", "userident"}
  /\ r[1] = "delimited" => r[2] \in {"fieldinit", "element"}

(* The loops of eat_group and eat_delimited_group: their handler moves     *)
(* over the token the item started on, so they may be entered on Eof only  *)
(* because they end there.                                                 *)
Loops(r) == r[1] = "stmts" \/ (r[1] = "items" /\ r[2] \in {"fieldinit", "element"})

(* Code that may take one token unchecked, first or right behind a         *)
(* diagnostic.                                                             *)
Ahead(c, A, B) ==
  /\ c \in Seq(A \cup B)
  /\ \A k \in 1 .. Len(c) : c[k] \in A \/ k = 1 \/ (k = 2 /\ c[1] = PushError)

(* Code that starts by taking a token and may take another unchecked.      *)
TwoAhead(c, A, B) ==
  /\ c \in Seq(A \cup B) /\ c # <<>> /\ c[1] = Bump
  /\ \A k \in 1 .. Len(c) : c[k] \in A \/ k <= 2

(* An arm of a match: code for any token, or code for a token that is not  *)
(* Eof.                                                                    *)
ArmOK(a, A, B) == a[2] \in Seq(A) \/ ("Eof" \notin a[1] /\ Ahead(a[2], A, B))

(* An instruction that is safe on any token: what it goes on with is in A, *)
(* what an arm for a token that is not Eof goes on with may start with an  *)
(* instruction of B.                                                       *)
Anywhere(i, A, B, n) ==
  \/ i[1] \in Plain
  \/ i[1] = "progress" /\ i[2] \in 1 .. n - 1
  \/ i[1] = "suffix" /\ "Eof" \notin i[2]
  \/ i[1] = "call" /\ (Free(i[2]) \/ Loops(i[2]))
  \/ i[1] = "try" /\ Free(i[2]) /\ i[3] \in Seq(A)
  \/ i[1] = "catch" /\ i[2] \in Seq(A)
  \/ i[1] \in {"eatif", "peek1"} /\ i[3] \in Seq(A) /\ i[4] \in Seq(A)
  \/ i[1] = "ifsome" /\ i[2] \in Seq(A) /\ i[3] \in Seq(A)
  \/ i[1] = "case" /\ DOMAIN i[2] \subseteq Nat /\ i[3] \in Seq(A)
                      /\ \A k \in DOMAIN i[2] : ArmOK(i[2][k], A, B)

(* An instruction that is safe only in front of the Eof.                   *)
NeedsToken(i, A, B) ==
  \/ i[1] = "bump"
  \/ i[1] = "call" /\ i[2][1] \in OnToken
  \/ /\ i[1] = "peek1" /\ "Eof" \notin i[2]
     /\ Ahead(i[3], A, B) \/ TwoAhead(i[3], A, B)
     /\ Ahead(i[4], A, B)
  \/ /\ i[1] = "case" /\ DOMAIN i[2] \subseteq Nat /\ Ahead(i[3], A, B)
     /\ \A k \in DOMAIN i[2] : Ahead(i[2][k][2], A, B)

(* An instruction that is safe in front of the Eof.                        *)
BeforeEnd(i, A, B) == i \in A \/ NeedsToken(i, A, B)

(* Two sets of instructions, safe anywhere and safe in front of the Eof,   *)
(* that no step leaves.  The sets stand for the induction over the code a  *)
(* rule is made of: a rule calls rules, and only the instructions that a   *)
(* step unfolds are looked at.                                             *)
Closed(A, B, n) ==
  /\ PushError \in A /\ Bump \in B
  /\ \A i \in A : Anywhere(i, A, B, n)
  /\ \A i \in B : BeforeEnd(i, A, B)

(* Code that is safe on any token of a file of n tokens.                   *)
Code(c, n)     == \E A, B : Closed(A, B, n) /\ c \in Seq(A)
(* Code that is safe in front of the Eof.                                  *)
CodeOn(c, n)   == \E A, B : Closed(A, B, n) /\ Ahead(c, A, B)
(* Code that is safe where the next token is in front of the Eof too.      *)
CodeTwo(c, n)  == \E A, B : Closed(A, B, n) /\ TwoAhead(c, A, B)
(* Arms of a match that may be made on any token.                          *)
ArmsOK(s, n)   == \E A, B, X : Closed(A, B, n) /\ s \in Seq(X) /\ \A x \in X : ArmOK(x, A, B)
(* Arms of a match that is made in front of the Eof.                       *)
ArmsOn(s, n)   == \E A, B, X : Closed(A, B, n) /\ s \in Seq(X) /\ \A x \in X : Ahead(x[2], A, B)

----------------------------------------------------------------------------
(* The sets and the code. *)

(* Larger sets allow no less.                                              *)
LEMMA AheadMono ==
  ASSUME NEW A, NEW B, NEW C, NEW D, A \subseteq C, B \subseteq D, NEW c, Ahead(c, A, B)
  PROVE  Ahead(c, C, D)
<1>1. c \in Seq(C \cup D)
  BY SeqMonotonic DEF Ahead
<1> QED BY <1>1 DEF Ahead

(* The same for code that takes two tokens.                                *)
LEMMA TwoMono ==
  ASSUME NEW A, NEW B, NEW C, NEW D, A \subseteq C, B \subseteq D, NEW c, TwoAhead(c, A, B)
  PROVE  TwoAhead(c, C, D)
<1>1. c \in Seq(C \cup D)
  BY SeqMonotonic DEF TwoAhead
<1> QED BY <1>1 DEF TwoAhead

(* The same for an arm.                                                    *)
LEMMA ArmMono ==
  ASSUME NEW A, NEW B, NEW C, NEW D, A \subseteq C, B \subseteq D, NEW a, ArmOK(a, A, B)
  PROVE  ArmOK(a, C, D)
BY AheadMono, SeqMonotonic DEF ArmOK

(* The same for an instruction that is safe anywhere.                      *)
LEMMA AnywhereMono ==
  ASSUME NEW A, NEW B, NEW C, NEW D, A \subseteq C, B \subseteq D, NEW n, NEW i, Anywhere(i, A, B, n)
  PROVE  Anywhere(i, C, D, n)
<1>1. \A s \in Seq(A) : s \in Seq(C)
  BY SeqMonotonic
<1>2. \A a : ArmOK(a, A, B) => ArmOK(a, C, D)
  BY ArmMono
<1> QED BY <1>1, <1>2, Zenon DEF Anywhere

(* The same for an instruction that is safe in front of the Eof.           *)
LEMMA BeforeEndMono ==
  ASSUME NEW A, NEW B, NEW C, NEW D, A \subseteq C, B \subseteq D, NEW i, BeforeEnd(i, A, B)
  PROVE  BeforeEnd(i, C, D)
<1>1. \A c : Ahead(c, A, B) => Ahead(c, C, D)
  BY AheadMono
<1>2. \A c : TwoAhead(c, A, B) => TwoAhead(c, C, D)
  BY TwoMono
<1> QED BY <1>1, <1>2, Zenon DEF BeforeEnd, NeedsToken

(* Two closed pairs of sets make one.                                      *)
LEMMA Merge ==
  ASSUME NEW A, NEW B, NEW C, NEW D, NEW n, Closed(A, B, n), Closed(C, D, n)
  PROVE  Closed(A \cup C, B \cup D, n)
<1>1. A \subseteq A \cup C /\ C \subseteq A \cup C /\ B \subseteq B \cup D /\ D \subseteq B \cup D
  OBVIOUS
<1>2. \A i \in A \cup C : Anywhere(i, A \cup C, B \cup D, n)
  BY <1>1, AnywhereMono DEF Closed
<1>3. \A i \in B \cup D : BeforeEnd(i, A \cup C, B \cup D)
  BY <1>1, BeforeEndMono DEF Closed
<1> QED BY <1>2, <1>3 DEF Closed

(* A closed pair stays closed when a safe instruction joins it.            *)
LEMMA AddAnywhere ==
  ASSUME NEW A, NEW B, NEW n, Closed(A, B, n), NEW i, Anywhere(i, A, B, n)
  PROVE  Closed(A \cup {i}, B, n)
<1>1. A \subseteq A \cup {i} /\ B \subseteq B
  OBVIOUS
<1>2. \A j \in A \cup {i} : Anywhere(j, A \cup {i}, B, n)
  BY <1>1, AnywhereMono DEF Closed
<1>3. \A j \in B : BeforeEnd(j, A \cup {i}, B)
  BY <1>1, BeforeEndMono DEF Closed
<1> QED BY <1>2, <1>3 DEF Closed

(* The same for an instruction that is safe in front of the Eof.           *)
LEMMA AddBeforeEnd ==
  ASSUME NEW A, NEW B, NEW n, Closed(A, B, n), NEW i, BeforeEnd(i, A, B)
  PROVE  Closed(A, B \cup {i}, n)
<1>1. A \subseteq A /\ B \subseteq B \cup {i}
  OBVIOUS
<1>2. \A j \in A : Anywhere(j, A, B \cup {i}, n)
  BY <1>1, AnywhereMono DEF Closed
<1>3. \A j \in B \cup {i} : BeforeEnd(j, A, B \cup {i})
  BY <1>1, BeforeEndMono DEF Closed
<1> QED BY <1>2, <1>3 DEF Closed

(* A safe instruction is safe code.                                        *)
LEMMA OneAnywhere ==
  ASSUME NEW A, NEW B, NEW n, Closed(A, B, n), NEW i, Anywhere(i, A, B, n)
  PROVE  Code(<<i>>, n)
<1>1. <<i>> \in Seq(A \cup {i})
  OBVIOUS
<1> QED BY <1>1, AddAnywhere DEF Code

(* Safe code followed by safe code is safe code.                           *)
LEMMA Concat ==
  ASSUME NEW n, NEW c, NEW d, Code(c, n), Code(d, n)
  PROVE  Code(c \o d, n)
<1>1. PICK A, B : Closed(A, B, n) /\ c \in Seq(A)
  BY DEF Code
<1>2. PICK C, D : Closed(C, D, n) /\ d \in Seq(C)
  BY DEF Code
<1>3. Closed(A \cup C, B \cup D, n)
  BY <1>1, <1>2, Merge
<1>4. c \in Seq(A \cup C) /\ d \in Seq(A \cup C)
  BY <1>1, <1>2, SeqMonotonic
<1>5. c \o d \in Seq(A \cup C)
  BY <1>4, ConcatProperties
<1> QED BY <1>3, <1>5 DEF Code

(* Nothing to do is safe.                                                  *)
LEMMA Empty ==
  ASSUME NEW n
  PROVE  Code(<<>>, n) /\ Closed({PushError}, {Bump}, n)
<1>1. Closed({PushError}, {Bump}, n)
  BY DEF Closed, Anywhere, BeforeEnd, NeedsToken, Plain, PushError, Bump
<1>2. <<>> \in Seq({PushError})
  OBVIOUS
<1> QED BY <1>1, <1>2 DEF Code

(* Two pieces of safe code are safe for the same sets.                     *)
LEMMA BothCodes ==
  ASSUME NEW n, NEW c, NEW d, Code(c, n), Code(d, n)
  PROVE  \E A, B : Closed(A, B, n) /\ c \in Seq(A) /\ d \in Seq(A)
<1>1. PICK A, B : Closed(A, B, n) /\ c \in Seq(A)
  BY DEF Code
<1>2. PICK C, D : Closed(C, D, n) /\ d \in Seq(C)
  BY DEF Code
<1>3. Closed(A \cup C, B \cup D, n)
  BY <1>1, <1>2, Merge
<1>4. c \in Seq(A \cup C) /\ d \in Seq(A \cup C)
  BY <1>1, <1>2, SeqMonotonic
<1> QED BY <1>3, <1>4

(* Code that is written down instruction by instruction.                   *)
LEMMA Literal ==
  ASSUME NEW n
  PROVE  /\ \A a, b : Code(<<a>>, n) /\ Code(<<b>>, n) => Code(<<a, b>>, n)
         /\ \A a, b, c : Code(<<a>>, n) /\ Code(<<b, c>>, n) => Code(<<a, b, c>>, n)
         /\ \A a, b, c, d : Code(<<a>>, n) /\ Code(<<b, c, d>>, n) => Code(<<a, b, c, d>>, n)
         /\ \A a, b, c, d, e : Code(<<a>>, n) /\ Code(<<b, c, d, e>>, n) => Code(<<a, b, c, d, e>>, n)
         /\ \A a, b, c, d, e, f, g : Code(<<a, b, c>>, n) /\ Code(<<d, e, f, g>>, n)
              => Code(<<a, b, c, d, e, f, g>>, n)
<1>1. ASSUME NEW a, NEW b, Code(<<a>>, n), Code(<<b>>, n) PROVE Code(<<a, b>>, n)
  <2>1. PICK A, B : Closed(A, B, n) /\ <<a>> \in Seq(A) /\ <<b>> \in Seq(A)
    BY <1>1, BothCodes
  <2>2. <<a, b>> \in Seq(A)
    BY <2>1
  <2> QED BY <2>1, <2>2 DEF Code
<1>2. ASSUME NEW a, NEW b, NEW c, Code(<<a>>, n), Code(<<b, c>>, n) PROVE Code(<<a, b, c>>, n)
  <2>1. PICK A, B : Closed(A, B, n) /\ <<a>> \in Seq(A) /\ <<b, c>> \in Seq(A)
    BY <1>2, BothCodes
  <2>2. <<a, b, c>> \in Seq(A)
    BY <2>1
  <2> QED BY <2>1, <2>2 DEF Code
<1>3. ASSUME NEW a, NEW b, NEW c, NEW d, Code(<<a>>, n), Code(<<b, c, d>>, n)
      PROVE  Code(<<a, b, c, d>>, n)
  <2>1. PICK A, B : Closed(A, B, n) /\ <<a>> \in Seq(A) /\ <<b, c, d>> \in Seq(A)
    BY <1>3, BothCodes
  <2>2. <<a, b, c, d>> \in Seq(A)
    BY <2>1
  <2> QED BY <2>1, <2>2 DEF Code
<1>4. ASSUME NEW a, NEW b, NEW c, NEW d, NEW e, Code(<<a>>, n), Code(<<b, c, d, e>>, n)
      PROVE  Code(<<a, b, c, d, e>>, n)
  <2>1. PICK A, B : Closed(A, B, n) /\ <<a>> \in Seq(A) /\ <<b, c, d, e>> \in Seq(A)
    BY <1>4, BothCodes
  <2>2. <<a, b, c, d, e>> \in Seq(A)
    BY <2>1
  <2> QED BY <2>1, <2>2 DEF Code
<1>5. ASSUME NEW a, NEW b, NEW c, NEW d, NEW e, NEW f, NEW g,
             Code(<<a, b, c>>, n), Code(<<d, e, f, g>>, n)
      PROVE  Code(<<a, b, c, d, e, f, g>>, n)
  <2>1. PICK A, B : Closed(A, B, n) /\ <<a, b, c>> \in Seq(A) /\ <<d, e, f, g>> \in Seq(A)
    BY <1>5, BothCodes
  <2>2. <<a, b, c, d, e, f, g>> \in Seq(A)
    BY <2>1
  <2> QED BY <2>1, <2>2 DEF Code
<1> QED BY <1>1, <1>2, <1>3, <1>4, <1>5, Zenon

(* The instructions of Plain are safe.                                     *)
LEMMA PlainOK ==
  ASSUME NEW n, NEW i, i[1] \in Plain
  PROVE  Code(<<i>>, n)
BY Empty, OneAnywhere DEF Anywhere

(* eat_expect, push_error, eat_until, the results and the flags; a suffix  *)
(* is safe where it never takes the Eof for one.                           *)
LEMMA Atoms ==
  ASSUME NEW n
  PROVE  /\ \A t : Code(<<Expect(t)>>, n) /\ Code(<<ExpectAny(t)>>, n) /\ Code(<<Soft(t)>>, n)
         /\ \A t : Code(<<EatUntil(t)>>, n) /\ Code(<<Mk(t)>>, n) /\ ("Eof" \notin t => Code(<<Suffix(t)>>, n))
         /\ \A t : Code(<<SetComma(t)>>, n) /\ Code(<<SetExt(t)>>, n) /\ Code(<<NextMember(t)>>, n)
         /\ \A t, u : Code(<<Infix(t, u)>>, n)
         /\ Code(<<Raise>>, n) /\ Code(<<PushError>>, n) /\ Code(<<Skip>>, n) /\ Code(<<Ok>>, n)
         /\ Code(<<None>>, n) /\ Code(<<TryFn>>, n) /\ Code(<<Ident>>, n)
<1>1. \A t : Code(<<Expect(t)>>, n) /\ Code(<<ExpectAny(t)>>, n) /\ Code(<<Soft(t)>>, n)
  BY PlainOK DEF Expect, ExpectAny, Soft, Plain
<1>2. \A t : Code(<<EatUntil(t)>>, n) /\ Code(<<Mk(t)>>, n) /\ ("Eof" \notin t => Code(<<Suffix(t)>>, n))
  <2>1. \A t : Code(<<EatUntil(t)>>, n) /\ Code(<<Mk(t)>>, n)
    BY PlainOK DEF EatUntil, Mk, Plain
  <2>2. \A t : "Eof" \notin t => Code(<<Suffix(t)>>, n)
    BY Empty, OneAnywhere DEF Anywhere, Suffix
  <2> QED BY <2>1, <2>2
<1>3. \A t : Code(<<SetComma(t)>>, n) /\ Code(<<SetExt(t)>>, n) /\ Code(<<NextMember(t)>>, n)
  BY PlainOK DEF SetComma, SetExt, NextMember, Plain
<1>4. \A t, u : Code(<<Infix(t, u)>>, n)
  BY PlainOK DEF Infix, Plain
<1>5. Code(<<Raise>>, n) /\ Code(<<PushError>>, n) /\ Code(<<Skip>>, n) /\ Code(<<Ok>>, n)
  BY PlainOK DEF Raise, PushError, Skip, Ok, Plain
<1>6. Code(<<None>>, n) /\ Code(<<TryFn>>, n) /\ Code(<<Ident>>, n)
  BY PlainOK DEF None, TryFn, Ident, ExpectAny, Plain
<1> QED BY <1>1, <1>2, <1>3, <1>4, <1>5, <1>6

(* eat_if, peek_nth(1) and a match on an Option, whatever they find.       *)
LEMMA Branching ==
  ASSUME NEW n, NEW c, NEW d, Code(c, n), Code(d, n)
  PROVE  /\ \A t : Code(<<EatIf(t, c, d)>>, n) /\ Code(<<Peek1(t, c, d)>>, n)
         /\ Code(<<IfSome(c, d)>>, n)
         /\ \A t : Code(<<Opt(t)>>, n)
<1>0. \A e : Code(e, n) => \A t : Code(<<EatIf(t, e, e)>>, n)
  <2> SUFFICES ASSUME NEW e, Code(e, n), NEW t PROVE Code(<<EatIf(t, e, e)>>, n)
    OBVIOUS
  <2>1. PICK A, B : Closed(A, B, n) /\ e \in Seq(A)
    BY DEF Code
  <2> QED BY <2>1, OneAnywhere DEF Anywhere, EatIf
<1>1. PICK A, B : Closed(A, B, n) /\ c \in Seq(A) /\ d \in Seq(A)
  BY BothCodes
<1>2. ASSUME NEW t PROVE Code(<<EatIf(t, c, d)>>, n) /\ Code(<<Peek1(t, c, d)>>, n)
  <2>1. Anywhere(EatIf(t, c, d), A, B, n) /\ Anywhere(Peek1(t, c, d), A, B, n)
    BY <1>1 DEF Anywhere, EatIf, Peek1
  <2> QED BY <1>1, <2>1, OneAnywhere
<1>3. Code(<<IfSome(c, d)>>, n)
  <2>1. Anywhere(IfSome(c, d), A, B, n)
    BY <1>1 DEF Anywhere, IfSome
  <2> QED BY <1>1, <2>1, OneAnywhere
<1>4. ASSUME NEW t PROVE Code(<<Opt(t)>>, n)
  BY <1>0, Empty, Zenon DEF Opt
<1> QED BY <1>2, <1>3, <1>4

(* A call of a rule that is free, with or without a handler.               *)
LEMMA Calls ==
  ASSUME NEW n
  PROVE  /\ \A r : Free(r) \/ Loops(r) => Code(<<Call(r)>>, n)
         /\ \A r, h : Free(r) /\ Code(h, n) => Code(<<Try(r, h)>>, n)
         /\ \A r : Free(r) => Code(Need(r), n)
<1>1. ASSUME NEW r, Free(r) \/ Loops(r) PROVE Code(<<Call(r)>>, n)
  BY <1>1, Empty, OneAnywhere DEF Anywhere, Call
<1>2. ASSUME NEW r, Free(r), NEW h, Code(h, n) PROVE Code(<<Try(r, h)>>, n)
  <2>1. PICK A, B : Closed(A, B, n) /\ h \in Seq(A)
    BY <1>2 DEF Code
  <2>2. Anywhere(Try(r, h), A, B, n)
    BY <1>2, <2>1 DEF Anywhere, Try
  <2> QED BY <2>1, <2>2, OneAnywhere
<1>3. Code(<<IfSome(<<>>, <<Raise>>)>>, n)
  BY Empty, Atoms, Branching, Zenon
<1>4. ASSUME NEW r, Free(r) PROVE Code(Need(r), n)
  BY <1>1, <1>3, <1>4, Literal, Zenon DEF Need
<1> QED BY <1>1, <1>2, <1>4, Zenon

(* Code that takes its first token unchecked, followed by safe code.       *)
LEMMA AheadConcat ==
  ASSUME NEW A, NEW B, NEW c, NEW e \in Seq(A), Ahead(c, A, B)
  PROVE  Ahead(c \o e, A, B)
<1>1. c \in Seq(A \cup B) /\ e \in Seq(A \cup B) /\ Len(c) \in Nat /\ Len(e) \in Nat
  BY SeqMonotonic, LenProperties DEF Ahead
<1>2. /\ c \o e \in Seq(A \cup B) /\ Len(c \o e) = Len(c) + Len(e)
      /\ \A k \in 1 .. Len(c) + Len(e) : (c \o e)[k] = IF k <= Len(c) THEN c[k] ELSE e[k - Len(c)]
  BY <1>1, ConcatProperties
<1>3. ASSUME NEW k \in 1 .. Len(c \o e), (c \o e)[k] \notin A, k # 1
      PROVE  k = 2 /\ (c \o e)[1] = PushError
  <2>1. \A j \in 1 .. Len(e) : e[j] \in A
    BY ElementOfSeq
  <2>2. k \in 1 .. Len(c) /\ (c \o e)[k] = c[k] /\ (c \o e)[1] = c[1]
    BY <1>1, <1>2, <1>3, <2>1
  <2> QED BY <1>3, <2>2 DEF Ahead
<1> QED BY <1>2, <1>3 DEF Ahead

(* The same for code that takes two tokens.                                *)
LEMMA TwoConcat ==
  ASSUME NEW A, NEW B, NEW c, NEW e \in Seq(A), TwoAhead(c, A, B)
  PROVE  TwoAhead(c \o e, A, B)
<1>1. /\ c \in Seq(A \cup B) /\ e \in Seq(A \cup B) /\ Len(c) \in Nat /\ Len(e) \in Nat
      /\ Len(c) >= 1
  BY SeqMonotonic, LenProperties, EmptySeq DEF TwoAhead
<1>2. /\ c \o e \in Seq(A \cup B) /\ Len(c \o e) = Len(c) + Len(e)
      /\ \A k \in 1 .. Len(c) + Len(e) : (c \o e)[k] = IF k <= Len(c) THEN c[k] ELSE e[k - Len(c)]
  BY <1>1, ConcatProperties
<1>3. ASSUME NEW k \in 1 .. Len(c \o e), (c \o e)[k] \notin A
      PROVE  k <= 2
  <2>1. \A j \in 1 .. Len(e) : e[j] \in A
    BY ElementOfSeq
  <2>2. k \in 1 .. Len(c) /\ (c \o e)[k] = c[k]
    BY <1>1, <1>2, <1>3, <2>1
  <2> QED BY <1>3, <2>2 DEF TwoAhead
<1>4. c \o e # <<>> /\ (c \o e)[1] = Bump
  BY <1>1, <1>2 DEF TwoAhead
<1> QED BY <1>2, <1>3, <1>4 DEF TwoAhead

(* What is safe anywhere is safe in front of the Eof.                      *)
LEMMA OnOK ==
  ASSUME NEW n, NEW c, Code(c, n)
  PROVE  CodeOn(c, n)
<1>1. PICK A, B : Closed(A, B, n) /\ c \in Seq(A)
  BY DEF Code
<1>2. c \in Seq(A \cup B)
  BY <1>1, SeqMonotonic
<1>3. \A k \in 1 .. Len(c) : c[k] \in A
  BY <1>1, ElementOfSeq
<1> QED BY <1>1, <1>2, <1>3 DEF CodeOn, Ahead

(* An instruction that is safe in front of the Eof is such code.           *)
LEMMA OneBeforeEnd ==
  ASSUME NEW A, NEW B, NEW n, Closed(A, B, n), NEW i, BeforeEnd(i, A, B)
  PROVE  CodeOn(<<i>>, n)
<1>1. <<i>> \in Seq(A \cup B \cup {i}) /\ Len(<<i>>) = 1
  OBVIOUS
<1>2. Ahead(<<i>>, A, B \cup {i})
  BY <1>1 DEF Ahead
<1> QED BY <1>2, AddBeforeEnd DEF CodeOn

(* Code of the two kinds is safe for the same sets.                        *)
LEMMA OnWith ==
  ASSUME NEW n, NEW c, NEW d, CodeOn(c, n), Code(d, n)
  PROVE  \E A, B : Closed(A, B, n) /\ Ahead(c, A, B) /\ d \in Seq(A)
<1>1. PICK A, B : Closed(A, B, n) /\ Ahead(c, A, B)
  BY DEF CodeOn
<1>2. PICK C, D : Closed(C, D, n) /\ d \in Seq(C)
  BY DEF Code
<1>3. Closed(A \cup C, B \cup D, n)
  BY <1>1, <1>2, Merge
<1>4. Ahead(c, A \cup C, B \cup D) /\ d \in Seq(A \cup C)
  BY <1>1, <1>2, SeqMonotonic, AheadMono
<1> QED BY <1>3, <1>4

(* The code that follows the unchecked token is safe anywhere.             *)
LEMMA OnConcat ==
  ASSUME NEW n, NEW c, NEW d, CodeOn(c, n), Code(d, n)
  PROVE  CodeOn(c \o d, n)
<1>1. PICK A, B : Closed(A, B, n) /\ Ahead(c, A, B) /\ d \in Seq(A)
  BY OnWith
<1>2. Ahead(c \o d, A, B)
  BY <1>1, AheadConcat
<1> QED BY <1>1, <1>2 DEF CodeOn

(* Code that takes a token, written down instruction by instruction.       *)
LEMMA OnLiteral ==
  ASSUME NEW n
  PROVE  /\ CodeOn(<<Bump>>, n)
         /\ CodeOn(<<PushError, Bump>>, n)
         /\ \A a, b : CodeOn(<<a>>, n) /\ Code(<<b>>, n) => CodeOn(<<a, b>>, n)
         /\ \A a, b, c : CodeOn(<<a>>, n) /\ Code(<<b, c>>, n) => CodeOn(<<a, b, c>>, n)
         /\ \A a, b, c, d : CodeOn(<<a>>, n) /\ Code(<<b, c, d>>, n) => CodeOn(<<a, b, c, d>>, n)
<1>1. CodeOn(<<Bump>>, n)
  <2>1. BeforeEnd(Bump, {PushError}, {Bump})
    BY DEF BeforeEnd, NeedsToken, Bump
  <2> QED BY <2>1, Empty, OneBeforeEnd
<1>2. CodeOn(<<PushError, Bump>>, n)
  <2>1. <<PushError, Bump>> \in Seq({PushError} \cup {Bump})
    OBVIOUS
  <2>2. Ahead(<<PushError, Bump>>, {PushError}, {Bump})
    BY <2>1 DEF Ahead
  <2> QED BY <2>2, Empty DEF CodeOn
<1>3. ASSUME NEW a, NEW b, CodeOn(<<a>>, n), Code(<<b>>, n) PROVE CodeOn(<<a, b>>, n)
  <2>1. PICK A, B : Closed(A, B, n) /\ Ahead(<<a>>, A, B) /\ <<b>> \in Seq(A)
    BY <1>3, OnWith
  <2>2. a \in A \cup B /\ b \in A
    BY <2>1 DEF Ahead
  <2>3. Ahead(<<a, b>>, A, B)
    BY <2>2 DEF Ahead
  <2> QED BY <2>1, <2>3 DEF CodeOn
<1>4. ASSUME NEW a, NEW b, NEW c, CodeOn(<<a>>, n), Code(<<b, c>>, n) PROVE CodeOn(<<a, b, c>>, n)
  <2>1. PICK A, B : Closed(A, B, n) /\ Ahead(<<a>>, A, B) /\ <<b, c>> \in Seq(A)
    BY <1>4, OnWith
  <2>2. a \in A \cup B /\ b \in A /\ c \in A
    BY <2>1 DEF Ahead
  <2>3. Ahead(<<a, b, c>>, A, B)
    BY <2>2 DEF Ahead
  <2> QED BY <2>1, <2>3 DEF CodeOn
<1>5. ASSUME NEW a, NEW b, NEW c, NEW d, CodeOn(<<a>>, n), Code(<<b, c, d>>, n)
      PROVE  CodeOn(<<a, b, c, d>>, n)
  <2>1. PICK A, B : Closed(A, B, n) /\ Ahead(<<a>>, A, B) /\ <<b, c, d>> \in Seq(A)
    BY <1>5, OnWith
  <2>2. a \in A \cup B /\ b \in A /\ c \in A /\ d \in A
    BY <2>1 DEF Ahead
  <2>3. Ahead(<<a, b, c, d>>, A, B)
    BY <2>2 DEF Ahead
  <2> QED BY <2>1, <2>3 DEF CodeOn
<1> QED BY <1>1, <1>2, <1>3, <1>4, <1>5, Zenon

(* A diagnostic about a redundant token, and then the token is taken.      *)
LEMMA Warned ==
  ASSUME NEW n, NEW b, NEW c, CodeOn(c, n), c # <<>>, c[1] = Bump
  PROVE  CodeOn((IF b THEN <<PushError>> ELSE <<>>) \o c, n)
<1>1. PICK A, B : Closed(A, B, n) /\ Ahead(c, A, B)
  BY DEF CodeOn
<1>2. c \in Seq(A \cup B) /\ PushError \in A /\ c[1] # PushError
  BY <1>1 DEF Closed, Ahead, Bump, PushError
<1>3. CASE b
  <2>1. <<PushError>> \in Seq(A \cup B) /\ Len(<<PushError>>) = 1 /\ Len(c) \in Nat
    BY <1>2, LenProperties
  <2> DEFINE e == <<PushError>> \o c
  <2>2. /\ e \in Seq(A \cup B) /\ Len(e) = 1 + Len(c)
        /\ \A k \in 1 .. 1 + Len(c) : e[k] = IF k <= 1 THEN PushError ELSE c[k - 1]
    BY <1>2, <2>1, ConcatProperties
  <2> HIDE DEF e
  <2>3. \A j \in 1 .. Len(c) : c[j] \in A \/ j = 1
    BY <1>1, <1>2 DEF Ahead
  <2>4. e[1] = PushError
    BY <2>1, <2>2
  <2>5. ASSUME NEW k \in 1 .. Len(e) PROVE e[k] \in A \/ k = 1 \/ k = 2
    <3>1. CASE k = 1
      BY <3>1
    <3>2. CASE k # 1
      <4>1. k - 1 \in 1 .. Len(c) /\ e[k] = c[k - 1]
        BY <2>1, <2>2, <3>2
      <4> QED BY <4>1, <2>3
    <3> QED BY <3>1, <3>2
  <2>6. Ahead(e, A, B)
    BY <2>2, <2>4, <2>5 DEF Ahead
  <2> QED BY <1>1, <1>3, <2>6 DEF CodeOn, e
<1>4. CASE ~b
  <2>1. <<>> \o c = c
    BY <1>2, ConcatEmptySeq
  <2> QED BY <1>4, <2>1
<1> QED BY <1>3, <1>4

(* Code that takes two tokens.                                             *)
LEMMA TwoLiteral ==
  ASSUME NEW n
  PROVE  /\ CodeTwo(<<Bump, Bump>>, n)
         /\ \A a : Code(<<a>>, n) => CodeTwo(<<Bump, Bump, a>>, n)
         /\ \A c, d : CodeTwo(c, n) /\ Code(d, n) => CodeTwo(c \o d, n)
<1>1. CodeTwo(<<Bump, Bump>>, n)
  <2>1. TwoAhead(<<Bump, Bump>>, {PushError}, {Bump})
    BY DEF TwoAhead
  <2> QED BY <2>1, Empty DEF CodeTwo
<1>2. ASSUME NEW a, Code(<<a>>, n) PROVE CodeTwo(<<Bump, Bump, a>>, n)
  <2>1. PICK A, B : Closed(A, B, n) /\ <<a>> \in Seq(A)
    BY <1>2 DEF Code
  <2>2. a \in A /\ Bump \in B
    BY <2>1 DEF Closed
  <2>3. TwoAhead(<<Bump, Bump, a>>, A, B)
    BY <2>2 DEF TwoAhead
  <2> QED BY <2>1, <2>3 DEF CodeTwo
<1>3. ASSUME NEW c, NEW d, CodeTwo(c, n), Code(d, n) PROVE CodeTwo(c \o d, n)
  <2>1. PICK A, B : Closed(A, B, n) /\ TwoAhead(c, A, B)
    BY <1>3 DEF CodeTwo
  <2>2. PICK C, D : Closed(C, D, n) /\ d \in Seq(C)
    BY <1>3 DEF Code
  <2>3. Closed(A \cup C, B \cup D, n)
    BY <2>1, <2>2, Merge
  <2>4. TwoAhead(c, A \cup C, B \cup D) /\ d \in Seq(A \cup C)
    BY <2>1, <2>2, SeqMonotonic, TwoMono
  <2>5. TwoAhead(c \o d, A \cup C, B \cup D)
    BY <2>4, TwoConcat
  <2> QED BY <2>3, <2>5 DEF CodeTwo
<1> QED BY <1>1, <1>2, <1>3, Zenon

(* A call of a rule that takes its token unchecked.                        *)
LEMMA OnCall ==
  ASSUME NEW n, NEW r, r[1] \in OnToken
  PROVE  CodeOn(<<Call(r)>>, n)
BY Empty, OneBeforeEnd DEF BeforeEnd, NeedsToken, Call

(* A match on peek_nth(1) in front of the Eof: where that is a token, both *)
(* may be taken.                                                           *)
LEMMA OnPeek ==
  ASSUME NEW n, NEW T, "Eof" \notin T, NEW c, NEW d, CodeOn(c, n) \/ CodeTwo(c, n), CodeOn(d, n)
  PROVE  CodeOn(<<Peek1(T, c, d)>>, n)
<1>1. PICK A, B : Closed(A, B, n) /\ (Ahead(c, A, B) \/ TwoAhead(c, A, B))
  BY DEF CodeOn, CodeTwo
<1>2. PICK C, D : Closed(C, D, n) /\ Ahead(d, C, D)
  BY DEF CodeOn
<1>3. Closed(A \cup C, B \cup D, n)
  BY <1>1, <1>2, Merge
<1>4. Ahead(c, A \cup C, B \cup D) \/ TwoAhead(c, A \cup C, B \cup D)
  BY <1>1, AheadMono, TwoMono
<1>5. Ahead(d, A \cup C, B \cup D)
  BY <1>2, AheadMono
<1>6. BeforeEnd(Peek1(T, c, d), A \cup C, B \cup D)
  BY <1>4, <1>5 DEF BeforeEnd, NeedsToken, Peek1
<1> QED BY <1>3, <1>6, OneBeforeEnd

(* One arm.                                                                *)
LEMMA OneArm ==
  ASSUME NEW n, NEW T, NEW c
  PROVE  /\ Code(c, n) => ArmsOK(<<Arm(T, c)>>, n)
         /\ "Eof" \notin T /\ CodeOn(c, n) => ArmsOK(<<Arm(T, c)>>, n)
         /\ CodeOn(c, n) => ArmsOn(<<Arm(T, c)>>, n)
<1> PICK X : X = {Arm(T, c)}
  OBVIOUS
<1>0. <<Arm(T, c)>> \in Seq(X)
  OBVIOUS
<1>1. ASSUME Code(c, n) PROVE ArmsOK(<<Arm(T, c)>>, n)
  <2>1. PICK A, B : Closed(A, B, n) /\ c \in Seq(A)
    BY <1>1 DEF Code
  <2>2. ArmOK(Arm(T, c), A, B)
    BY <2>1 DEF ArmOK, Arm
  <2>3. \A x \in X : ArmOK(x, A, B)
    BY <2>2
  <2> QED BY <1>0, <2>1, <2>3 DEF ArmsOK
<1>2. ASSUME "Eof" \notin T, CodeOn(c, n) PROVE ArmsOK(<<Arm(T, c)>>, n)
  <2>1. PICK A, B : Closed(A, B, n) /\ Ahead(c, A, B)
    BY <1>2 DEF CodeOn
  <2>2. ArmOK(Arm(T, c), A, B)
    BY <1>2, <2>1 DEF ArmOK, Arm
  <2>3. \A x \in X : ArmOK(x, A, B)
    BY <2>2
  <2> QED BY <1>0, <2>1, <2>3 DEF ArmsOK
<1>3. ASSUME CodeOn(c, n) PROVE ArmsOn(<<Arm(T, c)>>, n)
  <2>1. PICK A, B : Closed(A, B, n) /\ Ahead(c, A, B)
    BY <1>3 DEF CodeOn
  <2>2. Ahead(Arm(T, c)[2], A, B)
    BY <2>1 DEF Arm
  <2>3. \A x \in X : Ahead(x[2], A, B)
    BY <2>2
  <2> QED BY <1>0, <2>1, <2>3 DEF ArmsOn
<1> QED BY <1>1, <1>2, <1>3

(* Two lists of arms are safe for the same sets.                           *)
LEMMA ArmsWith ==
  ASSUME NEW n, NEW s, NEW t, ArmsOK(s, n), ArmsOK(t, n)
  PROVE  \E A, B, X : Closed(A, B, n) /\ s \in Seq(X) /\ t \in Seq(X) /\ \A x \in X : ArmOK(x, A, B)
<1>1. PICK A, B, X : Closed(A, B, n) /\ s \in Seq(X) /\ \A x \in X : ArmOK(x, A, B)
  BY DEF ArmsOK
<1>2. PICK C, D, Y : Closed(C, D, n) /\ t \in Seq(Y) /\ \A x \in Y : ArmOK(x, C, D)
  BY DEF ArmsOK
<1>3. Closed(A \cup C, B \cup D, n)
  BY <1>1, <1>2, Merge
<1>4. s \in Seq(X \cup Y) /\ t \in Seq(X \cup Y)
  BY <1>1, <1>2, SeqMonotonic
<1>5. \A x \in X \cup Y : ArmOK(x, A \cup C, B \cup D)
  BY <1>1, <1>2, ArmMono
<1> QED BY <1>3, <1>4, <1>5

(* Two lists of arms make one.                                             *)
LEMMA ArmsConcat ==
  ASSUME NEW n, NEW s, NEW t, ArmsOK(s, n), ArmsOK(t, n)
  PROVE  ArmsOK(s \o t, n)
<1>1. PICK A, B, X : Closed(A, B, n) /\ s \in Seq(X) /\ t \in Seq(X) /\ \A x \in X : ArmOK(x, A, B)
  BY ArmsWith
<1>2. s \o t \in Seq(X)
  BY <1>1, ConcatProperties
<1> QED BY <1>1, <1>2 DEF ArmsOK

(* Arms that are written down one by one.                                  *)
LEMMA ArmsLiteral ==
  ASSUME NEW n
  PROVE  /\ \A a, b : ArmsOK(<<a>>, n) /\ ArmsOK(<<b>>, n) => ArmsOK(<<a, b>>, n)
         /\ \A a, b, c : ArmsOK(<<a>>, n) /\ ArmsOK(<<b, c>>, n) => ArmsOK(<<a, b, c>>, n)
         /\ \A a, b, c, d : ArmsOK(<<a>>, n) /\ ArmsOK(<<b, c, d>>, n) => ArmsOK(<<a, b, c, d>>, n)
         /\ \A a, b, c, d, e : ArmsOK(<<a>>, n) /\ ArmsOK(<<b, c, d, e>>, n) => ArmsOK(<<a, b, c, d, e>>, n)
         /\ \A a, b, c, d, e, f : ArmsOK(<<a>>, n) /\ ArmsOK(<<b, c, d, e, f>>, n)
              => ArmsOK(<<a, b, c, d, e, f>>, n)
         /\ \A a, b, c, d, e, f, g : ArmsOK(<<a>>, n) /\ ArmsOK(<<b, c, d, e, f, g>>, n)
              => ArmsOK(<<a, b, c, d, e, f, g>>, n)
<1>2. ASSUME NEW a, NEW b, ArmsOK(<<a>>, n), ArmsOK(<<b>>, n)
      PROVE  ArmsOK(<<a, b>>, n)
  <2>1. PICK A, B, X : Closed(A, B, n) /\ <<a>> \in Seq(X) /\ <<b>> \in Seq(X) /\ \A x \in X : ArmOK(x, A, B)
    BY <1>2, ArmsWith
  <2>2. <<a, b>> \in Seq(X)
    BY <2>1
  <2> QED BY <2>1, <2>2 DEF ArmsOK
<1>3. ASSUME NEW a, NEW b, NEW c, ArmsOK(<<a>>, n), ArmsOK(<<b, c>>, n)
      PROVE  ArmsOK(<<a, b, c>>, n)
  <2>1. PICK A, B, X : Closed(A, B, n) /\ <<a>> \in Seq(X) /\ <<b, c>> \in Seq(X) /\ \A x \in X : ArmOK(x, A, B)
    BY <1>3, ArmsWith
  <2>2. <<a, b, c>> \in Seq(X)
    BY <2>1
  <2> QED BY <2>1, <2>2 DEF ArmsOK
<1>4. ASSUME NEW a, NEW b, NEW c, NEW d, ArmsOK(<<a>>, n), ArmsOK(<<b, c, d>>, n)
      PROVE  ArmsOK(<<a, b, c, d>>, n)
  <2>1. PICK A, B, X : Closed(A, B, n) /\ <<a>> \in Seq(X) /\ <<b, c, d>> \in Seq(X)
                       /\ \A x \in X : ArmOK(x, A, B)
    BY <1>4, ArmsWith
  <2>2. <<a, b, c, d>> \in Seq(X)
    BY <2>1
  <2> QED BY <2>1, <2>2 DEF ArmsOK
<1>5. ASSUME NEW a, NEW b, NEW c, NEW d, NEW e, ArmsOK(<<a>>, n), ArmsOK(<<b, c, d, e>>, n)
      PROVE  ArmsOK(<<a, b, c, d, e>>, n)
  <2>1. PICK A, B, X : Closed(A, B, n) /\ <<a>> \in Seq(X) /\ <<b, c, d, e>> \in Seq(X)
                       /\ \A x \in X : ArmOK(x, A, B)
    BY <1>5, ArmsWith
  <2>2. <<a, b, c, d, e>> \in Seq(X)
    BY <2>1
  <2> QED BY <2>1, <2>2 DEF ArmsOK
<1>6. ASSUME NEW a, NEW b, NEW c, NEW d, NEW e, NEW f, ArmsOK(<<a>>, n), ArmsOK(<<b, c, d, e, f>>, n)
      PROVE  ArmsOK(<<a, b, c, d, e, f>>, n)
  <2>1. PICK A, B, X : Closed(A, B, n) /\ <<a>> \in Seq(X) /\ <<b, c, d, e, f>> \in Seq(X)
                       /\ \A x \in X : ArmOK(x, A, B)
    BY <1>6, ArmsWith
  <2>2. <<a, b, c, d, e, f>> \in Seq(X)
    BY <2>1
  <2> QED BY <2>1, <2>2 DEF ArmsOK
<1>7. ASSUME NEW a, NEW b, NEW c, NEW d, NEW e, NEW f, NEW g, ArmsOK(<<a>>, n), ArmsOK(<<b, c, d, e, f, g>>, n)
      PROVE  ArmsOK(<<a, b, c, d, e, f, g>>, n)
  <2>1. PICK A, B, X : Closed(A, B, n) /\ <<a>> \in Seq(X) /\ <<b, c, d, e, f, g>> \in Seq(X)
                       /\ \A x \in X : ArmOK(x, A, B)
    BY <1>7, ArmsWith
  <2>2. <<a, b, c, d, e, f, g>> \in Seq(X)
    BY <2>1
  <2> QED BY <2>1, <2>2 DEF ArmsOK
<1> QED BY <1>2, <1>3, <1>4, <1>5, <1>6, <1>7, Zenon

(* Two lists of arms in front of the Eof are safe for the same sets.       *)
LEMMA ArmsOnWith ==
  ASSUME NEW n, NEW s, NEW t, ArmsOn(s, n), ArmsOn(t, n)
  PROVE  \E A, B, X : Closed(A, B, n) /\ s \in Seq(X) /\ t \in Seq(X) /\ \A x \in X : Ahead(x[2], A, B)
<1>1. PICK A, B, X : Closed(A, B, n) /\ s \in Seq(X) /\ \A x \in X : Ahead(x[2], A, B)
  BY DEF ArmsOn
<1>2. PICK C, D, Y : Closed(C, D, n) /\ t \in Seq(Y) /\ \A x \in Y : Ahead(x[2], C, D)
  BY DEF ArmsOn
<1>3. Closed(A \cup C, B \cup D, n)
  BY <1>1, <1>2, Merge
<1>4. s \in Seq(X \cup Y) /\ t \in Seq(X \cup Y)
  BY <1>1, <1>2, SeqMonotonic
<1>5. \A x \in X \cup Y : Ahead(x[2], A \cup C, B \cup D)
  BY <1>1, <1>2, AheadMono
<1> QED BY <1>3, <1>4, <1>5

(* Arms in front of the Eof that are written down one by one.              *)
LEMMA ArmsOnLiteral ==
  ASSUME NEW n
  PROVE  /\ \A a, b : ArmsOn(<<a>>, n) /\ ArmsOn(<<b>>, n) => ArmsOn(<<a, b>>, n)
         /\ \A a, b, c : ArmsOn(<<a>>, n) /\ ArmsOn(<<b, c>>, n) => ArmsOn(<<a, b, c>>, n)
         /\ \A a, b, c, d : ArmsOn(<<a>>, n) /\ ArmsOn(<<b, c, d>>, n) => ArmsOn(<<a, b, c, d>>, n)
<1>2. ASSUME NEW a, NEW b, ArmsOn(<<a>>, n), ArmsOn(<<b>>, n)
      PROVE  ArmsOn(<<a, b>>, n)
  <2>1. PICK A, B, X : Closed(A, B, n) /\ <<a>> \in Seq(X) /\ <<b>> \in Seq(X) /\ \A x \in X : Ahead(x[2], A, B)
    BY <1>2, ArmsOnWith
  <2>2. <<a, b>> \in Seq(X)
    BY <2>1
  <2> QED BY <2>1, <2>2 DEF ArmsOn
<1>3. ASSUME NEW a, NEW b, NEW c, ArmsOn(<<a>>, n), ArmsOn(<<b, c>>, n)
      PROVE  ArmsOn(<<a, b, c>>, n)
  <2>1. PICK A, B, X : Closed(A, B, n) /\ <<a>> \in Seq(X) /\ <<b, c>> \in Seq(X)
                       /\ \A x \in X : Ahead(x[2], A, B)
    BY <1>3, ArmsOnWith
  <2>2. <<a, b, c>> \in Seq(X)
    BY <2>1
  <2> QED BY <2>1, <2>2 DEF ArmsOn
<1>4. ASSUME NEW a, NEW b, NEW c, NEW d, ArmsOn(<<a>>, n), ArmsOn(<<b, c, d>>, n)
      PROVE  ArmsOn(<<a, b, c, d>>, n)
  <2>1. PICK A, B, X : Closed(A, B, n) /\ <<a>> \in Seq(X) /\ <<b, c, d>> \in Seq(X)
                       /\ \A x \in X : Ahead(x[2], A, B)
    BY <1>4, ArmsOnWith
  <2>2. <<a, b, c, d>> \in Seq(X)
    BY <2>1
  <2> QED BY <2>1, <2>2 DEF ArmsOn
<1> QED BY <1>2, <1>3, <1>4, Zenon

(* match peek().kind.                                                      *)
LEMMA Matching ==
  ASSUME NEW n, NEW s, NEW c
  PROVE  /\ ArmsOK(s, n) /\ Code(c, n) => Code(<<Case(s, c)>>, n)
         /\ ArmsOn(s, n) /\ CodeOn(c, n) => CodeOn(<<Case(s, c)>>, n)
<1>1. ASSUME ArmsOK(s, n), Code(c, n) PROVE Code(<<Case(s, c)>>, n)
  <2>1. PICK A, B, X : Closed(A, B, n) /\ s \in Seq(X) /\ \A x \in X : ArmOK(x, A, B)
    BY <1>1 DEF ArmsOK
  <2>2. PICK C, D : Closed(C, D, n) /\ c \in Seq(C)
    BY <1>1 DEF Code
  <2>3. Closed(A \cup C, B \cup D, n)
    BY <2>1, <2>2, Merge
  <2>4. c \in Seq(A \cup C) /\ \A x \in X : ArmOK(x, A \cup C, B \cup D)
    BY <2>1, <2>2, SeqMonotonic, ArmMono
  <2>5. DOMAIN s \subseteq Nat /\ \A k \in DOMAIN s : s[k] \in X
    BY <2>1, ElementOfSeq, LenProperties
  <2>6. Anywhere(Case(s, c), A \cup C, B \cup D, n)
    BY <2>4, <2>5 DEF Anywhere, Case
  <2> QED BY <2>3, <2>6, OneAnywhere
<1>2. ASSUME ArmsOn(s, n), CodeOn(c, n) PROVE CodeOn(<<Case(s, c)>>, n)
  <2>1. PICK A, B, X : Closed(A, B, n) /\ s \in Seq(X) /\ \A x \in X : Ahead(x[2], A, B)
    BY <1>2 DEF ArmsOn
  <2>2. PICK C, D : Closed(C, D, n) /\ Ahead(c, C, D)
    BY <1>2 DEF CodeOn
  <2>3. Closed(A \cup C, B \cup D, n)
    BY <2>1, <2>2, Merge
  <2>4. Ahead(c, A \cup C, B \cup D) /\ \A x \in X : Ahead(x[2], A \cup C, B \cup D)
    <3>1. Ahead(c, A \cup C, B \cup D)
      BY <2>2, AheadMono
    <3>2. \A x \in X : Ahead(x[2], A \cup C, B \cup D)
      BY <2>1, AheadMono
    <3> QED BY <3>1, <3>2
  <2>5. DOMAIN s \subseteq Nat /\ \A k \in DOMAIN s : s[k] \in X
    BY <2>1, ElementOfSeq, LenProperties
  <2>6. BeforeEnd(Case(s, c), A \cup C, B \cup D)
    BY <2>4, <2>5 DEF BeforeEnd, NeedsToken, Case
  <2> QED BY <2>3, <2>6, OneBeforeEnd
<1> QED BY <1>1, <1>2

----------------------------------------------------------------------------
(* The rules. *)

(* Which rules are free, and which are loops.                              *)
LEMMA Callable ==
  /\ \A r : r[1] \in {"module", "decl", "open", "colon", "members", "member", "field", "binding",
               "modifiers", "fn", "fndecl", "params", "ty", "needty", "ptrmods", "suffixed",
               "suffixes", "suffixop", "index", "primaryty", "lines", "expr", "prefix", "primary",
               "initexpr", "init", "fieldinit", "element", "fncall", "args",
               "labeled", "inline", "else", "body", "cases", "patterns", "block", "eatgroup",
               "stmt", "var", "userident"} => Free(r)
  /\ \A i : i \in {"fieldinit", "element"} => Free(<<"delimited", i>>) /\ Loops(<<"items", i>>)
  /\ \A c : Loops(<<"stmts", c>>)
BY DEF Free, Loops

(* expect_ty_expr, expect_expr and the same in parentheses or in a         *)
(* context.                                                                *)
LEMMA Operands ==
  ASSUME NEW n
  PROVE  /\ Code(Need(Expr), n) /\ Code(Need(NoInit), n) /\ Code(Need(TyExpr), n)
         /\ \A ctx : Code(InCtx(ctx), n) /\ Code(InCtxNoInit(ctx), n)
         /\ \A c : Code(c, n) => Code(Paren(c), n)
<1>1. Free(Expr) /\ Free(NoInit) /\ Free(TyExpr)
  BY Callable DEF Expr, NoInit, TyExpr
<1>2. Code(Need(Expr), n) /\ Code(Need(NoInit), n) /\ Code(Need(TyExpr), n)
  BY <1>1, Calls
<1>3. \A ctx : Code(InCtx(ctx), n) /\ Code(InCtxNoInit(ctx), n)
  BY <1>2, Zenon DEF InCtx, InCtxNoInit
<1>4. ASSUME NEW c, Code(c, n) PROVE Code(Paren(c), n)
  BY <1>4, Atoms, Concat, Zenon DEF Paren
<1> QED BY <1>2, <1>3, <1>4, Zenon

(* A redundant modifier is reported and taken.                             *)
LEMMA WarnedBump ==
  ASSUME NEW n
  PROVE  /\ \A w : CodeOn((IF w THEN <<PushError>> ELSE <<>>) \o <<Bump>>, n)
         /\ \A w, a : Code(<<a>>, n) => CodeOn((IF w THEN <<PushError>> ELSE <<>>) \o <<Bump, a>>, n)
         /\ \A w, a, b, c : Code(<<a, b, c>>, n)
              => CodeOn((IF w THEN <<PushError>> ELSE <<>>) \o <<Bump, a, b, c>>, n)
<1>1. CodeOn(<<Bump>>, n) /\ <<Bump>> # <<>> /\ <<Bump>>[1] = Bump
  BY OnLiteral
<1>2. \A a : Code(<<a>>, n) => CodeOn(<<Bump, a>>, n)
  BY OnLiteral, Zenon
<1>3. \A a, b, c : Code(<<a, b, c>>, n) => CodeOn(<<Bump, a, b, c>>, n)
  BY OnLiteral, Zenon
<1>4. /\ \A a : <<Bump, a>> # <<>> /\ <<Bump, a>>[1] = Bump
      /\ \A a, b, c : <<Bump, a, b, c>> # <<>> /\ <<Bump, a, b, c>>[1] = Bump
  OBVIOUS
<1> QED BY <1>1, <1>2, <1>3, <1>4, Warned, Zenon

(* The handler of an item that failed, for an item that started in front   *)
(* of the Eof.                                                             *)
LEMMA Skipping ==
  ASSUME NEW n, NEW o \in 1 .. n - 1, NEW T
  PROVE  Code(<<Progress(o, T)>>, n)
BY Empty, OneAnywhere DEF Anywhere, Progress

(* eat_group, entered in front of the Eof.                                 *)
LEMMA StmtsRule ==
  ASSUME NEW n, NEW o \in 1 .. n - 1
  PROVE  \A c : Code(EatItems(c, o), n)
<1>1. /\ \A c : Free(<<"stmt", c>>)
      /\ \A c : Loops(<<"stmts", c>>)
  BY Callable
<1>2. Code(<<PushError, Progress(o, {})>>, n)
  BY Skipping, Atoms, Literal, Zenon
<1> QED BY <1>1, <1>2, Literal, Empty, Calls, OneArm, Matching, Zenon DEF EatItems

(* eat_delimited_group, entered in front of the Eof.                       *)
LEMMA ItemsRule ==
  ASSUME NEW n, NEW o \in 1 .. n - 1, NEW i \in {"fieldinit", "element"}
  PROVE  Code(EatDelimitedItems(i, o), n)
<1>1. Free(<<i>>) /\ Loops(<<"items", i>>)
  BY DEF Free, Loops
<1>2. Code(<<PushError, Progress(o, {"Comma", "RBrace"})>>, n)
  BY Skipping, Atoms, Literal, Zenon
<1> QED BY <1>1, <1>2, Literal, Empty, Calls, Branching, OneArm, Matching, Zenon DEF EatDelimitedItems

(* parse_module.                                                           *)
LEMMA ModuleRule ==
  ASSUME NEW n
  PROVE  Code(ParseModule, n)
<1>1. /\ Free(<<"decl", "root">>)
  BY Callable
<1> QED BY <1>1, Operands, Atoms, Literal, Branching, Empty, Concat, Calls, OneArm, Matching, Zenon
       DEF ParseModule

(* The tag type of parse_enum_decl.                                        *)
LEMMA EnumTagRule ==
  ASSUME NEW n
  PROVE  Code(EnumTag, n)
BY Operands, Atoms, Literal, Branching, Empty, Concat, Calls, OneArm, Matching, Zenon
   DEF EnumTag

(* The tag type of parse_union_decl.                                       *)
LEMMA UnionTagRule ==
  ASSUME NEW n
  PROVE  Code(UnionTag, n)
BY Operands, Atoms, Literal, Branching, Empty, Concat, Calls, OneArm, Matching, OnLiteral, OnConcat,
   OnOK, Zenon
   DEF UnionTag

(* The loop over the members.                                              *)
LEMMA MembersRule ==
  ASSUME NEW n
  PROVE  \A k, c : Code(ParseMembers(k, c), n)
<1>1. /\ \A k : Free(<<"member", k>>)
  BY Callable
<1> QED BY <1>1, Operands, Atoms, Literal, Branching, Empty, Concat, Calls, OneArm, Matching, Zenon
       DEF ParseMembers

(* parse_field_def, parse_enum_variant_def, parse_union_field_def.         *)
LEMMA FieldRule ==
  ASSUME NEW n
  PROVE  \A k : Code(ParseField(k), n)
<1>1. /\ Free(<<"colon">>)
  BY Callable
<1> QED BY <1>1, Operands, Atoms, Literal, Branching, Empty, Concat, Calls, OneArm, Matching, Zenon
       DEF ParseField, ParseEnumVariantDef, ParseUnionFieldDef, ParseFieldDef

(* parse_associated_binding.                                               *)
LEMMA BindingRule ==
  ASSUME NEW n
  PROVE  Code(ParseAssociatedBinding, n)
<1>1. /\ Free(<<"var">>)
  BY Callable
<1> QED BY <1>1, Operands, Atoms, Literal, Branching, Empty, Concat, Calls, OneArm, Matching, Zenon
       DEF ParseAssociatedBinding

(* parse_decl_modifiers.                                                   *)
LEMMA ModifiersRule ==
  ASSUME NEW n
  PROVE  \A e, i : Code(ParseDeclModifiers(e, i), n)
<1>1. /\ \A e, i : Free(<<"modifiers", e, i>>)
  BY Callable
<1> QED BY <1>1, Operands, Atoms, Literal, Branching, Empty, Concat, Calls, OneArm, Matching,
           OnLiteral, OnConcat, OnOK, WarnedBump, ArmsLiteral, Zenon
       DEF ParseDeclModifiers

(* parse_associated_function.                                              *)
LEMMA FunctionRule ==
  ASSUME NEW n
  PROVE  \A e : Code(ParseAssociatedFunction(e), n)
<1>1. /\ Free(<<"fndecl">>)
      /\ Free(<<"block", "Value">>)
  BY Callable
<1> QED BY <1>1, Operands, Atoms, Literal, Branching, Empty, Concat, Calls, OneArm, Matching,
           OnLiteral, OnConcat, OnOK, Zenon
       DEF ParseAssociatedFunction

(* parse_fn_decl.                                                          *)
LEMMA FnDeclRule ==
  ASSUME NEW n
  PROVE  Code(ParseFnDecl, n)
<1>1. /\ Free(<<"params">>)
  BY Callable
<1> QED BY <1>1, Operands, Atoms, Literal, Branching, Empty, Concat, Calls, OneArm, Matching, Zenon
       DEF ParseFnDecl

(* The parameters of a function.                                           *)
LEMMA ParamsRule ==
  ASSUME NEW n
  PROVE  Code(ParseParams, n)
<1>1. /\ Free(<<"params">>)
  BY Callable
<1> QED BY <1>1, Operands, Atoms, Literal, Branching, Empty, Concat, Calls, OneArm, Matching,
           OnLiteral, OnConcat, OnOK, Zenon
       DEF ParseParams

(* parse_ty_expr: a prefix is called on its token.                         *)
LEMMA TyExprRule ==
  ASSUME NEW n
  PROVE  Code(ParseTyExpr, n)
<1>1. /\ Free(<<"suffixed">>)
      /\ <<"prefixed">>[1] \in OnToken
  BY Callable DEF OnToken
<1> QED BY <1>1, Operands, Atoms, Literal, Branching, Empty, Concat, Calls, OneArm, Matching,
           OnLiteral, OnConcat, OnOK, OnCall, Zenon
       DEF ParseTyExpr

(* parse_suffix_ty_expr.                                                   *)
LEMMA SuffixTyRule ==
  ASSUME NEW n
  PROVE  Code(ParseSuffixTyExpr, n)
<1>1. /\ Free(<<"primaryty">>)
      /\ Free(<<"suffixes", FALSE>>)
  BY Callable
<1> QED BY <1>1, Operands, Atoms, Literal, Branching, Empty, Concat, Calls, OneArm, Matching, Zenon
       DEF ParseSuffixTyExpr

(* Its loop over the suffixes.                                             *)
LEMMA SuffixesRule ==
  ASSUME NEW n
  PROVE  \A b : Code(ParseSuffixes(b), n)
<1>1. /\ Free(<<"suffixop">>)
      /\ Free(<<"fncall">>)
      /\ \A b : Free(<<"suffixes", b>>)
  BY Callable
<1> QED BY <1>1, Operands, Atoms, Literal, Branching, Empty, Concat, Calls, OneArm, Matching, Zenon
       DEF ParseSuffixes

(* parse_suffix_ty_op.                                                     *)
LEMMA SuffixOpRule ==
  ASSUME NEW n
  PROVE  Code(ParseSuffixTyOp, n)
<1>1. /\ Free(<<"index">>)
  BY Callable
<1> QED BY <1>1, Operands, Atoms, Literal, Branching, Empty, Concat, Calls, OneArm, Matching,
           OnLiteral, OnConcat, OnOK, ArmsLiteral, Zenon
       DEF ParseSuffixTyOp

(* What follows a bracket.                                                 *)
LEMMA IndexRule ==
  ASSUME NEW n
  PROVE  Code(ParseIndex, n)
BY Operands, Atoms, Literal, Branching, Empty, Concat, Calls, OneArm, Matching, OnLiteral, OnConcat,
   OnOK, ArmsLiteral, Zenon
   DEF ParseIndex

(* The lines of a multi-line string.                                       *)
LEMMA LinesRule ==
  ASSUME NEW n
  PROVE  Code(ParseLines, n)
<1>1. /\ Free(<<"lines">>)
  BY Callable
<1> QED BY <1>1, Operands, Atoms, Literal, Branching, Empty, Concat, Calls, OneArm, Matching, Zenon
       DEF ParseLines

(* parse_expr_precedence.                                                  *)
LEMMA PrecedenceRule ==
  ASSUME NEW n
  PROVE  \A bp, i : Code(ParseExprPrecedence(bp, i), n)
<1>1. /\ \A i : Free(<<"prefix", i>>)
  BY Callable
<1> QED BY <1>1, Operands, Atoms, Literal, Branching, Empty, Concat, Calls, OneArm, Matching, Zenon
       DEF ParseExprPrecedence

(* parse_prefix_expr.                                                      *)
LEMMA PrefixRule ==
  ASSUME NEW n
  PROVE  \A i : Code(ParsePrefixExpr(i), n)
<1>1. /\ \A i : Free(<<"prefix", i>>)
      /\ \A i : Free(<<"primary", i>>)
  BY Callable
<1> QED BY <1>1, Operands, Atoms, Literal, Branching, Empty, Concat, Calls, OneArm, Matching,
           OnLiteral, OnConcat, OnOK, Zenon
       DEF ParsePrefixExpr, PrefixOps

(* parse_init_expr.                                                        *)
LEMMA InitExprRule ==
  ASSUME NEW n
  PROVE  Code(ParseInitExpr, n)
<1>1. /\ Free(<<"init">>)
      /\ Free(TyExpr)
  BY Callable DEF TyExpr
<1> QED BY <1>1, Operands, Atoms, Literal, Branching, Empty, Concat, Calls, OneArm, Matching, Zenon
       DEF ParseInitExpr

(* The initializer of a struct or an array.                                *)
LEMMA InitRule ==
  ASSUME NEW n
  PROVE  Code(ParseInit, n)
<1>1. /\ Free(<<"delimited", "fieldinit">>)
      /\ Free(<<"delimited", "element">>)
  BY Callable
<1> QED BY <1>1, Operands, Atoms, Literal, Branching, Empty, Concat, Calls, OneArm, Matching, Zenon
       DEF ParseInit

(* parse_struct_field_init.                                                *)
LEMMA FieldInitRule ==
  ASSUME NEW n
  PROVE  Code(ParseStructFieldInit, n)
BY Operands, Atoms, Literal, Branching, Empty, Concat, Calls, OneArm, Matching, Zenon
   DEF ParseStructFieldInit

(* parse_fn_call.                                                          *)
LEMMA FnCallRule ==
  ASSUME NEW n
  PROVE  Code(ParseFnCall, n)
<1>1. /\ Free(<<"args">>)
  BY Callable
<1> QED BY <1>1, Operands, Atoms, Literal, Branching, Empty, Concat, Calls, OneArm, Matching, Zenon
       DEF ParseFnCall

(* The else of an if.                                                      *)
LEMMA ElseRule ==
  ASSUME NEW n
  PROVE  \A c, m : Code(ParseElse(c, m), n)
<1>1. /\ \A c : Free(<<"body", c>>)
      /\ \A c, m : Free(<<"else", c, m>>)
  BY Callable
<1> QED BY <1>1, Operands, Atoms, Literal, Branching, Empty, Concat, Calls, OneArm, Matching, Zenon
       DEF ParseElse

(* parse_if_body, parse_switch_body.                                       *)
LEMMA BodyRule ==
  ASSUME NEW n
  PROVE  \A c : Code(ParseBody(c), n)
<1>1. /\ \A c : Free(<<"block", c>>)
  BY Callable
<1> QED BY <1>1, Operands, Atoms, Literal, Branching, Empty, Concat, Calls, OneArm, Matching, Zenon
       DEF ParseBody

(* The cases of a switch.                                                  *)
LEMMA CasesRule ==
  ASSUME NEW n
  PROVE  \A c : Code(ParseCases(c), n)
<1>1. /\ \A c : Free(<<"patterns", c>>)
      /\ \A c : Free(<<"body", c>>)
      /\ \A c : Free(<<"cases", c>>)
  BY Callable
<1> QED BY <1>1, Operands, Atoms, Literal, Branching, Empty, Concat, Calls, OneArm, Matching, Zenon
       DEF ParseCases

(* The patterns of a case.                                                 *)
LEMMA PatternsRule ==
  ASSUME NEW n
  PROVE  \A c : Code(ParsePatterns(c), n)
<1>1. /\ \A c : Free(<<"patterns", c>>)
  BY Callable
<1> QED BY <1>1, Operands, Atoms, Literal, Branching, Empty, Concat, Calls, OneArm, Matching, Zenon
       DEF ParsePatterns

(* A block.                                                                *)
LEMMA BlockRule ==
  ASSUME NEW n
  PROVE  \A c : Code(ParseBlock(c), n)
<1>1. /\ \A c : Free(<<"eatgroup", c>>)
  BY Callable
<1> QED BY <1>1, Operands, Atoms, Literal, Branching, Empty, Concat, Calls, OneArm, Matching, Zenon
       DEF ParseBlock

(* eat_group up to its loop.                                               *)
LEMMA EatGroupRule ==
  ASSUME NEW n
  PROVE  \A c : Code(EatGroup(c), n)
<1>1. /\ \A c : Loops(<<"stmts", c>>)
  BY Callable
<1> QED BY <1>1, Operands, Atoms, Literal, Branching, Empty, Concat, Calls, OneArm, Matching, Zenon
       DEF EatGroup

(* eat_delimited_group up to its loop.                                     *)
LEMMA DelimitedRule ==
  ASSUME NEW n
  PROVE  \A i \in {"fieldinit", "element"} : Code(EatDelimitedGroup(i), n)
<1>1. /\ \A i \in {"fieldinit", "element"} : Loops(<<"items", i>>)
  BY Callable
<1> QED BY <1>1, Operands, Atoms, Literal, Branching, Empty, Concat, Calls, OneArm, Matching, Zenon
       DEF EatDelimitedGroup

(* What a label may stand in front of.                                     *)
LEMMA LabeledRule ==
  ASSUME NEW n
  PROVE  \A c : Code(ParseLabeled(c), n)
<1>1. /\ \A c : Free(<<"inline", c>>)
      /\ \A c : Free(<<"block", c>>)
      /\ \A c : <<"control", c>>[1] \in OnToken
  BY Callable DEF OnToken
<1> QED BY <1>1, Operands, Atoms, Literal, Branching, Empty, Concat, Calls, OneArm, Matching,
           OnLiteral, OnConcat, OnOK, OnCall, ArmsLiteral, Zenon
       DEF ParseLabeled

(* What #inline may stand in front of.                                     *)
LEMMA InlineRule ==
  ASSUME NEW n
  PROVE  \A c : Code(ParseInlineLoop(c), n)
<1>1. /\ \A c : <<"control", c>>[1] \in OnToken
  BY DEF OnToken
<1> QED BY <1>1, Operands, Atoms, Literal, Branching, Empty, Concat, Calls, OneArm, Matching,
           OnLiteral, OnConcat, OnOK, OnCall, Zenon
       DEF ParseInlineLoop

(* parse_while_impl takes its keyword.                                     *)
LEMMA WhileRule ==
  ASSUME NEW n
  PROVE  \A c : CodeOn(ParseWhile(c), n)
<1>1. /\ \A c : Free(<<"block", c>>)
  BY Callable
<1> QED BY <1>1, Operands, Atoms, Literal, Branching, Empty, Concat, Calls, OneArm, Matching,
           OnLiteral, OnConcat, OnOK, Zenon
       DEF ParseWhile

(* parse_for_impl takes its keyword.                                       *)
LEMMA ForRule ==
  ASSUME NEW n
  PROVE  \A c : CodeOn(ParseFor(c), n)
<1>1. /\ \A c : Free(<<"block", c>>)
  BY Callable
<1> QED BY <1>1, Operands, Atoms, Literal, Branching, Empty, Concat, Calls, OneArm, Matching,
           OnLiteral, OnConcat, OnOK, Zenon
       DEF ParseFor

(* parse_loop_impl takes its keyword.                                      *)
LEMMA LoopRule ==
  ASSUME NEW n
  PROVE  \A c : CodeOn(ParseLoop(c), n)
<1>1. /\ \A c : Free(<<"block", c>>)
  BY Callable
<1> QED BY <1>1, Operands, Atoms, Literal, Branching, Empty, Concat, Calls, OneArm, Matching,
           OnLiteral, OnConcat, OnOK, Zenon
       DEF ParseLoop

(* parse_if_impl takes its keyword.                                        *)
LEMMA IfRule ==
  ASSUME NEW n
  PROVE  \A c : CodeOn(ParseIf(c), n)
<1>1. /\ \A c : Free(<<"block", c>>)
      /\ \A c, m : Free(<<"else", c, m>>)
  BY Callable
<1> QED BY <1>1, Operands, Atoms, Literal, Branching, Empty, Concat, Calls, OneArm, Matching,
           OnLiteral, OnConcat, OnOK, Zenon
       DEF ParseIf

(* parse_switch_impl takes its keyword.                                    *)
LEMMA SwitchRule ==
  ASSUME NEW n
  PROVE  \A c : CodeOn(ParseSwitch(c), n)
<1>1. /\ \A c : Free(<<"cases", c>>)
      /\ \A c : Free(<<"body", c>>)
  BY Callable
<1> QED BY <1>1, Operands, Atoms, Literal, Branching, Empty, Concat, Calls, OneArm, Matching,
           OnLiteral, OnConcat, OnOK, Zenon
       DEF ParseSwitch

(* A statement.                                                            *)
LEMMA StatementRule ==
  ASSUME NEW n
  PROVE  \A c : Code(ParseStatement(c), n)
<1>1. /\ Free(<<"var">>)
  BY Callable
<1> QED BY <1>1, Operands, Atoms, Literal, Branching, Empty, Concat, Calls, OneArm, Matching,
           OnLiteral, OnConcat, OnOK, ArmsLiteral, Zenon
       DEF ParseStatement

(* parse_var_binding.                                                      *)
LEMMA VarRule ==
  ASSUME NEW n
  PROVE  Code(ParseVarBinding, n)
<1>1. /\ Free(<<"userident">>)
      /\ Free(<<"needty">>)
  BY Callable
<1> QED BY <1>1, Operands, Atoms, Literal, Branching, Empty, Concat, Calls, OneArm, Matching, Zenon
       DEF ParseVarBinding

(* parse_struct_decl, parse_enum_decl, parse_union_decl.                   *)
LEMMA DeclRule ==
  ASSUME NEW n
  PROVE  \A k : Code(ParseDecl(k), n)
<1>1. /\ Free(<<"open">>)
      /\ \A k, c : Free(<<"members", k, c>>)
  BY Callable
<1> QED BY <1>1, Operands, Atoms, Literal, Branching, Empty, Concat, Calls, OneArm, Matching,
           EnumTagRule, UnionTagRule, Zenon
       DEF ParseDecl

(* One member.                                                             *)
LEMMA MemberRule ==
  ASSUME NEW n
  PROVE  \A k : Code(ParseMember(k), n)
<1>1. /\ Free(<<"modifiers", FALSE, FALSE>>)
      /\ Free(<<"binding">>)
      /\ \A k : Free(<<"field", k>>)
  BY Callable
<1> QED BY <1>1, Operands, Atoms, Literal, Branching, Empty, Concat, Calls, OneArm, Matching, Zenon
       DEF ParseMember

(* parse_prefixed_ty_expr takes the prefix it was called for.              *)
LEMMA PrefixedRule ==
  ASSUME NEW n
  PROVE  CodeOn(ParsePrefixedTyExpr, n)
<1>1. /\ Free(<<"ptrmods", {}>>)
  BY Callable
<1> QED BY <1>1, Operands, Atoms, Literal, Branching, Empty, Concat, Calls, OneArm, Matching,
           OnLiteral, OnConcat, OnOK, ArmsLiteral, ArmsOnLiteral, Zenon
       DEF ParsePrefixedTyExpr

(* parse_ptr_modifiers.                                                    *)
LEMMA PtrModsRule ==
  ASSUME NEW n
  PROVE  \A s : Code(ParsePtrModifiers(s), n)
<1>1. /\ \A s : Free(<<"ptrmods", s>>)
  BY Callable
<1> QED BY <1>1, Operands, Atoms, Literal, Branching, Empty, Concat, Calls, OneArm, Matching,
           OnLiteral, OnConcat, OnOK, WarnedBump, ArmsLiteral, Zenon
       DEF ParsePtrModifiers

(* The literals of parse_primary_ty_expr.                                  *)
LEMMA LiteralArmsRule ==
  ASSUME NEW n
  PROVE  ArmsOK(LiteralArms, n)
<1>1. /\ Free(<<"lines">>)
  BY Callable
<1> QED BY <1>1, Operands, Atoms, Literal, Branching, Empty, Concat, Calls, OneArm, Matching,
           OnLiteral, OnConcat, OnOK, ArmsLiteral, Zenon
       DEF LiteralArms

(* The declarations of parse_primary_ty_expr.                              *)
LEMMA DeclArmsRule ==
  ASSUME NEW n
  PROVE  ArmsOK(DeclArms, n)
<1> DEFINE packed == Arm({"DirPacked"}, <<Bump, Expect("KwStruct"), Call(<<"decl", "struct">>)>>)
           plain  == <<Arm({"KwStruct"}, <<Bump, Call(<<"decl", "struct">>)>>),
                       Arm({"KwEnum"}, <<Bump, Call(<<"decl", "enum">>)>>),
                       Arm({"KwUnion"}, <<Bump, Call(<<"decl", "union">>)>>)>>
           linear == Arm({"DirLinear"}, <<Bump, Case(<<packed>> \o plain, <<Skip, Raise>>)>>)
<1>1. \A k : Free(<<"decl", k>>)
  BY Callable
<1>2. ArmsOK(<<packed>>, n)
  BY <1>1, Atoms, Literal, Calls, OneArm, OnLiteral, Zenon
<1>3. ArmsOK(plain, n)
  BY <1>1, Calls, OneArm, OnLiteral, ArmsLiteral, Zenon
<1>4. Code(<<Skip, Raise>>, n)
  BY Atoms, Literal, Zenon
<1>5. Code(<<Case(<<packed>> \o plain, <<Skip, Raise>>)>>, n)
  BY <1>2, <1>3, <1>4, ArmsConcat, Matching, Zenon
<1>6. ArmsOK(<<linear>>, n)
  BY <1>5, OneArm, OnLiteral, Zenon
<1>7. DeclArms = <<linear, packed>> \o plain
  BY Zenon DEF DeclArms
<1> HIDE DEF packed, plain, linear
<1> QED BY <1>2, <1>3, <1>6, <1>7, ArmsLiteral, ArmsConcat, Zenon

(* parse_primary_ty_expr.                                                  *)
LEMMA PrimaryTyRule ==
  ASSUME NEW n
  PROVE  Code(ParsePrimaryTyExpr, n)
<1>1. /\ Free(<<"init">>)
      /\ Free(<<"initexpr">>)
      /\ Free(<<"fncall">>)
      /\ Free(<<"labeled", "Ty">>)
      /\ Free(<<"inline", "Ty">>)
      /\ <<"groupty">>[1] \in OnToken
      /\ <<"control", "Ty">>[1] \in OnToken
  BY Callable DEF OnToken
<1>2. ArmsOK(<<Arm(TyTags, <<Bump, Mk("Ty")>>)>>, n)
  BY Atoms, OneArm, OnLiteral, Zenon DEF TyTags
<1>3. CodeOn(<<Peek1({"Ident"}, <<Bump, Bump, Mk("variant")>>,
                    <<Peek1({"LBrace"}, <<Bump, Call(<<"init">>)>>, <<Call(<<"initexpr">>)>>)>>)>>, n)
  <2>1. CodeTwo(<<Bump, Bump, Mk("variant")>>, n)
    BY Atoms, TwoLiteral, Zenon
  <2>2. CodeOn(<<Bump, Call(<<"init">>)>>, n) /\ CodeOn(<<Call(<<"initexpr">>)>>, n)
    BY <1>1, Calls, OnLiteral, OnOK, Zenon
  <2>3. CodeOn(<<Peek1({"LBrace"}, <<Bump, Call(<<"init">>)>>, <<Call(<<"initexpr">>)>>)>>, n)
    BY <2>2, OnPeek, Zenon
  <2> QED BY <2>1, <2>3, OnPeek, Zenon
<1>4. CodeOn(<<Bump, Mk("id"), Call(<<"fncall">>), Mk("call")>>, n)
  BY <1>1, Atoms, Literal, Calls, OnLiteral, Zenon
<1>5. CodeOn(<<Peek1({"Colon"}, <<Bump, Bump, Call(<<"labeled", "Ty">>)>>, <<Bump, Mk("id")>>)>>, n)
  <2>1. CodeTwo(<<Bump, Bump, Call(<<"labeled", "Ty">>)>>, n)
    BY <1>1, Calls, TwoLiteral, Zenon
  <2>2. CodeOn(<<Bump, Mk("id")>>, n)
    BY Atoms, OnLiteral, Zenon
  <2> QED BY <2>1, <2>2, OnPeek, Zenon
<1>6. CodeOn(<<Call(<<"groupty">>)>>, n) /\ CodeOn(<<Call(<<"control", "Ty">>)>>, n)
  BY <1>1, OnCall, Zenon
<1>7. CodeOn(<<Bump, Call(<<"inline", "Ty">>)>>, n) /\ CodeOn(<<Bump, Mk("id")>>, n)
  BY <1>1, Atoms, Calls, OnLiteral, Zenon
<1> DEFINE dot == Arm({"Dot"}, <<Peek1({"Ident"}, <<Bump, Bump, Mk("variant")>>,
                    <<Peek1({"LBrace"}, <<Bump, Call(<<"init">>)>>, <<Call(<<"initexpr">>)>>)>>)>>)
           builtin == Arm({"Builtin"}, <<Bump, Mk("id"), Call(<<"fncall">>), Mk("call")>>)
           group == Arm({"LParen"}, <<Call(<<"groupty">>)>>)
           ident == Arm({"Ident"}, <<Peek1({"Colon"}, <<Bump, Bump, Call(<<"labeled", "Ty">>)>>,
                                           <<Bump, Mk("id")>>)>>)
           control == Arm({"KwIf", "KwWhile", "KwFor", "KwLoop", "KwSwitch"}, <<Call(<<"control", "Ty">>)>>)
           inline == Arm({"DirInline"}, <<Bump, Call(<<"inline", "Ty">>)>>)
           generic == Arm({"Generic"}, <<Bump, Mk("id")>>)
<1>8. ArmsOK(<<dot>>, n) /\ ArmsOK(<<builtin>>, n) /\ ArmsOK(<<group>>, n)
  BY <1>3, <1>4, <1>6, OneArm, Zenon
<1>9. ArmsOK(<<ident>>, n) /\ ArmsOK(<<control>>, n)
  BY <1>5, <1>6, OneArm, Zenon
<1>10. ArmsOK(<<inline>>, n) /\ ArmsOK(<<generic>>, n)
  BY <1>7, OneArm, Zenon
<1>11. Code(<<None>>, n)
  BY Atoms
<1>12. ParsePrimaryTyExpr
       = <<Case(<<Arm(TyTags, <<Bump, Mk("Ty")>>)>> \o LiteralArms \o DeclArms
                \o <<dot, builtin, group, ident, control, inline, generic>>, <<None>>)>>
  BY Zenon DEF ParsePrimaryTyExpr
<1> HIDE DEF dot, builtin, group, ident, control, inline, generic
<1>13. ArmsOK(<<dot, builtin, group, ident, control, inline, generic>>, n)
  BY <1>8, <1>9, <1>10, ArmsLiteral, Zenon
<1> QED BY <1>2, <1>11, <1>12, <1>13, LiteralArmsRule, DeclArmsRule, ArmsConcat, Matching, Zenon

(* A group takes its parenthesis.                                          *)
LEMMA GroupRule ==
  ASSUME NEW n
  PROVE  \A r, i : r[1] \in OnToken /\ Free(i) => CodeOn(ParseGroup(r, i), n)
BY Operands, Atoms, Literal, Branching, Empty, Concat, Calls, OneArm, Matching, OnLiteral, OnConcat,
   OnOK, OnCall, Zenon
   DEF ParseGroup

(* parse_primary_expr.                                                     *)
LEMMA PrimaryRule ==
  ASSUME NEW n
  PROVE  \A i : Code(ParsePrimaryExpr(i), n)
<1>1. /\ Free(<<"block", "Value">>)
      /\ Free(<<"inline", "Value">>)
      /\ Free(<<"labeled", "Value">>)
      /\ Free(<<"initexpr">>)
      /\ Free(TyExpr)
      /\ <<"control", "Value">>[1] \in OnToken
      /\ \A i : <<"group", i>>[1] \in OnToken
  BY Callable DEF OnToken, TyExpr
<1> TAKE i
<1> DEFINE operand == Call(IF i THEN <<"initexpr">> ELSE TyExpr)
           group == Arm({"LParen"}, <<Call(<<"group", i>>)>>)
           block == Arm({"LBrace"}, <<Call(<<"block", "Value">>)>>)
           control == Arm({"KwIf", "KwWhile", "KwFor", "KwLoop", "KwSwitch"},
                          <<Call(<<"control", "Value">>)>>)
           inline == Arm({"DirInline"}, <<Bump, Call(<<"inline", "Value">>)>>)
           discard == Arm({"Underscore"}, <<Bump, Mk("discard")>>)
           ident == Arm({"Ident"}, <<Peek1({"Colon"}, <<Bump, Bump, Call(<<"labeled", "Value">>)>>,
                                           <<operand>>)>>)
<1>2. Code(<<operand>>, n)
  BY <1>1, Calls, Zenon
<1>3. ArmsOK(<<group>>, n) /\ ArmsOK(<<control>>, n)
  <2>1. CodeOn(<<Call(<<"group", i>>)>>, n) /\ CodeOn(<<Call(<<"control", "Value">>)>>, n)
    BY <1>1, OnCall
  <2>2. ArmsOK(<<group>>, n)
    BY <2>1, OneArm, Zenon
  <2>3. ArmsOK(<<control>>, n)
    BY <2>1, OneArm, Zenon
  <2> QED BY <2>2, <2>3
<1>4. ArmsOK(<<block>>, n) /\ ArmsOK(<<inline>>, n) /\ ArmsOK(<<discard>>, n)
  BY <1>1, Atoms, Calls, OnLiteral, OneArm, Zenon
<1>5. ArmsOK(<<ident>>, n)
  <2> HIDE DEF operand
  <2>1. CodeTwo(<<Bump, Bump, Call(<<"labeled", "Value">>)>>, n)
    BY <1>1, Calls, TwoLiteral, Zenon
  <2>2. CodeOn(<<Peek1({"Colon"}, <<Bump, Bump, Call(<<"labeled", "Value">>)>>, <<operand>>)>>, n)
    BY <1>2, <2>1, OnOK, OnPeek, Zenon
  <2> QED BY <2>2, OneArm, Zenon
<1>6. ParsePrimaryExpr(i) = <<Case(<<group, block, control, inline, discard, ident>>, <<operand>>)>>
  BY Zenon DEF ParsePrimaryExpr
<1> HIDE DEF operand, group, block, control, inline, discard, ident
<1>7. ArmsOK(<<group, block, control, inline, discard, ident>>, n)
  BY <1>3, <1>4, <1>5, ArmsLiteral, Zenon
<1> QED BY <1>2, <1>6, <1>7, Matching, Zenon

(* The arguments of a call: a label and its colon are taken together.      *)
LEMMA ArgsRule ==
  ASSUME NEW n
  PROVE  Code(ParseArgs, n)
<1>1. /\ Free(<<"args">>)
      /\ Free(Expr)
  BY Callable DEF Expr
<1> QED BY <1>1, Operands, Atoms, Literal, Branching, Empty, Concat, Calls, OneArm, Matching,
           OnLiteral, OnConcat, OnOK, OnPeek, TwoLiteral, ArmsLiteral, Zenon
       DEF ParseArgs

(* Control flow takes its keyword.                                         *)
LEMMA ControlRule ==
  ASSUME NEW n
  PROVE  \A c : CodeOn(ParseControl(c), n)
BY Operands, Atoms, Literal, Branching, Empty, Concat, Calls, OneArm, Matching, OnLiteral, OnConcat,
   OnOK, ArmsOnLiteral, IfRule, WhileRule, ForRule, LoopRule, SwitchRule, Zenon
   DEF ParseControl

(* A name that is no builtin.                                              *)
LEMMA UserIdentRule ==
  ASSUME NEW n
  PROVE  Code(ParseUserIdent, n)
BY Operands, Atoms, Literal, Branching, Empty, Concat, Calls, OneArm, Matching, OnLiteral, OnConcat,
   OnOK, Zenon
   DEF ParseUserIdent

(* A rule that is free does nothing but safe code, whatever its arguments. *)
LEMMA FreeBody ==
  ASSUME NEW n, NEW r, Free(r)
  PROVE  Code(Body(r), n)
<1>1. CASE r[1] = "module"
  BY <1>1, ModuleRule, Zenon DEF Body
<1>2. CASE r[1] = "decl"
  BY <1>2, DeclRule, Zenon DEF Body
<1>3. CASE r[1] = "open"
  BY <1>3, Atoms, Zenon DEF Body
<1>4. CASE r[1] = "colon"
  BY <1>4, Atoms, Zenon DEF Body
<1>5. CASE r[1] = "members"
  BY <1>5, MembersRule, Zenon DEF Body
<1>6. CASE r[1] = "member"
  BY <1>6, MemberRule, Zenon DEF Body
<1>7. CASE r[1] = "field"
  BY <1>7, FieldRule, Zenon DEF Body
<1>8. CASE r[1] = "binding"
  BY <1>8, BindingRule, Zenon DEF Body
<1>9. CASE r[1] = "modifiers"
  BY <1>9, ModifiersRule, Zenon DEF Body
<1>10. CASE r[1] = "fn"
  BY <1>10, FunctionRule, Zenon DEF Body
<1>11. CASE r[1] = "fndecl"
  BY <1>11, FnDeclRule, Zenon DEF Body
<1>12. CASE r[1] = "params"
  BY <1>12, ParamsRule, Zenon DEF Body
<1>13. CASE r[1] = "ty"
  BY <1>13, TyExprRule, Zenon DEF Body
<1>14. CASE r[1] = "needty"
  BY <1>14, Operands, Zenon DEF Body
<1>15. CASE r[1] = "ptrmods"
  BY <1>15, PtrModsRule, Zenon DEF Body
<1>16. CASE r[1] = "suffixed"
  BY <1>16, SuffixTyRule, Zenon DEF Body
<1>17. CASE r[1] = "suffixes"
  BY <1>17, SuffixesRule, Zenon DEF Body
<1>18. CASE r[1] = "suffixop"
  BY <1>18, SuffixOpRule, Zenon DEF Body
<1>19. CASE r[1] = "index"
  BY <1>19, IndexRule, Zenon DEF Body
<1>20. CASE r[1] = "primaryty"
  BY <1>20, PrimaryTyRule, Zenon DEF Body
<1>21. CASE r[1] = "lines"
  BY <1>21, LinesRule, Zenon DEF Body
<1>22. CASE r[1] = "expr"
  BY <1>22, PrecedenceRule, Zenon DEF Body
<1>23. CASE r[1] = "prefix"
  BY <1>23, PrefixRule, Zenon DEF Body
<1>24. CASE r[1] = "primary"
  BY <1>24, PrimaryRule, Zenon DEF Body
<1>25. CASE r[1] = "initexpr"
  BY <1>25, InitExprRule, Zenon DEF Body
<1>26. CASE r[1] = "init"
  BY <1>26, InitRule, Zenon DEF Body
<1>27. CASE r[1] = "delimited"
  BY <1>27, DelimitedRule, Zenon DEF Body, Free
<1>28. CASE r[1] = "fieldinit"
  BY <1>28, FieldInitRule, Zenon DEF Body
<1>29. CASE r[1] = "element"
  BY <1>29, Operands, Zenon DEF Body
<1>30. CASE r[1] = "fncall"
  BY <1>30, FnCallRule, Zenon DEF Body
<1>31. CASE r[1] = "args"
  BY <1>31, ArgsRule, Zenon DEF Body
<1>32. CASE r[1] = "labeled"
  BY <1>32, LabeledRule, Zenon DEF Body
<1>33. CASE r[1] = "inline"
  BY <1>33, InlineRule, Zenon DEF Body
<1>34. CASE r[1] = "else"
  BY <1>34, ElseRule, Zenon DEF Body
<1>35. CASE r[1] = "body"
  BY <1>35, BodyRule, Zenon DEF Body
<1>36. CASE r[1] = "cases"
  BY <1>36, CasesRule, Zenon DEF Body
<1>37. CASE r[1] = "patterns"
  BY <1>37, PatternsRule, Zenon DEF Body
<1>38. CASE r[1] = "block"
  BY <1>38, BlockRule, Zenon DEF Body
<1>39. CASE r[1] = "eatgroup"
  BY <1>39, EatGroupRule, Zenon DEF Body
<1>40. CASE r[1] = "stmt"
  BY <1>40, StatementRule, Zenon DEF Body
<1>41. CASE r[1] = "var"
  BY <1>41, VarRule, Zenon DEF Body
<1>42. CASE r[1] = "userident"
  BY <1>42, UserIdentRule, Zenon DEF Body
<1> QED BY <1>1, <1>2, <1>3, <1>4, <1>5, <1>6, <1>7, <1>8, <1>9, <1>10, <1>11, <1>12, <1>13, <1>14,
           <1>15, <1>16, <1>17, <1>18, <1>19, <1>20, <1>21, <1>22, <1>23, <1>24, <1>25, <1>26,
           <1>27, <1>28, <1>29, <1>30, <1>31, <1>32, <1>33, <1>34, <1>35, <1>36, <1>37, <1>38,
           <1>39, <1>40, <1>41, <1>42 DEF Free

(* A rule that takes its token does code that is safe in front of the Eof. *)
LEMMA OnTokenBody ==
  ASSUME NEW n, NEW r, r[1] \in OnToken
  PROVE  CodeOn(Body(r), n)
<1>1. Free(TyExpr) /\ \A i : Free(<<"expr", 0, i>>)
  BY Callable DEF TyExpr
<1>2. <<"groupty">>[1] \in OnToken /\ \A i : <<"group", i>>[1] \in OnToken
  BY DEF OnToken
<1>3. CASE r[1] = "prefixed"
  BY <1>3, PrefixedRule, Zenon DEF Body
<1>4. CASE r[1] = "groupty"
  BY <1>1, <1>2, <1>4, GroupRule, Zenon DEF Body, ParseGroupTyExpr
<1>5. CASE r[1] = "group"
  BY <1>1, <1>2, <1>5, GroupRule, Zenon DEF Body, ParseGroupExpr
<1>6. CASE r[1] = "control"
  BY <1>6, ControlRule, Zenon DEF Body
<1> QED BY <1>3, <1>4, <1>5, <1>6 DEF OnToken

(* The head of a loop: at the Eof there is nothing more to do.             *)
StopsAtEof(i) == \E d : i = Case(<<Arm({"RBrace", "Eof"}, <<>>)>>, d)

(* A loop is safe code in front of the Eof, and at the Eof it stops.       *)
LEMMA LoopsBody ==
  ASSUME NEW n, NEW r, Loops(r)
  PROVE  /\ offset \in 1 .. n - 1 => Code(Body(r), n)
         /\ \E i : StopsAtEof(i) /\ Body(r) = <<i>>
<1>1. CASE r[1] = "stmts"
  <2>1. Body(r) = EatItems(r[2], offset)
    BY <1>1, Zenon DEF Body
  <2>2. offset \in 1 .. n - 1 => Code(Body(r), n)
    BY <2>1, StmtsRule, Zenon
  <2>3. \E i : StopsAtEof(i) /\ Body(r) = <<i>>
    BY <2>1, Zenon DEF EatItems, StopsAtEof
  <2> QED BY <2>2, <2>3
<1>2. CASE r[1] = "items" /\ r[2] \in {"fieldinit", "element"}
  <2>1. Body(r) = EatDelimitedItems(r[2], offset)
    BY <1>2, Zenon DEF Body
  <2>2. offset \in 1 .. n - 1 => Code(Body(r), n)
    BY <1>2, <2>1, ItemsRule, Zenon
  <2>3. \E i : StopsAtEof(i) /\ Body(r) = <<i>>
    BY <2>1, Zenon DEF EatDelimitedItems, StopsAtEof
  <2> QED BY <2>2, <2>3
<1> QED BY <1>1, <1>2 DEF Loops

----------------------------------------------------------------------------
(* Steps. *)

(* A set of naturals has a least element.                                  *)
LEMMA Least ==
  ASSUME NEW T, T \subseteq Nat, T # {}
  PROVE  \E x \in T : \A y \in T : x <= y
<1>1. PICK x \in T : \A y \in T : ~ (<<y, x>> \in OpToRel(<, Nat))
  BY NatLessThanWellFounded, WFMin
<1>2. ASSUME NEW y \in T PROVE x <= y
  <2>1. ~ (<<y, x>> \in {p \in Nat \X Nat : p[1] < p[2]})
    BY <1>1 DEF OpToRel
  <2>2. x \in Nat /\ y \in Nat
    OBVIOUS
  <2> QED BY <2>1, <2>2
<1> QED BY <1>2

(* The first instruction of safe code is safe anywhere, and so is the      *)
(* rest.                                                                   *)
LEMMA SplitCode ==
  ASSUME NEW n, NEW c, Code(c, n), c # <<>>
  PROVE  /\ \E A, B : Closed(A, B, n) /\ Anywhere(c[1], A, B, n)
         /\ Code(Tail(c), n)
<1>1. PICK A, B : Closed(A, B, n) /\ c \in Seq(A)
  BY DEF Code
<1>2. c[1] \in A /\ Tail(c) \in Seq(A)
  BY <1>1, HeadTailProperties, EmptySeq, ElementOfSeq
<1>3. Anywhere(c[1], A, B, n)
  BY <1>1, <1>2 DEF Closed
<1> QED BY <1>1, <1>2, <1>3 DEF Code

(* What a step may make of the code behind its instruction: it puts code   *)
(* in front of it, or unwinds it to a handler, or fails.                   *)
Continues(d, rest) ==
  \/ d = rest
  \/ d = <<<<"fail">>>>
  \/ \E x, S : x \in Seq(S) /\ d = x \o rest
  \/ \E h, S, k : /\ h \in Seq(S) /\ k \in 1 .. Len(rest) /\ rest[k][1] = "catch"
                  /\ d = h \o SubSeq(rest, k + 1, Len(rest))

(* An error leaves safe code behind, wherever it is caught.                *)
LEMMA UnwindCode ==
  ASSUME NEW n, NEW c, Code(c, n)
  PROVE  Code(Unwind(c), n) /\ Continues(Unwind(c), c)
<1> DEFINE catches == {k \in DOMAIN c : c[k][1] = "catch"}
           k == CHOOSE m \in catches : \A q \in catches : m <= q
<1>1. PICK A, B : Closed(A, B, n) /\ c \in Seq(A)
  BY DEF Code
<1>2. DOMAIN c = 1 .. Len(c) /\ Len(c) \in Nat
  BY <1>1, LenProperties
<1>3. CASE catches = {}
  <2>1. Unwind(c) = <<<<"fail">>>>
    BY <1>3 DEF Unwind
  <2> QED BY <2>1, PlainOK DEF Plain, Continues
<1>4. CASE catches # {}
  <2>1. catches \subseteq Nat
    BY <1>2
  <2>2. k \in catches
    <3>1. \E m \in catches : \A q \in catches : m <= q
      BY <2>1, <1>4, Least
    <3> QED BY <3>1
  <2>3. k \in 1 .. Len(c) /\ c[k][1] = "catch"
    BY <2>2, <1>2
  <2>4. Unwind(c) = c[k][2] \o SubSeq(c, k + 1, Len(c))
    BY <1>4 DEF Unwind
  <2> HIDE DEF k, catches
  <2>5. c[k] \in A
    BY <1>1, <2>3, ElementOfSeq
  <2>6. c[k][2] \in Seq(A)
    BY <1>1, <2>3, <2>5 DEF Closed, Anywhere, Plain
  <2>7. SubSeq(c, k + 1, Len(c)) \in Seq(A)
    <3>1. \A m \in k + 1 .. Len(c) : c[m] \in A
      BY <1>1, <1>2, <2>3, ElementOfSeq
    <3>2. k + 1 \in Int /\ Len(c) \in Int
      BY <1>2, <2>3
    <3> QED BY <3>1, <3>2, SubSeqProperties
  <2>8. Continues(Unwind(c), c)
    BY <2>3, <2>4, <2>6 DEF Continues
  <2> QED BY <1>1, <2>4, <2>6, <2>7, <2>8, ConcatProperties DEF Code
<1> QED BY <1>3, <1>4

(* A loop that was entered on the Eof.                                     *)
AtEof(c, n) == \E i, d : StopsAtEof(i) /\ Code(d, n) /\ c = <<i>> \o d

(* The code that is left is safe where the parser stands.                  *)
Safe(c, o, n) ==
  \/ Code(c, n)
  \/ o < n /\ CodeOn(c, n)
  \/ o + 1 < n /\ CodeTwo(c, n)
  \/ o = n /\ AtEof(c, n)

(* What is known of the first instruction of safe code, and of the rest.   *)
FirstReady(i, rest, o, n) ==
  \/ Code(rest, n) /\ \E A, B : Closed(A, B, n) /\ Anywhere(i, A, B, n)
  \/ o < n /\ Code(rest, n) /\ \E A, B : Closed(A, B, n) /\ NeedsToken(i, A, B)
  \/ o < n /\ i = PushError /\ CodeOn(rest, n)
  \/ o + 1 < n /\ i = Bump /\ CodeOn(rest, n)
  \/ o = n /\ StopsAtEof(i) /\ Code(rest, n)

(* The first of a sequence that is put together, and its tail.             *)
LEMMA HeadOfConcat ==
  ASSUME NEW i, NEW d, NEW S, d \in Seq(S)
  PROVE  <<i>> \o d # <<>> /\ (<<i>> \o d)[1] = i /\ Tail(<<i>> \o d) = d
<1> DEFINE c == <<i>> \o d
<1>1. d \in Seq(S \cup {i}) /\ <<i>> \in Seq(S \cup {i}) /\ Len(<<i>>) = 1 /\ <<i>>[1] = i /\ Len(d) \in Nat
  BY SeqMonotonic, LenProperties
<1>2. /\ c \in Seq(S \cup {i}) /\ Len(c) = 1 + Len(d)
      /\ \A k \in 1 .. 1 + Len(d) : c[k] = IF k <= 1 THEN <<i>>[k] ELSE d[k - 1]
  BY <1>1, ConcatProperties
<1> HIDE DEF c
<1>3. c # <<>> /\ c[1] = i
  BY <1>1, <1>2
<1>4. /\ Tail(c) \in Seq(S \cup {i}) /\ Len(Tail(c)) = Len(d)
      /\ \A k \in 1 .. Len(Tail(c)) : Tail(c)[k] = c[k + 1]
  BY <1>1, <1>2, <1>3, HeadTailProperties
<1>5. \A k \in 1 .. Len(Tail(c)) : Tail(c)[k] = d[k]
  BY <1>1, <1>2, <1>4
<1>6. Tail(c) = d
  BY <1>1, <1>4, <1>5, SeqEqual
<1> QED BY <1>3, <1>6 DEF c

(* Safe code has a safe first instruction.                                 *)
LEMMA FirstOfSafe ==
  ASSUME NEW n \in Nat, NEW o \in 1 .. n, NEW c, Safe(c, o, n), c # <<>>
  PROVE  FirstReady(c[1], Tail(c), o, n)
<1>1. CASE Code(c, n)
  BY <1>1, SplitCode DEF FirstReady
<1>2. CASE o < n /\ CodeOn(c, n)
  <2>1. PICK A, B : Closed(A, B, n) /\ Ahead(c, A, B)
    BY <1>2 DEF CodeOn
  <2>2. /\ c \in Seq(A \cup B) /\ Len(c) \in Nat \ {0}
        /\ \A k \in 1 .. Len(c) : c[k] \in A \/ k = 1 \/ (k = 2 /\ c[1] = PushError)
    BY <2>1, EmptySeq DEF Ahead
  <2>3. /\ Tail(c) \in Seq(A \cup B) /\ Len(Tail(c)) = Len(c) - 1
        /\ \A k \in 1 .. Len(Tail(c)) : Tail(c)[k] = c[k + 1]
    BY <2>2, HeadTailProperties
  <2>4. c[1] \in A \cup B
    BY <2>2, ElementOfSeq
  <2>5. CASE c[1] = PushError
    <3>1. \A k \in 1 .. Len(Tail(c)) : Tail(c)[k] \in A \/ k = 1
      BY <2>2, <2>3
    <3>2. Ahead(Tail(c), A, B)
      BY <2>3, <3>1 DEF Ahead
    <3> QED BY <1>2, <2>1, <2>5, <3>2 DEF FirstReady, CodeOn
  <2>6. CASE c[1] # PushError
    <3>1. \A k \in 1 .. Len(Tail(c)) : Tail(c)[k] \in A
      BY <2>2, <2>3, <2>6
    <3>2. Tail(c) \in Seq(A)
      <4>1. Tail(c) = SubSeq(c, 2, Len(c))
        BY <2>2, TailIsSubSeq
      <4>2. \A k \in 2 .. Len(c) : c[k] \in A
        BY <2>2, <2>6
      <4>3. 2 \in Int /\ Len(c) \in Int
        BY <2>2
      <4>4. SubSeq(c, 2, Len(c)) \in Seq(A)
        BY <4>2, <4>3, SubSeqProperties
      <4> QED BY <4>1, <4>4, Zenon
    <3>3. Code(Tail(c), n)
      BY <2>1, <3>2 DEF Code
    <3>4. CASE c[1] \in A
      BY <2>1, <3>3, <3>4 DEF FirstReady, Closed
    <3>5. CASE c[1] \in B /\ c[1] \notin A
      <4>1. NeedsToken(c[1], A, B)
        BY <2>1, <3>5 DEF Closed, BeforeEnd
      <4> QED BY <1>2, <2>1, <3>3, <4>1 DEF FirstReady
    <3> QED BY <2>4, <3>4, <3>5
  <2> QED BY <2>5, <2>6
<1>3. CASE o + 1 < n /\ CodeTwo(c, n)
  <2>1. PICK A, B : Closed(A, B, n) /\ TwoAhead(c, A, B)
    BY <1>3 DEF CodeTwo
  <2>2. /\ c \in Seq(A \cup B) /\ Len(c) \in Nat \ {0} /\ c[1] = Bump
        /\ \A k \in 1 .. Len(c) : c[k] \in A \/ k <= 2
    BY <2>1, EmptySeq DEF TwoAhead
  <2>3. /\ Tail(c) \in Seq(A \cup B) /\ Len(Tail(c)) = Len(c) - 1
        /\ \A k \in 1 .. Len(Tail(c)) : Tail(c)[k] = c[k + 1]
    BY <2>2, HeadTailProperties
  <2>4. \A k \in 1 .. Len(Tail(c)) : Tail(c)[k] \in A \/ k = 1
    BY <2>2, <2>3
  <2>5. Ahead(Tail(c), A, B)
    BY <2>3, <2>4 DEF Ahead
  <2> QED BY <1>3, <2>1, <2>2, <2>5 DEF FirstReady, CodeOn
<1>4. CASE o = n /\ AtEof(c, n)
  <2>1. PICK i, d : StopsAtEof(i) /\ Code(d, n) /\ c = <<i>> \o d
    BY <1>4 DEF AtEof
  <2>2. PICK A, B : Closed(A, B, n) /\ d \in Seq(A)
    BY <2>1 DEF Code
  <2>3. c[1] = i /\ Tail(c) = d
    BY <2>1, <2>2, HeadOfConcat
  <2> QED BY <1>4, <2>1, <2>3 DEF FirstReady
<1> QED BY <1>1, <1>2, <1>3, <1>4 DEF Safe

(* Most instructions are safe on any token, if they are safe.              *)
LEMMA FirstPlain ==
  ASSUME NEW n, NEW o, NEW i, NEW rest, FirstReady(i, rest, o, n),
         i[1] \in {"expect", "soft", "raise", "skip", "eatuntil", "mk", "ok", "none", "infix", "comma",
                   "ext", "tryfn", "nextmember", "progress", "suffix", "try", "catch", "eatif", "ifsome"}
  PROVE  Code(rest, n) /\ \E A, B : Closed(A, B, n) /\ Anywhere(i, A, B, n)
<1>1. \A A, B : ~ NeedsToken(i, A, B)
  BY DEF NeedsToken
<1>2. i # PushError /\ i # Bump
  BY DEF PushError, Bump
<1>3. ~ StopsAtEof(i)
  BY DEF StopsAtEof, Case
<1> QED BY <1>1, <1>2, <1>3 DEF FirstReady

(* The tokens of a file: the last one, and no other, is Eof.               *)
Tokens ==
  /\ toks \in Seq(STRING \cup {"Eof"}) /\ Len(toks) \in Nat \ {0}
  /\ \A k \in 1 .. Len(toks) : toks[k] = "Eof" <=> k = Len(toks)

(* A step of the parser stays on a token and leaves safe code.             *)
Goes == /\ offset' \in 1 .. Len(toks)
        /\ Safe(todo', offset', Len(toks))
        /\ Continues(todo', Rest)

(* Safe code in front of safe code.                                        *)
LEMMA Pushed ==
  ASSUME NEW n, NEW o, NEW x, NEW rest, Code(rest, n),
         Code(x, n) \/ (o < n /\ CodeOn(x, n)) \/ (o + 1 < n /\ CodeTwo(x, n))
  PROVE  Safe(x \o rest, o, n) /\ Continues(x \o rest, rest)
<1>1. \E S : x \in Seq(S)
  BY DEF Code, CodeOn, CodeTwo, Ahead, TwoAhead
<1>2. Code(x, n) => Code(x \o rest, n)
  BY Concat
<1>3. CodeOn(x, n) => CodeOn(x \o rest, n)
  BY OnConcat
<1>4. CodeTwo(x, n) => CodeTwo(x \o rest, n)
  BY TwoLiteral
<1> QED BY <1>1, <1>2, <1>3, <1>4 DEF Safe, Continues

(* bump moves by one token at most, and not over Eof.                      *)
LEMMA BumpStays ==
  ASSUME Tokens, offset \in 1 .. Len(toks)
  PROVE  BumpTo(offset) \in offset .. Len(toks) /\ BumpTo(offset) <= offset + 1
BY DEF Tokens, BumpTo, At

(* Instructions that are told apart by their names.                        *)
LEMMA Tags ==
  ASSUME NEW i
  PROVE  /\ i[1] # "pusherror" => i # PushError
         /\ i[1] # "bump" => i # Bump
         /\ i[1] # "case" => ~ StopsAtEof(i)
BY DEF PushError, Bump, StopsAtEof, Case

(* eat_expect.                                                             *)
LEMMA EatExpectGoes ==
  ASSUME Tokens, offset \in 1 .. Len(toks), Safe(todo, offset, Len(toks)), EatExpect
  PROVE  Goes
<1>1. todo # <<>> /\ todo[1][1] \in {"expect", "soft"}
  BY DEF EatExpect, Running, Op
<1>2. Code(Rest, Len(toks))
  BY <1>1, FirstOfSafe, FirstPlain DEF Tokens, Rest
<1>3. todo' = Rest \/ todo' = Unwind(Rest)
  BY DEF EatExpect
<1>4. offset' \in 1 .. Len(toks)
  BY BumpStays DEF EatExpect, Tokens
<1> QED BY <1>2, <1>3, <1>4, UnwindCode DEF Goes, Continues, Safe

(* eat_if and the matches on the current and on the next token.            *)
LEMMA MatchGoes ==
  ASSUME Tokens, offset \in 1 .. Len(toks), Safe(todo, offset, Len(toks)), Match
  PROVE  Goes
<1> DEFINE n == Len(toks)
           next == IF offset + 1 <= Len(toks) THEN At(offset + 1) ELSE At(Len(toks))
           hits == {k \in DOMAIN Arg(2) : At(offset) \in Arg(2)[k][1]}
           hit == CHOOSE k \in hits : \A m \in hits : k <= m
<1>0. todo # <<>> /\ FirstReady(todo[1], Rest, offset, n) /\ n \in Nat /\ Op = todo[1][1]
  BY FirstOfSafe DEF Match, Running, Tokens, Rest, Op
<1>1. CASE Op = "eatif"
  <2>1. /\ todo' = (IF At(offset) = Arg(2) THEN Arg(3) ELSE Arg(4)) \o Rest
        /\ offset' = IF At(offset) = Arg(2) THEN BumpTo(offset) ELSE offset
    BY <1>1, Zenon DEF Match
  <2>2. offset' \in 1 .. n
    BY <2>1, BumpStays DEF Tokens
  <2>3. /\ Code(Rest, n)
        /\ \E A, B : Closed(A, B, n) /\ Anywhere(todo[1], A, B, n)
    BY <1>0, <1>1, FirstPlain
  <2>4. PICK A, B : Closed(A, B, n) /\ Anywhere(todo[1], A, B, n)
    BY <2>3
  <2>5. Arg(3) \in Seq(A) /\ Arg(4) \in Seq(A)
    BY <1>0, <1>1, <2>4 DEF Anywhere, Plain, Arg
  <2>6. Code(Arg(3), n) /\ Code(Arg(4), n)
    BY <2>4, <2>5 DEF Code
  <2> QED BY <2>1, <2>2, <2>3, <2>6, Pushed DEF Goes
<1>2. CASE Op = "peek1"
  <2>1. todo' = (IF next \in Arg(2) THEN Arg(3) ELSE Arg(4)) \o Rest /\ offset' = offset
    BY <1>2, Zenon DEF Match
  <2>2. CASE Code(Rest, n) /\ \E A, B : Closed(A, B, n) /\ Anywhere(todo[1], A, B, n)
    <3>1. PICK A, B : Closed(A, B, n) /\ Anywhere(todo[1], A, B, n)
      BY <2>2
    <3>2. Arg(3) \in Seq(A) /\ Arg(4) \in Seq(A)
      BY <1>0, <1>2, <3>1 DEF Anywhere, Plain, Arg
    <3>3. Code(Arg(3), n) /\ Code(Arg(4), n)
      BY <3>1, <3>2 DEF Code
    <3> QED BY <2>1, <2>2, <3>3, Pushed DEF Goes
  <2>3. CASE offset < n /\ Code(Rest, n) /\ \E A, B : Closed(A, B, n) /\ NeedsToken(todo[1], A, B)
    <3>1. PICK A, B : Closed(A, B, n) /\ NeedsToken(todo[1], A, B)
      BY <2>3
    <3>2. "Eof" \notin Arg(2) /\ (Ahead(Arg(3), A, B) \/ TwoAhead(Arg(3), A, B)) /\ Ahead(Arg(4), A, B)
      BY <1>0, <1>2, <3>1 DEF NeedsToken, Arg
    <3>3. (CodeOn(Arg(3), n) \/ CodeTwo(Arg(3), n)) /\ CodeOn(Arg(4), n)
      BY <3>1, <3>2 DEF CodeOn, CodeTwo
    <3>4. next \in Arg(2) => offset + 1 < n
      BY <1>0, <2>3, <3>2 DEF Tokens, At
    <3> QED BY <2>1, <2>3, <3>3, <3>4, Pushed DEF Goes
  <2>4. todo[1] # PushError /\ todo[1] # Bump /\ ~ StopsAtEof(todo[1])
    BY <1>0, <1>2, Tags
  <2> QED BY <1>0, <2>2, <2>3, <2>4 DEF FirstReady
<1>3. CASE Op = "case"
  <2>1. todo' = (IF hits = {} THEN Arg(3) ELSE Arg(2)[hit][2]) \o Rest /\ offset' = offset
    BY <1>3, Zenon DEF Match
  <2>2. DOMAIN Arg(2) \subseteq Nat /\ hits # {} => hit \in hits
    <3> SUFFICES ASSUME DOMAIN Arg(2) \subseteq Nat, hits # {} PROVE hit \in hits
      OBVIOUS
    <3>1. hits \subseteq Nat
      OBVIOUS
    <3>2. \E k \in hits : \A m \in hits : k <= m
      BY <3>1, Least
    <3> QED BY <3>2
  <2> HIDE DEF hit
  <2>3. CASE Code(Rest, n) /\ \E A, B : Closed(A, B, n) /\ Anywhere(todo[1], A, B, n)
    <3>1. PICK A, B : Closed(A, B, n) /\ Anywhere(todo[1], A, B, n)
      BY <2>3
    <3>2. DOMAIN Arg(2) \subseteq Nat /\ Arg(3) \in Seq(A) /\ \A k \in DOMAIN Arg(2) : ArmOK(Arg(2)[k], A, B)
      BY <1>0, <1>3, <3>1 DEF Anywhere, Plain, Arg
    <3>3. CASE hits = {}
      <4>1. Code(Arg(3), n)
        BY <3>1, <3>2 DEF Code
      <4> QED BY <2>1, <2>3, <3>3, <4>1, Pushed DEF Goes
    <3>4. CASE hits # {}
      <4>1. hit \in DOMAIN Arg(2) /\ At(offset) \in Arg(2)[hit][1]
        BY <2>2, <3>2, <3>4
      <4>2. ArmOK(Arg(2)[hit], A, B)
        BY <3>2, <4>1
      <4>3. Code(Arg(2)[hit][2], n) \/ (offset < n /\ CodeOn(Arg(2)[hit][2], n))
        <5>1. CASE Arg(2)[hit][2] \in Seq(A)
          BY <3>1, <5>1 DEF Code
        <5>2. CASE "Eof" \notin Arg(2)[hit][1] /\ Ahead(Arg(2)[hit][2], A, B)
          <6>1. offset < n
            BY <4>1, <5>2 DEF Tokens, At
          <6> QED BY <3>1, <5>2, <6>1 DEF CodeOn
        <5> QED BY <4>2, <5>1, <5>2 DEF ArmOK
      <4> QED BY <2>1, <2>3, <3>4, <4>3, Pushed DEF Goes
    <3> QED BY <3>3, <3>4
  <2>4. CASE offset < n /\ Code(Rest, n) /\ \E A, B : Closed(A, B, n) /\ NeedsToken(todo[1], A, B)
    <3>1. PICK A, B : Closed(A, B, n) /\ NeedsToken(todo[1], A, B)
      BY <2>4
    <3>2. DOMAIN Arg(2) \subseteq Nat /\ Ahead(Arg(3), A, B)
          /\ \A k \in DOMAIN Arg(2) : Ahead(Arg(2)[k][2], A, B)
      BY <1>0, <1>3, <3>1 DEF NeedsToken, Arg
    <3>3. CASE hits = {}
      <4>1. CodeOn(Arg(3), n)
        BY <3>1, <3>2 DEF CodeOn
      <4> QED BY <2>1, <2>4, <3>3, <4>1, Pushed DEF Goes
    <3>4. CASE hits # {}
      <4>1. hit \in DOMAIN Arg(2)
        BY <2>2, <3>2, <3>4
      <4>2. CodeOn(Arg(2)[hit][2], n)
        BY <3>1, <3>2, <4>1 DEF CodeOn
      <4> QED BY <2>1, <2>4, <3>4, <4>2, Pushed DEF Goes
    <3> QED BY <3>3, <3>4
  <2>5. CASE offset = n /\ StopsAtEof(todo[1]) /\ Code(Rest, n)
    <3>1. Arg(2) = <<Arm({"RBrace", "Eof"}, <<>>)>>
      BY <2>5 DEF StopsAtEof, Case, Arg
    <3>2. At(offset) = "Eof"
      BY <2>5, <1>0 DEF Tokens, At
    <3>3. DOMAIN Arg(2) = {1} /\ Arg(2)[1][1] = {"RBrace", "Eof"} /\ Arg(2)[1][2] = <<>>
      BY <3>1 DEF Arm
    <3>4. hits = {1}
      BY <3>2, <3>3
    <3>5. hit = 1
      BY <2>2, <3>3, <3>4
    <3>6. todo' = <<>> \o Rest
      BY <2>1, <3>3, <3>4, <3>5
    <3> QED BY <2>1, <2>5, <3>6, Empty, Pushed DEF Goes
  <2>6. todo[1] # PushError /\ todo[1] # Bump
    BY <1>0, <1>3, Tags
  <2> QED BY <1>0, <2>3, <2>4, <2>5, <2>6 DEF FirstReady
<1> QED BY <1>1, <1>2, <1>3 DEF Match, Running

(* There is a first token of a kind, or the Eof.                           *)
LEMMA FoundFrom ==
  ASSUME Tokens, NEW s \in 1 .. Len(toks), NEW T
  PROVE  \E p \in s .. Len(toks) :
           At(p) \in T \cup {"Eof"} /\ \A q \in s .. p - 1 : At(q) \notin T \cup {"Eof"}
<1> DEFINE P == {p \in s .. Len(toks) : At(p) \in T \cup {"Eof"}}
<1>1. Len(toks) \in P /\ P \subseteq Nat
  BY DEF Tokens, At
<1>2. PICK p \in P : \A q \in P : p <= q
  BY <1>1, Least
<1>3. ASSUME NEW q \in s .. p - 1, At(q) \in T \cup {"Eof"} PROVE FALSE
  <2>1. q \in P
    BY <1>1, <1>2, <1>3 DEF Tokens
  <2> QED BY <1>1, <1>2, <1>3, <2>1
<1> QED BY <1>2, <1>3

(* eat_until stops at the Eof.                                             *)
LEMMA UntilStays ==
  ASSUME Tokens, offset \in 1 .. Len(toks), NEW T
  PROVE  Until(T) \in 1 .. Len(toks)
<1>1. Until(T) \in offset .. Len(toks)
  BY FoundFrom DEF Until
<1> QED BY <1>1 DEF Tokens

(* The handler of a failed item stops at the Eof, if the item started in   *)
(* front of it.                                                            *)
LEMMA SkipStays ==
  ASSUME Tokens, offset \in 1 .. Len(toks) - 1, NEW T
  PROVE  SkipItem(T) \in 1 .. Len(toks)
<1> DEFINE p == CHOOSE p \in offset + 1 .. Len(toks) :
                  At(p) \in T \cup {"Eof"} /\ \A q \in offset + 1 .. p - 1 : At(q) \notin T \cup {"Eof"}
<1>1. offset + 1 \in 1 .. Len(toks)
  BY DEF Tokens
<1>2. p \in offset + 1 .. Len(toks)
  BY <1>1, FoundFrom
<1>3. SkipItem(T) = IF T = {} THEN offset + 1 ELSE IF At(p) = "Comma" THEN p + 1 ELSE p
  BY DEF SkipItem
<1> HIDE DEF p
<1>4. At(p) = "Comma" => p + 1 \in 1 .. Len(toks)
  BY <1>2 DEF Tokens, At
<1> QED BY <1>1, <1>2, <1>3, <1>4 DEF Tokens

(* offset += 1 and the loops that skip tokens.                             *)
LEMMA AdvanceGoes ==
  ASSUME Tokens, offset \in 1 .. Len(toks), Safe(todo, offset, Len(toks)), Advance
  PROVE  Goes
<1> DEFINE n == Len(toks)
<1>0. /\ todo # <<>> /\ FirstReady(todo[1], Rest, offset, n) /\ n \in Nat \ {0} /\ Op = todo[1][1]
      /\ todo' = Rest
  BY FirstOfSafe DEF Advance, Running, Tokens, Rest, Op
<1>1. CASE Op = "bump"
  <2>1. offset' = offset + 1
    BY <1>1, Zenon DEF Advance
  <2>2. \A A, B : ~ Anywhere(todo[1], A, B, n)
    BY <1>0, <1>1 DEF Anywhere, Plain
  <2>3. todo[1] # PushError /\ ~ StopsAtEof(todo[1])
    BY <1>0, <1>1, Tags
  <2>4. (offset < n /\ Code(Rest, n)) \/ (offset + 1 < n /\ CodeOn(Rest, n))
    BY <1>0, <2>2, <2>3 DEF FirstReady
  <2> QED BY <1>0, <2>1, <2>4 DEF Goes, Safe, Continues
<1>2. CASE Op \in {"skip", "eatuntil", "progress"}
  <2>1. Code(Rest, n) /\ \E A, B : Closed(A, B, n) /\ Anywhere(todo[1], A, B, n)
    BY <1>0, <1>2, FirstPlain
  <2>2. PICK A, B : Closed(A, B, n) /\ Anywhere(todo[1], A, B, n)
    BY <2>1
  <2>3. offset' \in 1 .. n
    <3>1. CASE Op = "skip"
      <4>1. offset' = BumpTo(offset)
        BY <3>1, Zenon DEF Advance
      <4> QED BY <4>1, BumpStays DEF Tokens
    <3>2. CASE Op = "eatuntil"
      <4>1. offset' = Until(Arg(2))
        BY <3>2, Zenon DEF Advance
      <4> QED BY <4>1, UntilStays
    <3>3. CASE Op = "progress"
      <4>1. offset' = IF offset = Arg(2) THEN SkipItem(Arg(3)) ELSE offset
        BY <3>3, Zenon DEF Advance
      <4>2. Arg(2) \in 1 .. n - 1
        BY <1>0, <2>2, <3>3 DEF Anywhere, Plain, Arg
      <4> QED BY <4>1, <4>2, SkipStays
    <3> QED BY <1>2, <3>1, <3>2, <3>3
  <2> QED BY <1>0, <2>1, <2>3 DEF Goes, Safe, Continues
<1> QED BY <1>1, <1>2 DEF Advance, Running

(* Calls of rules.                                                         *)
LEMMA InvokeGoes ==
  ASSUME Tokens, offset \in 1 .. Len(toks), Safe(todo, offset, Len(toks)), Invoke
  PROVE  Goes
<1> DEFINE n == Len(toks)
<1>0. /\ todo # <<>> /\ FirstReady(todo[1], Rest, offset, n) /\ n \in Nat \ {0} /\ Op = todo[1][1]
      /\ offset' = offset
  BY FirstOfSafe DEF Invoke, Running, Tokens, Rest, Op
<1>1. CASE Op = "call"
  <2>1. todo' = Body(Arg(2)) \o Rest
    BY <1>1, Zenon DEF Invoke
  <2>2. CASE Code(Rest, n) /\ \E A, B : Closed(A, B, n) /\ Anywhere(todo[1], A, B, n)
    <3>1. Free(Arg(2)) \/ Loops(Arg(2))
      BY <1>0, <1>1, <2>2 DEF Anywhere, Plain, Arg
    <3>2. CASE Free(Arg(2))
      BY <1>0, <2>1, <2>2, <3>2, FreeBody, Pushed DEF Goes
    <3>3. CASE Loops(Arg(2)) /\ offset # n
      <4>1. offset \in 1 .. n - 1
        BY <1>0, <3>3
      <4> QED BY <1>0, <2>1, <2>2, <3>3, <4>1, LoopsBody, Pushed DEF Goes
    <3>4. CASE Loops(Arg(2)) /\ offset = n
      <4>1. PICK i : StopsAtEof(i) /\ Body(Arg(2)) = <<i>>
        BY <3>4, LoopsBody
      <4>2. todo' = <<i>> \o Rest
        BY <2>1, <4>1
      <4>3. Safe(todo', offset', n)
        BY <1>0, <2>2, <3>4, <4>1, <4>2 DEF Safe, AtEof
      <4>4. <<i>> \in Seq({i})
        OBVIOUS
      <4>5. Continues(todo', Rest)
        BY <4>2, <4>4, Zenon DEF Continues
      <4> QED BY <1>0, <4>3, <4>5 DEF Goes
    <3> QED BY <3>1, <3>2, <3>3, <3>4
  <2>3. CASE offset < n /\ Code(Rest, n) /\ \E A, B : Closed(A, B, n) /\ NeedsToken(todo[1], A, B)
    <3>1. Arg(2)[1] \in OnToken
      BY <1>0, <1>1, <2>3 DEF NeedsToken, Arg
    <3> QED BY <1>0, <2>1, <2>3, <3>1, OnTokenBody, Pushed DEF Goes
  <2>4. todo[1] # PushError /\ todo[1] # Bump /\ ~ StopsAtEof(todo[1])
    BY <1>0, <1>1, Tags
  <2> QED BY <1>0, <2>2, <2>3, <2>4 DEF FirstReady
<1>2. CASE Op \in {"try", "tryfn", "nextmember"}
  <2>1. Code(Rest, n) /\ \E A, B : Closed(A, B, n) /\ Anywhere(todo[1], A, B, n)
    BY <1>0, <1>2, FirstPlain
  <2>2. PICK A, B : Closed(A, B, n) /\ Anywhere(todo[1], A, B, n)
    BY <2>1
  <2>3. \A h : Code(h, n) => Code(<<<<"catch", h>>>>, n)
    <3> SUFFICES ASSUME NEW h, Code(h, n) PROVE Code(<<<<"catch", h>>>>, n)
      OBVIOUS
    <3>1. PICK C, D : Closed(C, D, n) /\ h \in Seq(C)
      BY DEF Code
    <3>2. Anywhere(<<"catch", h>>, C, D, n)
      BY <3>1 DEF Anywhere
    <3> QED BY <3>1, <3>2, OneAnywhere
  <2>4. CASE Op = "try"
    <3>1. todo' = (Body(Arg(2)) \o <<<<"catch", Arg(3)>>>>) \o Rest
      BY <2>4, Zenon DEF Invoke
    <3>2. Free(Arg(2)) /\ Arg(3) \in Seq(A)
      BY <1>0, <2>2, <2>4 DEF Anywhere, Plain, Arg
    <3>3. Code(Body(Arg(2)), n) /\ Code(Arg(3), n)
      BY <2>2, <3>2, FreeBody DEF Code
    <3>4. Code(Body(Arg(2)) \o <<<<"catch", Arg(3)>>>>, n)
      BY <2>3, <3>3, Concat, Zenon
    <3> QED BY <1>0, <2>1, <3>1, <3>4, Pushed DEF Goes
  <2>5. CASE Op = "tryfn"
    <3>1. todo' = (Body(<<"fn", ext>>) \o <<<<"catch", <<PushError>>>>>>) \o Rest
      BY <2>5, Zenon DEF Invoke
    <3>2. Free(<<"fn", ext>>)
      BY Callable
    <3>3. Code(Body(<<"fn", ext>>), n) /\ Code(<<PushError>>, n)
      BY <3>2, FreeBody, Atoms
    <3>4. Code(Body(<<"fn", ext>>) \o <<<<"catch", <<PushError>>>>>>, n)
      BY <2>3, <3>3, Concat, Zenon
    <3> QED BY <1>0, <2>1, <3>1, <3>4, Pushed DEF Goes
  <2>6. CASE Op = "nextmember"
    <3>1. todo' = Body(<<"members", Arg(2), comma>>) \o Rest
      BY <2>6, Zenon DEF Invoke
    <3>2. Free(<<"members", Arg(2), comma>>)
      BY Callable
    <3>3. Code(Body(<<"members", Arg(2), comma>>), n)
      BY <3>2, FreeBody
    <3> QED BY <1>0, <2>1, <3>1, <3>3, Pushed DEF Goes
  <2> QED BY <1>2, <2>4, <2>5, <2>6
<1> QED BY <1>1, <1>2 DEF Invoke, Running

(* An error is returned.                                                   *)
LEMMA FailGoes ==
  ASSUME Tokens, offset \in 1 .. Len(toks), Safe(todo, offset, Len(toks)), Fail
  PROVE  Goes
<1>1. todo # <<>> /\ todo[1][1] = "raise" /\ todo' = Unwind(Rest) /\ offset' = offset
  BY DEF Fail, Running, Op
<1>2. Code(Rest, Len(toks))
  BY <1>1, FirstOfSafe, FirstPlain DEF Tokens, Rest
<1> QED BY <1>1, <1>2, UnwindCode DEF Goes, Continues, Safe

(* push_error.                                                             *)
LEMMA ReportGoes ==
  ASSUME Tokens, offset \in 1 .. Len(toks), Safe(todo, offset, Len(toks)), Report
  PROVE  Goes
<1>1. todo # <<>> /\ todo[1][1] = "pusherror" /\ todo' = Rest /\ offset' = offset
  BY DEF Report, Running, Op
<1>2. FirstReady(todo[1], Rest, offset, Len(toks))
  BY <1>1, FirstOfSafe DEF Tokens, Rest
<1>3. \A A, B : ~ NeedsToken(todo[1], A, B)
  BY <1>1 DEF NeedsToken
<1>4. todo[1] # Bump /\ ~ StopsAtEof(todo[1])
  BY <1>1, Tags
<1> QED BY <1>1, <1>2, <1>3, <1>4 DEF FirstReady, Goes, Continues, Safe

(* Results and flags.                                                      *)
LEMMA YieldGoes ==
  ASSUME Tokens, offset \in 1 .. Len(toks), Safe(todo, offset, Len(toks)), Yield
  PROVE  Goes
<1> DEFINE n == Len(toks)
<1>1. /\ todo # <<>> /\ Op = todo[1][1] /\ n \in Nat /\ offset' = offset
      /\ todo[1][1] \in {"mk", "ok", "none", "ifsome", "comma", "ext", "catch"}
      /\ todo' = IF Op = "ifsome" THEN (IF some THEN Arg(2) ELSE Arg(3)) \o Rest ELSE Rest
  BY DEF Yield, Running, Op, Tokens
<1>2. Code(Rest, n) /\ \E A, B : Closed(A, B, n) /\ Anywhere(todo[1], A, B, n)
  BY <1>1, FirstOfSafe, FirstPlain DEF Rest
<1>3. CASE Op = "ifsome"
  <2>1. PICK A, B : Closed(A, B, n) /\ Anywhere(todo[1], A, B, n)
    BY <1>2
  <2>2. Arg(2) \in Seq(A) /\ Arg(3) \in Seq(A)
    BY <1>1, <1>3, <2>1 DEF Anywhere, Plain, Arg
  <2>3. Code(Arg(2), n) /\ Code(Arg(3), n)
    BY <2>1, <2>2 DEF Code
  <2>4. \E x : todo' = x \o Rest /\ Code(x, n)
    BY <1>1, <1>3, <2>3, Zenon
  <2> QED BY <1>1, <1>2, <2>4, Pushed DEF Goes
<1>4. CASE Op # "ifsome"
  BY <1>1, <1>2, <1>4 DEF Goes, Continues, Safe
<1> QED BY <1>3, <1>4

(* A suffix that is given back: at the Eof the offset goes back over a     *)
(* token that was never taken, which is a token of the file as long as the *)
(* file has one.                                                           *)
LEMMA MaybeSuffixGoes ==
  ASSUME Tokens, offset \in 1 .. Len(toks), Safe(todo, offset, Len(toks)), MaybeSuffix, Len(toks) > 1
  PROVE  Goes
<1> DEFINE n == Len(toks)
<1>1. /\ todo # <<>> /\ todo[1][1] = "suffix" /\ todo' = Rest /\ n \in Nat \ {0}
      /\ offset' = IF At(offset) \in Arg(2) THEN offset + 1 ELSE BumpTo(offset) - 1
  BY DEF MaybeSuffix, Running, Op, Tokens
<1>2. Code(Rest, n) /\ \E A, B : Closed(A, B, n) /\ Anywhere(todo[1], A, B, n)
  BY <1>1, FirstOfSafe, FirstPlain DEF Rest
<1>3. "Eof" \notin Arg(2)
  BY <1>1, <1>2 DEF Anywhere, Plain, Arg
<1>4. offset' \in 1 .. n
  BY <1>1, <1>3 DEF Tokens, At, BumpTo
<1> QED BY <1>1, <1>2, <1>4 DEF Goes, Continues, Safe

(* The loop over the operators takes an operator, never the Eof.           *)
LEMMA InfixLoopGoes ==
  ASSUME Tokens, offset \in 1 .. Len(toks), Safe(todo, offset, Len(toks)), InfixLoop
  PROVE  Goes
<1> DEFINE n == Len(toks)
           op == At(offset)
           binds == op \in DOMAIN InfixBp /\ InfixBp[op] >= Arg(2) /\ At(offset + 1) # "Eq"
           more == <<Call(<<"expr", BindsRight(InfixBp[op]), Arg(3)>>),
                     IfSome(<<Mk(op), Infix(Arg(2), Arg(3))>>, <<Raise>>)>>
<1>1. /\ todo # <<>> /\ todo[1][1] = "infix" /\ n \in Nat \ {0}
      /\ \/ binds /\ offset' = offset + 1 /\ todo' = more \o Rest
         \/ todo' = Rest /\ offset' = offset
  BY DEF InfixLoop, Running, Op, Tokens
<1>2. Code(Rest, n)
  BY <1>1, FirstOfSafe, FirstPlain DEF Rest
<1>3. binds => offset + 1 \in 1 .. n
  <2>1. "Eof" \notin DOMAIN InfixBp
    BY DEF InfixBp
  <2>2. binds => At(offset) # "Eof"
    BY <2>1
  <2> QED BY <1>1, <2>2 DEF Tokens, At
<1>4. Code(more, n)
  <2>1. Free(<<"expr", BindsRight(InfixBp[op]), Arg(3)>>)
    BY Callable
  <2> QED BY <2>1, Calls, Atoms, Literal, Branching, Zenon
<1> HIDE DEF more, binds
<1>5. CASE binds /\ offset' = offset + 1 /\ todo' = more \o Rest
  BY <1>2, <1>3, <1>4, <1>5, Pushed DEF Goes
<1>6. CASE todo' = Rest /\ offset' = offset
  BY <1>2, <1>6 DEF Goes, Continues, Safe
<1> QED BY <1>1, <1>5, <1>6

----------------------------------------------------------------------------
(* What lies under the code of a rule. *)

(* A member of the file is under way: behind it come the next one and the  *)
(* end of the file.                                                        *)
InMembers(c) ==
  \E S : /\ c \in Seq(S) /\ Len(c) >= 2
         /\ c[Len(c) - 1] = NextMember("root") /\ c[Len(c)] = Mk("struct")

(* What is left of parse_module in a file that has tokens.                 *)
AtTop(c) ==
  \/ c = <<Call(<<"decl", "root">>)>>
  \/ c = <<Call(<<"members", "root", TRUE>>), Mk("struct")>>
  \/ \E h : c = ParseMembers("root", h) \o <<Mk("struct")>>
  \/ c = <<<<"fail">>>>
  \/ InMembers(c)

(* What is left of parse_module.  The members of a file end at its Eof and *)
(* nowhere else, and a file without tokens has none.                       *)
Bottom(c, o, n) ==
  \/ c = <<Call(<<"module">>)>>
  \/ c = ParseModule
  \/ n > 1 /\ AtTop(c)
  \/ o = n /\ c \in {<<Mk("struct")>>, <<Mk("module")>>, <<>>}

(* Sequences of one instruction.                                           *)
LEMMA OneThenNothing ==
  ASSUME NEW i, NEW c, NEW S, c \in Seq(S)
  PROVE  <<i>> # <<>> /\ <<i>>[1] = i /\ Tail(<<i>>) = <<>> /\ c \o <<>> = c /\ <<>> \o c = c
<1>1. Tail(<<i>>) = <<>>
  OBVIOUS
<1> QED BY <1>1, ConcatEmptySeq

(* A step inside a member leaves what follows the members alone: no        *)
(* handler is below them.                                                  *)
LEMMA MembersContinue ==
  ASSUME NEW c, NEW d, InMembers(c), Len(c) >= 3, Continues(d, Tail(c))
  PROVE  InMembers(d) \/ d = <<<<"fail">>>>
<1>1. PICK S : /\ c \in Seq(S) /\ Len(c) >= 2
               /\ c[Len(c) - 1] = NextMember("root") /\ c[Len(c)] = Mk("struct")
  BY DEF InMembers
<1> DEFINE t == Tail(c)
<1>2. /\ t \in Seq(S) /\ Len(t) = Len(c) - 1 /\ Len(c) \in Nat
      /\ \A k \in 1 .. Len(t) : t[k] = c[k + 1]
  BY <1>1, HeadTailProperties, LenProperties, EmptySeq
<1> HIDE DEF t
<1>3. /\ t \in Seq(S) /\ Len(t) \in Nat /\ Len(t) >= 2
      /\ t[Len(t) - 1] = NextMember("root") /\ t[Len(t)] = Mk("struct")
  <2>1. Len(t) - 1 \in 1 .. Len(t) /\ Len(t) \in 1 .. Len(t)
    BY <1>1, <1>2
  <2>2. t[Len(t) - 1] = c[Len(t) - 1 + 1] /\ t[Len(t)] = c[Len(t) + 1]
    BY <1>2, <2>1
  <2> QED BY <1>1, <1>2, <2>2
<1>4. InMembers(t)
  BY <1>3 DEF InMembers
<1>5. ASSUME NEW x, NEW T, x \in Seq(T), d = x \o t PROVE InMembers(d)
  <2>1. x \in Seq(S \cup T) /\ t \in Seq(S \cup T) /\ Len(x) \in Nat
    BY <1>3, <1>5, SeqMonotonic, LenProperties
  <2>2. /\ d \in Seq(S \cup T) /\ Len(d) = Len(x) + Len(t)
        /\ \A k \in 1 .. Len(x) + Len(t) : d[k] = IF k <= Len(x) THEN x[k] ELSE t[k - Len(x)]
    BY <1>5, <2>1, ConcatProperties
  <2>3. d[Len(d) - 1] = t[Len(t) - 1] /\ d[Len(d)] = t[Len(t)]
    <3>1. /\ Len(d) - 1 \in 1 .. Len(x) + Len(t) /\ ~ (Len(d) - 1 <= Len(x)) /\ Len(d) - 1 - Len(x) = Len(t) - 1
          /\ Len(d) \in 1 .. Len(x) + Len(t) /\ ~ (Len(d) <= Len(x)) /\ Len(d) - Len(x) = Len(t)
      BY <1>3, <2>1, <2>2
    <3>2. d[Len(d) - 1] = t[Len(d) - 1 - Len(x)] /\ d[Len(d)] = t[Len(d) - Len(x)]
      BY <2>2, <3>1
    <3> QED BY <3>1, <3>2
  <2> QED BY <1>3, <2>1, <2>2, <2>3 DEF InMembers
<1>6. ASSUME NEW h, NEW T, NEW k, h \in Seq(T), k \in 1 .. Len(t), t[k][1] = "catch",
             d = h \o SubSeq(t, k + 1, Len(t))
      PROVE  InMembers(d)
  <2> DEFINE u == SubSeq(t, k + 1, Len(t))
  <2>1. k # Len(t) /\ k # Len(t) - 1
    BY <1>3, <1>6 DEF NextMember, Mk
  <2>2. k \in Nat /\ k + 1 <= Len(t) - 1
    BY <1>3, <1>6, <2>1
  <2>3. \A m \in k + 1 .. Len(t) : t[m] \in S
    BY <1>3, <2>2, ElementOfSeq
  <2>4. k + 1 \in Int /\ Len(t) \in Int
    BY <1>3, <2>2
  <2>5. /\ u \in Seq(S) /\ Len(u) = (IF k + 1 <= Len(t) THEN Len(t) - (k + 1) + 1 ELSE 0)
        /\ \A m \in 1 .. Len(t) - (k + 1) + 1 : u[m] = t[k + 1 + m - 1]
    BY <2>3, <2>4, SubSeqProperties
  <2> HIDE DEF u
  <2>6. Len(u) = Len(t) - k /\ Len(u) \in Nat /\ Len(u) >= 2
    BY <1>3, <2>2, <2>5
  <2>7. u[Len(u) - 1] = t[Len(t) - 1] /\ u[Len(u)] = t[Len(t)]
    <3>1. Len(u) - 1 \in 1 .. Len(t) - (k + 1) + 1 /\ Len(u) \in 1 .. Len(t) - (k + 1) + 1
      BY <1>3, <2>2, <2>6
    <3>2. u[Len(u) - 1] = t[k + 1 + (Len(u) - 1) - 1] /\ u[Len(u)] = t[k + 1 + Len(u) - 1]
      BY <2>5, <3>1
    <3>3. k + 1 + (Len(u) - 1) - 1 = Len(t) - 1 /\ k + 1 + Len(u) - 1 = Len(t)
      BY <1>3, <2>2, <2>6
    <3> QED BY <3>2, <3>3
  <2>8. h \in Seq(S \cup T) /\ u \in Seq(S \cup T) /\ Len(h) \in Nat
    BY <1>6, <2>5, SeqMonotonic, LenProperties
  <2>9. d = h \o u
    BY <1>6 DEF u
  <2>10. /\ d \in Seq(S \cup T) /\ Len(d) = Len(h) + Len(u)
         /\ \A m \in 1 .. Len(h) + Len(u) : d[m] = IF m <= Len(h) THEN h[m] ELSE u[m - Len(h)]
    BY <2>8, <2>9, ConcatProperties
  <2>11. d[Len(d) - 1] = u[Len(u) - 1] /\ d[Len(d)] = u[Len(u)]
    BY <2>6, <2>8, <2>10
  <2> QED BY <1>3, <2>6, <2>7, <2>8, <2>10, <2>11 DEF InMembers
<1> QED BY <1>4, <1>5, <1>6 DEF Continues, t

(* The first instruction decides on the action.                            *)
LEMMA Dispatch ==
  ASSUME Next, todo # <<>>
  PROVE  /\ todo[1][1] \in {"call", "nextmember"} => Invoke \/ UNCHANGED <<todo, offset>>
         /\ todo[1][1] = "case" => Match \/ UNCHANGED <<todo, offset>>
         /\ todo[1][1] = "mk" => Yield \/ UNCHANGED <<todo, offset>>
         /\ todo[1][1] = "fail" => UNCHANGED <<todo, offset>>
<1> USE DEF Running, Op
<1>1. EatExpect => todo[1][1] \in {"expect", "soft"}
  BY DEF EatExpect
<1>2. Match => todo[1][1] \in {"eatif", "case", "peek1"}
  BY DEF Match
<1>3. Advance => todo[1][1] \in {"bump", "skip", "eatuntil", "progress"}
  BY DEF Advance
<1>4. Invoke => todo[1][1] \in {"call", "try", "tryfn", "nextmember"}
  BY DEF Invoke
<1>5. Fail => todo[1][1] = "raise"
  BY DEF Fail
<1>6. Report => todo[1][1] = "pusherror"
  BY DEF Report
<1>7. Yield => todo[1][1] \in {"mk", "ok", "none", "ifsome", "comma", "ext", "catch"}
  BY DEF Yield
<1>8. MaybeSuffix => todo[1][1] = "suffix"
  BY DEF MaybeSuffix
<1>9. InfixLoop => todo[1][1] = "infix"
  BY DEF InfixLoop
<1>10. Return \/ Done => UNCHANGED <<todo, offset>>
  BY DEF Return, Done, vars
<1> QED BY <1>1, <1>2, <1>3, <1>4, <1>5, <1>6, <1>7, <1>8, <1>9, <1>10 DEF Next

(* Every step of the parser stays on a token and leaves safe code.         *)
LEMMA NextGoes ==
  ASSUME Tokens, offset \in 1 .. Len(toks), Safe(todo, offset, Len(toks)), Next,
         MaybeSuffix => Len(toks) > 1
  PROVE  (todo # <<>> /\ Goes) \/ UNCHANGED <<todo, offset>>
<1>1. CASE Return \/ Done
  BY <1>1 DEF Return, Done, vars
<1>2. CASE ~ (Return \/ Done)
  <2>1. Goes
    BY <1>2, EatExpectGoes, MatchGoes, AdvanceGoes, InvokeGoes, FailGoes, ReportGoes, YieldGoes,
       MaybeSuffixGoes, InfixLoopGoes DEF Next
  <2>2. todo # <<>>
    BY <1>2 DEF Next, EatExpect, Match, Advance, Invoke, Fail, Report, Yield, MaybeSuffix,
       InfixLoop, Running
  <2> QED BY <2>1, <2>2
<1> QED BY <1>1, <1>2

(* A suffix is looked for in a file that has tokens.                       *)
LEMMA SuffixInMember ==
  ASSUME Bottom(todo, offset, Len(toks)), MaybeSuffix
  PROVE  Len(toks) > 1
<1>1. todo # <<>> /\ todo[1][1] = "suffix"
  BY DEF MaybeSuffix, Running, Op
<1>2. todo # <<Call(<<"module">>)>> /\ todo # <<Mk("struct")>> /\ todo # <<Mk("module")>>
  BY <1>1 DEF Call, Mk
<1>3. todo # ParseModule
  BY <1>1 DEF ParseModule, Case
<1> QED BY <1>1, <1>2, <1>3 DEF Bottom

(* parse_module looks at the first token.                                  *)
LEMMA ModuleStep ==
  ASSUME Tokens, offset \in 1 .. Len(toks), Next,
         todo = <<Call(<<"module">>)>> \/ todo = ParseModule
  PROVE  Bottom(todo', offset', Len(toks))
<1>1. CASE todo = <<Call(<<"module">>)>>
  <2>1. todo # <<>> /\ todo[1] = Call(<<"module">>) /\ Rest = <<>>
    BY <1>1, OneThenNothing, EmptySeq DEF Rest
  <2>2. CASE Invoke
    <3>1. Op = "call" /\ Arg(2) = <<"module">>
      BY <2>1 DEF Op, Arg, Call
    <3>2. todo' = Body(<<"module">>) \o <<>>
      BY <2>1, <2>2, <3>1, Zenon DEF Invoke
    <3>3. Body(<<"module">>) = ParseModule
      BY Zenon DEF Body
    <3>4. ParseModule \in Seq({ParseModule[1]})
      BY DEF ParseModule
    <3>5. todo' = ParseModule
      BY <3>2, <3>3, <3>4, OneThenNothing
    <3> QED BY <3>5 DEF Bottom
  <2>3. CASE UNCHANGED <<todo, offset>>
    BY <1>1, <2>3 DEF Bottom
  <2>4. todo[1][1] = "call"
    BY <2>1 DEF Call
  <2> QED BY <2>1, <2>2, <2>3, <2>4, Dispatch
<1>2. CASE todo = ParseModule
  <2> DEFINE arms == <<Arm({"Eof"}, <<Mk("module")>>)>>
             dflt == <<Call(<<"decl", "root">>)>>
             hits == {k \in DOMAIN Arg(2) : At(offset) \in Arg(2)[k][1]}
             hit == CHOOSE k \in hits : \A m \in hits : k <= m
  <2>1. todo = <<Case(arms, dflt)>>
    BY <1>2, Zenon DEF ParseModule
  <2>2. todo # <<>> /\ todo[1] = Case(arms, dflt) /\ Rest = <<>>
    BY <2>1, OneThenNothing, EmptySeq DEF Rest
  <2>3. Op = "case" /\ Arg(2) = arms /\ Arg(3) = dflt /\ todo[1][1] = "case"
    BY <2>2 DEF Op, Arg, Case
  <2>4. CASE Match
    <3>1. todo' = (IF hits = {} THEN Arg(3) ELSE Arg(2)[hit][2]) \o <<>> /\ offset' = offset
      BY <2>2, <2>3, <2>4, Zenon DEF Match
    <3>2. DOMAIN Arg(2) = {1} /\ Arg(2)[1][1] = {"Eof"} /\ Arg(2)[1][2] = <<Mk("module")>>
      BY <2>3 DEF Arm
    <3>3. dflt \o <<>> = dflt /\ <<Mk("module")>> \o <<>> = <<Mk("module")>>
      <4>1. dflt \in Seq({Call(<<"decl", "root">>)}) /\ <<Mk("module")>> \in Seq({Mk("module")})
        OBVIOUS
      <4> QED BY <4>1, ConcatEmptySeq
    <3>4. CASE offset = Len(toks)
      <4>1. At(offset) = "Eof"
        BY <3>4 DEF Tokens, At
      <4>2. hits = {1}
        BY <3>2, <4>1
      <4>3. hit = 1
        BY <4>2
      <4>4. todo' = <<Mk("module")>>
        BY <3>1, <3>2, <3>3, <4>2, <4>3
      <4> QED BY <3>1, <3>4, <4>4 DEF Bottom
    <3>5. CASE offset # Len(toks)
      <4>1. At(offset) # "Eof" /\ Len(toks) > 1
        BY <3>5 DEF Tokens, At
      <4>2. hits = {}
        BY <3>2, <4>1
      <4>3. todo' = dflt
        BY <2>3, <3>1, <3>3, <4>2
      <4> QED BY <4>1, <4>3 DEF Bottom, AtTop
    <3> QED BY <3>4, <3>5
  <2>5. CASE UNCHANGED <<todo, offset>>
    BY <1>2, <2>5 DEF Bottom
  <2> QED BY <2>2, <2>3, <2>4, <2>5, Dispatch
<1> QED BY <1>1, <1>2

(* The rule of a call.                                                     *)
LEMMA CallParts ==
  ASSUME NEW r
  PROVE  Call(r)[1] = "call" /\ Call(r)[2] = r
BY DEF Call

(* The struct that a file is.                                              *)
LEMMA RootStep ==
  ASSUME Next, todo = <<Call(<<"decl", "root">>)>> \/ todo = <<Call(<<"members", "root", TRUE>>), Mk("struct")>>
  PROVE  AtTop(todo')
<1>1. CASE todo = <<Call(<<"decl", "root">>)>>
  <2>1. todo # <<>> /\ todo[1] = Call(<<"decl", "root">>) /\ Rest = <<>>
    BY <1>1, OneThenNothing, EmptySeq DEF Rest
  <2>2. CASE Invoke
    <3>1. Op = "call" /\ Arg(2) = <<"decl", "root">>
      BY <2>1 DEF Op, Arg, Call
    <3>2. todo' = Body(<<"decl", "root">>) \o <<>>
      BY <2>1, <2>2, <3>1, Zenon DEF Invoke
    <3>3. Body(<<"decl", "root">>) = <<Call(<<"members", "root", TRUE>>), Mk("struct")>>
      <4>1. Body(<<"decl", "root">>) = ParseDecl("root")
        BY Zenon DEF Body
      <4> QED BY <4>1, Zenon DEF ParseDecl
    <3> DEFINE a == Call(<<"members", "root", TRUE>>)
    <3>4. <<a, Mk("struct")>> \in Seq({a, Mk("struct")})
      OBVIOUS
    <3>5. todo' = <<Call(<<"members", "root", TRUE>>), Mk("struct")>>
      BY <3>2, <3>3, <3>4, ConcatEmptySeq
    <3> QED BY <3>5 DEF AtTop
  <2>3. CASE UNCHANGED <<todo, offset>>
    BY <1>1, <2>3 DEF AtTop
  <2>4. todo[1][1] = "call"
    BY <2>1 DEF Call
  <2> QED BY <2>1, <2>2, <2>3, <2>4, Dispatch
<1>2. CASE todo = <<Call(<<"members", "root", TRUE>>), Mk("struct")>>
  <2> DEFINE a == Call(<<"members", "root", TRUE>>)
  <2>1. todo # <<>> /\ todo[1] = a /\ Rest = <<Mk("struct")>>
    BY <1>2 DEF Rest
  <2>2. CASE Invoke
    <3>1. Op = "call" /\ Arg(2) = <<"members", "root", TRUE>>
      BY <2>1, CallParts, Zenon DEF Op, Arg
    <3>2. todo' = Body(<<"members", "root", TRUE>>) \o <<Mk("struct")>>
      BY <2>1, <2>2, <3>1, Zenon DEF Invoke
    <3>3. Body(<<"members", "root", TRUE>>) = ParseMembers("root", TRUE)
      BY Zenon DEF Body
    <3> QED BY <3>2, <3>3, Zenon DEF AtTop
  <2>3. CASE UNCHANGED <<todo, offset>>
    BY <1>2, <2>3, Zenon DEF AtTop
  <2>4. todo[1][1] = "call"
    BY <2>1 DEF Call
  <2> QED BY <2>1, <2>2, <2>3, <2>4, Dispatch
<1> QED BY <1>1, <1>2

(* A member and what follows it.                                           *)
LEMMA MemberBody ==
  ASSUME NEW w \in {<<>>, <<PushError>>}, NEW a, NEW b
  PROVE  InMembers((w \o <<a, b, NextMember("root")>>) \o <<Mk("struct")>>)
<1> DEFINE S == {a, b, NextMember("root"), PushError, Mk("struct")}
           body == <<a, b, NextMember("root")>>
           z == <<Mk("struct")>>
           v == w \o body
           d == v \o z
<1>1. w \in Seq(S) /\ Len(w) \in Nat
  <2>1. <<>> \in Seq(S) /\ Len(<<>>) = 0
    BY EmptySeq
  <2>2. <<PushError>> \in Seq(S) /\ Len(<<PushError>>) = 1
    OBVIOUS
  <2> QED BY <2>1, <2>2
<1>2. body \in Seq(S) /\ Len(body) = 3 /\ body[3] = NextMember("root")
  OBVIOUS
<1>3. z \in Seq(S) /\ Len(z) = 1 /\ z[1] = Mk("struct")
  OBVIOUS
<1> HIDE DEF S, body, z
<1>4. /\ v \in Seq(S) /\ Len(v) = Len(w) + 3
      /\ \A k \in 1 .. Len(w) + Len(body) : v[k] = IF k <= Len(w) THEN w[k] ELSE body[k - Len(w)]
  <2>1. /\ v \in Seq(S) /\ Len(v) = Len(w) + Len(body)
        /\ \A k \in 1 .. Len(w) + Len(body) : v[k] = IF k <= Len(w) THEN w[k] ELSE body[k - Len(w)]
    <3>1. \A x, y \in Seq(S) :
            /\ x \o y \in Seq(S) /\ Len(x \o y) = Len(x) + Len(y)
            /\ \A k \in 1 .. Len(x) + Len(y) : (x \o y)[k] = IF k <= Len(x) THEN x[k] ELSE y[k - Len(x)]
      BY ConcatProperties
    <3> QED BY <1>1, <1>2, <3>1, Zenon
  <2> QED BY <1>2, <2>1
<1>5. v[Len(v)] = NextMember("root")
  <2>1. /\ Len(v) \in 1 .. Len(w) + Len(body) /\ ~ (Len(v) <= Len(w)) /\ Len(v) - Len(w) = 3
    BY <1>1, <1>2, <1>4
  <2> QED BY <1>2, <1>4, <2>1
<1> HIDE DEF v
<1>6. /\ d \in Seq(S) /\ Len(d) = Len(v) + 1
      /\ \A k \in 1 .. Len(v) + Len(z) : d[k] = IF k <= Len(v) THEN v[k] ELSE z[k - Len(v)]
  BY <1>3, <1>4, ConcatProperties
<1> HIDE DEF d
<1>7. /\ Len(d) - 1 = Len(v) /\ Len(v) \in 1 .. Len(v) + Len(z) /\ Len(v) <= Len(v)
      /\ Len(d) \in 1 .. Len(v) + Len(z) /\ ~ (Len(d) <= Len(v)) /\ Len(d) - Len(v) = 1
      /\ Len(d) >= 2
  BY <1>1, <1>3, <1>4, <1>6
<1>8. d[Len(d) - 1] = v[Len(v)] /\ d[Len(d)] = z[1]
  BY <1>6, <1>7
<1>9. InMembers(d)
  BY <1>3, <1>5, <1>6, <1>7, <1>8 DEF InMembers
<1> QED BY <1>9 DEF d, v, body, z

(* The loop over the members ends at the Eof.                              *)
LEMMA LoopStep ==
  ASSUME Tokens, offset \in 1 .. Len(toks), Len(toks) > 1, Next,
         NEW h, todo = ParseMembers("root", h) \o <<Mk("struct")>>
  PROVE  Bottom(todo', offset', Len(toks))
<1> DEFINE arms == <<Arm({"Eof"} \cup {}, <<>>)>>
           body == <<SetComma(TRUE), Call(<<"member", "root">>), NextMember("root")>>
           warn == IF h THEN <<>> ELSE <<PushError>>
           dflt == warn \o body
           hits == {k \in DOMAIN Arg(2) : At(offset) \in Arg(2)[k][1]}
           hit == CHOOSE k \in hits : \A m \in hits : k <= m
<1>1. ParseMembers("root", h) = <<Case(arms, dflt)>>
  BY Zenon DEF ParseMembers
<1> HIDE DEF dflt, arms
<1>2. todo = <<Case(arms, dflt)>> \o <<Mk("struct")>>
  BY <1>1
<1>3. todo # <<>> /\ todo[1] = Case(arms, dflt) /\ Rest = <<Mk("struct")>>
  <2>1. <<Mk("struct")>> \in Seq({Mk("struct")})
    OBVIOUS
  <2> QED BY <1>2, <2>1, HeadOfConcat DEF Rest
<1>4. Op = "case" /\ Arg(2) = arms /\ Arg(3) = dflt /\ todo[1][1] = "case"
  BY <1>3 DEF Op, Arg, Case
<1>5. CASE Match
  <2>1. todo' = (IF hits = {} THEN Arg(3) ELSE Arg(2)[hit][2]) \o Rest /\ offset' = offset
    BY <1>4, <1>5, Zenon DEF Match
  <2>2. DOMAIN Arg(2) = {1} /\ Arg(2)[1][1] = {"Eof"} /\ Arg(2)[1][2] = <<>>
    BY <1>4 DEF Arm, arms
  <2>3. CASE offset = Len(toks)
    <3>1. At(offset) = "Eof"
      BY <2>3 DEF Tokens, At
    <3>2. hits = {1}
      BY <2>2, <3>1
    <3>3. hit = 1
      BY <3>2
    <3>4. <<>> \o <<Mk("struct")>> = <<Mk("struct")>>
      OBVIOUS
    <3>5. todo' = <<Mk("struct")>>
      BY <1>3, <2>1, <2>2, <3>2, <3>3, <3>4
    <3> QED BY <2>1, <2>3, <3>5 DEF Bottom
  <2>4. CASE offset # Len(toks)
    <3>1. At(offset) # "Eof"
      BY <2>4 DEF Tokens, At
    <3>2. hits = {}
      BY <2>2, <3>1
    <3>3. todo' = dflt \o <<Mk("struct")>>
      BY <1>3, <1>4, <2>1, <3>2
    <3>4. InMembers(todo')
      <4>1. todo' = (warn \o <<SetComma(TRUE), Call(<<"member", "root">>), NextMember("root")>>)
                    \o <<Mk("struct")>>
        BY <3>3, Zenon DEF dflt
      <4>2. warn \in {<<>>, <<PushError>>}
        BY Zenon
      <4> QED BY <4>1, <4>2, MemberBody, Zenon
    <3> QED BY <3>4 DEF Bottom, AtTop
  <2> QED BY <2>3, <2>4
<1>6. CASE UNCHANGED <<todo, offset>>
  BY <1>6 DEF Bottom, AtTop
<1> QED BY <1>3, <1>4, <1>5, <1>6, Dispatch

(* Inside the members.                                                     *)
LEMMA MembersStep ==
  ASSUME Tokens, offset \in 1 .. Len(toks), Safe(todo, offset, Len(toks)), Next,
         InMembers(todo), Len(toks) > 1
  PROVE  AtTop(todo')
<1>1. PICK S : /\ todo \in Seq(S) /\ Len(todo) >= 2
               /\ todo[Len(todo) - 1] = NextMember("root") /\ todo[Len(todo)] = Mk("struct")
  BY DEF InMembers
<1>2. Len(todo) \in Nat /\ todo # <<>>
  BY <1>1, LenProperties, EmptySeq
<1>3. CASE UNCHANGED <<todo, offset>>
  BY <1>3 DEF AtTop
<1>4. CASE Goes /\ Len(todo) >= 3
  BY <1>4, MembersContinue DEF Goes, Rest, AtTop
<1>5. CASE Goes /\ Len(todo) = 2
  <2>1. todo[1] = NextMember("root") /\ todo[2] = Mk("struct")
    BY <1>1, <1>5
  <2>2. Rest = <<Mk("struct")>>
    <3>1. /\ Rest \in Seq(S) /\ Len(Rest) = 1 /\ Rest[1] = todo[2]
      <4>1. /\ Rest \in Seq(S) /\ Len(Rest) = Len(todo) - 1
            /\ \A k \in 1 .. Len(Rest) : Rest[k] = todo[k + 1]
        BY <1>1, <1>2, HeadTailProperties DEF Rest
      <4> QED BY <1>5, <4>1
    <3>2. <<Mk("struct")>> \in Seq(S \cup {Mk("struct")}) /\ Rest \in Seq(S \cup {Mk("struct")})
      BY <3>1, SeqMonotonic
    <3>3. Len(<<Mk("struct")>>) = 1 /\ <<Mk("struct")>>[1] = Mk("struct")
      OBVIOUS
    <3>4. \A k \in 1 .. Len(Rest) : Rest[k] = <<Mk("struct")>>[k]
      BY <2>1, <3>1, <3>3
    <3> QED BY <3>1, <3>2, <3>3, <3>4, SeqEqual
  <2>3. todo[1][1] = "nextmember" /\ Op = "nextmember" /\ Arg(2) = "root"
    BY <2>1 DEF NextMember, Op, Arg
  <2>4. CASE Invoke
    <3>1. todo' = Body(<<"members", "root", comma>>) \o <<Mk("struct")>>
      BY <2>2, <2>3, <2>4, Zenon DEF Invoke
    <3>2. Body(<<"members", "root", comma>>) = ParseMembers("root", comma)
      BY Zenon DEF Body
    <3> QED BY <3>1, <3>2, Zenon DEF AtTop
  <2> QED BY <1>2, <1>3, <2>3, <2>4, Dispatch
<1>6. Goes \/ UNCHANGED <<todo, offset>>
  BY NextGoes
<1>7. Len(todo) = 2 \/ Len(todo) >= 3
  <2>1. \A m \in Nat : m >= 2 => m = 2 \/ m >= 3
    OBVIOUS
  <2> QED BY <1>1, <1>2, <2>1, Zenon
<1> QED BY <1>3, <1>4, <1>5, <1>6, <1>7, Zenon

(* Every step keeps what is left of parse_module in order.                 *)
LEMMA BottomStep ==
  ASSUME Tokens, offset \in 1 .. Len(toks), Safe(todo, offset, Len(toks)), Next,
         Bottom(todo, offset, Len(toks))
  PROVE  Bottom(todo', offset', Len(toks))
<1>1. CASE todo = <<Call(<<"module">>)>> \/ todo = ParseModule
  BY <1>1, ModuleStep
<1>2. CASE Len(toks) > 1 /\ AtTop(todo)
  <2>1. CASE todo = <<Call(<<"decl", "root">>)>> \/ todo = <<Call(<<"members", "root", TRUE>>), Mk("struct")>>
    BY <1>2, <2>1, RootStep DEF Bottom
  <2>2. CASE \E h : todo = ParseMembers("root", h) \o <<Mk("struct")>>
    BY <1>2, <2>2, LoopStep
  <2>3. CASE todo = <<<<"fail">>>>
    <3>1. todo # <<>> /\ todo[1][1] = "fail"
      BY <2>3
    <3>2. UNCHANGED todo
      BY <3>1, Dispatch
    <3> QED BY <1>2, <2>3, <3>2 DEF Bottom, AtTop
  <2>4. CASE InMembers(todo)
    BY <1>2, <2>4, MembersStep DEF Bottom
  <2> QED BY <1>2, <2>1, <2>2, <2>3, <2>4, Zenon DEF AtTop
<1>3. CASE offset = Len(toks) /\ todo \in {<<Mk("struct")>>, <<Mk("module")>>, <<>>}
  <2>1. CASE todo = <<>>
    <3>1. UNCHANGED <<todo, offset>>
      BY <2>1 DEF Next, EatExpect, Match, Advance, Invoke, Fail, Report, Yield, MaybeSuffix, InfixLoop,
                  Running, Return, Done, vars
    <3> QED BY <1>3, <2>1, <3>1 DEF Bottom
  <2>2. ASSUME NEW t, todo = <<Mk(t)>> PROVE (todo' = <<>> \/ UNCHANGED todo) /\ UNCHANGED offset
    <3>1. todo # <<>> /\ todo[1] = Mk(t) /\ Rest = <<>>
      BY <2>2, OneThenNothing, EmptySeq DEF Rest
    <3>2. todo[1][1] = "mk" /\ Op = "mk"
      BY <3>1 DEF Mk, Op
    <3>3. Yield => todo' = Rest /\ offset' = offset
      BY <3>2 DEF Yield
    <3> QED BY <3>1, <3>2, <3>3, Dispatch
  <2> QED BY <1>3, <2>1, <2>2 DEF Bottom
<1> QED BY <1>1, <1>2, <1>3 DEF Bottom

----------------------------------------------------------------------------
(* The invariant and the theorems. *)

(* The inductive invariant: the offset is on a token; the code that is     *)
(* left is safe from there; what lies under it is what parse_module left.  *)
ParserInv ==
  /\ Tokens
  /\ InBounds
  /\ Safe(todo, offset, Len(toks))
  /\ Bottom(todo, offset, Len(toks))
  /\ ReadsToEnd

(* The indices of the tokens.                                              *)
LEMMA BoundsRange ==
  ASSUME Tokens
  PROVE  DOMAIN toks = 1 .. Len(toks)
BY LenProperties DEF Tokens

(* A sequence with one more element.                                       *)
LEMMA Appended ==
  ASSUME NEW S, NEW f \in Seq(S), NEW e
  PROVE  /\ Append(f, e) \in Seq(S \cup {e}) /\ Len(Append(f, e)) = Len(f) + 1
         /\ \A k \in 1 .. Len(f) : Append(f, e)[k] = f[k]
         /\ Append(f, e)[Len(f) + 1] = e
<1>1. f \in Seq(S \cup {e}) /\ e \in S \cup {e}
  BY SeqMonotonic
<1> QED BY <1>1, AppendProperties

(* The invariant holds when the parser starts.                             *)
LEMMA ParserInit ==
  ASSUME Init
  PROVE  ParserInv
<1>1. PICK file \in Files : toks = Append(file, "Eof")
  BY DEF Init
<1>2. file \in Seq(STRING) /\ Len(file) \in Nat /\ DOMAIN file = 1 .. Len(file)
  BY FilesAssumption, LenProperties
<1>3. /\ toks \in Seq(STRING \cup {"Eof"}) /\ Len(toks) = Len(file) + 1
      /\ \A k \in 1 .. Len(file) : toks[k] = file[k]
      /\ toks[Len(file) + 1] = "Eof"
  <2>1. \A f \in Seq(STRING) : Append(f, "Eof") \in Seq(STRING \cup {"Eof"})
    BY Appended
  <2>2. \A f \in Seq(STRING) : Len(Append(f, "Eof")) = Len(f) + 1
    BY Appended
  <2>3. \A f \in Seq(STRING) : \A k \in 1 .. Len(f) : Append(f, "Eof")[k] = f[k]
    BY Appended
  <2>4. \A f \in Seq(STRING) : Append(f, "Eof")[Len(f) + 1] = "Eof"
    BY Appended
  <2> QED BY <1>1, <1>2, <2>1, <2>2, <2>3, <2>4, Zenon
<1>4. \A k \in 1 .. Len(file) : toks[k] # "Eof"
  BY <1>2, <1>3, FilesAssumption
<1>5. Tokens
  <2>1. ASSUME NEW k \in 1 .. Len(toks) PROVE toks[k] = "Eof" <=> k = Len(toks)
    <3>1. k \in 1 .. Len(file) \/ k = Len(file) + 1
      BY <1>2, <1>3
    <3> QED BY <1>2, <1>3, <1>4, <3>1
  <2> QED BY <1>2, <1>3, <2>1 DEF Tokens
<1>6. InBounds
  BY <1>5, BoundsRange DEF InBounds, Tokens, Init
<1>7. Code(<<Call(<<"module">>)>>, Len(toks))
  <2>1. Free(<<"module">>)
    BY Callable
  <2> QED BY <2>1, Calls
<1>8. Safe(todo, offset, Len(toks)) /\ Bottom(todo, offset, Len(toks)) /\ ReadsToEnd
  BY <1>7 DEF Init, Safe, Bottom, ReadsToEnd
<1> QED BY <1>5, <1>6, <1>8 DEF ParserInv

(* parse_module returns Ok at the Eof.                                     *)
LEMMA ResultStep ==
  ASSUME ParserInv, Next, offset \in 1 .. Len(toks)
  PROVE  ReadsToEnd'
<1>1. CASE Return
  <2>1. /\ result' = IF todo = <<>> /\ (errors = 0 \/ toks = <<"Eof">>) THEN "ok" ELSE "err"
        /\ UNCHANGED <<toks, offset, todo, errors>>
    BY <1>1 DEF Return
  <2>2. todo = <<>> => offset = Len(toks)
    <3> SUFFICES ASSUME todo = <<>> PROVE offset = Len(toks)
      OBVIOUS
    <3>1. todo # <<Call(<<"module">>)>> /\ todo # ParseModule
      BY DEF ParseModule
    <3>2. ~ AtTop(todo)
      <4>1. ~ InMembers(todo)
        BY EmptySeq DEF InMembers
      <4>2. \A h : todo # ParseMembers("root", h) \o <<Mk("struct")>>
        <5> SUFFICES ASSUME NEW h PROVE ParseMembers("root", h) \o <<Mk("struct")>> # <<>>
          OBVIOUS
        <5>1. \E i : ParseMembers("root", h) = <<i>>
          BY Zenon DEF ParseMembers
        <5>2. <<Mk("struct")>> \in Seq({Mk("struct")})
          OBVIOUS
        <5> QED BY <5>1, <5>2, HeadOfConcat
      <4> QED BY <4>1, <4>2 DEF AtTop
    <3> QED BY <3>1, <3>2 DEF ParserInv, Bottom
  <2>3. todo = <<>> => At(offset) = "Eof"
    BY <2>2 DEF ParserInv, Tokens, At
  <2> QED BY <2>1, <2>3 DEF ReadsToEnd, At
<1>2. CASE Done
  BY <1>2 DEF Done, vars, ParserInv, ReadsToEnd, At
<1>3. CASE ~ Return /\ ~ Done
  <2>1. result' = "parsing"
    BY <1>3 DEF Next, EatExpect, Match, Advance, Invoke, Fail, Report, Yield, MaybeSuffix,
       InfixLoop, Running
  <2> QED BY <2>1 DEF ReadsToEnd
<1> QED BY <1>1, <1>2, <1>3

(* Every step keeps the invariant.                                         *)
LEMMA ParserStep ==
  ASSUME ParserInv, [Next]_vars
  PROVE  ParserInv'
<1>1. CASE UNCHANGED vars
  BY <1>1 DEF vars, ParserInv, Tokens, InBounds, ReadsToEnd, At
<1>2. CASE Next
  <2>1. /\ Tokens /\ offset \in 1 .. Len(toks) /\ Safe(todo, offset, Len(toks))
        /\ Bottom(todo, offset, Len(toks))
    BY BoundsRange DEF ParserInv, InBounds
  <2>2. toks' = toks
    BY <1>2 DEF Next, EatExpect, Match, Advance, Invoke, Fail, Report, Yield, MaybeSuffix, InfixLoop,
                Return, Done, vars
  <2>3. offset' \in 1 .. Len(toks) /\ Safe(todo', offset', Len(toks))
    <3>1. (todo # <<>> /\ Goes) \/ UNCHANGED <<todo, offset>>
      BY <1>2, <2>1, NextGoes, SuffixInMember
    <3> QED BY <2>1, <3>1 DEF Goes
  <2>4. Bottom(todo', offset', Len(toks))
    BY <1>2, <2>1, BottomStep
  <2>5. ReadsToEnd'
    BY <1>2, <2>1, ResultStep
  <2>6. Tokens' /\ InBounds'
    BY <2>1, <2>2, <2>3, BoundsRange DEF Tokens, InBounds
  <2> QED BY <2>2, <2>3, <2>4, <2>5, <2>6 DEF ParserInv
<1> QED BY <1>1, <1>2

(* The invariant holds for every file of tokens, whatever the parser meets *)
(* in it.                                                                  *)
THEOREM ParserInvariant == Spec => []ParserInv
<1>1. Init => ParserInv
  BY ParserInit
<1>2. ParserInv /\ [Next]_vars => ParserInv'
  BY ParserStep
<1> QED BY <1>1, <1>2, PTL DEF Spec

(* peek and bump index the tokens unchecked: for every file, of every      *)
(* length, right or wrong, and on every error path the offset stays on a   *)
(* token.                                                                  *)
THEOREM ParserInBounds == Spec => []InBounds
<1>1. ParserInv => InBounds
  BY DEF ParserInv
<1> QED BY <1>1, ParserInvariant, PTL

(* For every file: when parse_module returns Ok it has come to the Eof,    *)
(* and neither lexer nor parser had anything to report, unless the file    *)
(* has no tokens.                                                          *)
THEOREM ParserReadsToEnd == Spec => []ReadsToEnd
<1>1. ParserInv => ReadsToEnd
  BY DEF ParserInv
<1> QED BY <1>1, ParserInvariant, PTL
=============================================================================
