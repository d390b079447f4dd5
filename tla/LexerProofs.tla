---------------------------- MODULE LexerProofs ----------------------------
(***************************************************************************)
(* The scanner never reads past the NUL, its tokens are in order and not   *)
(* empty, each invalid token has one diagnostic, and an invalid token      *)
(* stays on its line, for every set of texts.                              *)
(*                                                                         *)
(* Every step of the scanner is one of five motions (Motion): it starts a  *)
(* token, reads on, returns a token, returns a token of one character, or  *)
(* skips a comment.  An action lemma shows which, from the characters the  *)
(* action looks at; the invariant is then preserved by the five motions.   *)
(***************************************************************************)
EXTENDS Lexer, SequenceTheorems, WellFoundedInduction, TLAPS

----------------------------------------------------------------------------
(* The invariant. *)

IsSeq(s) == s \in Seq({s[i] : i \in DOMAIN s})

KindOK(s, k) ==
  /\ s = "Ident" => k.tag = "Ident"
  /\ s \in {"Str", "EscapeStr"} => k.tag \in {"LitStr", "Ident"}

TypeOK ==
  /\ text \in Seq(STRING)
  /\ offset \in Nat /\ spanStart \in Nat
  /\ IsSeq(tokens) /\ IsSeq(errors)
  /\ \A i \in DOMAIN tokens : tokens[i].lo \in Nat /\ tokens[i].hi \in Nat
  /\ \A k \in DOMAIN errors : errors[k] \in Nat
  /\ KindOK(state, kind)

Between == {"S0", "Done"}

(* A token in hand is not empty; after `1.` there are two characters to give back from. *)
Inside ==
  /\ state \notin Between => spanStart < offset
  /\ state = "FloatDot1" => spanStart + 1 < offset

(* Tokens are not empty, and each ends before the next begins.             *)
TokensInOrder ==
  \A i \in DOMAIN tokens :
    /\ tokens[i].lo < tokens[i].hi
    /\ \A j \in DOMAIN tokens : i < j => tokens[i].hi <= tokens[j].lo

(* The tokens returned lie before the token in hand.                       *)
Behind ==
  state # "Done" =>
    \A i \in DOMAIN tokens : tokens[i].hi <= IF state = "S0" THEN offset ELSE spanStart

(* Each invalid token is reported where it starts, once, in order, and     *)
(* nothing else is.                                                        *)
ReportedOnce ==
  /\ \A i \in DOMAIN tokens :
       tokens[i].kind.tag = "Invalid" => \E k \in DOMAIN errors : errors[k] = tokens[i].lo
  /\ \A k \in DOMAIN errors :
       \E i \in DOMAIN tokens : tokens[i].kind.tag = "Invalid" /\ errors[k] = tokens[i].lo
  /\ \A k, l \in DOMAIN errors : k < l => errors[k] < errors[l]

NoNul == \A p \in DOMAIN text : text[p] # "nul"
Clean(lo, hi) == \A p \in lo .. hi - 1 : At(p) # "nl"

(* The token in hand has no line end.                                      *)
OneLine == NoNul /\ state \notin Between \cup {"LineComment"} => Clean(spanStart, offset)

IInv ==
  /\ TypeOK /\ InBounds /\ Inside /\ TokensInOrder /\ Behind
  /\ ReportedOnce /\ OneLine /\ RecoversOnLine

----------------------------------------------------------------------------
(* The motions of the scanner. *)

Begins(o) ==
  /\ state = "S0" /\ o \in offset .. len /\ o < len
  /\ spanStart' = o /\ offset' = o + 1
  /\ state' \notin Between \cup {"FloatDot1"}
  /\ At(o) # "nl"
  /\ KindOK(state', kind')
  /\ UNCHANGED <<text, errors, tokens>>

Reads(o) ==
  /\ state \notin Between
  /\ o \in Nat /\ spanStart < o /\ o <= len
  /\ offset' = o /\ state' \notin Between
  /\ state' = "FloatDot1" => spanStart + 1 < o
  /\ state' # "LineComment" /\ NoNul => Clean(spanStart, o)
  /\ KindOK(state', kind')
  /\ UNCHANGED <<text, spanStart, errors, tokens>>

Token(k, lo, hi) == [kind |-> k, lo |-> lo, hi |-> hi]

(* What a returned token does to the list of diagnostics. *)
Reports(k, lo, hi) ==
  IF k.tag = "Invalid" THEN errors' = Append(errors, lo) /\ (NoNul => Clean(lo, hi - 1))
  ELSE errors' = errors

Returns(k, o) ==
  /\ state \notin Between
  /\ o \in Nat /\ spanStart < o /\ o <= len
  /\ offset' = o /\ state' = "S0"
  /\ tokens' = Append(tokens, Token(k, spanStart, o))
  /\ Reports(k, spanStart, o)
  /\ UNCHANGED <<text, spanStart>>

ReturnsOne(k, o) ==
  /\ state = "S0" /\ o \in offset .. len
  /\ spanStart' = o /\ offset' = o + 1
  /\ IF k.tag = "Eof" THEN state' = "Done" ELSE state' = "S0" /\ o < len
  /\ tokens' = Append(tokens, Token(k, o, o + 1))
  /\ Reports(k, o, o + 1)
  /\ UNCHANGED text

SkipsComment(o) ==
  /\ state \notin Between
  /\ o \in Nat /\ offset <= o /\ o <= len
  /\ offset' = o /\ state' = "S0"
  /\ UNCHANGED <<text, spanStart, errors, tokens>>

Motion ==
  \/ \E o : Begins(o) \/ Reads(o) \/ SkipsComment(o)
  \/ \E k, o : Returns(k, o) \/ ReturnsOne(k, o)

----------------------------------------------------------------------------
(* Lemmas about reading. *)

(* A set of naturals that is not empty has a least element (the memchr and *)
(* while loops stop at the first hit).                                     *)
LEMMA Least ==
  ASSUME NEW T, T \subseteq Nat, T # {}
  PROVE  \E x \in T : \A y \in T : x <= y
<1>1. \E x \in T : \A y \in T : ~ (<<y, x>> \in OpToRel(<, Nat))
  BY NatLessThanWellFounded, WFMin
<1>2. PICK x \in T : \A y \in T : ~ (<<y, x>> \in OpToRel(<, Nat))
  BY <1>1
<1>3. ASSUME NEW y \in T PROVE x <= y
  <2>1. ~ (<<y, x>> \in {ss \in Nat \X Nat : ss[1] < ss[2]})
    BY <1>2, <1>3 DEF OpToRel
  <2>2. x \in Nat /\ y \in Nat
    OBVIOUS
  <2> QED BY <2>1, <2>2
<1> QED BY <1>2, <1>3

(* First finds the least element of a set of naturals.                     *)
LEMMA FirstLeast ==
  ASSUME NEW T, T \subseteq Nat, T # {}
  PROVE  First(T) \in T /\ \A q \in T : First(T) <= q
BY Least DEF First

(* The character at an offset of the buffer is no NUL only before its end. *)
LEMMA BeforeEnd ==
  ASSUME text \in Seq(STRING), NEW o \in Nat, o <= len, At(o) # "nul"
  PROVE  o < len /\ o + 1 <= len /\ len \in Nat
BY DEF At, len

(* In a text with no NUL of its own a NUL is read only at the end.         *)
LEMMA NulAtEnd ==
  ASSUME text \in Seq(STRING), NoNul, NEW o \in Nat, o <= len, At(o) = "nul"
  PROVE  o = len
<1>1. CASE o < len
  <2>1. o + 1 \in DOMAIN text
    BY <1>1 DEF len
  <2> QED BY <1>1, <2>1 DEF At, NoNul
<1> QED BY <1>1 DEF len

(* A `while class(peek())` loop whose class does not hold the NUL stops in *)
(* the buffer, at the first character out of the class.                    *)
LEMMA SkipStops ==
  ASSUME text \in Seq(STRING), NEW class, "nul" \notin class, NEW o \in Nat, o <= len
  PROVE  /\ SkipWhile(class, o) \in o .. len
         /\ At(SkipWhile(class, o)) \notin class
         /\ \A q \in o .. SkipWhile(class, o) - 1 : At(q) \in class
<1> DEFINE T == {p \in o .. len : At(p) \notin class}
<1>1. len \in Nat
  BY DEF len
<1>2. T \subseteq Nat /\ len \in T
  BY <1>1 DEF At
<1>3. PICK x \in T : \A y \in T : x <= y
  BY <1>2, Least
<1>4. x \in o .. len /\ At(x) \notin class /\ \A q \in o .. x - 1 : At(q) \in class
  BY <1>1, <1>3
<1> QED BY <1>4 DEF SkipWhile

(* memchr stops in the buffer, at the end or at the first character sought. *)
LEMMA EatStops ==
  ASSUME text \in Seq(STRING), NEW chars, NEW o \in Nat, o <= len
  PROVE  /\ EatUntil(chars, o) \in o .. len
         /\ EatUntil(chars, o) = len \/ At(EatUntil(chars, o)) \in chars
         /\ \A q \in o .. EatUntil(chars, o) - 1 : At(q) \notin chars
<1>1. len \in Nat
  BY DEF len
<1>2. CASE Positions(chars, o) = {}
  <2>1. EatUntil(chars, o) = len
    BY <1>2 DEF EatUntil
  <2>2. \A q \in o .. len : At(q) \notin chars
    BY <1>2 DEF Positions
  <2> QED BY <1>1, <2>1, <2>2
<1>3. CASE Positions(chars, o) # {}
  <2>1. Positions(chars, o) \subseteq Nat
    BY <1>1 DEF Positions
  <2>2. PICK p : p = First(Positions(chars, o))
    OBVIOUS
  <2>3. p \in Positions(chars, o) /\ \A q \in Positions(chars, o) : p <= q
    BY <1>3, <2>1, <2>2, FirstLeast
  <2>4. EatUntil(chars, o) = p
    BY <1>3, <2>2 DEF EatUntil
  <2>5. p \in o .. len /\ At(p) \in chars
    BY <2>3 DEF Positions
  <2>6. ASSUME NEW q \in o .. p - 1 PROVE At(q) \notin chars
    <3>1. q \in o .. len /\ ~ (p <= q)
      BY <1>1, <2>5
    <3> QED BY <3>1, <2>3 DEF Positions
  <2> QED BY <2>4, <2>5, <2>6
<1> QED BY <1>2, <1>3

(* eat_until_newline stays in the buffer and never goes back.              *)
LEMMA NewlineStops ==
  ASSUME text \in Seq(STRING), NEW o \in Nat, o <= len, NEW e \in EatUntilNewline(o)
  PROVE  e \in Nat /\ o <= e /\ e <= len
<1>1. len \in Nat
  BY DEF len
<1>2. PICK S : S = Positions({"nl", "cr"}, o)
  OBVIOUS
<1>3. S \subseteq o .. len /\ S \subseteq Nat
  BY <1>1, <1>2 DEF Positions
<1>4. CASE S = {}
  BY <1>1, <1>2, <1>4 DEF EatUntilNewline
<1>5. CASE S # {}
  <2>1. First(S) \in o .. len
    BY <1>3, <1>5, FirstLeast
  <2>2. e = First(S) \/ (e = First(S) + 1 /\ First(S) + 1 < len)
    BY <1>2, <1>5 DEF EatUntilNewline
  <2> QED BY <1>1, <2>1, <2>2
<1> QED BY <1>4, <1>5

(* Recovery stays in the buffer, never goes back, and crosses no line end  *)
(* from where it starts.                                                   *)
LEMMA RecoverStops ==
  ASSUME text \in Seq(STRING), NEW o \in Nat, o <= len
  PROVE  /\ RecoverTo(o) \in Nat /\ o <= RecoverTo(o) /\ RecoverTo(o) <= len
         /\ Clean(o, RecoverTo(o))
<1>1. len \in Nat
  BY DEF len
<1>2. PICK p : p = EatUntil({"quote", "nl", "cr"}, o)
  OBVIOUS
<1>3. p \in o .. len /\ \A q \in o .. p - 1 : At(q) # "nl"
  BY <1>2, EatStops
<1>4. CASE o >= len
  <2>1. RecoverTo(o) = len /\ o = len
    BY <1>1, <1>4 DEF RecoverTo
  <2> QED BY <1>1, <2>1 DEF Clean
<1>5. CASE o < len /\ At(p) = "quote"
  <2>1. RecoverTo(o) = p + 1
    BY <1>1, <1>2, <1>5 DEF RecoverTo
  <2>2. p + 1 <= len
    BY <1>3, <1>5, <1>1, BeforeEnd
  <2>3. \A q \in o .. p : At(q) # "nl"
    BY <1>1, <1>3, <1>5
  <2>4. Clean(o, p + 1)
    BY <1>1, <1>3, <2>3 DEF Clean
  <2> QED BY <1>1, <1>3, <2>1, <2>2, <2>4
<1>6. CASE o < len /\ At(p) # "quote"
  <2>1. RecoverTo(o) = p
    BY <1>1, <1>2, <1>6 DEF RecoverTo
  <2> QED BY <1>1, <1>3, <2>1 DEF Clean
<1> QED BY <1>1, <1>4, <1>5, <1>6

----------------------------------------------------------------------------
(* The invariant is preserved by every motion. *)

(* t is s and one element more. *)
Grown(s, e, t) ==
  /\ IsSeq(t)
  /\ Len(s) \in Nat /\ DOMAIN s = 1 .. Len(s) /\ DOMAIN t = 1 .. Len(s) + 1
  /\ \A i \in 1 .. Len(s) : t[i] = s[i]
  /\ t[Len(s) + 1] = e

(* What Append does to a sequence.                                         *)
LEMMA AppendFacts ==
  ASSUME NEW s, IsSeq(s), NEW e, NEW t, t = Append(s, e)
  PROVE  Grown(s, e, t)
<1> DEFINE S == {s[i] : i \in DOMAIN s} \cup {e}
<1>1. s \in Seq(S) /\ e \in S
  <2>1. s \in Seq({s[i] : i \in DOMAIN s})
    BY DEF IsSeq
  <2> QED BY <2>1
<1>2. /\ t \in Seq(S) /\ Len(s) \in Nat /\ DOMAIN s = 1 .. Len(s) /\ Len(t) = Len(s) + 1
      /\ DOMAIN t = 1 .. Len(s) + 1
      /\ \A i \in 1 .. Len(s) : t[i] = s[i]
      /\ t[Len(s) + 1] = e
  <2> HIDE DEF S
  <2> QED BY <1>1
<1>3. t \in Seq({t[i] : i \in DOMAIN t})
  <2> DEFINE T == {t[i] : i \in DOMAIN t}
  <2>1. Len(t) \in Nat /\ t \in [1 .. Len(t) -> S] /\ DOMAIN t = 1 .. Len(t)
    BY <1>2, LenProperties
  <2>2. t \in [1 .. Len(t) -> T]
    <3>1. \A i \in 1 .. Len(t) : t[i] \in T
      BY <2>1
    <3> HIDE DEF S, T
    <3> QED BY <2>1, <3>1
  <2> HIDE DEF S, T
  <2>3. t \in Seq(T)
    BY <2>1, <2>2, SeqDef
  <2> QED BY <2>3 DEF T
<1> QED BY <1>2, <1>3 DEF IsSeq, Grown

(* The tokens after a token is returned: in order, and the diagnostics     *)
(* still match them.  lo is where the new token starts, after all others.  *)
LEMMA TokenAdded ==
  ASSUME TypeOK, TokensInOrder, ReportedOnce, RecoversOnLine,
         NEW k, NEW lo \in Nat, NEW hi \in Nat, lo < hi,
         \A i \in DOMAIN tokens : tokens[i].hi <= lo,
         tokens' = Append(tokens, Token(k, lo, hi)), Reports(k, lo, hi), text' = text
  PROVE  /\ IsSeq(tokens') /\ IsSeq(errors')
         /\ \A i \in DOMAIN tokens' : tokens'[i].lo \in Nat /\ tokens'[i].hi \in Nat
         /\ \A e \in DOMAIN errors' : errors'[e] \in Nat
         /\ \A i \in DOMAIN tokens' : tokens'[i].hi <= hi
         /\ TokensInOrder' /\ ReportedOnce' /\ RecoversOnLine'
<1> DEFINE n == Len(tokens)
           m == Len(errors)
<1>1. /\ IsSeq(tokens') /\ n \in Nat /\ DOMAIN tokens = 1 .. n /\ DOMAIN tokens' = 1 .. n + 1
      /\ \A i \in 1 .. n : tokens'[i] = tokens[i]
      /\ tokens'[n + 1] = Token(k, lo, hi)
  <2>1. IsSeq(tokens)
    BY DEF TypeOK
  <2>2. Grown(tokens, Token(k, lo, hi), tokens')
    BY <2>1, AppendFacts
  <2> QED BY <2>2 DEF Grown
<1>2. tokens'[n + 1].lo = lo /\ tokens'[n + 1].hi = hi /\ tokens'[n + 1].kind = k
  BY <1>1 DEF Token
<1>3. /\ \A i \in 1 .. n : /\ tokens[i].lo \in Nat /\ tokens[i].hi \in Nat
                          /\ tokens[i].lo < tokens[i].hi /\ tokens[i].hi <= lo
                          /\ \A j \in 1 .. n : i < j => tokens[i].hi <= tokens[j].lo
  BY <1>1 DEF TypeOK, TokensInOrder
<1>4. PICK N \in Nat : N = n
  BY <1>1
<1>5. \A i \in 1 .. N + 1 : i \in 1 .. N \/ i = N + 1
  OBVIOUS
<1> HIDE DEF n
<1>6. \A i \in DOMAIN tokens' : tokens'[i].lo \in Nat /\ tokens'[i].hi \in Nat
  BY <1>1, <1>2, <1>3, <1>4, <1>5
<1>7. \A i \in DOMAIN tokens' : tokens'[i].hi <= hi
  BY <1>1, <1>2, <1>3, <1>4, <1>5
<1>8. TokensInOrder'
  <2>1. ASSUME NEW i \in 1 .. n + 1
        PROVE  /\ tokens'[i].lo < tokens'[i].hi
               /\ \A j \in 1 .. n + 1 : i < j => tokens'[i].hi <= tokens'[j].lo
    <3>1. CASE i = n + 1
      BY <1>1, <1>2, <3>1
    <3>2. CASE i \in 1 .. n
      <4>1. ASSUME NEW j \in 1 .. n + 1, i < j PROVE tokens'[i].hi <= tokens'[j].lo
        BY <1>1, <1>2, <1>3, <1>4, <1>5, <3>2, <4>1
      <4>2. tokens'[i].lo < tokens'[i].hi
        BY <1>1, <1>3, <3>2
      <4> QED BY <4>1, <4>2
    <3> QED BY <1>4, <1>5, <3>1, <3>2
  <2> QED BY <1>1, <2>1 DEF TokensInOrder
<1>9. CASE k.tag = "Invalid"
  <2>1. errors' = Append(errors, lo) /\ (NoNul => Clean(lo, hi - 1))
    BY <1>9 DEF Reports
  <2>2. /\ IsSeq(errors') /\ m \in Nat /\ DOMAIN errors = 1 .. m /\ DOMAIN errors' = 1 .. m + 1
        /\ \A e \in 1 .. m : errors'[e] = errors[e]
        /\ errors'[m + 1] = lo
    <3>1. IsSeq(errors)
      BY DEF TypeOK
    <3>2. Grown(errors, lo, errors')
      BY <2>1, <3>1, AppendFacts
    <3> QED BY <3>2 DEF Grown
  <2> HIDE DEF m
  <2>3. \A e \in 1 .. m + 1 : e \in 1 .. m \/ e = m + 1
    BY <2>2
  <2>4. \A e \in 1 .. m : \E i \in 1 .. n : tokens[i].kind.tag = "Invalid" /\ errors[e] = tokens[i].lo
    BY <1>1, <2>2 DEF ReportedOnce
  <2>5. \A e \in 1 .. m : errors[e] \in Nat /\ errors[e] < lo
    BY <1>3, <2>4
  <2>6. \A e \in DOMAIN errors' : errors'[e] \in Nat
    BY <2>2, <2>3, <2>5
  <2>7. ReportedOnce'
    <3>1. ASSUME NEW i \in 1 .. n + 1, tokens'[i].kind.tag = "Invalid"
          PROVE  \E e \in 1 .. m + 1 : errors'[e] = tokens'[i].lo
      <4>1. CASE i = n + 1
        <5>1. m + 1 \in 1 .. m + 1
          BY <2>2
        <5> QED BY <1>2, <2>2, <4>1, <5>1
      <4>2. CASE i \in 1 .. n
        <5>1. PICK e \in 1 .. m : errors[e] = tokens[i].lo
          BY <1>1, <2>2, <3>1, <4>2 DEF ReportedOnce
        <5> QED BY <1>1, <2>2, <4>2, <5>1
      <4> QED BY <1>4, <1>5, <4>1, <4>2
    <3>2. ASSUME NEW e \in 1 .. m + 1
          PROVE  \E i \in 1 .. n + 1 : tokens'[i].kind.tag = "Invalid" /\ errors'[e] = tokens'[i].lo
      <4>1. CASE e = m + 1
        BY <1>1, <1>2, <1>9, <2>2, <4>1
      <4>2. CASE e \in 1 .. m
        <5>1. PICK i \in 1 .. n : tokens[i].kind.tag = "Invalid" /\ errors[e] = tokens[i].lo
          BY <2>4, <4>2
        <5> QED BY <1>1, <2>2, <4>2, <5>1
      <4> QED BY <2>3, <4>1, <4>2
    <3>3. \A e, f \in 1 .. m + 1 : e < f => errors'[e] < errors'[f]
      <4>1. \A e, f \in 1 .. m : e < f => errors[e] < errors[f]
        <5>1. \A e, f \in DOMAIN errors : e < f => errors[e] < errors[f]
          BY DEF ReportedOnce
        <5> QED BY <2>2, <5>1
      <4>2. ASSUME NEW e \in 1 .. m + 1, NEW f \in 1 .. m + 1, e < f
            PROVE  errors'[e] < errors'[f]
        <5>1. e \in 1 .. m
          BY <2>2, <4>2
        <5>2. CASE f \in 1 .. m
          BY <2>2, <4>1, <4>2, <5>1, <5>2
        <5>3. CASE f = m + 1
          BY <2>2, <2>5, <5>1, <5>3
        <5> QED BY <2>3, <5>2, <5>3
      <4> QED BY <4>2
    <3>4. \A i \in DOMAIN tokens' : tokens'[i].kind.tag = "Invalid" =>
            \E e \in DOMAIN errors' : errors'[e] = tokens'[i].lo
      BY <1>1, <2>2, <3>1
    <3>5. \A e \in DOMAIN errors' :
            \E i \in DOMAIN tokens' : tokens'[i].kind.tag = "Invalid" /\ errors'[e] = tokens'[i].lo
      BY <1>1, <2>2, <3>2, SMTT(60)
    <3>6. \A e, f \in DOMAIN errors' : e < f => errors'[e] < errors'[f]
      BY <2>2, <3>3
    <3> QED BY <3>4, <3>5, <3>6 DEF ReportedOnce
  <2>8. RecoversOnLine'
    <3>1. SUFFICES ASSUME NoNul, NEW i \in 1 .. n + 1, tokens'[i].kind.tag = "Invalid",
                          NEW p \in tokens'[i].lo .. tokens'[i].hi - 2
                   PROVE  At(p) # "nl"
      BY <1>1 DEF RecoversOnLine, NoNul, At, len
    <3>2. CASE i = n + 1
      <4>1. p \in lo .. hi - 2
        BY <1>2, <3>2
      <4>2. p \in lo .. (hi - 1) - 1
        BY <4>1
      <4> QED BY <2>1, <3>1, <4>2 DEF Clean
    <3>3. CASE i \in 1 .. n
      BY <1>1, <3>1, <3>3 DEF RecoversOnLine, NoNul
    <3> QED BY <1>4, <1>5, <3>2, <3>3
  <2> QED BY <1>1, <1>6, <1>7, <1>8, <2>2, <2>6, <2>7, <2>8
<1>10. CASE k.tag # "Invalid"
  <2>1. errors' = errors
    BY <1>10 DEF Reports
  <2>2. ReportedOnce'
    <3>1. ASSUME NEW i \in 1 .. n + 1, tokens'[i].kind.tag = "Invalid"
          PROVE  \E e \in DOMAIN errors : errors[e] = tokens'[i].lo
      <4>1. i # n + 1
        BY <1>2, <1>10, <3>1
      <4>2. i \in 1 .. n
        BY <1>4, <1>5, <4>1
      <4> QED BY <1>1, <3>1, <4>2 DEF ReportedOnce
    <3>2. ASSUME NEW e \in DOMAIN errors
          PROVE  \E i \in 1 .. n + 1 : tokens'[i].kind.tag = "Invalid" /\ errors[e] = tokens'[i].lo
      <4>1. PICK i \in 1 .. n : tokens[i].kind.tag = "Invalid" /\ errors[e] = tokens[i].lo
        BY <1>1 DEF ReportedOnce
      <4> QED BY <1>1, <4>1
    <3> QED BY <1>1, <2>1, <3>1, <3>2 DEF ReportedOnce
  <2>3. RecoversOnLine'
    <3>1. SUFFICES ASSUME NoNul, NEW i \in 1 .. n + 1, tokens'[i].kind.tag = "Invalid",
                          NEW p \in tokens'[i].lo .. tokens'[i].hi - 2
                   PROVE  At(p) # "nl"
      BY <1>1 DEF RecoversOnLine, NoNul, At, len
    <3>2. i # n + 1
      BY <1>2, <1>10, <3>1
    <3>3. i \in 1 .. n
      BY <1>4, <1>5, <3>2
    <3> QED BY <1>1, <3>1, <3>3 DEF RecoversOnLine, NoNul
  <2> QED BY <1>1, <1>6, <1>7, <1>8, <2>1, <2>2, <2>3 DEF TypeOK
<1> QED BY <1>9, <1>10

(* Starting a token keeps the invariant.                                   *)
LEMMA BeginsKeeps ==
  ASSUME IInv, NEW o, Begins(o)
  PROVE  IInv'
<1>1. len \in Nat /\ len' = len /\ o \in Nat /\ offset \in Nat /\ offset <= o /\ o + 1 <= len
  BY DEF IInv, TypeOK, Begins, len
<1>2. TypeOK'
  BY <1>1 DEF IInv, TypeOK, Begins
<1>3. InBounds' /\ Inside'
  BY <1>1 DEF InBounds, Inside, Begins, Between
<1>4. TokensInOrder' /\ ReportedOnce'
  BY DEF IInv, TokensInOrder, ReportedOnce, Begins
<1>5. Behind'
  BY <1>1 DEF IInv, TypeOK, Behind, Begins, Between
<1>6. RecoversOnLine'
  BY DEF IInv, RecoversOnLine, Begins, At, len
<1>7. OneLine'
  <2>1. \A p \in o .. (o + 1) - 1 : p = o
    BY <1>1
  <2>2. Clean(o, o + 1)
    BY <2>1 DEF Clean, Begins
  <2> QED BY <2>2 DEF OneLine, Clean, Begins, At, len
<1> QED BY <1>2, <1>3, <1>4, <1>5, <1>6, <1>7 DEF IInv

(* Reading on keeps the invariant.                                         *)
LEMMA ReadsKeeps ==
  ASSUME IInv, NEW o, Reads(o)
  PROVE  IInv'
<1>1. len' = len /\ o \in Nat /\ o <= len
  BY DEF Reads, len
<1>2. TypeOK'
  BY <1>1 DEF IInv, TypeOK, Reads
<1>3. InBounds' /\ Inside'
  BY <1>1 DEF InBounds, Inside, Reads, Between
<1>4. TokensInOrder' /\ ReportedOnce'
  BY DEF IInv, TokensInOrder, ReportedOnce, Reads
<1>5. Behind'
  BY DEF IInv, TypeOK, Behind, Reads, Between
<1>6. RecoversOnLine'
  BY DEF IInv, RecoversOnLine, Reads, At, len
<1>7. OneLine'
  BY DEF OneLine, NoNul, Clean, Reads, At, len, Between
<1> QED BY <1>2, <1>3, <1>4, <1>5, <1>6, <1>7 DEF IInv

(* Skipping a comment keeps the invariant.                                 *)
LEMMA SkipsKeeps ==
  ASSUME IInv, NEW o, SkipsComment(o)
  PROVE  IInv'
<1>1. len' = len /\ o \in Nat /\ o <= len /\ offset \in Nat /\ spanStart \in Nat
      /\ spanStart < offset /\ offset <= o
  BY DEF SkipsComment, len, IInv, TypeOK, Inside
<1>2. TypeOK'
  BY <1>1 DEF IInv, TypeOK, SkipsComment, KindOK
<1>3. InBounds' /\ Inside'
  BY <1>1 DEF InBounds, Inside, SkipsComment, Between
<1>4. TokensInOrder' /\ ReportedOnce'
  BY DEF IInv, TokensInOrder, ReportedOnce, SkipsComment
<1>5. Behind'
  BY <1>1 DEF IInv, TypeOK, Behind, SkipsComment, Between
<1>6. RecoversOnLine'
  BY DEF IInv, RecoversOnLine, SkipsComment, At, len
<1>7. OneLine'
  BY DEF OneLine, SkipsComment, Between
<1> QED BY <1>2, <1>3, <1>4, <1>5, <1>6, <1>7 DEF IInv

(* Returning a token keeps the invariant.                                  *)
LEMMA ReturnsKeeps ==
  ASSUME IInv, NEW k, NEW o, Returns(k, o)
  PROVE  IInv'
<1>1. len' = len /\ o \in Nat /\ o <= len /\ spanStart \in Nat /\ spanStart < o
  BY DEF Returns, len, IInv, TypeOK
<1>2. \A i \in DOMAIN tokens : tokens[i].hi <= spanStart
  BY DEF IInv, Behind, Returns, Between
<1>3. /\ IsSeq(tokens') /\ IsSeq(errors')
      /\ \A i \in DOMAIN tokens' : tokens'[i].lo \in Nat /\ tokens'[i].hi \in Nat
      /\ \A e \in DOMAIN errors' : errors'[e] \in Nat
      /\ \A i \in DOMAIN tokens' : tokens'[i].hi <= o
      /\ TokensInOrder' /\ ReportedOnce' /\ RecoversOnLine'
  <2>1. TypeOK /\ TokensInOrder /\ ReportedOnce /\ RecoversOnLine
    BY DEF IInv
  <2>2. /\ tokens' = Append(tokens, Token(k, spanStart, o))
        /\ Reports(k, spanStart, o) /\ text' = text
    BY DEF Returns
  <2> QED BY <1>1, <1>2, <2>1, <2>2, TokenAdded
<1>4. TypeOK'
  BY <1>1, <1>3 DEF IInv, TypeOK, Returns, KindOK
<1>5. InBounds' /\ Inside' /\ OneLine'
  BY <1>1 DEF InBounds, Inside, OneLine, Returns, Between
<1>6. Behind'
  BY <1>3 DEF Behind, Returns
<1> QED BY <1>3, <1>4, <1>5, <1>6 DEF IInv

(* Returning a token of one character, or the Eof token, keeps the         *)
(* invariant.                                                              *)
LEMMA ReturnsOneKeeps ==
  ASSUME IInv, NEW k, NEW o, ReturnsOne(k, o)
  PROVE  IInv'
<1>1. len' = len /\ o \in Nat /\ o + 1 \in Nat /\ o < o + 1 /\ offset \in Nat /\ offset <= o
      /\ len \in Nat
  BY DEF ReturnsOne, len, IInv, TypeOK
<1>2. \A i \in DOMAIN tokens : tokens[i].hi <= o
  BY <1>1 DEF IInv, TypeOK, Behind, ReturnsOne
<1>3. /\ IsSeq(tokens') /\ IsSeq(errors')
      /\ \A i \in DOMAIN tokens' : tokens'[i].lo \in Nat /\ tokens'[i].hi \in Nat
      /\ \A e \in DOMAIN errors' : errors'[e] \in Nat
      /\ \A i \in DOMAIN tokens' : tokens'[i].hi <= o + 1
      /\ TokensInOrder' /\ ReportedOnce' /\ RecoversOnLine'
  <2>1. TypeOK /\ TokensInOrder /\ ReportedOnce /\ RecoversOnLine
    BY DEF IInv
  <2>2. /\ tokens' = Append(tokens, Token(k, o, o + 1))
        /\ Reports(k, o, o + 1) /\ text' = text
    BY DEF ReturnsOne
  <2> QED BY <1>1, <1>2, <2>1, <2>2, TokenAdded
<1>4. TypeOK'
  BY <1>1, <1>3 DEF IInv, TypeOK, ReturnsOne, KindOK
<1>5. InBounds' /\ Inside' /\ OneLine'
  BY <1>1 DEF InBounds, Inside, OneLine, ReturnsOne, Between
<1>6. Behind'
  BY <1>3 DEF Behind, ReturnsOne
<1> QED BY <1>3, <1>4, <1>5, <1>6 DEF IInv

(* Every motion keeps the invariant.                                       *)
LEMMA MotionKeeps ==
  ASSUME IInv, Motion
  PROVE  IInv'
BY BeginsKeeps, ReadsKeeps, SkipsKeeps, ReturnsKeeps, ReturnsOneKeeps DEF Motion

----------------------------------------------------------------------------
(* The characters and the tables. *)

(* No class that a loop skips holds the NUL, and none but the blanks holds *)
(* the line end.                                                           *)
LEMMA Classes ==
  /\ "nul" \notin Whitespace
  /\ {"nul", "nl"} \cap IdentCont = {}
  /\ {"nul", "nl"} \cap IdentStart = {}
  /\ {"nul", "nl"} \cap (Digit \cup Uscore) = {}
  /\ {"nul", "nl"} \cap HexDigit = {}
<1>1. {"nul", "nl"} \cap Words = {}
  BY DEF Words, KeywordKind, DirectiveKind
<1> QED BY <1>1 DEF Whitespace, IdentCont, IdentStart, Digit, OctDigit, BinDigit, Uscore,
                    HexDigit, HexLower

(* The digits of a radix are digits of a class above.                      *)
LEMMA RadixClasses ==
  ASSUME state \in DOMAIN RadixDigits
  PROVE  /\ "nul" \notin RadixDigits[state] \cup Uscore
         /\ "nl" \notin RadixDigits[state] \cup Uscore
<1>1. state = "IntBin" \/ state = "IntOct" \/ state = "IntHex"
  BY DEF RadixDigits
<1>2. /\ RadixDigits["IntBin"] = BinDigit
      /\ RadixDigits["IntOct"] = OctDigit
      /\ RadixDigits["IntHex"] = HexDigit
  BY DEF RadixDigits
<1> QED BY <1>1, <1>2 DEF Digit, OctDigit, BinDigit, Uscore, HexDigit, HexLower

(* No keyword or directive makes an Eof or an Invalid token.               *)
LEMMA KeywordTags == \A w \in DOMAIN KeywordKind : KeywordKind[w] \notin {"Eof", "Invalid"}
  BY DEF KeywordKind

LEMMA DirectiveTags == \A w \in DOMAIN DirectiveKind : DirectiveKind[w] \notin {"Eof", "Invalid"}
  BY DEF DirectiveKind

(* An arm of an operator state is neither the NUL nor the line end.        *)
LEMMA ArmChars ==
  ASSUME NEW s
  PROVE  "nul" \notin Arms(s) /\ "nl" \notin Arms(s)
<1>1. ASSUME NEW row \in OpTable PROVE "nul" \notin row[2] /\ "nl" \notin row[2]
  <2>1. CASE row \in ArithArms
    BY <2>1 DEF ArithArms
  <2>2. CASE row \in BitArms
    BY <2>2 DEF BitArms
  <2>3. CASE row \in ShiftArms
    BY <2>3 DEF ShiftArms
  <2>4. CASE row \in DotArms
    BY <2>4 DEF DotArms
  <2> QED BY <2>1, <2>2, <2>3, <2>4 DEF OpTable
<1> QED BY <1>1 DEF Arms

(* The states a first character leads to.                                  *)
LEMMA LetterStates ==
  ASSUME NEW c \in DOMAIN LetterState
  PROVE  /\ c # "nul" /\ c # "nl"
         /\ LetterState[c] \in {"Hash", "At", "Dollar", "Dot", "Underscore", "Backslash", "Str", "IntZero"}
         /\ LetterState[c] = "Str" => c = "quote"
  BY Zenon DEF LetterState

(* The states a radix letter leads to.                                     *)
LEMMA RadixStates ==
  ASSUME NEW c \in DOMAIN RadixState
  PROVE  /\ c # "nul" /\ c # "nl"
         /\ RadixState[c] \in {"IntBin", "IntOct", "IntHex", "FloatDot1", "FloatExp1"}
  BY Zenon DEF RadixState

----------------------------------------------------------------------------
(* How far a token may reach. *)

(* o is after the token's start and in the buffer. *)
Ahead(o) == o \in Nat /\ spanStart < o /\ o <= len

(* So is it, and the token has no line end up to o. *)
Reach(o) == Ahead(o) /\ (NoNul => Clean(spanStart, o))

InToken == state \notin Between \cup {"LineComment"}

(* A token in hand reaches to the offset.                                  *)
LEMMA Here ==
  ASSUME IInv, InToken
  PROVE  /\ Reach(offset) /\ Ahead(offset)
         /\ text \in Seq(STRING) /\ spanStart \in Nat /\ len \in Nat
BY DEF IInv, TypeOK, InBounds, Inside, OneLine, InToken, Reach, Ahead, Between, len

(* It reaches one further over a character that is neither NUL nor line    *)
(* end.                                                                    *)
LEMMA ReachNext ==
  ASSUME IInv, NEW o, Reach(o), At(o) # "nul", At(o) # "nl"
  PROVE  Reach(o + 1) /\ Ahead(o + 1)
<1>1. /\ text \in Seq(STRING) /\ spanStart \in Nat /\ o \in Nat /\ spanStart < o /\ o <= len
      /\ (NoNul => Clean(spanStart, o))
  BY DEF IInv, TypeOK, Reach, Ahead
<1>2. o + 1 <= len
  BY <1>1, BeforeEnd
<1>3. \A p \in spanStart .. (o + 1) - 1 : p \in spanStart .. o - 1 \/ p = o
  BY <1>1
<1>4. NoNul => Clean(spanStart, o + 1)
  BY <1>1, <1>3 DEF Clean
<1> QED BY <1>1, <1>2, <1>4 DEF Reach, Ahead

(* A loop over a class without NUL and line end keeps within reach.        *)
LEMMA ReachSkip ==
  ASSUME IInv, NEW o, Reach(o), NEW class, "nul" \notin class, "nl" \notin class
  PROVE  /\ Reach(SkipWhile(class, o)) /\ Ahead(SkipWhile(class, o))
         /\ o <= SkipWhile(class, o)
<1>1. /\ text \in Seq(STRING) /\ spanStart \in Nat /\ o \in Nat /\ spanStart < o /\ o <= len
      /\ (NoNul => Clean(spanStart, o)) /\ len \in Nat
  BY DEF IInv, TypeOK, Reach, Ahead, len
<1>2. PICK e : e = SkipWhile(class, o)
  OBVIOUS
<1>3. e \in o .. len /\ \A q \in o .. e - 1 : At(q) \in class
  BY <1>1, <1>2, SkipStops
<1>4. \A p \in spanStart .. e - 1 : p \in spanStart .. o - 1 \/ p \in o .. e - 1
  BY <1>1, <1>3
<1>5. NoNul => Clean(spanStart, e)
  BY <1>1, <1>3, <1>4 DEF Clean
<1>6. Reach(e) /\ Ahead(e) /\ o <= e
  BY <1>1, <1>3, <1>5 DEF Reach, Ahead
<1> QED BY <1>2, <1>6

(* So does the search for a character when the line end ends it.           *)
LEMMA ReachEat ==
  ASSUME IInv, NEW o, Reach(o), NEW chars, "nl" \in chars
  PROVE  Reach(EatUntil(chars, o))
<1>1. /\ text \in Seq(STRING) /\ spanStart \in Nat /\ o \in Nat /\ spanStart < o /\ o <= len
      /\ (NoNul => Clean(spanStart, o)) /\ len \in Nat
  BY DEF IInv, TypeOK, Reach, Ahead, len
<1>2. PICK e : e = EatUntil(chars, o)
  OBVIOUS
<1>3. e \in o .. len /\ \A q \in o .. e - 1 : At(q) \notin chars
  BY <1>1, <1>2, EatStops
<1>4. \A p \in spanStart .. e - 1 : p \in spanStart .. o - 1 \/ p \in o .. e - 1
  BY <1>1, <1>3
<1>5. NoNul => Clean(spanStart, e)
  BY <1>1, <1>3, <1>4 DEF Clean
<1>6. Reach(e)
  BY <1>1, <1>3, <1>5 DEF Reach, Ahead
<1> QED BY <1>2, <1>6

(* And so does the recovery of a string.                                   *)
LEMMA ReachRecover ==
  ASSUME IInv, NEW o, Reach(o)
  PROVE  Reach(RecoverTo(o))
<1>1. /\ text \in Seq(STRING) /\ spanStart \in Nat /\ o \in Nat /\ spanStart < o /\ o <= len
      /\ (NoNul => Clean(spanStart, o)) /\ len \in Nat
  BY DEF IInv, TypeOK, Reach, Ahead, len
<1>2. PICK e : e = RecoverTo(o)
  OBVIOUS
<1>3. e \in Nat /\ o <= e /\ e <= len /\ Clean(o, e)
  BY <1>1, <1>2, RecoverStops
<1>4. \A p \in spanStart .. e - 1 : p \in spanStart .. o - 1 \/ p \in o .. e - 1
  BY <1>1, <1>3
<1>5. NoNul => Clean(spanStart, e)
  BY <1>1, <1>3, <1>4 DEF Clean
<1>6. Reach(e)
  BY <1>1, <1>3, <1>5 DEF Reach, Ahead
<1> QED BY <1>2, <1>6

(* A NUL within reach takes the token to the end of the buffer.            *)
LEMMA ReachEnd ==
  ASSUME IInv, NEW o, Reach(o), At(o) = "nul"
  PROVE  Reach(len)
<1>1. /\ text \in Seq(STRING) /\ spanStart \in Nat /\ o \in Nat /\ spanStart < o /\ o <= len
      /\ (NoNul => Clean(spanStart, o)) /\ len \in Nat
  BY DEF IInv, TypeOK, Reach, Ahead, len
<1>2. NoNul => o = len
  BY <1>1, NulAtEnd
<1> QED BY <1>1, <1>2 DEF Reach, Ahead

----------------------------------------------------------------------------
(* The ways an action ends are motions. *)

(* A valid token is returned.                                              *)
LEMMA EmitMoves ==
  ASSUME IInv, InToken, NEW k, NEW o, Emit(k, o), k.tag \notin {"Eof", "Invalid"}, Ahead(o)
  PROVE  Motion
<1>1. Returns(k, o)
  BY DEF InToken, Between, Emit, Return, Returns, Reports, Token, Ahead
<1> QED BY <1>1 DEF Motion

(* An invalid token is returned, up to a character after its reach.        *)
LEMMA RejectMoves ==
  ASSUME IInv, InToken, NEW k, k.tag = "Invalid", NEW o, NEW p, Reach(p), o = p \/ o = p + 1,
         o <= len, Return(k, o), Diag
  PROVE  Motion
<1>1. p \in Nat /\ spanStart \in Nat /\ spanStart < p /\ (NoNul => Clean(spanStart, p))
  BY DEF Reach, Ahead, IInv, TypeOK
<1>2. o \in Nat /\ spanStart < o
  BY <1>1
<1>3. \A q \in spanStart .. (o - 1) - 1 : q \in spanStart .. p - 1
  BY <1>1
<1>4. NoNul => Clean(spanStart, o - 1)
  BY <1>1, <1>3 DEF Clean
<1>5. Returns(k, o)
  BY <1>2, <1>4 DEF InToken, Between, Return, Returns, Reports, Token, Diag
<1> QED BY <1>5 DEF Motion

(* A string is given up.                                                   *)
LEMMA RejectStringMoves ==
  ASSUME IInv, InToken, NEW o, Reach(o), RejectString(o)
  PROVE  Motion
<1>1. Reach(RecoverTo(o)) /\ RecoverTo(o) <= len
  <2>1. Reach(RecoverTo(o))
    BY ReachRecover
  <2> QED BY <2>1 DEF Reach, Ahead
<1>2. PICK k : k = K("Invalid", <<>>)
  OBVIOUS
<1>3. Return(k, RecoverTo(o)) /\ Diag
  BY <1>2 DEF RejectString
<1>4. k.tag = "Invalid"
  BY <1>2 DEF K
<1> QED BY <1>1, <1>3, <1>4, RejectMoves

(* A token is rejected, up to a character after its reach.                 *)
LEMMA RejectedMoves ==
  ASSUME IInv, InToken, NEW o, NEW p, Reach(p), o = p \/ o = p + 1, o <= len, Reject(o)
  PROVE  Motion
<1>1. PICK k : k = K("Invalid", <<>>)
  OBVIOUS
<1>2. k.tag = "Invalid" /\ Return(k, o) /\ Diag
  BY <1>1 DEF K, Reject
<1> QED BY <1>2, RejectMoves

(* The token goes on.                                                      *)
LEMMA ReadMoves ==
  ASSUME IInv, InToken, NEW o, Reach(o), offset' = o,
         state' \notin Between, state' = "FloatDot1" => offset < o,
         KindOK(state', kind'), UNCHANGED <<text, spanStart, errors, tokens>>
  PROVE  Motion
<1>1. spanStart < offset /\ spanStart \in Nat /\ offset \in Nat /\ o \in Nat
  BY DEF IInv, TypeOK, Inside, InToken, Reach, Ahead
<1>2. Reads(o)
  BY <1>1 DEF Reads, InToken, Between, Reach, Ahead
<1> QED BY <1>2 DEF Motion

----------------------------------------------------------------------------
(* Every action is a motion. *)

(* Blanks, then the first character of a token.                            *)
LEMMA S0Moves ==
  ASSUME IInv, S0
  PROVE  Motion
<1>1. text \in Seq(STRING) /\ offset \in Nat /\ offset <= len /\ state = "S0" /\ len \in Nat
  BY DEF IInv, TypeOK, InBounds, S0, len
<1>2. PICK o : o = SkipWhile(Whitespace, offset)
  OBVIOUS
<1>3. o \in offset .. len /\ At(o) \notin Whitespace
  BY <1>1, <1>2, Classes, SkipStops
<1>4. At(o) # "nl"
  BY <1>3 DEF Whitespace
<1>5. At(o) # "nul" => o < len
  BY <1>1, <1>3, BeforeEnd
<1> DEFINE Begin(s, k) ==
             /\ state' = s /\ kind' = k /\ offset' = o + 1 /\ spanStart' = o
             /\ UNCHANGED <<text, errors, tokens>>
           End(k) ==
             /\ tokens' = Append(tokens, [kind |-> k, lo |-> o, hi |-> o + 1])
             /\ offset' = o + 1 /\ spanStart' = o
             /\ state' = IF k.tag = "Eof" THEN "Done" ELSE "S0"
             /\ UNCHANGED text
<1>6. \/ At(o) = "nul" /\ End(NoKind) /\ errors' = errors
      \/ At(o) \in Single /\ End(K("op", <<At(o)>>)) /\ errors' = errors
      \/ At(o) \in OpStart /\ Begin("Op", NoKind)
      \/ At(o) \in DOMAIN LetterState
         /\ Begin(LetterState[At(o)], IF At(o) = "quote" THEN K("LitStr", <<>>) ELSE NoKind)
      \/ At(o) \in IdentStart /\ Begin("Ident", K("Ident", <<"User">>))
      \/ At(o) \in Digit /\ Begin("IntDec", NoKind)
      \/ At(o) # "nul" /\ End(K("Invalid", <<>>)) /\ errors' = Append(errors, o)
  BY <1>2, ZenonT(60) DEF S0
<1>7. ASSUME NEW s, NEW k, Begin(s, k), At(o) # "nul", s \notin Between \cup {"FloatDot1"}, KindOK(s, k)
      PROVE  Motion
  <2>1. Begins(o)
    BY <1>1, <1>3, <1>4, <1>5, <1>7 DEF Begins
  <2> QED BY <2>1 DEF Motion
<1>8. ASSUME NEW k, End(k), k.tag # "Eof" => At(o) # "nul",
             IF k.tag = "Invalid" THEN errors' = Append(errors, o) ELSE errors' = errors
      PROVE  Motion
  <2>1. Clean(o, (o + 1) - 1)
    BY <1>1, <1>3 DEF Clean
  <2>2. Reports(k, o, o + 1)
    BY <1>8, <2>1 DEF Reports
  <2>3. ReturnsOne(k, o)
    BY <1>1, <1>3, <1>5, <1>8, <2>2 DEF ReturnsOne, Token
  <2> QED BY <2>3 DEF Motion
<1> HIDE DEF Begin, End
<1>9. CASE At(o) = "nul" /\ End(NoKind) /\ errors' = errors
  BY <1>8, <1>9 DEF NoKind, K
<1>10. CASE At(o) \in Single /\ End(K("op", <<At(o)>>)) /\ errors' = errors
  BY <1>8, <1>10 DEF K, Single
<1>11. CASE At(o) \in OpStart /\ Begin("Op", NoKind)
  BY <1>7, <1>11 DEF OpStart, KindOK, Between
<1>12. CASE At(o) \in DOMAIN LetterState
            /\ Begin(LetterState[At(o)], IF At(o) = "quote" THEN K("LitStr", <<>>) ELSE NoKind)
  <2>1. PICK s, k : /\ s = LetterState[At(o)]
                    /\ k = IF At(o) = "quote" THEN K("LitStr", <<>>) ELSE NoKind
    OBVIOUS
  <2>2. /\ At(o) # "nul"
        /\ s \in {"Hash", "At", "Dollar", "Dot", "Underscore", "Backslash", "Str", "IntZero"}
        /\ s = "Str" => At(o) = "quote"
    BY <1>12, <2>1, LetterStates
  <2>3. KindOK(s, k) /\ s \notin Between \cup {"FloatDot1"}
    BY <2>1, <2>2 DEF KindOK, K, Between
  <2> QED BY <1>7, <1>12, <2>1, <2>2, <2>3
<1>13. CASE At(o) \in IdentStart /\ Begin("Ident", K("Ident", <<"User">>))
  <2>1. At(o) # "nul"
    BY <1>13, Classes
  <2>2. KindOK("Ident", K("Ident", <<"User">>)) /\ "Ident" \notin Between \cup {"FloatDot1"}
    BY DEF KindOK, K, Between
  <2> QED BY <1>7, <1>13, <2>1, <2>2
<1>14. CASE At(o) \in Digit /\ Begin("IntDec", NoKind)
  <2>1. At(o) # "nul"
    BY <1>14, Classes
  <2>2. KindOK("IntDec", NoKind) /\ "IntDec" \notin Between \cup {"FloatDot1"}
    BY DEF KindOK, Between
  <2> QED BY <1>7, <1>14, <2>1, <2>2
<1>15. CASE At(o) # "nul" /\ End(K("Invalid", <<>>)) /\ errors' = Append(errors, o)
  BY <1>8, <1>15 DEF K
<1> QED BY <1>6, <1>9, <1>10, <1>11, <1>12, <1>13, <1>14, <1>15

(* An operator is extended, ends, or turns out to be a comment.            *)
LEMMA OpMoves ==
  ASSUME IInv, Op
  PROVE  Motion
<1>1. InToken
  BY DEF Op, InToken, Between
<1>2. Reach(offset) /\ Ahead(offset)
  BY <1>1, Here
<1> DEFINE spelling == Slice(spanStart, offset)
           longer == Append(spelling, At(offset))
<1>3. CASE Emit(K("op", spelling), offset)
  BY <1>1, <1>2, <1>3, EmitMoves DEF K
<1>4. CASE At(offset) \in Arms(spelling)
  <2>1. Reach(offset + 1) /\ Ahead(offset + 1)
    BY <1>2, <1>4, ArmChars, ReachNext
  <2>2. ASSUME NEW s \in {"LineComment", "Op"}, Goto(s, offset + 1), Stay PROVE Motion
    BY <1>1, <2>1, <2>2, ReadMoves DEF Goto, Stay, Between, KindOK
  <2>3. CASE Emit(K("op", longer), offset + 1)
    BY <1>1, <2>1, <2>3, EmitMoves DEF K
  <2> QED BY <1>4, <2>2, <2>3 DEF Op
<1> QED BY <1>3, <1>4 DEF Op

(* A dot: a range, a postfix operator, a number or itself.                 *)
LEMMA DotMoves ==
  ASSUME IInv, Dot
  PROVE  Motion
<1>1. InToken
  BY DEF Dot, InToken, Between
<1>2. Reach(offset) /\ Ahead(offset)
  BY <1>1, Here
<1>3. PICK c : c = At(offset)
  OBVIOUS
<1>4. \/ c = "." /\ Goto("Op", offset + 1)
      \/ c \in {"*", "?"} /\ Emit(K("op", <<".", c>>), offset + 1)
      \/ c \in Digit /\ Goto("FloatDot2", offset + 1)
      \/ Emit(K("op", <<".">>), offset)
  BY <1>3, Zenon DEF Dot
<1>5. c = "." \/ c \in {"*", "?"} \/ c \in Digit => Reach(offset + 1) /\ Ahead(offset + 1)
  BY <1>2, <1>3, Classes, ReachNext
<1>6. ASSUME NEW s \in {"Op", "FloatDot2"}, Goto(s, offset + 1), Reach(offset + 1) PROVE Motion
  BY <1>1, <1>6, ReadMoves DEF Goto, Between, KindOK
<1>7. CASE c \in {"*", "?"} /\ Emit(K("op", <<".", c>>), offset + 1)
  BY <1>1, <1>5, <1>7, EmitMoves DEF K
<1>8. CASE Emit(K("op", <<".">>), offset)
  BY <1>1, <1>2, <1>8, EmitMoves DEF K
<1> QED BY <1>4, <1>5, <1>6, <1>7, <1>8

(* A comment is skipped.                                                   *)
LEMMA LineCommentMoves ==
  ASSUME IInv, LineComment
  PROVE  Motion
<1>1. text \in Seq(STRING) /\ offset \in Nat /\ offset <= len /\ state = "LineComment"
  BY DEF IInv, TypeOK, InBounds, LineComment
<1>2. PICK o \in EatUntilNewline(offset) : Goto("S0", o)
  BY DEF LineComment
<1>3. o \in Nat /\ offset <= o /\ o <= len
  BY <1>1, <1>2, NewlineStops
<1>4. SkipsComment(o)
  BY <1>1, <1>2, <1>3 DEF SkipsComment, Goto, Between
<1> QED BY <1>4 DEF Motion

(* A line of a multi-line string, or a backslash.                          *)
LEMMA BackslashMoves ==
  ASSUME IInv, Backslash
  PROVE  Motion
<1>1. InToken
  BY DEF Backslash, InToken, Between
<1>2. Reach(offset) /\ Ahead(offset) /\ text \in Seq(STRING) /\ spanStart \in Nat
  BY <1>1, Here
<1>3. CASE At(offset) = "\\"
  <2>1. Ahead(offset + 1)
    BY <1>2, <1>3, ReachNext
  <2>2. PICK o \in EatUntilNewline(offset + 1) :
               Emit(K("LitMultiLineStr", Slice(spanStart + 2, o)), o)
    BY <1>3 DEF Backslash
  <2>3. o \in Nat /\ offset + 1 <= o /\ o <= len
    BY <1>2, <2>1, <2>2, NewlineStops DEF Ahead
  <2>4. Ahead(o)
    BY <1>2, <2>1, <2>3 DEF Ahead
  <2> QED BY <1>1, <2>2, <2>4, EmitMoves DEF K
<1>4. CASE At(offset) # "\\"
  BY <1>1, <1>2, <1>4, EmitMoves DEF Backslash, K
<1> QED BY <1>3, <1>4

(* A directive.                                                            *)
LEMMA HashMoves ==
  ASSUME IInv, Hash
  PROVE  Motion
<1>1. InToken
  BY DEF Hash, InToken, Between
<1>2. Reach(offset) /\ Ahead(offset)
  BY <1>1, Here
<1>3. PICK o, name : o = SkipWhile(IdentCont, offset) /\ name = Slice(spanStart + 1, o)
  OBVIOUS
<1>4. Ahead(o)
  BY <1>2, <1>3, Classes, ReachSkip
<1>5. CASE Emit(K("op", <<"#">>), offset)
  BY <1>1, <1>2, <1>5, EmitMoves DEF K
<1>6. CASE name[1] \in DOMAIN DirectiveKind /\ Emit(K(DirectiveKind[name[1]], <<>>), o)
  <2>1. PICK d : d = DirectiveKind[name[1]]
    OBVIOUS
  <2>2. d \notin {"Eof", "Invalid"}
    BY <1>6, <2>1, DirectiveTags
  <2>3. K(d, <<>>).tag = d
    BY DEF K
  <2> QED BY <1>1, <1>4, <1>6, <2>1, <2>2, <2>3, EmitMoves
<1>7. CASE Emit(K("DirectiveIdent", name), o)
  BY <1>1, <1>4, <1>7, EmitMoves DEF K
<1> QED BY <1>3, <1>5, <1>6, <1>7 DEF Hash

(* A builtin, a comptime name, an escaped name or a lone sigil.            *)
LEMMA SigilMoves ==
  ASSUME IInv, Sigil
  PROVE  Motion
<1>1. InToken
  BY DEF Sigil, InToken, Between
<1>2. Reach(offset) /\ Ahead(offset) /\ text \in Seq(STRING) /\ len \in Nat
  BY <1>1, Here
<1>3. PICK c : c = At(offset)
  OBVIOUS
<1>4. CASE c \in IdentStart /\ Goto("Ident", offset + 1) /\ \E w : kind' = K("Ident", w)
  <2>1. Reach(offset + 1)
    BY <1>2, <1>3, <1>4, Classes, ReachNext
  <2>2. KindOK("Ident", kind')
    BY <1>4 DEF KindOK, K
  <2> QED BY <1>1, <1>4, <2>1, <2>2, ReadMoves DEF Goto, Between
<1>5. CASE c = "quote" /\ Goto("Str", offset + 1) /\ \E w : kind' = K("Ident", w)
  <2>1. Reach(offset + 1)
    BY <1>2, <1>3, <1>5, ReachNext
  <2>2. KindOK("Str", kind')
    BY <1>5 DEF KindOK, K
  <2> QED BY <1>1, <1>5, <2>1, <2>2, ReadMoves DEF Goto, Between
<1>6. CASE SigilReject(c)
  <2>1. CASE c = "nul"
    <3>1. Reach(len)
      BY <1>2, <1>3, <2>1, ReachEnd
    <3>2. Reject(len)
      BY <1>6, <2>1 DEF SigilReject
    <3> QED BY <1>1, <1>2, <3>1, <3>2, RejectedMoves
  <2>2. CASE c # "nul"
    <3>1. offset + 1 <= len
      BY <1>2, <1>3, <2>2, BeforeEnd DEF Ahead
    <3>2. Reject(offset + 1)
      BY <1>6, <2>2 DEF SigilReject
    <3> QED BY <1>1, <1>2, <3>1, <3>2, RejectedMoves
  <2> QED BY <2>1, <2>2
<1> QED BY <1>3, <1>4, <1>5, <1>6 DEF Sigil

(* A name that starts with an underscore, or the underscore.               *)
LEMMA UnderscoreMoves ==
  ASSUME IInv, Underscore
  PROVE  Motion
<1>1. InToken
  BY DEF Underscore, InToken, Between
<1>2. Reach(offset) /\ Ahead(offset)
  BY <1>1, Here
<1>3. CASE At(offset) \in IdentStart
  <2>1. Reach(offset + 1)
    BY <1>2, <1>3, Classes, ReachNext
  <2>2. Goto("Ident", offset + 1) /\ kind' = K("Ident", <<"User">>)
    BY <1>3 DEF Underscore
  <2>3. KindOK("Ident", kind')
    BY <2>2 DEF KindOK, K
  <2> QED BY <1>1, <2>1, <2>2, <2>3, ReadMoves DEF Goto, Between
<1>4. CASE At(offset) \notin IdentStart
  BY <1>1, <1>2, <1>4, EmitMoves DEF Underscore, K
<1> QED BY <1>3, <1>4

(* A name, a keyword, or an integer type.                                  *)
LEMMA IdentMoves ==
  ASSUME IInv, Ident
  PROVE  Motion
<1>1. InToken /\ state = "Ident"
  BY DEF Ident, InToken, Between
<1>2. Reach(offset) /\ Ahead(offset)
  BY <1>1, Here
<1>3. PICK o, str : o = SkipWhile(IdentCont, offset) /\ str = Slice(spanStart, o)
  OBVIOUS
<1>4. Ahead(o) /\ Reach(o)
  BY <1>2, <1>3, Classes, ReachSkip
<1>5. CASE Emit(kind, o)
  <2>1. kind.tag = "Ident"
    BY <1>1 DEF IInv, TypeOK, KindOK
  <2> QED BY <1>1, <1>4, <1>5, <2>1, EmitMoves
<1>6. CASE str[1] \in DOMAIN KeywordKind /\ Emit(K(KeywordKind[str[1]], <<>>), o)
  <2>1. PICK d : d = KeywordKind[str[1]]
    OBVIOUS
  <2>2. d \notin {"Eof", "Invalid"}
    BY <1>6, <2>1, KeywordTags
  <2>3. K(d, <<>>).tag = d
    BY DEF K
  <2> QED BY <1>1, <1>4, <1>6, <2>1, <2>2, <2>3, EmitMoves
<1>7. CASE Reject(o)
  <2>1. o <= len
    BY <1>4 DEF Ahead
  <2> QED BY <1>1, <1>4, <1>7, <2>1, RejectedMoves
<1>8. CASE \E tag \in {"TyU", "TyI"} : \E arg : Emit(K(tag, arg), o)
  <2>1. PICK tag \in {"TyU", "TyI"} : \E arg : Emit(K(tag, arg), o)
    BY <1>8
  <2>2. PICK arg : Emit(K(tag, arg), o)
    BY <2>1
  <2>3. K(tag, arg).tag \notin {"Eof", "Invalid"}
    BY DEF K
  <2> QED BY <1>1, <1>4, <2>2, <2>3, EmitMoves
<1> QED BY <1>3, <1>5, <1>6, <1>7, <1>8 DEF Ident

(* The text of a string, its end, or its line's end.                       *)
LEMMA StrMoves ==
  ASSUME IInv, Str
  PROVE  Motion
<1>1. InToken /\ state = "Str"
  BY DEF Str, InToken, Between
<1>2. Reach(offset) /\ Ahead(offset) /\ text \in Seq(STRING) /\ len \in Nat
  BY <1>1, Here
<1>3. kind.tag \in {"LitStr", "Ident"}
  BY <1>1 DEF IInv, TypeOK, KindOK
<1>4. PICK c, stop : c = At(offset) /\ stop = EatUntil({"quote", "\\", "nl"}, offset + 1)
  OBVIOUS
<1>5. \/ c = "nul" /\ RejectString(len)
      \/ c = "nl" /\ StrNewline
      \/ c = "quote" /\ Return(IF kind.tag = "LitStr" THEN K("LitStr", scratch) ELSE kind, offset + 1)
                     /\ UNCHANGED errors
      \/ c = "\\" /\ Goto("EscapeStr", offset + 1) /\ Stay
      \/ /\ c # "nul" /\ c # "nl"
         /\ offset' = stop
         /\ UNCHANGED <<text, spanStart, state, kind, errors, tokens>>
  BY <1>4, Zenon DEF Str
<1>6. CASE c = "nul" /\ RejectString(len)
  <2>1. Reach(len)
    BY <1>2, <1>4, <1>6, ReachEnd
  <2> QED BY <1>1, <1>6, <2>1, RejectStringMoves
<1>7. CASE c = "nl" /\ StrNewline
  <2>1. offset + 1 <= len
    BY <1>2, <1>4, <1>7, BeforeEnd DEF Ahead
  <2>2. PICK k : k = K("Invalid", <<>>)
    OBVIOUS
  <2>3. k.tag = "Invalid" /\ Return(k, offset + 1) /\ Diag
    BY <1>7, <2>2 DEF K, StrNewline
  <2> QED BY <1>1, <1>2, <2>1, <2>3, RejectMoves
<1>8. CASE c = "quote" /\ Return(IF kind.tag = "LitStr" THEN K("LitStr", scratch) ELSE kind, offset + 1)
                      /\ UNCHANGED errors
  <2>1. Ahead(offset + 1)
    BY <1>2, <1>4, <1>8, ReachNext
  <2>2. PICK k : k = IF kind.tag = "LitStr" THEN K("LitStr", scratch) ELSE kind
    OBVIOUS
  <2>3. k.tag \in {"LitStr", "Ident"}
    BY <1>3, <2>2 DEF K
  <2>4. Returns(k, offset + 1)
    BY <1>1, <1>8, <2>1, <2>2, <2>3 DEF InToken, Between, Return, Returns, Reports, Token, Ahead
  <2> QED BY <2>4 DEF Motion
<1>9. CASE c = "\\" /\ Goto("EscapeStr", offset + 1) /\ Stay
  <2>1. Reach(offset + 1)
    BY <1>2, <1>4, <1>9, ReachNext
  <2> QED BY <1>1, <1>3, <1>9, <2>1, ReadMoves DEF Goto, Stay, Between, KindOK
<1>10. CASE /\ c # "nul" /\ c # "nl"
            /\ offset' = stop
            /\ UNCHANGED <<text, spanStart, state, kind, errors, tokens>>
  <2>1. Reach(offset + 1)
    BY <1>2, <1>4, <1>10, ReachNext
  <2>2. Reach(stop)
    BY <1>4, <2>1, ReachEat
  <2> QED BY <1>1, <1>3, <1>10, <2>2, ReadMoves DEF Between, KindOK
<1> QED BY <1>5, <1>6, <1>7, <1>8, <1>9, <1>10

(* A character of a string is pushed.                                      *)
LEMMA PushMoves ==
  ASSUME IInv, state = "EscapeStr", NEW char, NEW o, Reach(o), Push(char, o)
  PROVE  Motion
<1>1. InToken /\ kind.tag \in {"LitStr", "Ident"}
  BY DEF InToken, Between, IInv, TypeOK, KindOK
<1> QED BY <1>1, ReadMoves DEF Push, Between, KindOK

(* The byte escape \xHL.                                                   *)
LEMMA ByteEscapeMoves ==
  ASSUME IInv, state = "EscapeStr", NEW o, Reach(o), ByteEscape(o)
  PROVE  Motion
<1>1. InToken
  BY DEF InToken, Between
<1>2. PICK hi, lo : hi = At(o) /\ lo = At(o + 1)
  OBVIOUS
<1>3. text \in Seq(STRING) /\ o \in Nat /\ o <= len /\ len \in Nat
  BY DEF IInv, TypeOK, Reach, Ahead, len
<1>4. hi \in HexDigit => hi # "nul" /\ hi # "nl"
  BY Classes
<1>5. lo \in HexDigit => lo # "nul" /\ lo # "nl"
  BY Classes
<1>6. (o + 1) + 1 = o + 2
  BY <1>3
<1>7. hi # "nul" /\ hi # "nl" => Reach(o + 1)
  BY <1>2, ReachNext
<1>8. Reach(o + 1) /\ lo # "nul" /\ lo # "nl" => Reach(o + 2)
  <2>1. Reach(o + 1) /\ lo # "nul" /\ lo # "nl" => Reach((o + 1) + 1)
    BY <1>2, ReachNext
  <2> QED BY <1>6, <2>1
<1>9. CASE hi = "nul"
  <2>1. Reach(len)
    BY <1>2, <1>9, ReachEnd
  <2> QED BY <1>1, <1>2, <1>9, <2>1, RejectStringMoves DEF ByteEscape
<1>10. CASE hi # "nul" /\ lo = "nul"
  <2>1. RejectString(len)
    BY <1>2, <1>4, <1>5, <1>10 DEF ByteEscape
  <2>2. o + 1 <= len /\ o + 1 \in Nat
    BY <1>2, <1>3, <1>10, BeforeEnd
  <2>3. PICK k : k = K("Invalid", <<>>)
    OBVIOUS
  <2>4. k.tag = "Invalid" /\ Return(k, len) /\ Diag
    BY <1>3, <2>1, <2>3 DEF K, RejectString, RecoverTo
  <2>5. CASE NoNul
    <3>1. o + 1 = len
      BY <1>2, <1>3, <1>10, <2>2, <2>5, NulAtEnd
    <3> QED BY <1>1, <1>3, <2>4, <3>1, RejectMoves
  <2>6. CASE ~NoNul
    <3>1. Reach(len)
      BY <1>3, <2>2, <2>6 DEF Reach, Ahead, IInv, TypeOK
    <3> QED BY <1>1, <1>3, <2>4, <3>1, RejectMoves
  <2> QED BY <2>5, <2>6
<1>11. CASE hi # "nul" /\ lo # "nul" /\ hi \in HexDigit /\ lo \in HexDigit
  <2>1. Reach(o + 2)
    BY <1>4, <1>5, <1>7, <1>8, <1>11
  <2>2. Push(<<"x", hi, lo>>, o + 2)
    BY <1>2, <1>11 DEF ByteEscape
  <2> QED BY <2>1, <2>2, PushMoves
<1>12. CASE hi # "nul" /\ lo # "nul" /\ ~ (hi \in HexDigit /\ lo \in HexDigit)
  <2>1. \/ RejectString(o)
        \/ hi # "nl" /\ RejectString(o + 1)
        \/ hi # "nl" /\ lo # "nl" /\ RejectString(o + 2)
    BY <1>2, <1>12 DEF ByteEscape
  <2> QED BY <1>1, <1>7, <1>8, <1>12, <2>1, RejectStringMoves
<1> QED BY <1>9, <1>10, <1>11, <1>12

(* The escape of a scalar value, \u{H...}.                                 *)
LEMMA UnicodeEscapeMoves ==
  ASSUME IInv, state = "EscapeStr", NEW o, Reach(o), UnicodeEscape(o)
  PROVE  Motion
<1>1. InToken
  BY DEF InToken, Between
<1>2. text \in Seq(STRING) /\ o \in Nat /\ o <= len /\ len \in Nat
  BY DEF IInv, TypeOK, Reach, Ahead, len
<1>3. PICK stop, c : stop = SkipWhile(HexDigit, o + 1) /\ c = At(stop)
  OBVIOUS
<1>4. CASE At(o) # "lbrace"
  <2>1. \/ At(o) = "nul" /\ o = len /\ RejectString(len)
        \/ RejectString(o)
        \/ ~ (At(o) = "nul" /\ o = len) /\ At(o) # "nl" /\ RejectString(o + 1)
    BY <1>4 DEF UnicodeEscape
  <2>2. CASE ~ (At(o) = "nul" /\ o = len) /\ At(o) # "nl" /\ RejectString(o + 1)
    <3>1. CASE At(o) # "nul"
      <4>1. Reach(o + 1)
        BY <2>2, <3>1, ReachNext
      <4> QED BY <1>1, <2>2, <4>1, RejectStringMoves
    <3>2. CASE At(o) = "nul"
      <4>1. o # len /\ ~NoNul
        BY <1>2, <2>2, <3>2, NulAtEnd
      <4>2. Reach(o + 1)
        BY <1>2, <4>1 DEF Reach, Ahead, IInv, TypeOK
      <4> QED BY <1>1, <2>2, <4>2, RejectStringMoves
    <3> QED BY <3>1, <3>2
  <2> QED BY <1>1, <2>1, <2>2, RejectStringMoves
<1>5. CASE At(o) = "lbrace"
  <2>1. Reach(o + 1)
    BY <1>5, ReachNext
  <2>2. Reach(stop)
    BY <1>3, <2>1, Classes, ReachSkip
  <2>3. stop \in Nat /\ stop <= len
    BY <2>2 DEF Reach, Ahead
  <2>4. CASE c # "rbrace"
    <3>1. \/ stop >= len /\ RejectString(len)
          \/ RejectString(stop)
          \/ ~ (stop >= len) /\ c # "nl" /\ RejectString(stop + 1)
      BY <1>3, <1>5, <2>4 DEF UnicodeEscape
    <3>2. CASE stop >= len /\ RejectString(len)
      <4>1. stop = len
        BY <1>2, <2>3, <3>2
      <4> QED BY <1>1, <2>2, <3>2, <4>1, RejectStringMoves
    <3>3. CASE ~ (stop >= len) /\ c # "nl" /\ RejectString(stop + 1)
      <4>1. CASE c # "nul"
        <5>1. Reach(stop + 1)
          BY <1>3, <2>2, <3>3, <4>1, ReachNext
        <5> QED BY <1>1, <3>3, <5>1, RejectStringMoves
      <4>2. CASE c = "nul"
        <5>1. stop # len /\ stop < len
          BY <1>2, <2>3, <3>3
        <5>2. ~NoNul
          BY <1>2, <1>3, <2>3, <4>2, <5>1, NulAtEnd
        <5>3. Reach(stop + 1)
          BY <1>2, <2>2, <2>3, <5>1, <5>2 DEF Reach, Ahead, IInv, TypeOK
        <5> QED BY <1>1, <3>3, <5>3, RejectStringMoves
      <4> QED BY <4>1, <4>2
    <3> QED BY <1>1, <2>2, <3>1, <3>2, <3>3, RejectStringMoves
  <2>5. CASE c = "rbrace"
    <3>1. Reach(stop + 1)
      BY <1>3, <2>2, <2>5, ReachNext
    <3>2. RejectString(stop + 1) \/ \E char : Push(char, stop + 1)
      BY <1>3, <1>5, <2>5, Zenon DEF UnicodeEscape
    <3> QED BY <1>1, <3>1, <3>2, RejectStringMoves, PushMoves
  <2> QED BY <2>4, <2>5
<1> QED BY <1>4, <1>5

(* The character after a backslash in a string.                            *)
LEMMA EscapeStrMoves ==
  ASSUME IInv, EscapeStr
  PROVE  Motion
<1>1. InToken /\ state = "EscapeStr"
  BY DEF EscapeStr, InToken, Between
<1>2. Reach(offset)
  BY <1>1, Here
<1>3. PICK c : c = At(offset)
  OBVIOUS
<1>4. \/ c = "nul" /\ RejectString(len)
      \/ c \in DOMAIN Escaped /\ Push(<<Escaped[c]>>, offset + 1)
      \/ c = "x" /\ ByteEscape(offset + 1)
      \/ c = "u" /\ UnicodeEscape(offset + 1)
      \/ c # "nul" /\ RejectString(IF c \in {"nl", "cr"} THEN offset ELSE offset + 1)
  BY <1>3, Zenon DEF EscapeStr
<1>5. c # "nul" /\ c # "nl" => Reach(offset + 1)
  BY <1>2, <1>3, ReachNext
<1>6. CASE c = "nul" /\ RejectString(len)
  <2>1. Reach(len)
    BY <1>2, <1>3, <1>6, ReachEnd
  <2> QED BY <1>1, <1>6, <2>1, RejectStringMoves
<1>7. CASE c \in DOMAIN Escaped /\ Push(<<Escaped[c]>>, offset + 1)
  <2>1. c # "nul" /\ c # "nl"
    BY <1>7 DEF Escaped
  <2> QED BY <1>1, <1>5, <1>7, <2>1, PushMoves
<1>8. CASE c = "x" /\ ByteEscape(offset + 1)
  BY <1>1, <1>5, <1>8, ByteEscapeMoves
<1>9. CASE c = "u" /\ UnicodeEscape(offset + 1)
  BY <1>1, <1>5, <1>9, UnicodeEscapeMoves
<1>10. CASE c # "nul" /\ RejectString(IF c \in {"nl", "cr"} THEN offset ELSE offset + 1)
  <2>1. CASE c \in {"nl", "cr"}
    BY <1>1, <1>2, <1>10, <2>1, RejectStringMoves
  <2>2. CASE c \notin {"nl", "cr"}
    BY <1>1, <1>5, <1>10, <2>2, RejectStringMoves
  <2> QED BY <2>1, <2>2
<1> QED BY <1>4, <1>6, <1>7, <1>8, <1>9, <1>10

(* A zero: a radix, a fraction, an exponent, more digits or a number.      *)
LEMMA IntZeroMoves ==
  ASSUME IInv, IntZero
  PROVE  Motion
<1>1. InToken
  BY DEF IntZero, InToken, Between
<1>2. Reach(offset) /\ Ahead(offset) /\ offset \in Nat
  BY <1>1, Here DEF Ahead
<1>3. PICK c : c = At(offset)
  OBVIOUS
<1>4. \/ c \in DOMAIN RadixState /\ Goto(RadixState[c], offset + 1)
      \/ c \in BinDigit \cup Uscore /\ Goto("IntDec", offset + 1)
      \/ Emit(K("LitInt", <<"Decimal">>), offset)
  BY <1>3, Zenon DEF IntZero
<1>5. CASE c \in DOMAIN RadixState /\ Goto(RadixState[c], offset + 1)
  <2>1. PICK s : s = RadixState[c]
    OBVIOUS
  <2>2. c # "nul" /\ c # "nl" /\ s \in {"IntBin", "IntOct", "IntHex", "FloatDot1", "FloatExp1"}
    BY <1>5, <2>1, RadixStates
  <2>3. Reach(offset + 1)
    BY <1>2, <1>3, <2>2, ReachNext
  <2>4. Goto(s, offset + 1) /\ KindOK(s, kind') /\ s \notin Between /\ offset < offset + 1
    BY <1>2, <1>5, <2>1, <2>2 DEF KindOK, Between
  <2> QED BY <1>1, <2>3, <2>4, ReadMoves DEF Goto
<1>6. CASE c \in BinDigit \cup Uscore /\ Goto("IntDec", offset + 1)
  <2>1. c # "nul" /\ c # "nl"
    BY <1>6 DEF BinDigit, Uscore
  <2>2. Reach(offset + 1)
    BY <1>2, <1>3, <2>1, ReachNext
  <2> QED BY <1>1, <1>6, <2>2, ReadMoves DEF Goto, KindOK, Between
<1>7. CASE Emit(K("LitInt", <<"Decimal">>), offset)
  BY <1>1, <1>2, <1>7, EmitMoves DEF K
<1> QED BY <1>4, <1>5, <1>6, <1>7

(* The digits of a binary, octal or hexadecimal number.                    *)
LEMMA IntRadixMoves ==
  ASSUME IInv, IntRadix
  PROVE  Motion
<1>1. state \in DOMAIN RadixDigits
  BY DEF IntRadix
<1>2. InToken
  BY <1>1 DEF RadixDigits, InToken, Between
<1>3. PICK o : o = SkipWhile(RadixDigits[state] \cup Uscore, offset)
  OBVIOUS
<1>4. Reach(o) /\ Ahead(o)
  BY <1>1, <1>2, <1>3, Here, RadixClasses, ReachSkip
<1>5. CASE Emit(K("LitInt", <<state>>), o)
  BY <1>2, <1>4, <1>5, EmitMoves DEF K
<1>6. CASE Reject(o)
  <2>1. o <= len
    BY <1>4 DEF Ahead
  <2> QED BY <1>2, <1>4, <1>6, <2>1, RejectedMoves
<1> QED BY <1>3, <1>5, <1>6 DEF IntRadix

(* The digits of a decimal number.                                         *)
LEMMA IntDecMoves ==
  ASSUME IInv, IntDec
  PROVE  Motion
<1>1. InToken
  BY DEF IntDec, InToken, Between
<1>2. Reach(offset) /\ offset \in Nat
  BY <1>1, Here DEF Ahead
<1>3. PICK o : o = SkipWhile(Digit \cup Uscore, offset)
  OBVIOUS
<1>4. Reach(o) /\ Ahead(o) /\ offset <= o
  BY <1>2, <1>3, Classes, ReachSkip
<1>5. CASE At(o) \in {".", "e", "E"}
  <2>1. Goto(RadixState[At(o)], o + 1)
    BY <1>3, <1>5 DEF IntDec
  <2>2. At(o) \in DOMAIN RadixState
    BY <1>5 DEF RadixState
  <2>3. PICK s : s = RadixState[At(o)]
    OBVIOUS
  <2>4. s \in {"IntBin", "IntOct", "IntHex", "FloatDot1", "FloatExp1"}
    BY <2>2, <2>3, RadixStates
  <2>5. Reach(o + 1)
    BY <1>4, <1>5, ReachNext
  <2>6. Goto(s, o + 1) /\ KindOK(s, kind') /\ s \notin Between
    BY <2>1, <2>3, <2>4 DEF KindOK, Between
  <2>7. offset < o + 1
    BY <1>2, <1>4 DEF Ahead
  <2> QED BY <1>1, <2>5, <2>6, <2>7, ReadMoves DEF Goto
<1>6. CASE At(o) \notin {".", "e", "E"}
  BY <1>1, <1>3, <1>4, <1>6, EmitMoves DEF IntDec, K
<1> QED BY <1>5, <1>6

(* After `1.`: a second dot gives both back, to where the number ended.    *)
LEMMA FloatDot1Moves ==
  ASSUME IInv, FloatDot1
  PROVE  Motion
<1>1. InToken /\ state = "FloatDot1"
  BY DEF FloatDot1, InToken, Between
<1>2. Reach(offset) /\ Ahead(offset) /\ text \in Seq(STRING)
  BY <1>1, Here
<1>3. PICK c : c = At(offset)
  OBVIOUS
<1>4. \/ c \in {"e", "E"} /\ Reject(offset + 1)
      \/ c \in Digit /\ Goto("FloatDot2", offset + 1)
      \/ Emit(K("LitInt", <<"Decimal">>), offset - 1)
      \/ Emit(K("LitFloat", <<>>), offset)
  BY <1>3, Zenon DEF FloatDot1
<1>5. CASE c \in {"e", "E"} /\ Reject(offset + 1)
  <2>1. offset + 1 <= len
    BY <1>2, <1>3, <1>5, BeforeEnd DEF Ahead
  <2> QED BY <1>1, <1>2, <1>5, <2>1, RejectedMoves
<1>6. CASE c \in Digit /\ Goto("FloatDot2", offset + 1)
  <2>1. Reach(offset + 1)
    BY <1>2, <1>3, <1>6, Classes, ReachNext
  <2> QED BY <1>1, <1>6, <2>1, ReadMoves DEF Goto, KindOK, Between
<1>7. CASE Emit(K("LitInt", <<"Decimal">>), offset - 1)
  <2>1. Ahead(offset - 1)
    BY <1>1, <1>2 DEF Ahead, IInv, TypeOK, Inside, len
  <2> QED BY <1>1, <1>7, <2>1, EmitMoves DEF K
<1>8. CASE Emit(K("LitFloat", <<>>), offset)
  BY <1>1, <1>2, <1>8, EmitMoves DEF K
<1> QED BY <1>4, <1>5, <1>6, <1>7, <1>8

(* The digits of a fraction.                                               *)
LEMMA FloatDot2Moves ==
  ASSUME IInv, FloatDot2
  PROVE  Motion
<1>1. InToken
  BY DEF FloatDot2, InToken, Between
<1>2. PICK o : o = SkipWhile(Digit \cup Uscore, offset)
  OBVIOUS
<1>3. Reach(o) /\ Ahead(o)
  BY <1>1, <1>2, Here, Classes, ReachSkip
<1>4. CASE At(o) \in {"e", "E"}
  <2>1. Reach(o + 1)
    BY <1>3, <1>4, ReachNext
  <2>2. Goto("FloatExp1", o + 1)
    BY <1>2, <1>4 DEF FloatDot2
  <2> QED BY <1>1, <2>1, <2>2, ReadMoves DEF Goto, KindOK, Between
<1>5. CASE At(o) \notin {"e", "E"}
  BY <1>1, <1>2, <1>3, <1>5, EmitMoves DEF FloatDot2, K
<1> QED BY <1>4, <1>5

(* The start of an exponent.                                               *)
LEMMA FloatExp1Moves ==
  ASSUME IInv, FloatExp1
  PROVE  Motion
<1>1. InToken
  BY DEF FloatExp1, InToken, Between
<1>2. Reach(offset) /\ Ahead(offset)
  BY <1>1, Here
<1>3. PICK c : c = At(offset)
  OBVIOUS
<1>4. \/ c \in {"+", "-"} \cup Digit /\ Goto("FloatExp2", offset + 1)
      \/ Goto("FloatExp2", offset)
      \/ Reject(offset)
  BY <1>3, Zenon DEF FloatExp1
<1>5. CASE c \in {"+", "-"} \cup Digit /\ Goto("FloatExp2", offset + 1)
  <2>1. Reach(offset + 1)
    BY <1>2, <1>3, <1>5, Classes, ReachNext
  <2> QED BY <1>1, <1>5, <2>1, ReadMoves DEF Goto, KindOK, Between
<1>6. CASE Goto("FloatExp2", offset)
  BY <1>1, <1>2, <1>6, ReadMoves DEF Goto, KindOK, Between
<1>7. CASE Reject(offset)
  <2>1. offset <= len
    BY <1>2 DEF Ahead
  <2> QED BY <1>1, <1>2, <1>7, <2>1, RejectedMoves
<1> QED BY <1>4, <1>5, <1>6, <1>7

(* The digits of an exponent.                                              *)
LEMMA FloatExp2Moves ==
  ASSUME IInv, FloatExp2
  PROVE  Motion
<1>1. InToken
  BY DEF FloatExp2, InToken, Between
<1>2. PICK o : o = SkipWhile(Digit \cup Uscore, offset)
  OBVIOUS
<1>3. Reach(o) /\ Ahead(o)
  BY <1>1, <1>2, Here, Classes, ReachSkip
<1>4. CASE Emit(K("LitFloat", <<>>), o)
  BY <1>1, <1>3, <1>4, EmitMoves DEF K
<1>5. CASE Reject(o)
  <2>1. o <= len
    BY <1>3 DEF Ahead
  <2> QED BY <1>1, <1>3, <1>5, <2>1, RejectedMoves
<1> QED BY <1>2, <1>4, <1>5 DEF FloatExp2

----------------------------------------------------------------------------
(* The theorems. *)

(* The invariant holds before the first character is read.                 *)
LEMMA InitInvariant == Init => IInv
<1> SUFFICES ASSUME Init PROVE IInv
  OBVIOUS
<1>1. text \in Seq(STRING) /\ len \in Nat
  BY TextsAssumption DEF Init, len
<1>2. IsSeq(<<>>) /\ DOMAIN <<>> = {}
  <2>1. \A S : <<>> \in Seq(S)
    BY EmptySeq
  <2> QED BY <2>1 DEF IsSeq
<1>3. tokens = <<>> /\ errors = <<>> /\ DOMAIN tokens = {} /\ DOMAIN errors = {}
  BY <1>2 DEF Init
<1>4. TypeOK
  BY <1>1, <1>2, <1>3 DEF Init, TypeOK, KindOK
<1>5. InBounds /\ Inside /\ OneLine
  BY <1>1 DEF Init, InBounds, Inside, OneLine, Between
<1>6. TokensInOrder /\ Behind /\ ReportedOnce /\ RecoversOnLine
  BY <1>3 DEF TokensInOrder, Behind, ReportedOnce, RecoversOnLine
<1> QED BY <1>4, <1>5, <1>6 DEF IInv

(* Every step keeps the invariant.                                         *)
LEMMA StepInvariant == IInv /\ [Next]_vars => IInv'
<1> SUFFICES ASSUME IInv, [Next]_vars PROVE IInv'
  OBVIOUS
<1>1. CASE UNCHANGED vars
  BY <1>1 DEF vars, IInv, TypeOK, InBounds, Inside, TokensInOrder, Behind, ReportedOnce, OneLine,
              RecoversOnLine, NoNul, Clean, At, len
<1>2. CASE Next /\ ~Finished
  <2>1. Motion
    BY <1>2, S0Moves, OpMoves, DotMoves, LineCommentMoves, BackslashMoves, HashMoves, SigilMoves,
       UnderscoreMoves, IdentMoves, StrMoves, EscapeStrMoves, IntZeroMoves, IntRadixMoves,
       IntDecMoves, FloatDot1Moves, FloatDot2Moves, FloatExp1Moves, FloatExp2Moves DEF Next
  <2> QED BY <2>1, MotionKeeps
<1>3. CASE Finished
  BY <1>1, <1>3 DEF Finished
<1> QED BY <1>1, <1>2, <1>3

(* The invariant holds of every scan of every text.                        *)
THEOREM LexerInvariant == Spec => []IInv
BY InitInvariant, StepInvariant, PTL DEF Spec

(* Lexer::next never reads past the NUL, for every text: the unchecked     *)
(* reads of bump and peek are safe.                                        *)
THEOREM LexerInBounds == Spec => []InBounds
<1>1. IInv => InBounds
  BY DEF IInv
<1> QED BY <1>1, LexerInvariant, PTL

(* The tokens of every text are not empty, in order and do not overlap:    *)
(* no character is read into two tokens.                                   *)
THEOREM LexerInOrder == Spec => []TokensInOrder
<1>1. IInv => TokensInOrder
  BY DEF IInv
<1> QED BY <1>1, LexerInvariant, PTL

(* ReportedOnce, said with the set of the diagnostics.                     *)
LEMMA ReportsAll == ReportedOnce => InvalidReported
<1> SUFFICES ASSUME ReportedOnce PROVE InvalidReported
  OBVIOUS
<1>1. Range(errors) = {errors[k] : k \in DOMAIN errors}
  BY DEF Range
<1> QED BY <1>1 DEF ReportedOnce, InvalidReported

(* Every invalid token has one diagnostic, where it starts, and there is   *)
(* no other: the parser skips invalid tokens in silence.                   *)
THEOREM LexerReports == Spec => []InvalidReported
<1>1. IInv => InvalidReported
  BY ReportsAll DEF IInv
<1> QED BY <1>1, LexerInvariant, PTL

(* An invalid token ends on the line it starts on, whatever the text.      *)
THEOREM LexerRecovers == Spec => []RecoversOnLine
<1>1. IInv => RecoversOnLine
  BY DEF IInv
<1> QED BY <1>1, LexerInvariant, PTL

============================================================================
