------------------------- MODULE LexerTokensProofs -------------------------
(***************************************************************************)
(* The tokens of a text are the text (TokensSpellText), for every set of   *)
(* texts: each token is of a kind of the tokens! list, no operator of the  *)
(* list is cut in two, and what lies between two tokens is blanks and      *)
(* whole comments.  Two hypotheses on the text stand for the two places    *)
(* where the code does otherwise: a comment without a line end             *)
(* (CommentsEnd) and the operator `*=` (NoStarAssign).                     *)
(*                                                                         *)
(* The invariant says what each state tells about the characters from the  *)
(* token's start to the offset (HandOK): in the state Op they are a state  *)
(* of the operator table.  That the table has every arm an operator of the *)
(* list needs is a lemma about the table alone (ListContinues), and        *)
(* LongestHere carries it to the text.  Every action is then shown to be   *)
(* one of five steps (Scans), each of which keeps the invariant.           *)
(*                                                                         *)
(* The value of a string is the units its own text spells (StringValue),   *)
(* for every text.  Decode is a recursion over the text's positions; that  *)
(* it has a solution, and what it says of a run of plain characters, is    *)
(* shown by way of a least counterexample.  The invariant relates the      *)
(* scratch pad to it: wherever the string in hand will end, its units are  *)
(* those of the scratch pad and the ones from the offset on (StringAt).    *)
(***************************************************************************)
EXTENDS LexerProofs

----------------------------------------------------------------------------
(* The texts. *)

(* Every comment ends in a line end: eat_until_newline without one leaves  *)
(* the offset where it is, and the comment is scanned as code.             *)
CommentsEnd ==
  \A p \in 0 .. len - 1 :
    At(p) = "/" /\ At(p + 1) = "/" => \E n \in p .. len - 1 : At(n) = "nl"

(* There is no `*=`, which has no arm in the state after `*`.              *)
NoStarAssign == \A p \in 0 .. len - 1 : ~ (At(p) = "*" /\ At(p + 1) = "=")

----------------------------------------------------------------------------
(* The invariant. *)

(* What the state tells about the text from lo up to o.                    *)
HandOK(s, lo, o) ==
  /\ s = "Op" => Slice(lo, o) \in OpStates
  /\ s = "Dot" => o = lo + 1 /\ At(lo) = "."
  /\ s = "Hash" => o = lo + 1 /\ At(lo) = "#"
  /\ s = "Underscore" => o = lo + 1 /\ At(lo) = "under"
  /\ s = "Backslash" => o = lo + 1 /\ At(lo) = "\\"
  /\ s = "LineComment" => o = lo + 2 /\ At(lo) = "/" /\ At(lo + 1) = "/"

(* No operator longer than a is spelt at lo.                               *)
Longest(a, lo) ==
  ~ \E s \in OperatorSpellings :
      Len(s) > Len(a) /\ lo + Len(s) <= len /\ s = SubSeq(text, lo + 1, lo + Len(s))

(* A token of kind k at lo is of the list, and the longest operator of the *)
(* list when it is one.                                                    *)
TokenOK(k, lo) ==
  IF k.tag = "op" THEN k.arg \in OperatorSpellings /\ (NoStarAssign => Longest(k.arg, lo))
  ELSE k.tag \in OtherKinds

TokensOK == \A i \in DOMAIN tokens : TokenOK(tokens[i].kind, tokens[i].lo)

(* Where the last token ends.                                              *)
LastHi == IF Len(tokens) = 0 THEN 0 ELSE tokens[Len(tokens)].hi

(* Blanks and comments, each of which ends in a line end, the last one     *)
(* perhaps in the one at `to`.                                             *)
Blank(from, to) ==
  /\ from <= to
  /\ \A p \in from .. to - 1 : At(p) \in Whitespace \/ InComment(from, to, p)
  /\ \A q \in from .. to - 1 : At(q) = "/" => \E n \in q .. to : At(n) = "nl"

(* The same with the text as a parameter: as no step changes the text, a   *)
(* step leaves them as they are. The character of the text t at an offset. *)
AtOf(t, o) == IF o < Len(t) THEN t[o + 1] ELSE IF o = Len(t) THEN "nul" ELSE "oob"

(* InComment of the text t.                                                *)
InCommentOf(t, from, to, p) ==
  \E q \in from .. p : /\ AtOf(t, q) = "/" /\ AtOf(t, q + 1) = "/" /\ q + 1 < to
                       /\ \A n \in q .. p - 1 : AtOf(t, n) # "nl"

(* Blank of the text t.                                                    *)
BlankOf(t, from, to) ==
  /\ from <= to
  /\ \A p \in from .. to - 1 : AtOf(t, p) \in Whitespace \/ InCommentOf(t, from, to, p)
  /\ \A q \in from .. to - 1 : AtOf(t, q) = "/" => \E n \in q .. to : AtOf(t, n) = "nl"

(* Gap of the text t.                                                      *)
GapOf(t, from, to) ==
  /\ from <= to
  /\ \A p \in from .. to - 1 : AtOf(t, p) \in Whitespace \/ InCommentOf(t, from, to, p)
  /\ to < Len(t) => ~ InCommentOf(t, from, to, to)

(* There is nothing else behind the last token.                            *)
BlankBehind ==
  /\ state = "S0" => BlankOf(text, LastHi, offset)
  /\ state \notin Between => BlankOf(text, LastHi, spanStart) /\ AtOf(text, spanStart) \notin Whitespace

(* There is nothing else before a token.                                   *)
GapsOf ==
  \A i \in DOMAIN tokens : /\ GapOf(text, IF i = 1 THEN 0 ELSE tokens[i - 1].hi, tokens[i].lo)
                           /\ tokens[i].lo < tokens[i].hi

(* The invariant.                                                          *)
TextInv ==
  /\ HandOK(state, spanStart, offset)
  /\ TokensOK
  /\ CommentsEnd => BlankBehind /\ GapsOf

----------------------------------------------------------------------------
(* The operator table. *)

(* One character and one more.                                             *)
LEMMA Append1 ==
  ASSUME NEW a, NEW b
  PROVE  Append(<<a>>, b) = <<a, b>>
<1> DEFINE S == {a, b}
<1> HIDE DEF S
<1>1. a \in S /\ b \in S
  BY DEF S
<1>2. <<a>> \in Seq(S) /\ Len(<<a>>) = 1 /\ <<a, b>> \in Seq(S) /\ Len(<<a, b>>) = 2
  BY <1>1
<1>3. PICK t : t = Append(<<a>>, b)
  OBVIOUS
<1>4. t \in Seq(S) /\ Len(t) = 2 /\ t[1] = a /\ t[2] = b
  BY <1>1, <1>2, <1>3, AppendProperties
<1>5. \A i \in 1 .. 2 : t[i] = <<a, b>>[i]
  BY <1>4
<1> QED BY <1>2, <1>3, <1>4, <1>5, SeqEqual

(* Two characters and one more.                                            *)
LEMMA Append2 ==
  ASSUME NEW a, NEW b, NEW c
  PROVE  Append(<<a, b>>, c) = <<a, b, c>>
<1> DEFINE S == {a, b, c}
<1> HIDE DEF S
<1>1. a \in S /\ b \in S /\ c \in S
  BY DEF S
<1>2. <<a, b>> \in Seq(S) /\ Len(<<a, b>>) = 2 /\ <<a, b, c>> \in Seq(S) /\ Len(<<a, b, c>>) = 3
  BY <1>1
<1>3. PICK t : t = Append(<<a, b>>, c)
  OBVIOUS
<1>4. t \in Seq(S) /\ Len(t) = 3 /\ t[1] = a /\ t[2] = b /\ t[3] = c
  BY <1>1, <1>2, <1>3, AppendProperties
<1>5. \A i \in 1 .. 3 : t[i] = <<a, b, c>>[i]
  BY <1>4
<1> QED BY <1>2, <1>3, <1>4, <1>5, SeqEqual

(* Three characters and one more.                                          *)
LEMMA Append3 ==
  ASSUME NEW a, NEW b, NEW c, NEW d
  PROVE  Append(<<a, b, c>>, d) = <<a, b, c, d>>
<1> DEFINE S == {a, b, c, d}
<1> HIDE DEF S
<1>1. a \in S /\ b \in S /\ c \in S /\ d \in S
  BY DEF S
<1>2. /\ <<a, b, c>> \in Seq(S) /\ Len(<<a, b, c>>) = 3
      /\ <<a, b, c, d>> \in Seq(S) /\ Len(<<a, b, c, d>>) = 4
  BY <1>1
<1>3. PICK t : t = Append(<<a, b, c>>, d)
  OBVIOUS
<1>4. t \in Seq(S) /\ Len(t) = 4 /\ t[1] = a /\ t[2] = b /\ t[3] = c /\ t[4] = d
  BY <1>1, <1>2, <1>3, AppendProperties
<1>5. \A i \in 1 .. 4 : t[i] = <<a, b, c, d>>[i]
  BY <1>4
<1> QED BY <1>2, <1>3, <1>4, <1>5, SeqEqual

(* s is a state and c one of its arms.                                     *)
Extends(s, c) == s \in OpStates /\ c \in Arms(s)

(* A row of the table is a state and its arms.                             *)
LEMMA Rows == \A s, A : <<s, A>> \in OpTable => s \in OpStates /\ A \subseteq Arms(s)
BY DEF OpStates, Arms

(* An arm of a state is in a row of the state.                             *)
LEMMA ArmRow ==
  ASSUME NEW s, NEW c \in Arms(s)
  PROVE  \E row \in OpTable : row[1] = s /\ c \in row[2]
BY DEF Arms

(* The rows of ArithArms, arm by arm.                                      *)
LEMMA ArithRows ==
  /\ Extends(<<"-">>, "=") /\ Extends(<<"-">>, "|") /\ Extends(<<"-", "|">>, "=")
  /\ Extends(<<"+">>, "=") /\ Extends(<<"+">>, "|") /\ Extends(<<"+", "|">>, "=")
  /\ Extends(<<"*">>, "*") /\ Extends(<<"*">>, "|") /\ Extends(<<"*", "|">>, "=")
<1>1. ArithArms \subseteq OpTable
  BY DEF OpTable
<1> QED BY <1>1, Rows DEF ArithArms, Extends

(* The rows of BitArms.                                                    *)
LEMMA BitRows ==
  /\ Extends(<<"/">>, "=") /\ Extends(<<"%">>, "=") /\ Extends(<<"^">>, "=")
  /\ Extends(<<"&">>, "=") /\ Extends(<<"&">>, "&") /\ Extends(<<"&", "&">>, "=")
  /\ Extends(<<"|">>, "=") /\ Extends(<<"|">>, "|") /\ Extends(<<"|", "|">>, "=")
  /\ Extends(<<"!">>, "=") /\ Extends(<<"~">>, "=") /\ Extends(<<"=">>, "=") /\ Extends(<<"=">>, ">")
<1>1. BitArms \subseteq OpTable
  BY DEF OpTable
<1> QED BY <1>1, Rows DEF BitArms, Extends

(* The rows of ShiftArms.                                                  *)
LEMMA ShiftRows ==
  \A c \in {"<", ">"} :
    /\ Extends(<<c>>, "=") /\ Extends(<<c>>, c)
    /\ Extends(<<c, c>>, "=") /\ Extends(<<c, c>>, "|") /\ Extends(<<c, c>>, "%")
    /\ Extends(<<c, c, "|">>, "=") /\ Extends(<<c, c, "%">>, "=")
<1>1. ShiftArms \subseteq OpTable
  BY DEF OpTable
<1> QED BY <1>1, Rows DEF ShiftArms, Extends

(* The row of DotArms.                                                     *)
LEMMA DotRows == Extends(<<".", ".">>, "=") /\ Extends(<<".", ".">>, ".")
<1>1. DotArms \subseteq OpTable
  BY DEF OpTable
<1> QED BY <1>1, Rows DEF DotArms, Extends

(* Every character that starts an operator is a state.                     *)
LEMMA StartRows == \A c \in OpStart : <<c>> \in OpStates
BY ArithRows, BitRows, ShiftRows DEF OpStart, Extends

(* Every state of the table is an operator of the list, and every arm      *)
(* leads to one, but that of the comment.                                  *)
LEMMA RowsListed ==
  ASSUME NEW row \in OpTable
  PROVE  /\ row[1] \in OperatorSpellings
         /\ \A c \in row[2] : Append(row[1], c) \in OperatorSpellings \cup {<<"/", "/">>}
<1>1. CASE row \in ArithArms
  <2>1. row[1] \in OperatorSpellings
    BY <1>1 DEF ArithArms, OperatorSpellings, OneCharOps, TwoCharOps, OpStart
  <2>2. ASSUME NEW c \in row[2] PROVE Append(row[1], c) \in TwoCharOps \cup ThreeCharOps
    <3>1. \/ \E x \in {"-", "+"} : row[1] = <<x>> /\ c \in {"=", "|"}
          \/ row[1] = <<"*">> /\ c \in {"*", "|"}
          \/ \E x \in {"-", "+", "*"} : row[1] = <<x, "|">> /\ c = "="
      BY <1>1, <2>2 DEF ArithArms
    <3>2. ASSUME NEW x \in {"-", "+", "*"}, row[1] = <<x>>,
                 x = "*" => c \in {"*", "|"}, x # "*" => c \in {"=", "|"}
          PROVE  Append(row[1], c) \in TwoCharOps
      <4>1. <<x, c>> \in TwoCharOps
        BY <3>2 DEF TwoCharOps
      <4>2. Append(<<x>>, c) = <<x, c>>
        BY Append1
      <4> QED BY <3>2, <4>1, <4>2
    <3>3. ASSUME NEW x \in {"-", "+", "*"}, row[1] = <<x, "|">>, c = "="
          PROVE  Append(row[1], c) \in ThreeCharOps
      <4>1. <<x, "|", "=">> \in ThreeCharOps
        BY DEF ThreeCharOps
      <4>2. Append(<<x, "|">>, "=") = <<x, "|", "=">>
        BY Append2
      <4> QED BY <3>3, <4>1, <4>2
    <3> QED BY <3>1, <3>2, <3>3
  <2> QED BY <2>1, <2>2 DEF OperatorSpellings
<1>2. CASE row \in BitArms
  <2>1. row[1] \in OperatorSpellings
    BY <1>2 DEF BitArms, OperatorSpellings, OneCharOps, TwoCharOps, OpStart
  <2>2. ASSUME NEW c \in row[2]
        PROVE  Append(row[1], c) \in TwoCharOps \cup ThreeCharOps \cup {<<"/", "/">>}
    <3>1. \/ row[1] \in {<<"&", "&">>, <<"|", "|">>} /\ c = "="
          \/ \E x \in {"/", "%", "^", "&", "|", "!", "~", "="} : row[1] = <<x>> /\ c = "="
          \/ \E x \in {"&", "|", "/"} : row[1] = <<x>> /\ c = x
          \/ row[1] = <<"=">> /\ c = ">"
      BY <1>2, <2>2 DEF BitArms
    <3>2. CASE row[1] \in {<<"&", "&">>, <<"|", "|">>} /\ c = "="
      <4>1. Append(row[1], c) \in {<<"&", "&", "=">>, <<"|", "|", "=">>}
        BY <3>2, Append2
      <4> QED BY <4>1 DEF ThreeCharOps
    <3>3. CASE \E x \in {"/", "%", "^", "&", "|", "!", "~", "="} : row[1] = <<x>> /\ c = "="
      <4>1. PICK x \in {"/", "%", "^", "&", "|", "!", "~", "="} : row[1] = <<x>> /\ c = "="
        BY <3>3
      <4>2. <<x, "=">> \in TwoCharOps
        BY DEF TwoCharOps
      <4> QED BY <4>1, <4>2, Append1
    <3>4. CASE \E x \in {"&", "|", "/"} : row[1] = <<x>> /\ c = x
      <4>1. PICK x \in {"&", "|", "/"} : row[1] = <<x>> /\ c = x
        BY <3>4
      <4>2. <<x, x>> \in TwoCharOps \cup {<<"/", "/">>}
        BY DEF TwoCharOps
      <4> QED BY <4>1, <4>2, Append1
    <3>5. CASE row[1] = <<"=">> /\ c = ">"
      BY <3>5, Append1 DEF TwoCharOps
    <3> QED BY <3>1, <3>2, <3>3, <3>4, <3>5
  <2> QED BY <2>1, <2>2 DEF OperatorSpellings
<1>3. CASE row \in ShiftArms
  <2>1. row[1] \in OperatorSpellings
    BY <1>3 DEF ShiftArms, OperatorSpellings, OneCharOps, TwoCharOps, ThreeCharOps, OpStart
  <2>2. ASSUME NEW c \in row[2]
        PROVE  Append(row[1], c) \in TwoCharOps \cup ThreeCharOps \cup FourCharOps
    <3>1. PICK x \in {"<", ">"} :
                \/ row[1] = <<x>> /\ (c = "=" \/ c = x)
                \/ row[1] = <<x, x>> /\ c \in {"=", "|", "%"}
                \/ row[1] = <<x, x, "|">> /\ c = "="
                \/ row[1] = <<x, x, "%">> /\ c = "="
      BY <1>3, <2>2 DEF ShiftArms
    <3>2. CASE row[1] = <<x>> /\ (c = "=" \/ c = x)
      <4>1. <<x, "=">> \in TwoCharOps /\ <<x, x>> \in TwoCharOps
        BY DEF TwoCharOps
      <4> QED BY <3>2, <4>1, Append1
    <3>3. CASE row[1] = <<x, x>> /\ c \in {"=", "|", "%"}
      <4>1. <<x, x, c>> \in ThreeCharOps
        BY <3>3 DEF ThreeCharOps
      <4>2. Append(<<x, x>>, c) = <<x, x, c>>
        BY Append2
      <4> QED BY <3>3, <4>1, <4>2
    <3>4. ASSUME NEW z \in {"|", "%"}, row[1] = <<x, x, z>>, c = "="
          PROVE  Append(row[1], c) \in FourCharOps
      <4>1. <<x, x, z, "=">> \in FourCharOps
        BY DEF FourCharOps
      <4>2. Append(<<x, x, z>>, "=") = <<x, x, z, "=">>
        BY Append3
      <4> QED BY <3>4, <4>1, <4>2
    <3> QED BY <3>1, <3>2, <3>3, <3>4
  <2> QED BY <2>1, <2>2 DEF OperatorSpellings
<1>4. CASE row \in DotArms
  <2>1. row[1] \in OperatorSpellings
    BY <1>4 DEF DotArms, OperatorSpellings, TwoCharOps
  <2>2. ASSUME NEW c \in row[2] PROVE Append(row[1], c) \in ThreeCharOps
    <3>1. row[1] = <<".", ".">> /\ <<".", ".", c>> \in ThreeCharOps
      BY <1>4, <2>2 DEF DotArms, ThreeCharOps
    <3> QED BY <3>1, Append2
  <2> QED BY <2>1, <2>2 DEF OperatorSpellings
<1> QED BY <1>1, <1>2, <1>3, <1>4 DEF OpTable

(* The same of a state and its arms.                                       *)
LEMMA StatesListed ==
  ASSUME NEW s \in OpStates
  PROVE  /\ s \in OperatorSpellings
         /\ \A c \in Arms(s) : Append(s, c) \in OperatorSpellings \cup {<<"/", "/">>}
<1>1. \E row \in OpTable : row[1] = s
  BY DEF OpStates
<1> QED BY <1>1, ArmRow, RowsListed

(* How an operator of the list goes on after its first n characters: by an *)
(* arm of the table, but for `*=` and what follows a dot.                  *)
Continues(s, n) ==
  \/ n = 1 /\ Extends(<<s[1]>>, s[2])
  \/ n = 1 /\ s[1] = "*" /\ s[2] = "="
  \/ n = 1 /\ s[1] = "." /\ s[2] \in {".", "*", "?"}
  \/ n = 2 /\ Extends(<<s[1], s[2]>>, s[3])
  \/ n = 3 /\ Extends(<<s[1], s[2], s[3]>>, s[4])

(* An operator of the list goes on so after each of its characters.        *)
LEMMA ListContinues ==
  ASSUME NEW s \in OperatorSpellings, NEW n \in Nat, 0 < n, n < Len(s)
  PROVE  Continues(s, n)
<1>1. CASE s \in OneCharOps
  <2>1. \E x : s = <<x>>
    BY <1>1 DEF OneCharOps
  <2> QED BY <2>1
<1>2. CASE s \in TwoCharOps
  <2>1. PICK x, y : s = <<x, y>>
    BY <1>2 DEF TwoCharOps
  <2>2. n = 1 /\ s[1] = x /\ s[2] = y
    BY <2>1
  <2>3. Extends(<<x>>, y) \/ (x = "*" /\ y = "=") \/ (x = "." /\ y \in {".", "*", "?"})
    BY <1>2, <2>1, ArithRows, BitRows, ShiftRows, SMTT(20) DEF TwoCharOps
  <2> QED BY <2>2, <2>3 DEF Continues
<1>3. CASE s \in ThreeCharOps
  <2>1. PICK x, y, z : s = <<x, y, z>>
    BY <1>3 DEF ThreeCharOps
  <2>2. (n = 1 \/ n = 2) /\ s[1] = x /\ s[2] = y /\ s[3] = z
    BY <2>1
  <2>3. /\ Extends(<<x>>, y) \/ (x = "." /\ y = ".")
        /\ Extends(<<x, y>>, z)
    BY <1>3, <2>1, ArithRows, BitRows, ShiftRows, DotRows, SMTT(20) DEF ThreeCharOps
  <2> QED BY <2>2, <2>3 DEF Continues
<1>4. CASE s \in FourCharOps
  <2>1. PICK x, y, z, w : s = <<x, y, z, w>>
    BY <1>4 DEF FourCharOps
  <2>2. (n = 1 \/ n = 2 \/ n = 3) /\ s[1] = x /\ s[2] = y /\ s[3] = z /\ s[4] = w
    BY <2>1
  <2>3. Extends(<<x>>, y) /\ Extends(<<x, y>>, z) /\ Extends(<<x, y, z>>, w)
    BY <1>4, <2>1, ShiftRows DEF FourCharOps
  <2> QED BY <2>2, <2>3 DEF Continues
<1> QED BY <1>1, <1>2, <1>3, <1>4 DEF OperatorSpellings

(* The states of one character are the first ones.                         *)
LEMMA OneCharStates == \A c : <<c>> \in OpStates => c \in OpStart
BY DEF OpStates, OpTable, ArithArms, BitArms, ShiftArms, DotArms, OpStart

(* The only state of two characters that starts with a dot is `..`.        *)
LEMMA DotStates == \A c : <<".", c>> \in OpStates => c = "."
BY DEF OpStates, OpTable, ArithArms, BitArms, ShiftArms, DotArms

(* No operator of the list is empty or has more than four characters.      *)
LEMMA ListLen == \A s \in OperatorSpellings : Len(s) \in 1 .. 4
<1>1. \A s \in OneCharOps : \E x : s = <<x>>
  BY DEF OneCharOps
<1>2. \A s \in TwoCharOps : \E x, y : s = <<x, y>>
  BY DEF TwoCharOps
<1>3. \A s \in ThreeCharOps : \E x, y, z : s = <<x, y, z>>
  BY DEF ThreeCharOps
<1>4. \A s \in FourCharOps : \E x, y, z, w : s = <<x, y, z, w>>
  BY DEF FourCharOps
<1>5. ASSUME NEW x, NEW y, NEW z, NEW w
      PROVE  Len(<<x>>) = 1 /\ Len(<<x, y>>) = 2 /\ Len(<<x, y, z>>) = 3 /\ Len(<<x, y, z, w>>) = 4
  OBVIOUS
<1> QED BY <1>1, <1>2, <1>3, <1>4, <1>5 DEF OperatorSpellings

----------------------------------------------------------------------------
(* Slices of the text. *)

(* The characters of a slice.                                              *)
LEMMA SliceChars ==
  ASSUME text \in Seq(STRING), NEW lo \in Nat, NEW hi \in Nat, lo <= hi, hi <= len
  PROVE  /\ Slice(lo, hi) \in Seq(STRING)
         /\ Len(Slice(lo, hi)) = hi - lo
         /\ \A j \in 1 .. hi - lo : Slice(lo, hi)[j] = At(lo + j - 1)
<1>1. \A j \in lo + 1 .. hi : text[j] \in STRING
  BY ElementOfSeq DEF len
<1>2. PICK s : s = SubSeq(text, lo + 1, hi)
  OBVIOUS
<1>3. /\ s \in Seq(STRING) /\ Len(s) = IF lo + 1 <= hi THEN hi - (lo + 1) + 1 ELSE 0
      /\ \A j \in 1 .. hi - (lo + 1) + 1 : s[j] = text[lo + 1 + j - 1]
  BY <1>1, <1>2, SubSeqProperties
<1>4. \A j \in 1 .. hi - lo : s[j] = At(lo + j - 1)
  <2> SUFFICES ASSUME NEW j \in 1 .. hi - lo PROVE s[j] = At(lo + j - 1)
    OBVIOUS
  <2>1. len \in Nat /\ lo + j - 1 < len /\ lo + 1 + j - 1 = (lo + j - 1) + 1
    BY DEF len
  <2>2. s[j] = text[lo + 1 + j - 1]
    <3>1. j \in 1 .. hi - (lo + 1) + 1
      OBVIOUS
    <3> QED BY <1>3, <3>1, Zenon
  <2> QED BY <2>1, <2>2 DEF At
<1>5. s = Slice(lo, hi)
  BY <1>2 DEF Slice
<1>6. Len(s) = hi - lo
  BY <1>3
<1> QED BY <1>3, <1>4, <1>5, <1>6

(* A slice of one character.                                               *)
LEMMA SliceOne ==
  ASSUME text \in Seq(STRING), NEW lo \in Nat, lo < len
  PROVE  Slice(lo, lo + 1) = <<At(lo)>>
<1>1. PICK s : s = Slice(lo, lo + 1)
  OBVIOUS
<1>2. lo + 1 <= len /\ len \in Nat
  BY DEF len
<1>3. s \in Seq(STRING) /\ Len(s) = 1 /\ s[1] = At(lo)
  <2>1. PICK hi \in Nat : hi = lo + 1
    OBVIOUS
  <2>2. lo <= hi /\ hi <= len /\ s = Slice(lo, hi)
    BY <1>1, <1>2, <2>1
  <2>3. s \in Seq(STRING) /\ Len(s) = hi - lo /\ \A j \in 1 .. hi - lo : s[j] = At(lo + j - 1)
    BY <2>2, SliceChars
  <2>4. hi - lo = 1 /\ lo + 1 - 1 = lo
    BY <2>1
  <2> QED BY <2>3, <2>4
<1>4. At(lo) \in STRING
  BY ElementOfSeq DEF At, len
<1>5. <<At(lo)>> \in Seq(STRING) /\ Len(<<At(lo)>>) = 1
  BY <1>4
<1>6. \A i \in 1 .. 1 : s[i] = <<At(lo)>>[i]
  BY <1>3
<1> QED BY <1>1, <1>3, <1>5, <1>6, SeqEqual

(* A slice and the next character.                                         *)
LEMMA SliceNext ==
  ASSUME text \in Seq(STRING), NEW lo \in Nat, NEW hi \in Nat, lo <= hi, hi < len
  PROVE  Slice(lo, hi + 1) = Append(Slice(lo, hi), At(hi))
<1>1. PICK s, t, u : s = Slice(lo, hi) /\ t = Slice(lo, hi + 1) /\ u = Append(s, At(hi))
  OBVIOUS
<1>2. hi + 1 <= len /\ hi <= len /\ lo <= hi + 1 /\ len \in Nat
  BY DEF len
<1>3. s \in Seq(STRING) /\ Len(s) = hi - lo /\ \A j \in 1 .. hi - lo : s[j] = At(lo + j - 1)
  BY <1>1, <1>2, SliceChars
<1>4. t \in Seq(STRING) /\ Len(t) = (hi - lo) + 1 /\ \A j \in 1 .. (hi - lo) + 1 : t[j] = At(lo + j - 1)
  <2>1. PICK h \in Nat : h = hi + 1
    OBVIOUS
  <2>2. t \in Seq(STRING) /\ Len(t) = h - lo /\ \A j \in 1 .. h - lo : t[j] = At(lo + j - 1)
    BY <1>1, <1>2, <2>1, SliceChars
  <2>3. h - lo = (hi - lo) + 1
    BY <2>1
  <2> QED BY <2>2, <2>3
<1>5. At(hi) \in STRING
  BY ElementOfSeq DEF At, len
<1>6. /\ u \in Seq(STRING) /\ Len(u) = (hi - lo) + 1 /\ u[(hi - lo) + 1] = At(hi)
      /\ \A j \in 1 .. hi - lo : u[j] = s[j]
  <2>1. /\ u \in Seq(STRING) /\ Len(u) = Len(s) + 1 /\ u[Len(s) + 1] = At(hi)
        /\ \A j \in 1 .. Len(s) : u[j] = s[j]
    BY <1>1, <1>3, <1>5, AppendProperties
  <2> QED BY <1>3, <2>1
<1>7. ASSUME NEW j \in 1 .. Len(t) PROVE t[j] = u[j]
  <2>1. CASE j = (hi - lo) + 1
    <3>1. lo + j - 1 = hi
      BY <2>1
    <3>2. t[j] = At(lo + j - 1)
      BY <1>4
    <3> QED BY <1>6, <2>1, <3>1, <3>2
  <2>2. CASE j # (hi - lo) + 1
    <3>1. j \in 1 .. hi - lo
      BY <1>4, <2>2
    <3> QED BY <1>3, <1>4, <1>6, <3>1
  <2> QED BY <2>1, <2>2
<1>8. t = u
  BY <1>4, <1>6, <1>7, SeqEqual
<1> QED BY <1>1, <1>8

(* A slice of up to three characters, as a tuple.                          *)
LEMMA ShortSeq ==
  ASSUME NEW a \in Seq(STRING)
  PROVE  /\ Len(a) = 1 => a = <<a[1]>>
         /\ Len(a) = 2 => a = <<a[1], a[2]>>
         /\ Len(a) = 3 => a = <<a[1], a[2], a[3]>>
<1>1. \A i \in 1 .. Len(a) : a[i] \in STRING
  BY ElementOfSeq
<1>2. ASSUME Len(a) = 1 PROVE a = <<a[1]>>
  <2>1. a[1] \in STRING
    BY <1>1, <1>2
  <2>2. <<a[1]>> \in Seq(STRING) /\ Len(<<a[1]>>) = 1 /\ \A i \in 1 .. 1 : a[i] = <<a[1]>>[i]
    BY <2>1
  <2> QED BY <1>2, <2>2, SeqEqual
<1>3. ASSUME Len(a) = 2 PROVE a = <<a[1], a[2]>>
  <2>1. a[1] \in STRING /\ a[2] \in STRING
    BY <1>1, <1>3
  <2>2. /\ <<a[1], a[2]>> \in Seq(STRING) /\ Len(<<a[1], a[2]>>) = 2
        /\ \A i \in 1 .. 2 : a[i] = <<a[1], a[2]>>[i]
    BY <2>1
  <2> QED BY <1>3, <2>2, SeqEqual
<1>4. ASSUME Len(a) = 3 PROVE a = <<a[1], a[2], a[3]>>
  <2>1. a[1] \in STRING /\ a[2] \in STRING /\ a[3] \in STRING
    BY <1>1, <1>4
  <2>2. /\ <<a[1], a[2], a[3]>> \in Seq(STRING) /\ Len(<<a[1], a[2], a[3]>>) = 3
        /\ \A i \in 1 .. 3 : a[i] = <<a[1], a[2], a[3]>>[i]
    BY <2>1
  <2> QED BY <1>4, <2>2, SeqEqual
<1> QED BY <1>2, <1>3, <1>4

(* An operator that the character after it does not extend is the longest  *)
(* one at its place: so the table is complete, but for `*=`.               *)
LEMMA LongestHere ==
  ASSUME text \in Seq(STRING), NoStarAssign, NEW lo \in Nat, NEW hi \in Nat, lo < hi, hi <= len,
         NEW a, a = Slice(lo, hi),
         a \in OpStates => At(hi) \notin Arms(a),
         a = <<".">> => At(hi) \notin {".", "*", "?"}
  PROVE  Longest(a, lo)
<1> SUFFICES ASSUME NEW s \in OperatorSpellings, Len(s) > Len(a), lo + Len(s) <= len,
                    s = SubSeq(text, lo + 1, lo + Len(s))
             PROVE  FALSE
  BY DEF Longest
<1>1. len \in Nat /\ Len(s) \in Nat
  BY ListLen DEF len
<1>2. PICK n \in Nat : n = hi - lo
  OBVIOUS
<1>3. a \in Seq(STRING) /\ n = Len(a) /\ \A j \in 1 .. n : a[j] = At(lo + j - 1)
  <2>1. lo <= hi
    OBVIOUS
  <2>2. a \in Seq(STRING) /\ Len(a) = hi - lo /\ \A j \in 1 .. hi - lo : a[j] = At(lo + j - 1)
    BY <2>1, SliceChars, Zenon
  <2> QED BY <1>2, <2>2
<1>4. \A j \in 1 .. Len(s) : s[j] = At(lo + j - 1)
  <2>1. PICK m \in Nat : m = lo + Len(s)
    BY <1>1
  <2>2. s = Slice(lo, m)
    BY <2>1 DEF Slice
  <2>3. lo <= m /\ m <= len /\ m - lo = Len(s)
    BY <1>1, <2>1
  <2>4. \A j \in 1 .. m - lo : Slice(lo, m)[j] = At(lo + j - 1)
    BY <2>3, SliceChars
  <2> QED BY <2>2, <2>3, <2>4
<1>5. 0 < n /\ n < Len(s) /\ \A j \in 1 .. n : s[j] = a[j]
  BY <1>1, <1>2, <1>3, <1>4
<1>6. s[n + 1] = At(hi)
  <2>1. n + 1 \in 1 .. Len(s) /\ lo + (n + 1) - 1 = hi
    BY <1>1, <1>2, <1>5
  <2> QED BY <1>4, <2>1
<1>7. Continues(s, n)
  BY <1>5, ListContinues
<1>8. \A c : ~ Extends(a, c) \/ c # At(hi)
  BY DEF Extends
<1>9. CASE n = 1
  <2>1. a = <<a[1]>>
    BY <1>3, <1>9, ShortSeq
  <2>2. s[1] = a[1] /\ s[2] = At(hi) /\ hi = lo + 1
    BY <1>2, <1>5, <1>6, <1>9
  <2>3. a[1] = At(lo)
    BY <1>3, <1>9
  <2>4. lo \in 0 .. len - 1
    BY <1>1
  <2>5. ~ (s[1] = "*" /\ s[2] = "=")
    BY <2>2, <2>3, <2>4 DEF NoStarAssign
  <2>6. ~ Extends(<<s[1]>>, s[2]) /\ ~ (s[1] = "." /\ s[2] \in {".", "*", "?"})
    BY <1>8, <2>1, <2>2
  <2> QED BY <1>7, <1>9, <2>5, <2>6 DEF Continues
<1>10. CASE n = 2
  <2>1. a = <<a[1], a[2]>>
    BY <1>3, <1>10, ShortSeq
  <2>2. s[1] = a[1] /\ s[2] = a[2] /\ s[3] = At(hi)
    BY <1>5, <1>6, <1>10
  <2>3. ~ Extends(<<s[1], s[2]>>, s[3])
    BY <1>8, <2>1, <2>2
  <2> QED BY <1>7, <1>10, <2>3 DEF Continues
<1>11. CASE n = 3
  <2>1. a = <<a[1], a[2], a[3]>>
    BY <1>3, <1>11, ShortSeq
  <2>2. s[1] = a[1] /\ s[2] = a[2] /\ s[3] = a[3] /\ s[4] = At(hi)
    BY <1>5, <1>6, <1>11
  <2>3. ~ Extends(<<s[1], s[2], s[3]>>, s[4])
    BY <1>8, <2>1, <2>2
  <2> QED BY <1>7, <1>11, <2>3 DEF Continues
<1> QED BY <1>7, <1>9, <1>10, <1>11 DEF Continues

----------------------------------------------------------------------------
(* What lies between two tokens. *)

(* A comment that was read stays one when more is read.                    *)
LEMMA CommentGrows ==
  ASSUME NEW from \in Nat, NEW to \in Nat, NEW e \in Nat, to <= e, NEW p \in Nat,
         InComment(from, to, p)
  PROVE  InComment(from, e, p)
<1>1. PICK q \in from .. p : /\ At(q) = "/" /\ At(q + 1) = "/" /\ q + 1 < to
                            /\ \A n \in q .. p - 1 : At(n) # "nl"
  BY DEF InComment
<1>2. q + 1 < e
  BY <1>1
<1> QED BY <1>1, <1>2 DEF InComment

(* Blanks may follow.                                                      *)
LEMMA BlankGrows ==
  ASSUME NEW from \in Nat, NEW to \in Nat, NEW e \in Nat, to <= e, Blank(from, to),
         \A q \in to .. e - 1 : At(q) \in Whitespace
  PROVE  Blank(from, e)
<1>1. from <= e /\ from <= to
  BY DEF Blank
<1>2. \A p \in from .. e - 1 : p \in Nat /\ (p \in from .. to - 1 \/ p \in to .. e - 1)
  BY <1>1
<1>3. ASSUME NEW p \in from .. e - 1 PROVE At(p) \in Whitespace \/ InComment(from, e, p)
  <2>1. CASE p \in from .. to - 1
    BY <1>2, <2>1, CommentGrows DEF Blank
  <2>2. CASE p \in to .. e - 1
    BY <2>2
  <2> QED BY <1>2, <2>1, <2>2
<1>4. ASSUME NEW q \in from .. e - 1, At(q) = "/" PROVE \E n \in q .. e : At(n) = "nl"
  <2>1. CASE q \in from .. to - 1
    <3>1. PICK n \in q .. to : At(n) = "nl"
      BY <1>4, <2>1 DEF Blank
    <3>2. n \in q .. e
      BY <2>1
    <3> QED BY <3>1, <3>2
  <2>2. CASE q \in to .. e - 1
    BY <1>4, <2>2 DEF Whitespace
  <2> QED BY <1>2, <2>1, <2>2
<1> QED BY <1>1, <1>3, <1>4 DEF Blank

(* A comment up to its line end may follow.                                *)
LEMMA BlankComment ==
  ASSUME NEW from \in Nat, NEW lo \in Nat, NEW e \in Nat, lo + 2 <= e, Blank(from, lo),
         At(lo) = "/", At(lo + 1) = "/", \A q \in lo .. e - 1 : At(q) # "nl", At(e) = "nl"
  PROVE  Blank(from, e)
<1>1. from <= lo /\ from <= e
  BY DEF Blank
<1>2. \A p \in from .. e - 1 : p \in Nat /\ (p \in from .. lo - 1 \/ p \in lo .. e - 1)
  BY <1>1
<1>3. ASSUME NEW p \in from .. e - 1 PROVE At(p) \in Whitespace \/ InComment(from, e, p)
  <2>1. CASE p \in from .. lo - 1
    <3>1. lo <= e
      OBVIOUS
    <3> QED BY <1>2, <2>1, <3>1, CommentGrows DEF Blank
  <2>2. CASE p \in lo .. e - 1
    <3>1. lo \in from .. p /\ lo + 1 < e
      BY <1>1, <2>2
    <3>2. \A n \in lo .. p - 1 : At(n) # "nl"
      BY <2>2
    <3> QED BY <3>1, <3>2 DEF InComment
  <2> QED BY <1>2, <2>1, <2>2
<1>4. ASSUME NEW q \in from .. e - 1, At(q) = "/" PROVE \E n \in q .. e : At(n) = "nl"
  <2>1. e \in q .. e
    OBVIOUS
  <2> QED BY <2>1
<1> QED BY <1>1, <1>3, <1>4 DEF Blank

(* When the next token starts no comment is open.                          *)
LEMMA BlankGap ==
  ASSUME text \in Seq(STRING), NEW from \in Nat, NEW to \in Nat, to <= len, Blank(from, to),
         At(to) \notin Whitespace
  PROVE  Gap(from, to)
<1>1. ASSUME InComment(from, to, to) PROVE FALSE
  <2>1. PICK q \in from .. to : /\ At(q) = "/" /\ q + 1 < to
                               /\ \A n \in q .. to - 1 : At(n) # "nl"
    BY <1>1 DEF InComment
  <2>2. q \in from .. to - 1
    BY <2>1
  <2>3. PICK n \in q .. to : At(n) = "nl"
    BY <2>1, <2>2 DEF Blank
  <2>4. n # to
    BY <2>3 DEF Whitespace
  <2>5. n \in q .. to - 1
    BY <2>4
  <2> QED BY <2>1, <2>3, <2>5
<1> QED BY <1>1 DEF Gap, Blank

(* The forms with the text as a parameter say the same.                    *)
LEMMA OfText ==
  ASSUME NEW from, NEW to
  PROVE  /\ Blank(from, to) <=> BlankOf(text, from, to)
         /\ Gap(from, to) <=> GapOf(text, from, to)
         /\ At(from) = AtOf(text, from)
BY DEF Blank, Gap, InComment, At, len, BlankOf, GapOf, InCommentOf, AtOf

(* Nothing is blank.                                                       *)
LEMMA BlankEmpty ==
  ASSUME NEW o \in Nat
  PROVE  Blank(o, o)
BY DEF Blank

(* eat_until_newline finds the next line end when there is one.            *)
LEMMA NewlineFinds ==
  ASSUME text \in Seq(STRING), NEW o \in Nat, o <= len, NEW e \in EatUntilNewline(o),
         NEW n \in o .. len, At(n) = "nl"
  PROVE  e \in Nat /\ o <= e /\ At(e) = "nl" /\ \A q \in o .. e - 1 : At(q) # "nl"
<1>1. len \in Nat
  BY DEF len
<1>2. PICK S : S = Positions({"nl", "cr"}, o)
  OBVIOUS
<1>3. S \subseteq o .. len /\ S \subseteq Nat /\ n \in S
  BY <1>1, <1>2 DEF Positions
<1>4. PICK p : p = First(S)
  OBVIOUS
<1>5. p \in S /\ \A q \in S : p <= q
  BY <1>3, <1>4, FirstLeast
<1>6. p \in o .. len /\ At(p) \in {"nl", "cr"}
  BY <1>2, <1>5 DEF Positions
<1>7. ASSUME NEW q \in o .. p - 1 PROVE At(q) # "nl"
  <2>1. q \in o .. len /\ ~ (p <= q)
    BY <1>1, <1>6
  <2> QED BY <1>2, <1>5, <2>1 DEF Positions
<1>8. (At(p) = "nl" /\ e = p) \/ (At(p) = "cr" /\ At(p + 1) = "nl" /\ e = p + 1)
  BY <1>2, <1>3, <1>4, <1>6 DEF EatUntilNewline
<1>9. CASE At(p) = "nl" /\ e = p
  BY <1>6, <1>7, <1>9
<1>10. CASE At(p) = "cr" /\ At(p + 1) = "nl" /\ e = p + 1
  <2>1. \A q \in o .. (p + 1) - 1 : q \in o .. p - 1 \/ q = p
    BY <1>6
  <2> QED BY <1>6, <1>7, <1>10, <2>1
<1> QED BY <1>8, <1>9, <1>10

----------------------------------------------------------------------------
(* A token is added. *)

(* The tokens after one that starts at lo and ends at hi is returned.      *)
LEMMA TokenGiven ==
  ASSUME TypeOK, TokensOK, NEW k, NEW lo \in Nat, NEW hi \in Nat, lo < hi,
         tokens' = Append(tokens, Token(k, lo, hi)), text' = text, TokenOK(k, lo)
  PROVE  /\ TokensOK' /\ LastHi' = hi
         /\ GapsOf /\ GapOf(text, LastHi, lo) => GapsOf'
<1> DEFINE n == Len(tokens)
<1>1. /\ n \in Nat /\ DOMAIN tokens = 1 .. n /\ DOMAIN tokens' = 1 .. n + 1 /\ IsSeq(tokens')
      /\ \A i \in 1 .. n : tokens'[i] = tokens[i]
      /\ tokens'[n + 1] = Token(k, lo, hi)
  <2>1. IsSeq(tokens)
    BY DEF TypeOK
  <2>2. Grown(tokens, Token(k, lo, hi), tokens')
    BY <2>1, AppendFacts
  <2> QED BY <2>2 DEF Grown
<1>2. tokens'[n + 1].lo = lo /\ tokens'[n + 1].hi = hi /\ tokens'[n + 1].kind = k
  BY <1>1 DEF Token
<1>3. \A i \in 1 .. n + 1 : i \in 1 .. n \/ i = n + 1
  BY <1>1
<1>4. Len(tokens') = n + 1
  <2>1. tokens' \in Seq({tokens'[i] : i \in DOMAIN tokens'})
    BY <1>1 DEF IsSeq
  <2>2. Len(tokens') \in Nat /\ DOMAIN tokens' = 1 .. Len(tokens')
    BY <2>1, LenProperties
  <2> QED BY <1>1, <2>2
<1> HIDE DEF n
<1>5. LastHi' = hi
  BY <1>1, <1>2, <1>4 DEF LastHi
<1>6. TokensOK'
  <2>1. \A i \in DOMAIN tokens' : TokenOK(tokens'[i].kind, tokens'[i].lo)
    BY <1>1, <1>2, <1>3 DEF TokensOK
  <2> QED BY <2>1 DEF TokensOK, TokenOK, Longest, NoStarAssign, At, len
<1>7. ASSUME GapsOf, GapOf(text, LastHi, lo) PROVE GapsOf'
  <2>1. ASSUME NEW i \in 1 .. n + 1
        PROVE  /\ GapOf(text, IF i = 1 THEN 0 ELSE tokens'[i - 1].hi, tokens'[i].lo)
               /\ tokens'[i].lo < tokens'[i].hi
    <3>1. CASE i = n + 1
      <4>1. (IF i = 1 THEN 0 ELSE tokens'[i - 1].hi) = LastHi
        <5>1. CASE n = 0
          BY <3>1, <5>1 DEF LastHi, n
        <5>2. CASE n # 0
          <6>1. n \in 1 .. n /\ i # 1 /\ i - 1 = n
            BY <1>1, <3>1, <5>2
          <6>2. tokens'[i - 1] = tokens[n]
            BY <1>1, <6>1
          <6> QED BY <5>2, <6>1, <6>2 DEF LastHi, n
        <5> QED BY <5>1, <5>2
      <4> QED BY <1>2, <1>7, <3>1, <4>1
    <3>2. CASE i \in 1 .. n
      <4>1. tokens'[i] = tokens[i] /\ (i # 1 => tokens'[i - 1] = tokens[i - 1])
        BY <1>1, <3>2
      <4> QED BY <1>1, <1>7, <3>2, <4>1 DEF GapsOf
    <3> QED BY <1>3, <3>1, <3>2
  <2>2. \A i \in DOMAIN tokens' : /\ GapOf(text, IF i = 1 THEN 0 ELSE tokens'[i - 1].hi, tokens'[i].lo)
                                  /\ tokens'[i].lo < tokens'[i].hi
    BY <1>1, <2>1
  <2> QED BY <2>2 DEF GapsOf
<1> QED BY <1>5, <1>6, <1>7

----------------------------------------------------------------------------
(* The steps of the scanner, as far as the tokens are concerned. *)

(* Blanks are skipped up to the first character of a token.                *)
Skipped(o) ==
  /\ state = "S0" /\ o \in Nat /\ offset <= o /\ o <= len
  /\ \A q \in offset .. o - 1 : At(q) \in Whitespace
  /\ At(o) \notin Whitespace

(* A token is started.                                                     *)
Opens(o) ==
  /\ Skipped(o)
  /\ spanStart' = o /\ state' \notin Between /\ HandOK(state', o, offset')
  /\ UNCHANGED <<text, tokens>>

(* A token of one character is returned.                                   *)
GivesOne(k, o) ==
  /\ Skipped(o)
  /\ tokens' = Append(tokens, Token(k, o, o + 1)) /\ TokenOK(k, o)
  /\ offset' = o + 1 /\ state' \in Between
  /\ UNCHANGED text

(* More of the token is read.                                              *)
GoesOn ==
  /\ state \notin Between /\ state' \notin Between
  /\ HandOK(state', spanStart, offset')
  /\ UNCHANGED <<text, spanStart, tokens>>

(* The token in hand is returned.                                          *)
Gives(k, o) ==
  /\ state \notin Between
  /\ tokens' = Append(tokens, Token(k, spanStart, o)) /\ TokenOK(k, spanStart)
  /\ offset' = o /\ state' = "S0"
  /\ UNCHANGED text

(* A comment is skipped.                                                   *)
SkipsLine(o) ==
  /\ state = "LineComment" /\ o \in EatUntilNewline(offset)
  /\ offset' = o /\ state' = "S0"
  /\ UNCHANGED <<text, tokens>>

(* One of them.                                                            *)
Scans ==
  \/ GoesOn
  \/ \E o : Opens(o) \/ SkipsLine(o)
  \/ \E k, o : GivesOne(k, o) \/ Gives(k, o)

(* The end of the last token is a natural.                                 *)
LEMMA LastHiNat ==
  ASSUME IInv
  PROVE  LastHi \in Nat
<1>1. IsSeq(tokens)
  BY DEF IInv, TypeOK
<1>2. Len(tokens) \in Nat /\ DOMAIN tokens = 1 .. Len(tokens)
  BY <1>1, LenProperties DEF IsSeq
<1>3. CASE Len(tokens) = 0
  BY <1>3 DEF LastHi
<1>4. CASE Len(tokens) # 0
  <2>1. Len(tokens) \in DOMAIN tokens
    BY <1>2, <1>4
  <2> QED BY <1>4, <2>1 DEF LastHi, IInv, TypeOK
<1> QED BY <1>3, <1>4

(* A text that is not changed keeps its comments.                          *)
LEMMA SameText ==
  ASSUME text' = text
  PROVE  CommentsEnd' <=> CommentsEnd
BY DEF CommentsEnd, At, len

(* Blanks up to the next token: a gap.                                     *)
LEMMA SkippedGap ==
  ASSUME IInv, TextInv, CommentsEnd, NEW o, Skipped(o)
  PROVE  BlankOf(text, LastHi, o) /\ GapOf(text, LastHi, o) /\ AtOf(text, o) \notin Whitespace
<1>1. /\ text \in Seq(STRING) /\ offset \in Nat /\ LastHi \in Nat /\ o \in Nat /\ offset <= o /\ o <= len
      /\ \A q \in offset .. o - 1 : At(q) \in Whitespace
      /\ At(o) \notin Whitespace
  BY LastHiNat DEF IInv, TypeOK, Skipped
<1>2. PICK h \in Nat : h = LastHi
  BY <1>1
<1>3. Blank(h, offset)
  BY <1>2, OfText DEF TextInv, BlankBehind, Skipped
<1>4. Blank(h, o)
  BY <1>1, <1>3, BlankGrows
<1>5. Gap(h, o)
  BY <1>1, <1>4, BlankGap
<1> QED BY <1>1, <1>2, <1>4, <1>5, OfText

(* Starting a token keeps the invariant.                                   *)
LEMMA OpensKeeps ==
  ASSUME IInv, TextInv, NEW o, Opens(o)
  PROVE  TextInv'
<1>1. text' = text /\ tokens' = tokens /\ Skipped(o) /\ spanStart' = o /\ state' \notin Between
      /\ HandOK(state', o, offset')
  BY DEF Opens
<1>2. HandOK(state, spanStart, offset)'
  BY <1>1 DEF HandOK, Slice, At, len
<1>3. TokensOK'
  BY <1>1 DEF TextInv, TokensOK, TokenOK, Longest, NoStarAssign, At, len
<1>4. ASSUME CommentsEnd PROVE BlankBehind' /\ GapsOf'
  <2>1. BlankOf(text, LastHi, o) /\ AtOf(text, o) \notin Whitespace
    BY <1>1, <1>4, SkippedGap
  <2>2. LastHi' = LastHi
    BY <1>1 DEF LastHi
  <2>3. BlankBehind'
    BY <1>1, <2>1, <2>2 DEF BlankBehind, Between
  <2> QED BY <1>1, <1>4, <2>3 DEF TextInv, GapsOf
<1> QED BY <1>1, <1>2, <1>3, <1>4, SameText DEF TextInv

(* Going on keeps the invariant.                                           *)
LEMMA GoesOnKeeps ==
  ASSUME IInv, TextInv, GoesOn
  PROVE  TextInv'
<1>1. /\ text' = text /\ tokens' = tokens /\ spanStart' = spanStart
      /\ state \notin Between /\ state' \notin Between /\ HandOK(state', spanStart, offset')
  BY DEF GoesOn
<1>2. HandOK(state, spanStart, offset)'
  BY <1>1 DEF HandOK, Slice, At, len
<1>3. TokensOK'
  BY <1>1 DEF TextInv, TokensOK, TokenOK, Longest, NoStarAssign, At, len
<1>4. ASSUME CommentsEnd PROVE BlankBehind' /\ GapsOf'
  <2>1. LastHi' = LastHi
    BY <1>1 DEF LastHi
  <2>2. BlankBehind'
    BY <1>1, <1>4, <2>1 DEF TextInv, BlankBehind, Between
  <2> QED BY <1>1, <1>4, <2>2 DEF TextInv, GapsOf
<1> QED BY <1>1, <1>2, <1>3, <1>4, SameText DEF TextInv

(* Skipping a comment keeps the invariant.                                 *)
LEMMA SkipsLineKeeps ==
  ASSUME IInv, TextInv, NEW o, SkipsLine(o)
  PROVE  TextInv'
<1>1. /\ text' = text /\ tokens' = tokens /\ state = "LineComment" /\ state' = "S0"
      /\ offset' = o /\ o \in EatUntilNewline(offset)
  BY DEF SkipsLine
<1>2. HandOK(state, spanStart, offset)'
  BY <1>1 DEF HandOK
<1>3. TokensOK'
  BY <1>1 DEF TextInv, TokensOK, TokenOK, Longest, NoStarAssign, At, len
<1>4. ASSUME CommentsEnd PROVE BlankBehind' /\ GapsOf'
  <2>1. /\ text \in Seq(STRING) /\ offset \in Nat /\ spanStart \in Nat /\ offset <= len /\ len \in Nat
        /\ offset = spanStart + 2 /\ At(spanStart) = "/" /\ At(spanStart + 1) = "/"
    BY <1>1 DEF IInv, TypeOK, InBounds, TextInv, HandOK, len
  <2>2. PICK n \in spanStart .. len - 1 : At(n) = "nl"
    <3>1. spanStart \in 0 .. len - 1
      BY <2>1
    <3> QED BY <1>4, <2>1, <3>1 DEF CommentsEnd
  <2>3. n # spanStart /\ n # spanStart + 1
    BY <2>1, <2>2
  <2>4. n \in offset .. len
    BY <2>1, <2>3
  <2>5. o \in Nat /\ offset <= o /\ At(o) = "nl" /\ \A q \in offset .. o - 1 : At(q) # "nl"
    BY <1>1, <2>1, <2>2, <2>4, NewlineFinds
  <2>6. \A q \in spanStart .. o - 1 : q = spanStart \/ q = spanStart + 1 \/ q \in offset .. o - 1
    BY <2>1, <2>5
  <2>7. \A q \in spanStart .. o - 1 : At(q) # "nl"
    BY <2>1, <2>5, <2>6
  <2>8. PICK h \in Nat : h = LastHi
    BY LastHiNat
  <2>9. Blank(h, spanStart)
    BY <1>1, <1>4, <2>8, OfText DEF TextInv, BlankBehind, Between
  <2>10. spanStart + 2 <= o
    BY <2>1, <2>5
  <2>11. Blank(h, o)
    BY <2>1, <2>5, <2>7, <2>9, <2>10, BlankComment
  <2>12. BlankOf(text, LastHi, o) /\ LastHi' = LastHi
    BY <1>1, <2>8, <2>11, OfText DEF LastHi
  <2>13. BlankBehind'
    BY <1>1, <2>12 DEF BlankBehind, Between
  <2> QED BY <1>1, <1>4, <2>13 DEF TextInv, GapsOf
<1> QED BY <1>1, <1>2, <1>3, <1>4, SameText DEF TextInv

(* Returning a token of one character keeps the invariant.                 *)
LEMMA GivesOneKeeps ==
  ASSUME IInv, TextInv, NEW k, NEW o, GivesOne(k, o)
  PROVE  TextInv'
<1>1. /\ text' = text /\ tokens' = Append(tokens, Token(k, o, o + 1)) /\ TokenOK(k, o)
      /\ Skipped(o) /\ offset' = o + 1 /\ state' \in Between /\ o \in Nat
  BY DEF GivesOne, Skipped
<1>2. HandOK(state, spanStart, offset)'
  BY <1>1 DEF HandOK, Between
<1>3. /\ TokensOK' /\ LastHi' = o + 1
      /\ GapsOf /\ GapOf(text, LastHi, o) => GapsOf'
  <2>1. TypeOK /\ TokensOK /\ o + 1 \in Nat /\ o < o + 1
    BY <1>1 DEF IInv, TextInv
  <2> QED BY <1>1, <2>1, TokenGiven
<1>4. ASSUME CommentsEnd PROVE BlankBehind' /\ GapsOf'
  <2>1. GapsOf'
    BY <1>1, <1>3, <1>4, SkippedGap DEF TextInv
  <2>2. BlankOf(text, o + 1, o + 1)
    BY <1>1, BlankEmpty, OfText
  <2> QED BY <1>1, <1>3, <2>1, <2>2 DEF BlankBehind
<1> QED BY <1>1, <1>2, <1>3, <1>4, SameText DEF TextInv

(* Returning the token in hand keeps the invariant.                        *)
LEMMA GivesKeeps ==
  ASSUME IInv, IInv', TextInv, NEW k, NEW o, Gives(k, o)
  PROVE  TextInv'
<1>1. /\ text' = text /\ tokens' = Append(tokens, Token(k, spanStart, o)) /\ TokenOK(k, spanStart)
      /\ state \notin Between /\ offset' = o /\ state' = "S0"
  BY DEF Gives
<1>2. HandOK(state, spanStart, offset)'
  BY <1>1 DEF HandOK
<1>3. spanStart \in Nat /\ o \in Nat /\ spanStart < o
  <2>1. IsSeq(tokens)
    BY DEF IInv, TypeOK
  <2>2. Grown(tokens, Token(k, spanStart, o), tokens')
    BY <1>1, <2>1, AppendFacts
  <2>3. PICK i \in DOMAIN tokens' : tokens'[i] = Token(k, spanStart, o)
    BY <2>2 DEF Grown
  <2>4. tokens'[i].lo < tokens'[i].hi /\ tokens'[i].hi \in Nat /\ spanStart \in Nat
    BY DEF IInv, TypeOK, TokensInOrder
  <2> QED BY <2>3, <2>4 DEF Token
<1>4. /\ TokensOK' /\ LastHi' = o
      /\ GapsOf /\ GapOf(text, LastHi, spanStart) => GapsOf'
  <2>1. TypeOK /\ TokensOK
    BY DEF IInv, TextInv
  <2> QED BY <1>1, <1>3, <2>1, TokenGiven
<1>5. ASSUME CommentsEnd PROVE BlankBehind' /\ GapsOf'
  <2>1. PICK h \in Nat : h = LastHi
    BY LastHiNat
  <2>2. Blank(h, spanStart) /\ At(spanStart) \notin Whitespace
    BY <1>1, <1>5, <2>1, OfText DEF TextInv, BlankBehind
  <2>3. text \in Seq(STRING) /\ spanStart <= len
    BY <1>1, <1>3 DEF IInv, TypeOK, InBounds, Inside, Between, len
  <2>4. GapOf(text, LastHi, spanStart)
    BY <1>3, <2>1, <2>2, <2>3, BlankGap, OfText
  <2>5. BlankOf(text, o, o)
    BY <1>3, BlankEmpty, OfText
  <2> QED BY <1>1, <1>4, <1>5, <2>4, <2>5 DEF TextInv, BlankBehind, Between
<1> QED BY <1>1, <1>2, <1>4, <1>5, SameText DEF TextInv

(* Every step keeps the invariant.                                         *)
LEMMA ScansKeeps ==
  ASSUME IInv, IInv', TextInv, Scans
  PROVE  TextInv'
BY OpensKeeps, GoesOnKeeps, SkipsLineKeeps, GivesOneKeeps, GivesKeeps DEF Scans

----------------------------------------------------------------------------
(* The ways an action ends. *)

(* The states that say nothing about the characters read. *)
Silent ==
  {"At", "Dollar", "Ident", "Str", "EscapeStr", "IntZero", "IntBin", "IntOct", "IntHex", "IntDec",
   "FloatDot1", "FloatDot2", "FloatExp1", "FloatExp2"}

(* They are states of a token in hand.                                     *)
LEMMA SilentOK ==
  ASSUME NEW s \in Silent, NEW lo, NEW o
  PROVE  HandOK(s, lo, o) /\ s \notin Between
BY DEF Silent, HandOK, Between

(* A kind of the list that is no operator.                                 *)
LEMMA OtherOK ==
  ASSUME NEW tag \in OtherKinds, tag # "op", NEW arg, NEW lo
  PROVE  TokenOK(K(tag, arg), lo)
BY DEF TokenOK, K

(* The kinds of the list that the actions name.                            *)
LEMMA Kinds ==
  /\ {"Ident", "DirectiveIdent", "LitInt", "LitFloat", "LitBool", "LitStr", "LitMultiLineStr",
      "LitNull", "TyU", "TyI", "Invalid", "Eof"} \subseteq OtherKinds
  /\ \A w \in DOMAIN KeywordKind : KeywordKind[w] \in OtherKinds /\ KeywordKind[w] # "op"
  /\ \A w \in DOMAIN DirectiveKind : DirectiveKind[w] \in OtherKinds /\ DirectiveKind[w] # "op"
<1>1. \A w \in DOMAIN KeywordKind : KeywordKind[w] # "op"
  BY DEF KeywordKind
<1>2. \A w \in DOMAIN DirectiveKind : DirectiveKind[w] # "op"
  BY DEF DirectiveKind
<1> QED BY <1>1, <1>2 DEF OtherKinds

(* A valid token is returned.                                              *)
LEMMA EmitScans ==
  ASSUME state \notin Between, NEW k, NEW o, Emit(k, o), k.tag # "Eof", TokenOK(k, spanStart)
  PROVE  Scans
<1>1. Gives(k, o)
  BY DEF Gives, Emit, Return, Token
<1> QED BY <1>1 DEF Scans

(* A token of a kind that is no operator is returned.                      *)
LEMMA EmitOther ==
  ASSUME state \notin Between, NEW tag \in OtherKinds, tag \notin {"op", "Eof"}, NEW arg, NEW o,
         Emit(K(tag, arg), o)
  PROVE  Scans
<1>1. TokenOK(K(tag, arg), spanStart)
  BY OtherOK
<1>2. K(tag, arg).tag # "Eof"
  BY DEF K
<1> QED BY <1>1, <1>2, EmitScans

(* An invalid token is returned.                                           *)
LEMMA InvalidScans ==
  ASSUME state \notin Between, NEW o, Return(K("Invalid", <<>>), o)
  PROVE  Scans
<1>1. PICK k : k = K("Invalid", <<>>)
  OBVIOUS
<1>2. TokenOK(k, spanStart) /\ k.tag # "Eof"
  BY <1>1, Kinds, OtherOK DEF K
<1>3. Gives(k, o)
  BY <1>1, <1>2 DEF Gives, Return, Token
<1> QED BY <1>3 DEF Scans

(* So is one by each of the diag_* functions.                              *)
LEMMA RejectScans ==
  ASSUME state \notin Between, NEW o, Reject(o) \/ RejectString(o)
  PROVE  Scans
BY InvalidScans DEF Reject, RejectString

(* The token goes on in a state that says nothing.                         *)
LEMMA GotoScans ==
  ASSUME state \notin Between, NEW s \in Silent, state' = s,
         UNCHANGED <<text, spanStart, tokens>>
  PROVE  Scans
<1>1. GoesOn
  BY SilentOK DEF GoesOn
<1> QED BY <1>1 DEF Scans

----------------------------------------------------------------------------
(* Every action is such a step. *)

(* A builtin, a comptime name, an escaped name or a lone sigil.            *)
LEMMA SigilScans ==
  ASSUME Sigil
  PROVE  Scans
<1>1. state \notin Between
  BY DEF Sigil, Between
<1>2. ASSUME NEW s \in {"Ident", "Str"}, Goto(s, offset + 1) PROVE Scans
  BY <1>1, <1>2, GotoScans DEF Goto, Silent
<1>3. ASSUME NEW c, SigilReject(c) PROVE Scans
  BY <1>1, <1>3, RejectScans DEF SigilReject
<1> QED BY <1>2, <1>3 DEF Sigil

(* A name, a keyword or an integer type.                                   *)
LEMMA IdentScans ==
  ASSUME IInv, Ident
  PROVE  Scans
<1>1. state \notin Between /\ state = "Ident"
  BY DEF Ident, Between
<1>2. PICK o, str : o = SkipWhile(IdentCont, offset) /\ str = Slice(spanStart, o)
  OBVIOUS
<1>3. CASE Emit(kind, o)
  <2>1. kind.tag = "Ident"
    BY <1>1 DEF IInv, TypeOK, KindOK
  <2>2. TokenOK(kind, spanStart)
    BY <2>1, Kinds DEF TokenOK
  <2> QED BY <1>1, <1>3, <2>1, <2>2, EmitScans
<1>4. CASE str[1] \in DOMAIN KeywordKind /\ Emit(K(KeywordKind[str[1]], <<>>), o)
  <2>1. PICK d : d = KeywordKind[str[1]]
    OBVIOUS
  <2>2. d \in OtherKinds /\ d \notin {"op", "Eof"}
    BY <1>4, <2>1, Kinds, KeywordTags
  <2> QED BY <1>1, <1>4, <2>1, <2>2, EmitOther
<1>5. CASE Reject(o)
  BY <1>1, <1>5, RejectScans
<1>6. CASE \E tag \in {"TyU", "TyI"} : \E arg : Emit(K(tag, arg), o)
  <2>1. PICK tag \in {"TyU", "TyI"} : \E arg : Emit(K(tag, arg), o)
    BY <1>6
  <2>2. PICK arg : Emit(K(tag, arg), o)
    BY <2>1
  <2>3. tag \in OtherKinds /\ tag \notin {"op", "Eof"}
    BY Kinds
  <2> QED BY <1>1, <2>2, <2>3, EmitOther
<1> QED BY <1>2, <1>3, <1>4, <1>5, <1>6 DEF Ident

(* A piece of a string.                                                    *)
LEMMA StrScans ==
  ASSUME IInv, Str
  PROVE  Scans
<1>1. state \notin Between /\ state = "Str"
  BY DEF Str, Between
<1>2. PICK k : k = IF kind.tag = "LitStr" THEN K("LitStr", scratch) ELSE kind
  OBVIOUS
<1>3. k.tag \in {"LitStr", "Ident"}
  BY <1>1, <1>2 DEF IInv, TypeOK, KindOK, K
<1>4. \/ RejectString(len)
      \/ StrNewline
      \/ Return(k, offset + 1)
      \/ Goto("EscapeStr", offset + 1)
      \/ UNCHANGED <<text, spanStart, state, tokens>>
  BY <1>2, Zenon DEF Str
<1>5. CASE Return(k, offset + 1)
  <2>1. TokenOK(k, spanStart) /\ k.tag # "Eof"
    BY <1>3, Kinds DEF TokenOK
  <2>2. Gives(k, offset + 1)
    BY <1>1, <1>5, <2>1 DEF Gives, Return, Token
  <2> QED BY <2>2 DEF Scans
<1>6. CASE Goto("EscapeStr", offset + 1)
  BY <1>1, <1>6, GotoScans DEF Goto, Silent
<1>7. CASE UNCHANGED <<text, spanStart, state, tokens>>
  BY <1>1, <1>7, GotoScans DEF Silent
<1>8. CASE StrNewline
  BY <1>1, <1>8, InvalidScans DEF StrNewline
<1> QED BY <1>1, <1>4, <1>5, <1>6, <1>7, <1>8, RejectScans

(* An escape of a string.                                                  *)
LEMMA EscapeStrScans ==
  ASSUME EscapeStr
  PROVE  Scans
<1>1. state \notin Between
  BY DEF EscapeStr, Between
<1>2. ASSUME NEW char, NEW o, Push(char, o) PROVE Scans
  BY <1>1, <1>2, GotoScans DEF Push, Silent
<1>3. ASSUME NEW o, ByteEscape(o) PROVE Scans
  BY <1>1, <1>2, <1>3, RejectScans DEF ByteEscape
<1>4. ASSUME NEW o, UnicodeEscape(o) PROVE Scans
  BY <1>1, <1>2, <1>4, RejectScans DEF UnicodeEscape
<1>5. \/ \E o : RejectString(o)
      \/ \E char : Push(char, offset + 1)
      \/ ByteEscape(offset + 1)
      \/ UnicodeEscape(offset + 1)
  BY Zenon DEF EscapeStr
<1> QED BY <1>1, <1>2, <1>3, <1>4, <1>5, RejectScans

(* Numbers.                                                                *)
LEMMA NumberScans ==
  ASSUME IntZero \/ IntRadix \/ IntDec \/ FloatDot1 \/ FloatDot2 \/ FloatExp1 \/ FloatExp2
  PROVE  Scans
<1>1. state \notin Between
  BY DEF IntZero, IntRadix, IntDec, FloatDot1, FloatDot2, FloatExp1, FloatExp2, Between, RadixDigits
<1>2. ASSUME NEW s \in Silent, NEW o, Goto(s, o) PROVE Scans
  BY <1>1, <1>2, GotoScans DEF Goto
<1>3. ASSUME NEW tag \in {"LitInt", "LitFloat"}, NEW arg, NEW o, Emit(K(tag, arg), o) PROVE Scans
  <2>1. tag \in OtherKinds /\ tag \notin {"op", "Eof"}
    BY Kinds
  <2> QED BY <1>1, <1>3, <2>1, EmitOther
<1>4. \A c \in DOMAIN RadixState : RadixState[c] \in Silent
  BY RadixStates DEF Silent
<1>5. CASE IntZero
  <2>1. \/ At(offset) \in DOMAIN RadixState /\ Goto(RadixState[At(offset)], offset + 1)
        \/ Goto("IntDec", offset + 1)
        \/ Emit(K("LitInt", <<"Decimal">>), offset)
    BY <1>5, Zenon DEF IntZero
  <2>2. CASE At(offset) \in DOMAIN RadixState /\ Goto(RadixState[At(offset)], offset + 1)
    <3>1. PICK s : s = RadixState[At(offset)]
      OBVIOUS
    <3>2. s \in Silent
      BY <1>4, <2>2, <3>1
    <3> QED BY <1>2, <2>2, <3>1, <3>2
  <2>3. CASE Goto("IntDec", offset + 1)
    BY <1>2, <2>3 DEF Silent
  <2> QED BY <1>3, <2>1, <2>2, <2>3
<1>6. CASE IntRadix
  BY <1>1, <1>3, <1>6, RejectScans DEF IntRadix
<1>7. CASE IntDec
  <2>1. PICK o : o = SkipWhile(Digit \cup Uscore, offset)
    OBVIOUS
  <2>2. CASE At(o) \in {".", "e", "E"}
    <3>1. PICK s : s = RadixState[At(o)]
      OBVIOUS
    <3>2. At(o) \in DOMAIN RadixState
      BY <2>2, Zenon DEF RadixState
    <3>3. s \in Silent
      BY <1>4, <3>1, <3>2
    <3>4. Goto(s, o + 1)
      BY <1>7, <2>1, <2>2, <3>1 DEF IntDec
    <3> QED BY <1>2, <3>3, <3>4
  <2>3. CASE At(o) \notin {".", "e", "E"}
    BY <1>3, <1>7, <2>1, <2>3 DEF IntDec
  <2> QED BY <2>2, <2>3
<1>8. CASE FloatDot1
  <2>1. \/ Reject(offset + 1)
        \/ Goto("FloatDot2", offset + 1)
        \/ Emit(K("LitInt", <<"Decimal">>), offset - 1)
        \/ Emit(K("LitFloat", <<>>), offset)
    BY <1>8, Zenon DEF FloatDot1
  <2>2. CASE Goto("FloatDot2", offset + 1)
    BY <1>2, <2>2 DEF Silent
  <2> QED BY <1>1, <1>3, <2>1, <2>2, RejectScans
<1>9. CASE FloatDot2
  <2>1. PICK o : Goto("FloatExp1", o + 1) \/ Emit(K("LitFloat", <<>>), o)
    BY <1>9 DEF FloatDot2
  <2>2. CASE Goto("FloatExp1", o + 1)
    BY <1>2, <2>2 DEF Silent
  <2> QED BY <1>3, <2>1, <2>2
<1>10. CASE FloatExp1
  <2>1. \/ \E o : Goto("FloatExp2", o)
        \/ Reject(offset)
    BY <1>10, Zenon DEF FloatExp1
  <2>2. CASE \E o : Goto("FloatExp2", o)
    BY <1>2, <2>2 DEF Silent
  <2> QED BY <1>1, <2>1, <2>2, RejectScans
<1>11. CASE FloatExp2
  BY <1>1, <1>3, <1>11, RejectScans DEF FloatExp2
<1> QED BY <1>5, <1>6, <1>7, <1>8, <1>9, <1>10, <1>11

(* An operator of the list that the character after it does not extend.    *)
LEMMA OpToken ==
  ASSUME text \in Seq(STRING), NEW lo \in Nat, NEW hi \in Nat, lo < hi, hi <= len,
         NEW a \in OperatorSpellings, a = Slice(lo, hi),
         a \in OpStates => At(hi) \notin Arms(a),
         a = <<".">> => At(hi) \notin {".", "*", "?"}
  PROVE  TokenOK(K("op", a), lo)
<1>1. NoStarAssign => Longest(a, lo)
  BY LongestHere
<1> QED BY <1>1 DEF TokenOK, K

(* A character that is an operator and starts no longer one.               *)
LEMMA CharToken ==
  ASSUME text \in Seq(STRING), NEW lo \in Nat, lo < len, NEW c, c = At(lo),
         c \in Single \cup {"#", "under", "\\"}
  PROVE  TokenOK(K("op", <<c>>), lo)
<1>0. PICK hi \in Nat : hi = lo + 1
  OBVIOUS
<1>1. PICK a : a = <<c>>
  OBVIOUS
<1>2. a \in OperatorSpellings
  BY <1>1 DEF OperatorSpellings, OneCharOps
<1>3. a = Slice(lo, hi)
  BY <1>0, <1>1, SliceOne
<1>4. c \notin OpStart /\ c # "."
  BY DEF OpStart, Single
<1>5. a \notin OpStates
  BY <1>1, <1>4, OneCharStates
<1>6. a # <<".">>
  BY <1>1, <1>4
<1>7. lo < hi /\ hi <= len
  BY <1>0 DEF len
<1>8. TokenOK(K("op", a), lo)
  BY <1>2, <1>3, <1>5, <1>6, <1>7, OpToken
<1> QED BY <1>1, <1>8

(* What the state of a first character says of it.                         *)
LEMMA LetterHand ==
  ASSUME NEW c \in DOMAIN LetterState, NEW o \in Nat, At(o) = c
  PROVE  HandOK(LetterState[c], o, o + 1) /\ LetterState[c] \notin Between
<1>1. PICK s : s = LetterState[c]
  OBVIOUS
<1>2. /\ s \in {"Hash", "At", "Dollar", "Dot", "Underscore", "Backslash", "Str", "IntZero"}
      /\ s = "Hash" => c = "#"
      /\ s = "Dot" => c = "."
      /\ s = "Underscore" => c = "under"
      /\ s = "Backslash" => c = "\\"
  BY <1>1, Zenon DEF LetterState
<1>3. HandOK(s, o, o + 1)
  BY <1>2 DEF HandOK
<1> QED BY <1>1, <1>2, <1>3 DEF Between

(* A first character is read.                                              *)
LEMMA S0Scans ==
  ASSUME IInv, S0
  PROVE  Scans
<1>1. text \in Seq(STRING) /\ offset \in Nat /\ offset <= len /\ state = "S0" /\ len \in Nat
  BY DEF IInv, TypeOK, InBounds, S0, len
<1>2. PICK o : o = SkipWhile(Whitespace, offset)
  OBVIOUS
<1>3. /\ o \in offset .. len /\ At(o) \notin Whitespace
      /\ \A q \in offset .. o - 1 : At(q) \in Whitespace
  BY <1>1, <1>2, Classes, SkipStops
<1>4. Skipped(o) /\ o \in Nat
  BY <1>1, <1>3 DEF Skipped
<1>5. At(o) # "nul" => o < len
  BY <1>1, <1>3, BeforeEnd
<1> DEFINE Begin(s) ==
             /\ state' = s /\ offset' = o + 1 /\ spanStart' = o
             /\ UNCHANGED <<text, tokens>>
           End(k) ==
             /\ tokens' = Append(tokens, [kind |-> k, lo |-> o, hi |-> o + 1])
             /\ offset' = o + 1
             /\ state' = IF k.tag = "Eof" THEN "Done" ELSE "S0"
             /\ UNCHANGED text
<1>6. \/ At(o) = "nul" /\ End(NoKind)
      \/ At(o) \in Single /\ End(K("op", <<At(o)>>))
      \/ At(o) \in OpStart /\ Begin("Op")
      \/ At(o) \in DOMAIN LetterState /\ Begin(LetterState[At(o)])
      \/ Begin("Ident")
      \/ Begin("IntDec")
      \/ End(K("Invalid", <<>>))
  BY <1>2, ZenonT(60) DEF S0
<1>7. ASSUME NEW s, Begin(s), HandOK(s, o, o + 1), s \notin Between PROVE Scans
  <2>1. Opens(o)
    BY <1>4, <1>7 DEF Opens
  <2> QED BY <2>1 DEF Scans
<1>8. ASSUME NEW k, End(k), TokenOK(k, o) PROVE Scans
  <2>1. GivesOne(k, o)
    BY <1>4, <1>8 DEF GivesOne, Token, Between
  <2> QED BY <2>1 DEF Scans
<1> HIDE DEF Begin, End
<1>9. CASE End(NoKind) \/ End(K("Invalid", <<>>))
  <2>1. TokenOK(K("Eof", <<>>), o) /\ TokenOK(K("Invalid", <<>>), o)
    BY Kinds, OtherOK
  <2> QED BY <1>8, <1>9, <2>1 DEF NoKind
<1>10. CASE At(o) \in Single /\ End(K("op", <<At(o)>>))
  <2>1. PICK c : c = At(o)
    OBVIOUS
  <2>2. o < len
    BY <1>5, <1>10 DEF Single
  <2>3. TokenOK(K("op", <<c>>), o)
    BY <1>1, <1>4, <1>10, <2>1, <2>2, CharToken
  <2> QED BY <1>8, <1>10, <2>1, <2>3
<1>11. CASE At(o) \in OpStart /\ Begin("Op")
  <2>1. o < len
    BY <1>5, <1>11 DEF OpStart
  <2>2. Slice(o, o + 1) \in OpStates
    BY <1>1, <1>4, <1>11, <2>1, SliceOne, StartRows
  <2>3. HandOK("Op", o, o + 1) /\ "Op" \notin Between
    BY <2>2 DEF HandOK, Between
  <2> QED BY <1>7, <1>11, <2>3
<1>12. CASE At(o) \in DOMAIN LetterState /\ Begin(LetterState[At(o)])
  BY <1>4, <1>7, <1>12, LetterHand
<1>13. ASSUME NEW s \in {"Ident", "IntDec"}, Begin(s) PROVE Scans
  <2>1. s \in Silent
    BY DEF Silent
  <2> QED BY <1>7, <1>13, <2>1, SilentOK
<1> QED BY <1>6, <1>9, <1>10, <1>11, <1>12, <1>13

(* A comment.                                                              *)
LEMMA LineCommentScans ==
  ASSUME LineComment
  PROVE  Scans
<1>1. PICK o \in EatUntilNewline(offset) : Goto("S0", o)
  BY DEF LineComment
<1>2. SkipsLine(o)
  BY <1>1 DEF LineComment, SkipsLine, Goto
<1> QED BY <1>2 DEF Scans

(* A character that stands alone for an operator, or starts something else. *)
LEMMA CharScans ==
  ASSUME IInv, TextInv, state \in {"Hash", "Underscore", "Backslash"},
         NEW c \in {"#", "under", "\\"}, HandOK(state, spanStart, offset) => At(spanStart) = c,
         Emit(K("op", <<c>>), offset)
  PROVE  Scans
<1>1. InToken /\ state \notin Between
  BY DEF InToken, Between
<1>2. text \in Seq(STRING) /\ spanStart \in Nat /\ spanStart < len
  BY <1>1, Here DEF Ahead
<1>3. At(spanStart) = c
  BY DEF TextInv
<1>4. TokenOK(K("op", <<c>>), spanStart)
  BY <1>2, <1>3, CharToken
<1>5. K("op", <<c>>).tag # "Eof"
  BY DEF K
<1> QED BY <1>1, <1>4, <1>5, EmitScans

(* A line of a multi-line string, or a backslash.                          *)
LEMMA BackslashScans ==
  ASSUME IInv, TextInv, Backslash
  PROVE  Scans
<1>1. state \notin Between /\ state = "Backslash"
  BY DEF Backslash, Between
<1>2. CASE Emit(K("op", <<"\\">>), offset)
  BY <1>1, <1>2, CharScans DEF HandOK
<1>3. ASSUME NEW arg, NEW o, Emit(K("LitMultiLineStr", arg), o) PROVE Scans
  <2>1. "LitMultiLineStr" \in OtherKinds
    BY Kinds
  <2> QED BY <1>1, <1>3, <2>1, EmitOther
<1> QED BY <1>2, <1>3 DEF Backslash

(* A directive, or a hash.                                                 *)
LEMMA HashScans ==
  ASSUME IInv, TextInv, Hash
  PROVE  Scans
<1>1. state \notin Between /\ state = "Hash"
  BY DEF Hash, Between
<1>2. PICK o, name : o = SkipWhile(IdentCont, offset) /\ name = Slice(spanStart + 1, o)
  OBVIOUS
<1>3. CASE Emit(K("op", <<"#">>), offset)
  BY <1>1, <1>3, CharScans DEF HandOK
<1>4. CASE name[1] \in DOMAIN DirectiveKind /\ Emit(K(DirectiveKind[name[1]], <<>>), o)
  <2>1. PICK d : d = DirectiveKind[name[1]]
    OBVIOUS
  <2>2. d \in OtherKinds /\ d \notin {"op", "Eof"}
    BY <1>4, <2>1, Kinds, DirectiveTags
  <2> QED BY <1>1, <1>4, <2>1, <2>2, EmitOther
<1>5. CASE Emit(K("DirectiveIdent", name), o)
  <2>1. "DirectiveIdent" \in OtherKinds
    BY Kinds
  <2> QED BY <1>1, <1>5, <2>1, EmitOther
<1> QED BY <1>2, <1>3, <1>4, <1>5 DEF Hash

(* A name that starts with an underscore, or the underscore.               *)
LEMMA UnderscoreScans ==
  ASSUME IInv, TextInv, Underscore
  PROVE  Scans
<1>1. state \notin Between /\ state = "Underscore"
  BY DEF Underscore, Between
<1>2. CASE Emit(K("op", <<"under">>), offset)
  BY <1>1, <1>2, CharScans DEF HandOK
<1>3. CASE Goto("Ident", offset + 1)
  BY <1>1, <1>3, GotoScans DEF Goto, Silent
<1> QED BY <1>2, <1>3 DEF Underscore

(* An operator is extended, ends, or turns out to be a comment.            *)
LEMMA OpScans ==
  ASSUME IInv, TextInv, Op
  PROVE  Scans
<1>1. InToken /\ state \notin Between /\ state = "Op"
  BY DEF Op, InToken, Between
<1>2. /\ text \in Seq(STRING) /\ spanStart \in Nat /\ offset \in Nat /\ len \in Nat
      /\ spanStart < offset /\ offset <= len
  BY <1>1, Here DEF Ahead
<1>3. PICK a, c : a = Slice(spanStart, offset) /\ c = At(offset)
  OBVIOUS
<1>4. PICK b : b = Append(a, c)
  OBVIOUS
<1>5. \/ c \notin Arms(a) /\ Emit(K("op", a), offset)
      \/ c \in Arms(a) /\ b = <<"/", "/">> /\ Goto("LineComment", offset + 1)
      \/ c \in Arms(a) /\ b \in OpStates /\ Goto("Op", offset + 1)
      \/ c \in Arms(a) /\ b # <<"/", "/">> /\ b \notin OpStates /\ Emit(K("op", b), offset + 1)
  BY <1>3, <1>4, Zenon DEF Op
<1>6. a \in OpStates
  BY <1>1, <1>3 DEF TextInv, HandOK
<1>7. a \in OperatorSpellings /\ (c \in Arms(a) => b \in OperatorSpellings \cup {<<"/", "/">>})
  BY <1>4, <1>6, StatesListed
<1>8. ASSUME NEW d PROVE K("op", d).tag # "Eof"
  BY DEF K
<1>9. CASE c \notin Arms(a) /\ Emit(K("op", a), offset)
  <2>1. a # <<".">>
    BY <1>6, OneCharStates DEF OpStart
  <2>2. TokenOK(K("op", a), spanStart)
    BY <1>2, <1>3, <1>7, <1>9, <2>1, OpToken
  <2> QED BY <1>1, <1>8, <1>9, <2>2, EmitScans
<1>10. CASE c \in Arms(a)
  <2>1. offset < len /\ offset + 1 <= len
    <3>1. c # "nul"
      BY <1>10, ArmChars
    <3> QED BY <1>2, <1>3, <3>1, BeforeEnd
  <2>2. PICK e \in Nat : e = offset + 1
    BY <1>2
  <2>3. b = Slice(spanStart, e) /\ spanStart < e /\ spanStart <= e /\ e <= len
    BY <1>2, <1>3, <1>4, <2>1, <2>2, SliceNext
  <2>4. CASE b = <<"/", "/">> /\ Goto("LineComment", offset + 1)
    <3>1. Len(b) = e - spanStart /\ \A j \in 1 .. e - spanStart : b[j] = At(spanStart + j - 1)
      BY <1>2, <2>3, SliceChars
    <3>2. Len(b) = 2 /\ b[1] = "/" /\ b[2] = "/"
      BY <2>4
    <3>3. e = spanStart + 2 /\ 1 \in 1 .. e - spanStart /\ 2 \in 1 .. e - spanStart
      <4>1. e - spanStart = 2
        BY <3>1, <3>2
      <4> QED BY <1>2, <4>1
    <3>4. At(spanStart + 1 - 1) = "/" /\ At(spanStart + 2 - 1) = "/"
      BY <3>1, <3>2, <3>3
    <3>5. spanStart + 1 - 1 = spanStart /\ spanStart + 2 - 1 = spanStart + 1
      BY <1>2
    <3>6. HandOK("LineComment", spanStart, e)
      BY <3>3, <3>4, <3>5 DEF HandOK
    <3>7. GoesOn
      BY <1>1, <2>2, <2>4, <3>6 DEF GoesOn, Goto, Between
    <3> QED BY <3>7 DEF Scans
  <2>5. CASE b \in OpStates /\ Goto("Op", offset + 1)
    <3>1. HandOK("Op", spanStart, e)
      BY <2>3, <2>5 DEF HandOK
    <3>2. GoesOn
      BY <1>1, <2>2, <2>5, <3>1 DEF GoesOn, Goto, Between
    <3> QED BY <3>2 DEF Scans
  <2>6. CASE b # <<"/", "/">> /\ b \notin OpStates /\ Emit(K("op", b), offset + 1)
    <3>1. b # <<".">>
      <4>1. Len(b) = e - spanStart
        BY <1>2, <2>3, SliceChars
      <4>2. Len(b) # 1
        BY <1>2, <2>2, <4>1
      <4>3. Len(<<".">>) = 1
        OBVIOUS
      <4> QED BY <4>2, <4>3
    <3>2. TokenOK(K("op", b), spanStart)
      BY <1>2, <1>7, <1>10, <2>3, <2>6, <3>1, OpToken
    <3> QED BY <1>1, <1>8, <2>6, <3>2, EmitScans
  <2> QED BY <1>5, <1>10, <2>4, <2>5, <2>6
<1> QED BY <1>5, <1>9, <1>10

(* A dot: a range, a postfix operator, a number or itself.                 *)
LEMMA DotScans ==
  ASSUME IInv, TextInv, Dot
  PROVE  Scans
<1>1. InToken /\ state \notin Between /\ state = "Dot"
  BY DEF Dot, InToken, Between
<1>2. /\ text \in Seq(STRING) /\ spanStart \in Nat /\ offset \in Nat /\ len \in Nat
      /\ spanStart < offset /\ offset <= len /\ spanStart < len
  BY <1>1, Here DEF Ahead
<1>3. PICK c : c = At(offset)
  OBVIOUS
<1>4. offset = spanStart + 1 /\ At(spanStart) = "."
  BY <1>1 DEF TextInv, HandOK
<1>5. \/ c = "." /\ Goto("Op", offset + 1)
      \/ c \in {"*", "?"} /\ Emit(K("op", <<".", c>>), offset + 1)
      \/ Goto("FloatDot2", offset + 1)
      \/ c \notin {".", "*", "?"} /\ Emit(K("op", <<".">>), offset)
  BY <1>3, Zenon DEF Dot
<1>6. PICK a : a = <<".">>
  OBVIOUS
<1>7. a = Slice(spanStart, offset)
  BY <1>2, <1>4, <1>6, SliceOne
<1>8. ASSUME NEW d PROVE K("op", d).tag # "Eof"
  BY DEF K
<1>9. ASSUME c \in {".", "*", "?"}
      PROVE  /\ <<".", c>> = Slice(spanStart, offset + 1)
             /\ offset + 1 <= len
  <2>1. offset < len
    BY <1>2, <1>3, <1>9, BeforeEnd
  <2>2. spanStart <= offset
    BY <1>2
  <2>3. Slice(spanStart, offset + 1) = Append(a, c)
    BY <1>2, <1>3, <1>7, <2>1, <2>2, SliceNext
  <2>4. Append(a, c) = <<".", c>>
    BY <1>6, Append1
  <2> QED BY <1>2, <2>1, <2>3, <2>4
<1>10. CASE c = "." /\ Goto("Op", offset + 1)
  <2>1. <<".", ".">> \in OpStates
    BY DotRows DEF Extends
  <2>2. HandOK("Op", spanStart, offset + 1)
    BY <1>9, <1>10, <2>1 DEF HandOK
  <2>3. GoesOn
    BY <1>1, <1>10, <2>2 DEF GoesOn, Goto, Between
  <2> QED BY <2>3 DEF Scans
<1>11. CASE c \in {"*", "?"} /\ Emit(K("op", <<".", c>>), offset + 1)
  <2>0. PICK e \in Nat : e = offset + 1
    BY <1>2
  <2>1. PICK b : b = <<".", c>>
    OBVIOUS
  <2>2. b \in OperatorSpellings
    BY <1>11, <2>1 DEF OperatorSpellings, TwoCharOps
  <2>3. b = Slice(spanStart, e) /\ spanStart < e /\ e <= len
    BY <1>2, <1>9, <1>11, <2>0, <2>1
  <2>4. b \notin OpStates
    BY <1>11, <2>1, DotStates
  <2>5. b # <<".">>
    BY <2>1
  <2>6. TokenOK(K("op", b), spanStart)
    BY <1>2, <2>2, <2>3, <2>4, <2>5, OpToken
  <2> QED BY <1>1, <1>8, <1>11, <2>0, <2>1, <2>6, EmitScans
<1>12. CASE Goto("FloatDot2", offset + 1)
  BY <1>1, <1>12, GotoScans DEF Goto, Silent
<1>13. CASE c \notin {".", "*", "?"} /\ Emit(K("op", <<".">>), offset)
  <2>1. a \in OperatorSpellings
    BY <1>6 DEF OperatorSpellings, OneCharOps
  <2>2. a \notin OpStates
    BY <1>6, OneCharStates DEF OpStart
  <2>3. TokenOK(K("op", a), spanStart)
    BY <1>2, <1>3, <1>7, <1>13, <2>1, <2>2, OpToken
  <2> QED BY <1>1, <1>6, <1>8, <1>13, <2>3, EmitScans
<1> QED BY <1>5, <1>10, <1>11, <1>12, <1>13

----------------------------------------------------------------------------
(* The theorems. *)

(* The invariant holds before the first character is read.                 *)
LEMMA InitText == Init => TextInv
<1> SUFFICES ASSUME Init PROVE TextInv
  OBVIOUS
<1>1. tokens = <<>> /\ DOMAIN tokens = {} /\ Len(tokens) = 0 /\ state = "S0" /\ offset = 0
  BY DEF Init
<1>2. HandOK(state, spanStart, offset) /\ TokensOK /\ GapsOf
  BY <1>1 DEF HandOK, TokensOK, GapsOf
<1>3. LastHi = 0
  BY <1>1 DEF LastHi
<1>4. BlankOf(text, 0, 0)
  BY BlankEmpty, OfText
<1>5. BlankBehind
  BY <1>1, <1>3, <1>4 DEF BlankBehind, Between
<1> QED BY <1>2, <1>5 DEF TextInv

(* Every step keeps it.                                                    *)
LEMMA StepText == IInv /\ IInv' /\ TextInv /\ [Next]_vars => TextInv'
<1> SUFFICES ASSUME IInv, IInv', TextInv, [Next]_vars PROVE TextInv'
  OBVIOUS
<1>1. CASE UNCHANGED vars
  <2>1. text' = text /\ tokens' = tokens /\ spanStart' = spanStart /\ offset' = offset /\ state' = state
    BY <1>1 DEF vars
  <2>2. HandOK(state, spanStart, offset)'
    BY <2>1 DEF TextInv, HandOK, Slice, At, len
  <2>3. TokensOK'
    BY <2>1 DEF TextInv, TokensOK, TokenOK, Longest, NoStarAssign, At, len
  <2>4. (BlankBehind <=> BlankBehind') /\ (GapsOf <=> GapsOf')
    BY <2>1 DEF BlankBehind, LastHi, GapsOf
  <2> QED BY <2>1, <2>2, <2>3, <2>4, SameText DEF TextInv
<1>2. CASE Next /\ ~Finished
  <2>1. Scans
    BY <1>2, S0Scans, OpScans, DotScans, LineCommentScans, BackslashScans, HashScans, SigilScans,
       UnderscoreScans, IdentScans, StrScans, EscapeStrScans, NumberScans DEF Next
  <2> QED BY <2>1, ScansKeeps
<1>3. CASE Finished
  BY <1>1, <1>3 DEF Finished
<1> QED BY <1>1, <1>2, <1>3

(* The invariant holds of every scan of every text.                        *)
THEOREM LexerTextInvariant == Spec => [](IInv /\ TextInv)
BY LexerInvariant, InitText, StepText, PTL DEF Spec

(* Every token of every text is of a kind of the tokens! list, an operator *)
(* of a spelling of it: no state of the machine makes up another one.      *)
THEOREM LexerKindsListed == Spec => []KindsListed
<1>1. TextInv => KindsListed
  BY DEF TextInv, TokensOK, TokenOK, KindsListed
<1> QED BY <1>1, LexerTextInvariant, PTL

(* Nothing of a text is lost: what lies between two tokens is blanks and   *)
(* whole comments, when every comment has a line end.                      *)
THEOREM LexerGapsBlank == Spec => [](CommentsEnd => GapsBlank)
<1>1. ASSUME TextInv, CommentsEnd PROVE GapsBlank
  BY <1>1, OfText DEF TextInv, GapsOf, GapsBlank
<1> QED BY <1>1, LexerTextInvariant, PTL

(* No operator of the list is cut in two, but `*=`: the states and arms of *)
(* the machine are all there.                                              *)
THEOREM LexerLongest == Spec => [](NoStarAssign => LongestOperator)
<1>1. ASSUME TextInv, NoStarAssign PROVE LongestOperator
  BY <1>1 DEF TextInv, TokensOK, TokenOK, Longest, LongestOperator
<1> QED BY <1>1, LexerTextInvariant, PTL

(* The tokens of a text are the text: of kinds of the list, with nothing   *)
(* but blanks and comments in between, the operators as long as they can   *)
(* be, what is invalid reported and kept to its line.  A text that ends in *)
(* a comment or holds `*=` is excepted, where the code does otherwise.     *)
THEOREM LexerSpellsText == Spec => [](CommentsEnd /\ NoStarAssign => TokensSpellText)
<1>1. IInv => InvalidReported /\ RecoversOnLine
  BY ReportsAll DEF IInv
<1>2. IInv /\ CommentsEnd /\ NoStarAssign /\ KindsListed /\ (CommentsEnd => GapsBlank)
        /\ (NoStarAssign => LongestOperator) => TokensSpellText
  BY <1>1 DEF TokensSpellText
<1> QED BY <1>2, LexerInvariant, LexerKindsListed, LexerGapsBlank, LexerLongest, PTL

----------------------------------------------------------------------------
(* The values of strings: what a string's text spells. *)

(* The recursion of Decode, for a function f.                              *)
UnitsStep(s, f, p) == IF p \in 1 .. Len(s) THEN <<UnitAt(s, p)>> \o f[UnitEnd(s, p)] ELSE <<>>

(* f is what the recursion of Decode defines.                              *)
IsUnits(s, f) == f = [p \in Nat |-> UnitsStep(s, f, p)]

(* The units from each position on.                                        *)
Units(s) == CHOOSE f : IsUnits(s, f)

(* Decode reads the units from the first position on.                      *)
LEMMA DecodeUnits == \A s : Decode(s) = Units(s)[1]
BY DEF Decode, Units, IsUnits, UnitsStep

(* A unit ends behind its start.                                           *)
LEMMA UnitEnds ==
  ASSUME NEW s \in Seq(STRING), NEW p \in 1 .. Len(s)
  PROVE  UnitEnd(s, p) \in Nat /\ p < UnitEnd(s, p)
<1>1. Len(s) \in Nat
  OBVIOUS
<1>2. PICK T : T = {q \in p .. Len(s) : s[q] = "rbrace"}
  OBVIOUS
<1>3. T \subseteq Nat /\ \A q \in T : p <= q
  BY <1>1, <1>2
<1>4. Close(s, p) = IF T = {} THEN Len(s) ELSE First(T)
  BY <1>2 DEF Close
<1>5. Close(s, p) \in Nat /\ p <= Close(s, p)
  <2>1. CASE T = {}
    BY <1>1, <1>4, <2>1
  <2>2. CASE T # {}
    <3>1. First(T) \in T
      BY <1>3, <2>2, FirstLeast
    <3> QED BY <1>3, <1>4, <2>2, <3>1
  <2> QED BY <2>1, <2>2
<1> QED BY <1>5 DEF UnitEnd

(* The recursion has a solution: one that is right behind position         *)
(* Len(s) - n is made right one position further down.                     *)
LEMMA UnitsExist ==
  ASSUME NEW s \in Seq(STRING)
  PROVE  \E f : IsUnits(s, f)
<1> DEFINE N == Len(s)
           Good(f, n) == /\ f = [p \in Nat |-> f[p]]
                         /\ \A p \in Nat : p + n > N => f[p] = UnitsStep(s, f, p)
           Bad == {n \in Nat : ~ \E f : Good(f, n)}
<1>1. N \in Nat
  OBVIOUS
<1>2. ASSUME NEW p \in 1 .. N PROVE UnitEnd(s, p) \in Nat /\ p < UnitEnd(s, p)
  BY UnitEnds
<1>3. \E f : Good(f, 0)
  <2> DEFINE f == [p \in Nat |-> <<>>]
  <2>1. f = [p \in Nat |-> f[p]]
    OBVIOUS
  <2>2. ASSUME NEW p \in Nat, p + 0 > N PROVE f[p] = UnitsStep(s, f, p)
    BY <1>1, <2>2 DEF UnitsStep
  <2> QED BY <2>1, <2>2
<1>4. ASSUME NEW n \in Nat, NEW f, Good(f, n) PROVE \E g : Good(g, n + 1)
  <2> DEFINE g == [p \in Nat |-> IF p + (n + 1) > N THEN UnitsStep(s, f, p) ELSE f[p]]
  <2>1. g = [p \in Nat |-> g[p]]
    OBVIOUS
  <2>2. ASSUME NEW p \in Nat, p + n > N PROVE g[p] = f[p]
    <3>1. p + (n + 1) > N
      BY <1>1, <2>2
    <3> QED BY <1>4, <2>2, <3>1
  <2>3. ASSUME NEW p \in Nat, p + (n + 1) > N PROVE g[p] = UnitsStep(s, g, p)
    <3>1. g[p] = UnitsStep(s, f, p)
      BY <2>3
    <3>2. CASE p \in 1 .. N
      <4>1. PICK e \in Nat : e = UnitEnd(s, p) /\ p < e
        BY <1>2, <3>2
      <4>2. e + n > N
        BY <1>1, <2>3, <4>1
      <4>3. g[e] = f[e]
        BY <2>2, <4>2
      <4> QED BY <3>1, <3>2, <4>1, <4>3 DEF UnitsStep
    <3>3. CASE p \notin 1 .. N
      BY <3>1, <3>3 DEF UnitsStep
    <3> QED BY <3>2, <3>3
  <2> QED BY <2>1, <2>3
<1> HIDE DEF Good
<1>5. Bad = {}
  <2> SUFFICES ASSUME Bad # {} PROVE FALSE
    OBVIOUS
  <2>1. PICK n \in Bad : \A m \in Bad : n <= m
    BY Least
  <2>2. n # 0
    BY <1>3, <2>1
  <2>3. n - 1 \in Nat /\ n - 1 \notin Bad /\ (n - 1) + 1 = n
    BY <2>1, <2>2
  <2>4. PICK f : Good(f, n - 1)
    BY <2>3
  <2>5. \E g : Good(g, (n - 1) + 1)
    BY <1>4, <2>3, <2>4
  <2> QED BY <2>1, <2>3, <2>5
<1>6. PICK f : Good(f, N + 1)
  <2>1. PICK m \in Nat : m = N + 1
    BY <1>1
  <2>2. m \notin Bad
    BY <1>5, Zenon
  <2>3. \E f : Good(f, m)
    BY <2>2, Zenon
  <2> QED BY <2>1, <2>3
<1>7. \A p \in Nat : f[p] = UnitsStep(s, f, p)
  BY <1>1, <1>6 DEF Good
<1>8. f = [p \in Nat |-> f[p]]
  BY <1>6 DEF Good
<1>9. [p \in Nat |-> f[p]] = [p \in Nat |-> UnitsStep(s, f, p)]
  BY <1>7
<1> QED BY <1>8, <1>9 DEF IsUnits

(* The recursion has a solution, so that its definition may be unfolded.   *)
LEMMA UnitsUnfold ==
  ASSUME NEW s \in Seq(STRING), NEW p \in Nat
  PROVE  Units(s)[p] = UnitsStep(s, Units(s), p)
<1>1. IsUnits(s, Units(s))
  BY UnitsExist DEF Units
<1>2. PICK f : f = Units(s)
  OBVIOUS
<1>3. f = [q \in Nat |-> UnitsStep(s, f, q)]
  BY <1>1, <1>2 DEF IsUnits
<1>4. f[p] = UnitsStep(s, f, p)
  BY <1>3
<1> QED BY <1>2, <1>4

(* The units from a position on are a sequence.                            *)
LEMMA UnitsSeq ==
  ASSUME NEW s \in Seq(STRING), NEW p \in Nat
  PROVE  Units(s)[p] \in Seq({UnitAt(s, q) : q \in Nat})
<1> DEFINE S == {UnitAt(s, q) : q \in Nat}
           N == Len(s)
           Bad == {n \in Nat : \E q \in Nat : q + n > N /\ Units(s)[q] \notin Seq(S)}
<1>1. N \in Nat
  OBVIOUS
<1>2. ASSUME NEW q \in Nat, q \notin 1 .. N PROVE Units(s)[q] \in Seq(S)
  <2>1. Units(s)[q] = <<>>
    BY <1>2, UnitsUnfold DEF UnitsStep
  <2> QED BY <2>1, EmptySeq
<1>3. ASSUME NEW q \in 1 .. N, Units(s)[UnitEnd(s, q)] \in Seq(S) PROVE Units(s)[q] \in Seq(S)
  <2>1. PICK u, v : u = UnitAt(s, q) /\ v = Units(s)[UnitEnd(s, q)]
    OBVIOUS
  <2>2. Units(s)[q] = <<u>> \o v
    <3>1. q \in Nat
      BY <1>1
    <3> QED BY <2>1, <3>1, UnitsUnfold DEF UnitsStep
  <2>3. <<u>> \in Seq(S)
    BY <1>1, <2>1
  <2>4. v \in Seq(S)
    BY <1>3, <2>1
  <2> HIDE DEF S
  <2> QED BY <2>2, <2>3, <2>4, ConcatProperties
<1> HIDE DEF S
<1>4. Bad = {}
  <2> SUFFICES ASSUME Bad # {} PROVE FALSE
    OBVIOUS
  <2>1. PICK n \in Bad : \A m \in Bad : n <= m
    BY Least
  <2>2. PICK q \in Nat : q + n > N /\ Units(s)[q] \notin Seq(S)
    BY <2>1
  <2>3. q \in 1 .. N
    BY <1>2, <2>2
  <2>4. PICK e \in Nat : e = UnitEnd(s, q) /\ q < e
    BY <2>3, UnitEnds
  <2>5. Units(s)[e] \notin Seq(S)
    BY <1>3, <2>2, <2>3, <2>4
  <2>6. n # 0 /\ n \in Nat
    BY <1>1, <2>1, <2>2, <2>3
  <2>7. PICK m \in Nat : m = n - 1
    BY <2>6
  <2>8. e + m > N
    BY <1>1, <2>2, <2>4, <2>6, <2>7
  <2>9. m \in Bad
    BY <2>5, <2>8, Zenon
  <2>10. n <= m
    BY <2>1, <2>9, Zenon
  <2> QED BY <2>6, <2>7, <2>10
<1>5. N + 1 \in Nat /\ p + (N + 1) > N
  BY <1>1
<1>6. Units(s)[p] \in Seq(S)
  BY <1>4, <1>5
<1> QED BY <1>6 DEF S

(* A sequence over a set is one over a larger set.                         *)
LEMMA SeqWider ==
  ASSUME NEW A, NEW B, A \subseteq B, NEW a \in Seq(A)
  PROVE  a \in Seq(B)
OBVIOUS

(* Sequences are joined in any order.                                      *)
LEMMA JoinAny == \A S : \A x, y, z \in Seq(S) : (x \o y) \o z = x \o (y \o z)
<1>1. SUFFICES ASSUME NEW S PROVE \A x, y, z \in Seq(S) : (x \o y) \o z = x \o (y \o z)
  OBVIOUS
<1> QED BY ConcatAssociative

(* A part of a sequence.                                                   *)
LEMMA PartOf ==
  ASSUME NEW s, NEW m \in Int, NEW n \in Int, m <= n + 1, \A i \in m .. n : s[i] \in STRING
  PROVE  /\ SubSeq(s, m, n) \in Seq(STRING) /\ Len(SubSeq(s, m, n)) = n - m + 1
         /\ \A i \in 1 .. n - m + 1 : SubSeq(s, m, n)[i] = s[m + i - 1]
<1>1. /\ SubSeq(s, m, n) \in Seq(STRING)
      /\ Len(SubSeq(s, m, n)) = IF m <= n THEN n - m + 1 ELSE 0
      /\ \A i \in 1 .. n - m + 1 : SubSeq(s, m, n)[i] = s[m + i - 1]
  BY SubSeqProperties
<1>2. (IF m <= n THEN n - m + 1 ELSE 0) = n - m + 1
  OBVIOUS
<1> QED BY <1>1, <1>2

(* Characters that are no escape spell themselves.                         *)
Run(s, p, k) == [i \in 1 .. k |-> <<s[p + i - 1]>>]

LEMMA RunUnits ==
  ASSUME NEW s \in Seq(STRING), NEW p \in Nat, 1 <= p, NEW k \in Nat, p + k <= Len(s) + 1,
         \A q \in p .. p + k - 1 : s[q] # "\\"
  PROVE  Units(s)[p] = Run(s, p, k) \o Units(s)[p + k]
<1> DEFINE S == Seq(STRING) \cup {UnitAt(s, q) : q \in Nat}
           Bad == {n \in 0 .. k : Units(s)[p] # Run(s, p, n) \o Units(s)[p + n]}
<1>1. Len(s) \in Nat
  OBVIOUS
<1>2. ASSUME NEW q \in Nat PROVE Units(s)[q] \in Seq(S)
  BY UnitsSeq, SeqWider
<1>3. ASSUME NEW n \in 0 .. k PROVE /\ Run(s, p, n) \in Seq(S) /\ Len(Run(s, p, n)) = n
                                    /\ \A i \in 1 .. n : Run(s, p, n)[i] = <<s[p + i - 1]>>
  <2>1. ASSUME NEW i \in 1 .. n PROVE <<s[p + i - 1]>> \in Seq(STRING)
    <3>1. p + i - 1 \in 1 .. Len(s)
      BY <1>1
    <3> QED BY <3>1, ElementOfSeq
  <2>2. ASSUME NEW i \in 1 .. n PROVE <<s[p + i - 1]>> \in S
    BY <2>1
  <2> HIDE DEF S
  <2>3. PICK f : f = Run(s, p, n)
    OBVIOUS
  <2>4. n \in Nat /\ f \in [1 .. n -> S] /\ \A i \in 1 .. n : f[i] = <<s[p + i - 1]>>
    <3>1. f = [i \in 1 .. n |-> <<s[p + i - 1]>>]
      BY <2>3 DEF Run
    <3>2. n \in Nat
      OBVIOUS
    <3>3. f \in [1 .. n -> S]
      BY <2>2, <3>1, Zenon
    <3> QED BY <3>1, <3>2, <3>3, Zenon
  <2>5. f \in Seq(S)
    BY <2>4
  <2>6. Len(f) = n
    BY <2>4, <2>5
  <2> QED BY <2>3, <2>4, <2>5, <2>6
<1> HIDE DEF S
<1>4. Units(s)[p] = Run(s, p, 0) \o Units(s)[p + 0]
  <2>1. Run(s, p, 0) = <<>>
    BY DEF Run
  <2>2. p + 0 = p
    OBVIOUS
  <2> QED BY <1>2, <2>1, <2>2, ConcatEmptySeq
<1>5. ASSUME NEW n \in Nat, n < k, Units(s)[p] = Run(s, p, n) \o Units(s)[p + n]
      PROVE  Units(s)[p] = Run(s, p, n + 1) \o Units(s)[p + (n + 1)]
  <2>1. PICK q \in Nat : q = p + n
    OBVIOUS
  <2>2. q \in 1 .. Len(s) /\ s[q] # "\\" /\ q + 1 = p + (n + 1)
    BY <1>1, <1>5, <2>1
  <2>3. PICK c : c = <<s[q]>>
    OBVIOUS
  <2>4. UnitAt(s, q) = c /\ UnitEnd(s, q) = q + 1
    BY <2>2, <2>3 DEF UnitAt, UnitEnd
  <2>5. Units(s)[q] = <<c>> \o Units(s)[q + 1]
    BY <2>2, <2>4, UnitsUnfold DEF UnitsStep
  <2>6. PICK a, b : a = Run(s, p, n) /\ b = Run(s, p, n + 1)
    OBVIOUS
  <2>7. /\ a \in Seq(S) /\ Len(a) = n /\ \A i \in 1 .. n : a[i] = <<s[p + i - 1]>>
        /\ b \in Seq(S) /\ Len(b) = n + 1 /\ \A i \in 1 .. n + 1 : b[i] = <<s[p + i - 1]>>
    <3>1. n \in 0 .. k /\ n + 1 \in 0 .. k
      BY <1>5
    <3> QED BY <1>3, <2>6, <3>1
  <2>8. c \in S
    BY <2>4 DEF S
  <2>9. Append(a, c) = b
    <3>1. PICK t : t = Append(a, c)
      OBVIOUS
    <3>2. t \in Seq(S) /\ Len(t) = n + 1 /\ t[n + 1] = c /\ \A i \in 1 .. n : t[i] = a[i]
      BY <2>7, <2>8, <3>1, AppendProperties
    <3>3. ASSUME NEW i \in 1 .. n + 1 PROVE t[i] = b[i]
      <4>1. CASE i = n + 1
        <5>1. p + i - 1 = q
          BY <2>1, <4>1
        <5> QED BY <2>3, <2>7, <3>2, <4>1, <5>1
      <4>2. CASE i \in 1 .. n
        BY <2>7, <3>2, <4>2
      <4> QED BY <4>1, <4>2
    <3>4. t = b
      BY <2>7, <3>2, <3>3, SeqEqual
    <3> QED BY <3>1, <3>4
  <2>10. a \o <<c>> = b
    BY <2>7, <2>8, <2>9, AppendIsConcat
  <2>11. PICK d : d = <<c>>
    OBVIOUS
  <2>12. d \in Seq(S)
    BY <2>8, <2>11
  <2>13. PICK u : u = Units(s)[q + 1]
    OBVIOUS
  <2>14. u \in Seq(S)
    BY <1>2, <2>13
  <2>15. (a \o d) \o u = a \o (d \o u)
    <3>1. a \in Seq(S)
      BY <2>7
    <3> HIDE DEF S
    <3>2. \A x, y, z \in Seq(S) : (x \o y) \o z = x \o (y \o z)
      BY JoinAny, SMTT(30)
    <3> QED BY <2>12, <2>14, <3>1, <3>2, Zenon
  <2> QED BY <1>5, <2>1, <2>2, <2>5, <2>6, <2>10, <2>11, <2>13, <2>15
<1>6. Bad = {}
  <2> SUFFICES ASSUME Bad # {} PROVE FALSE
    OBVIOUS
  <2>0. Bad \subseteq Nat
    OBVIOUS
  <2>1. PICK n \in Bad : \A m \in Bad : n <= m
    BY <2>0, Least
  <2>2. n # 0 /\ n \in 0 .. k
    BY <1>4, <2>1
  <2>3. n - 1 \in Nat /\ n - 1 < k /\ n - 1 \in 0 .. k /\ (n - 1) + 1 = n /\ ~ (n <= n - 1)
    BY <2>2
  <2>4. n - 1 \notin Bad
    BY <2>1, <2>3
  <2>5. Units(s)[p] = Run(s, p, n - 1) \o Units(s)[p + (n - 1)]
    BY <2>3, <2>4
  <2>6. Units(s)[p] = Run(s, p, (n - 1) + 1) \o Units(s)[p + ((n - 1) + 1)]
    BY <1>5, <2>3, <2>5
  <2>7. Units(s)[p] = Run(s, p, n) \o Units(s)[p + n]
    BY <2>3, <2>6
  <2> QED BY <2>1, <2>7, Zenon
<1>7. k \in 0 .. k
  OBVIOUS
<1> QED BY <1>6, <1>7

----------------------------------------------------------------------------
(* A string in hand. *)

(* The states inside a string or an escaped name.                          *)
InStr == {"Str", "EscapeStr"}

(* Slice, of a text that is given.                                         *)
SliceOf(t, lo, hi) == SubSeq(t, lo + 1, hi)

(* Wherever the string that starts at lo will end, its units are those of  *)
(* the scratch pad sc and the ones that are written from p on.             *)
StringAt(t, sc, lo, p) ==
  \A e \in p .. Len(t) :
    Decode(SliceOf(t, lo + 1, e)) = sc \o Units(SliceOf(t, lo + 1, e))[p - lo]

(* What a unit on the scratch pad is made of: characters of the text and   *)
(* what the escapes of one letter stand for.                               *)
PadUnits == Seq(STRING \cup {"nl", "cr", "sp", "nul"})

(* The scratch pad is empty outside of strings; inside, it holds what was  *)
(* read of the string so far. A backslash stands before an escape.         *)
StrInv ==
  /\ scratch \in Seq(PadUnits)
  /\ state \notin InStr => scratch = <<>>
  /\ state = "Str" /\ kind.tag = "LitStr" => StringAt(text, scratch, spanStart, offset)
  /\ state = "EscapeStr" => spanStart + 1 < offset /\ AtOf(text, offset - 1) = "\\"
  /\ state = "EscapeStr" /\ kind.tag = "LitStr" => StringAt(text, scratch, spanStart, offset - 1)
  /\ StringValue

(* The characters of a string up to e.                                     *)
LEMMA StringChars ==
  ASSUME text \in Seq(STRING), NEW lo \in Nat, NEW e \in Nat, lo < e, e <= len
  PROVE  /\ SliceOf(text, lo + 1, e) \in Seq(STRING)
         /\ Len(SliceOf(text, lo + 1, e)) = e - lo - 1
         /\ \A j \in 1 .. e - lo - 1 : SliceOf(text, lo + 1, e)[j] = At(lo + j)
<1>1. PICK l \in Nat : l = lo + 1
  OBVIOUS
<1>2. PICK s : s = Slice(l, e)
  OBVIOUS
<1>3. l <= e
  BY <1>1
<1>4. s \in Seq(STRING) /\ Len(s) = e - l /\ \A j \in 1 .. e - l : s[j] = At(l + j - 1)
  BY <1>2, <1>3, SliceChars
<1>5. e - l = e - lo - 1
  BY <1>1
<1>6. ASSUME NEW j \in 1 .. e - lo - 1 PROVE s[j] = At(lo + j)
  <2>1. l + j - 1 = lo + j
    BY <1>1
  <2> QED BY <1>4, <1>5, <2>1
<1>7. s = SliceOf(text, lo + 1, e)
  BY <1>1, <1>2 DEF Slice, SliceOf
<1> QED BY <1>4, <1>5, <1>6, <1>7

(* Sequences of units.                                                     *)
LEMMA UnitSeqs ==
  ASSUME NEW s \in Seq(STRING), NEW p \in Nat, NEW a \in Seq(PadUnits)
  PROVE  /\ \A b \in Seq(PadUnits) : a \o (b \o Units(s)[p]) = (a \o b) \o Units(s)[p]
         /\ \A c \in PadUnits : a \o (<<c>> \o Units(s)[p]) = Append(a, c) \o Units(s)[p]
         /\ <<>> \o Units(s)[p] = Units(s)[p]
<1> DEFINE T == {UnitAt(s, q) : q \in Nat}
           S == T \cup PadUnits
<1>1. Units(s)[p] \in Seq(S)
  <2>1. Units(s)[p] \in Seq(T)
    BY UnitsSeq
  <2> HIDE DEF T
  <2> QED BY <2>1, SeqWider
<1>2. ASSUME NEW b \in Seq(PadUnits) PROVE b \in Seq(S)
  BY SeqWider
<1>3. PadUnits \subseteq S
  OBVIOUS
<1> HIDE DEF S
<1>4. \A x, y, z \in Seq(S) : (x \o y) \o z = x \o (y \o z)
  BY JoinAny, SMTT(30)
<1>5. ASSUME NEW b \in Seq(PadUnits) PROVE a \o (b \o Units(s)[p]) = (a \o b) \o Units(s)[p]
  <2>1. a \in Seq(S) /\ b \in Seq(S)
    BY <1>2
  <2> QED BY <1>1, <1>4, <2>1, Zenon
<1>6. ASSUME NEW c \in PadUnits PROVE a \o (<<c>> \o Units(s)[p]) = Append(a, c) \o Units(s)[p]
  <2>1. PICK d : d = <<c>>
    OBVIOUS
  <2>2. d \in Seq(PadUnits)
    BY <2>1
  <2>3. Append(a, c) = a \o d
    BY <2>1, AppendIsConcat
  <2> QED BY <1>5, <2>1, <2>2, <2>3
<1>7. <<>> \o Units(s)[p] = Units(s)[p]
  BY <1>1, ConcatEmptySeq
<1> QED BY <1>5, <1>6, <1>7

----------------------------------------------------------------------------
(* The steps of the scanner, as far as strings are concerned. *)

(* No string is in hand afterwards, and none is returned.                  *)
Quiet ==
  /\ text' = text /\ state' \notin InStr /\ scratch' = <<>>
  /\ \/ tokens' = tokens
     \/ \E k, lo, hi : /\ lo \in Nat /\ hi \in Nat /\ k.tag # "LitStr"
                       /\ tokens' = Append(tokens, Token(k, lo, hi))

(* A string or an escaped name is started.                                 *)
StrOpens ==
  /\ UNCHANGED <<text, tokens>> /\ state' = "Str" /\ scratch' = <<>>
  /\ kind'.tag = "LitStr" => offset' = spanStart' + 1

(* Characters that are no escape are read.                                 *)
StrReads ==
  /\ UNCHANGED <<text, spanStart, state, kind, tokens>> /\ state = "Str"
  /\ offset' \in Nat /\ offset <= offset' /\ offset' <= len
  /\ \A q \in offset .. offset' - 1 : At(q) # "\\"
  /\ scratch' = scratch \o Plain(Slice(offset, offset'))

(* A backslash is read.                                                    *)
StrBackslash ==
  /\ UNCHANGED <<text, spanStart, kind, tokens, scratch>> /\ state = "Str" /\ state' = "EscapeStr"
  /\ offset' = offset + 1 /\ At(offset) = "\\"

(* What an escape stands for is pushed: the unit that starts at the        *)
(* backslash and ends at o, wherever the string ends.                      *)
StrPushes(char, o) ==
  /\ state = "EscapeStr" /\ Push(char, o)
  /\ char \in PadUnits /\ o \in Nat /\ offset <= o /\ o <= len
  /\ \A e \in o .. len : /\ UnitAt(SliceOf(text, spanStart + 1, e), offset - 1 - spanStart) = char
                         /\ UnitEnd(SliceOf(text, spanStart + 1, e), offset - 1 - spanStart) = o - spanStart

(* A string is returned.                                                   *)
StrCloses(k) ==
  /\ text' = text /\ state = "Str" /\ state' \notin InStr /\ scratch' = <<>> /\ offset < len
  /\ tokens' = Append(tokens, Token(k, spanStart, offset + 1))
  /\ k.tag = "LitStr" => kind.tag = "LitStr" /\ k.arg = scratch

(* What a step may do to strings.                                          *)
StringStep ==
  \/ Quiet \/ StrOpens \/ StrReads \/ StrBackslash
  \/ \E char, o : StrPushes(char, o)
  \/ \E k : StrCloses(k)

(* Tokens that are not changed keep their values.                          *)
LEMMA SameValues ==
  ASSUME StringValue, UNCHANGED <<text, tokens>>
  PROVE  StringValue'
BY DEF StringValue, Slice

(* A token is added whose value is what its text spells.                   *)
LEMMA ValueGiven ==
  ASSUME TypeOK, StringValue, text' = text, NEW k, NEW lo \in Nat, NEW hi \in Nat,
         tokens' = Append(tokens, Token(k, lo, hi)),
         k.tag = "LitStr" => k.arg = Decode(SliceOf(text, lo + 1, hi - 1))
  PROVE  StringValue'
<1>1. IsSeq(tokens)
  BY DEF TypeOK
<1>2. Grown(tokens, Token(k, lo, hi), tokens')
  BY <1>1, AppendFacts
<1>3. PICK n : /\ n = Len(tokens) /\ n \in Nat /\ DOMAIN tokens = 1 .. n /\ DOMAIN tokens' = 1 .. n + 1
               /\ \A i \in 1 .. n : tokens'[i] = tokens[i]
               /\ tokens'[n + 1] = Token(k, lo, hi)
  BY <1>2 DEF Grown
<1>4. tokens'[n + 1].lo = lo /\ tokens'[n + 1].hi = hi /\ tokens'[n + 1].kind = k
  BY <1>3 DEF Token
<1>5. ASSUME NEW i \in 1 .. n + 1, tokens'[i].kind.tag = "LitStr"
      PROVE  tokens'[i].kind.arg = Decode(SliceOf(text, tokens'[i].lo + 1, tokens'[i].hi - 1))
  <2>1. CASE i = n + 1
    BY <1>4, <1>5, <2>1
  <2>2. CASE i # n + 1
    <3>1. i \in 1 .. n
      BY <1>3, <2>2
    <3>2. tokens'[i] = tokens[i] /\ i \in DOMAIN tokens
      BY <1>3, <3>1
    <3> QED BY <1>5, <3>2 DEF StringValue, Slice, SliceOf
  <2> QED BY <2>1, <2>2
<1> QED BY <1>3, <1>5 DEF StringValue, Slice, SliceOf

(* Such a step keeps the invariant.                                        *)
LEMMA QuietKeeps ==
  ASSUME IInv, StrInv, Quiet
  PROVE  StrInv'
<1>1. text' = text /\ state' \notin InStr /\ scratch' = <<>>
  BY DEF Quiet
<1>2. StringValue'
  <2>1. CASE tokens' = tokens
    BY <1>1, <2>1, SameValues DEF StrInv
  <2>2. CASE tokens' # tokens
    <3>1. PICK k, lo, hi : /\ lo \in Nat /\ hi \in Nat /\ k.tag # "LitStr"
                           /\ tokens' = Append(tokens, Token(k, lo, hi))
      BY <2>2 DEF Quiet
    <3> QED BY <1>1, <3>1, ValueGiven DEF IInv, StrInv
  <2> QED BY <2>1, <2>2
<1>3. <<>> \in Seq(PadUnits)
  OBVIOUS
<1> QED BY <1>1, <1>2, <1>3 DEF StrInv, InStr

(* A string that is started has nothing on the scratch pad, and all its    *)
(* units ahead.                                                            *)
LEMMA StrOpensKeeps ==
  ASSUME IInv, IInv', StrInv, StrOpens
  PROVE  StrInv'
<1>1. text' = text /\ tokens' = tokens /\ state' = "Str" /\ scratch' = <<>>
  BY DEF StrOpens
<1>2. StringValue'
  BY <1>1, SameValues DEF StrInv
<1>3. <<>> \in Seq(PadUnits)
  OBVIOUS
<1>4. ASSUME kind'.tag = "LitStr" PROVE StringAt(text', scratch', spanStart', offset')
  <2>1. PICK lo \in Nat : lo = spanStart'
    BY DEF IInv, TypeOK
  <2>2. PICK p \in Nat : p = lo + 1
    OBVIOUS
  <2>3. offset' = p /\ p - lo = 1
    <3>1. offset' = spanStart' + 1
      BY <1>4 DEF StrOpens
    <3>2. offset' = p
      BY <2>1, <2>2, <3>1, Zenon
    <3>3. p - lo = 1
      BY <2>2
    <3> QED BY <3>2, <3>3
  <2>4. ASSUME NEW e \in p .. Len(text)
        PROVE  Decode(SliceOf(text, lo + 1, e)) = <<>> \o Units(SliceOf(text, lo + 1, e))[1]
    <3>1. text \in Seq(STRING) /\ e \in Nat /\ lo < e /\ e <= len
      BY <2>2 DEF IInv, TypeOK, len
    <3>2. SliceOf(text, lo + 1, e) \in Seq(STRING)
      BY <3>1, StringChars
    <3>3. <<>> \o Units(SliceOf(text, lo + 1, e))[1] = Units(SliceOf(text, lo + 1, e))[1]
      BY <1>3, <3>2, UnitSeqs
    <3> QED BY <3>3, DecodeUnits
  <2>5. StringAt(text, <<>>, lo, p)
    BY <2>3, <2>4 DEF StringAt
  <2> QED BY <1>1, <2>1, <2>3, <2>5
<1> QED BY <1>1, <1>2, <1>3, <1>4 DEF StrInv, InStr

(* Plain characters move from the text to the scratch pad, one unit each.  *)
LEMMA StrReadsKeeps ==
  ASSUME IInv, StrInv, StrReads
  PROVE  StrInv'
<1>1. /\ text' = text /\ tokens' = tokens /\ spanStart' = spanStart /\ kind' = kind
      /\ state' = "Str" /\ state = "Str"
  BY DEF StrReads
<1>2. /\ text \in Seq(STRING) /\ spanStart \in Nat /\ offset \in Nat /\ spanStart < offset /\ offset <= len
      /\ len \in Nat
  BY <1>1 DEF IInv, TypeOK, InBounds, Inside, Between, len
<1>3. PICK stop \in Nat : /\ stop = offset' /\ offset <= stop /\ stop <= len
                          /\ \A q \in offset .. stop - 1 : At(q) # "\\"
                          /\ scratch' = scratch \o Plain(Slice(offset, stop))
  BY DEF StrReads
<1>4. PICK v : v = Plain(Slice(offset, stop))
  OBVIOUS
<1>5. PICK k \in Nat : k = stop - offset
  <2>1. offset <= stop
    BY <1>3
  <2> QED BY <1>2, <2>1
<1>6. PICK w : w = Slice(offset, stop)
  OBVIOUS
<1>7. w \in Seq(STRING) /\ Len(w) = k /\ \A j \in 1 .. k : w[j] = At(offset + j - 1)
  <2>1. offset <= stop /\ stop <= len
    BY <1>3
  <2> QED BY <1>2, <1>5, <1>6, <2>1, SliceChars
<1>8. v = [j \in 1 .. k |-> <<w[j]>>]
  BY <1>4, <1>6, <1>7 DEF Plain
<1>9. v \in Seq(PadUnits)
  <2>1. \A j \in 1 .. k : w[j] \in STRING
    BY <1>7, ElementOfSeq
  <2>2. \A j \in 1 .. k : <<w[j]>> \in PadUnits
    BY <2>1 DEF PadUnits
  <2>3. PICK T : T = PadUnits
    OBVIOUS
  <2>4. v \in [1 .. k -> T]
    BY <1>8, <2>2, <2>3, Zenon
  <2>5. v \in Seq(T)
    BY <2>4
  <2> QED BY <2>3, <2>5
<1>10. scratch' \in Seq(PadUnits)
  <2>1. PICK T : T = PadUnits
    OBVIOUS
  <2>2. scratch \in Seq(T) /\ v \in Seq(T)
    BY <1>9, <2>1 DEF StrInv
  <2>3. scratch \o v \in Seq(T)
    BY <2>2, ConcatProperties
  <2> QED BY <1>3, <1>4, <2>1, <2>3
<1>11. ASSUME kind.tag = "LitStr" PROVE StringAt(text, scratch \o v, spanStart, stop)
  <2> SUFFICES ASSUME NEW e \in stop .. Len(text)
               PROVE  Decode(SliceOf(text, spanStart + 1, e))
                        = (scratch \o v) \o Units(SliceOf(text, spanStart + 1, e))[stop - spanStart]
    BY DEF StringAt
  <2>1. e \in Nat /\ e <= len /\ spanStart < e /\ e \in offset .. Len(text)
    BY <1>2, <1>3 DEF len
  <2>2. PICK s : s = SliceOf(text, spanStart + 1, e)
    OBVIOUS
  <2>3. /\ s \in Seq(STRING) /\ Len(s) = e - spanStart - 1
        /\ \A j \in 1 .. e - spanStart - 1 : s[j] = At(spanStart + j)
    BY <1>2, <2>1, <2>2, StringChars
  <2>4. PICK p \in Nat : p = offset - spanStart
    BY <1>2
  <2>5. 1 <= p /\ p + k <= Len(s) + 1 /\ p + k = stop - spanStart
    <3>1. stop <= e /\ offset <= stop
      BY <1>3, <2>1
    <3>2. Len(s) = e - spanStart - 1
      BY <2>3
    <3> QED BY <1>2, <1>5, <2>1, <2>4, <3>1, <3>2
  <2>6. ASSUME NEW q \in p .. p + k - 1 PROVE s[q] # "\\" /\ s[q] = w[q - p + 1]
    <3>1. q \in 1 .. e - spanStart - 1 /\ spanStart + q \in offset .. stop - 1
      <4>1. stop <= e /\ offset <= stop
        BY <1>3, <2>1
      <4> QED BY <1>2, <1>5, <2>1, <2>4, <2>5, <4>1
    <3>2. s[q] = At(spanStart + q)
      BY <2>3, <3>1
    <3>3. q - p + 1 \in 1 .. k /\ offset + (q - p + 1) - 1 = spanStart + q
      BY <1>2, <2>4
    <3>4. w[q - p + 1] = At(spanStart + q)
      BY <1>7, <3>3
    <3> QED BY <1>3, <3>1, <3>2, <3>4
  <2>7. Run(s, p, k) = v
    <3>1. ASSUME NEW j \in 1 .. k PROVE <<s[p + j - 1]>> = <<w[j]>>
      <4>1. p + j - 1 \in p .. p + k - 1 /\ (p + j - 1) - p + 1 = j
        OBVIOUS
      <4>2. s[p + j - 1] = w[(p + j - 1) - p + 1]
        BY <2>6, <4>1
      <4> QED BY <4>1, <4>2
    <3>2. [j \in 1 .. k |-> <<s[p + j - 1]>>] = [j \in 1 .. k |-> <<w[j]>>]
      BY <3>1, Zenon
    <3> QED BY <1>8, <3>2 DEF Run
  <2>8. Units(s)[p] = v \o Units(s)[p + k]
    BY <2>3, <2>5, <2>6, <2>7, RunUnits
  <2>9. Decode(s) = scratch \o Units(s)[p]
    BY <1>1, <1>11, <2>1, <2>2, <2>4 DEF StrInv, StringAt
  <2>10. scratch \o (v \o Units(s)[p + k]) = (scratch \o v) \o Units(s)[p + k]
    <3>1. scratch \in Seq(PadUnits) /\ p + k \in Nat
      BY DEF StrInv
    <3> QED BY <1>9, <2>3, <3>1, UnitSeqs
  <2> QED BY <2>2, <2>5, <2>8, <2>9, <2>10
<1>12. StringValue'
  BY <1>1, SameValues DEF StrInv
<1> QED BY <1>1, <1>3, <1>4, <1>10, <1>11, <1>12 DEF StrInv, InStr

(* The unit of an escape starts at its backslash.                          *)
LEMMA StrBackslashKeeps ==
  ASSUME IInv, StrInv, StrBackslash
  PROVE  StrInv'
<1>1. /\ text' = text /\ tokens' = tokens /\ spanStart' = spanStart /\ kind' = kind /\ scratch' = scratch
      /\ state = "Str" /\ state' = "EscapeStr" /\ offset' = offset + 1 /\ At(offset) = "\\"
  BY DEF StrBackslash
<1>2. spanStart \in Nat /\ offset \in Nat /\ spanStart < offset
  BY <1>1 DEF IInv, TypeOK, Inside, Between
<1>3. spanStart + 1 < offset' /\ offset' - 1 = offset
  BY <1>1, <1>2
<1>4. AtOf(text', offset' - 1) = "\\"
  BY <1>1, <1>3, OfText
<1>5. StringValue'
  BY <1>1, SameValues DEF StrInv
<1>6. kind.tag = "LitStr" => StringAt(text, scratch, spanStart, offset)
  BY <1>1 DEF StrInv
<1> QED BY <1>1, <1>3, <1>4, <1>5, <1>6 DEF StrInv, InStr

(* The unit of an escape moves from the text to the scratch pad.           *)
LEMMA StrPushesKeeps ==
  ASSUME IInv, StrInv, NEW char, NEW o, StrPushes(char, o)
  PROVE  StrInv'
<1>1. /\ text' = text /\ tokens' = tokens /\ spanStart' = spanStart /\ kind' = kind
      /\ scratch' = Append(scratch, char) /\ state = "EscapeStr" /\ state' = "Str" /\ offset' = o
      /\ char \in PadUnits /\ o \in Nat /\ offset <= o /\ o <= len
  BY DEF StrPushes, Push
<1>2. /\ text \in Seq(STRING) /\ spanStart \in Nat /\ offset \in Nat /\ spanStart + 1 < offset
      /\ len \in Nat
  BY <1>1 DEF IInv, TypeOK, StrInv, len
<1>3. scratch' \in Seq(PadUnits)
  <2>1. PICK T : T = PadUnits
    OBVIOUS
  <2>2. scratch \in Seq(T) /\ char \in T
    BY <1>1, <2>1 DEF StrInv
  <2>3. Append(scratch, char) \in Seq(T)
    BY <2>2, AppendProperties
  <2> QED BY <1>1, <2>1, <2>3
<1>4. ASSUME kind.tag = "LitStr" PROVE StringAt(text, Append(scratch, char), spanStart, o)
  <2> SUFFICES ASSUME NEW e \in o .. Len(text)
               PROVE  Decode(SliceOf(text, spanStart + 1, e))
                        = Append(scratch, char) \o Units(SliceOf(text, spanStart + 1, e))[o - spanStart]
    BY DEF StringAt
  <2>1. e \in Nat /\ e <= len /\ spanStart < e /\ e \in offset - 1 .. Len(text) /\ e \in o .. len
    BY <1>1, <1>2 DEF len
  <2>2. PICK s : s = SliceOf(text, spanStart + 1, e)
    OBVIOUS
  <2>3. s \in Seq(STRING) /\ Len(s) = e - spanStart - 1
    BY <1>2, <2>1, <2>2, StringChars
  <2>4. PICK p \in Nat : p = offset - 1 - spanStart
    BY <1>2
  <2>5. PICK n \in Nat : n = o - spanStart
    BY <1>1, <1>2
  <2>6. UnitAt(s, p) = char /\ UnitEnd(s, p) = n
    BY <2>1, <2>2, <2>4, <2>5 DEF StrPushes
  <2>7. p \in 1 .. Len(s)
    BY <1>1, <1>2, <2>1, <2>3, <2>4
  <2>8. Units(s)[p] = <<char>> \o Units(s)[n]
    BY <2>3, <2>6, <2>7, UnitsUnfold DEF UnitsStep
  <2>9. Decode(s) = scratch \o Units(s)[p]
    <3>1. (offset - 1) - spanStart = p
      BY <2>4
    <3> QED BY <1>1, <1>4, <2>1, <2>2, <3>1 DEF StrInv, StringAt
  <2>10. scratch \o (<<char>> \o Units(s)[n]) = Append(scratch, char) \o Units(s)[n]
    <3>1. scratch \in Seq(PadUnits)
      BY DEF StrInv
    <3> QED BY <1>1, <2>3, <3>1, UnitSeqs
  <2> QED BY <2>2, <2>5, <2>8, <2>9, <2>10
<1>5. StringValue'
  BY <1>1, SameValues DEF StrInv
<1> QED BY <1>1, <1>3, <1>4, <1>5 DEF StrInv, InStr

(* At the end nothing is ahead: the scratch pad is the value.              *)
LEMMA StrClosesKeeps ==
  ASSUME IInv, StrInv, NEW k, StrCloses(k)
  PROVE  StrInv'
<1>1. /\ text' = text /\ state = "Str" /\ state' \notin InStr /\ scratch' = <<>> /\ offset < len
      /\ tokens' = Append(tokens, Token(k, spanStart, offset + 1))
      /\ k.tag = "LitStr" => kind.tag = "LitStr" /\ k.arg = scratch
  BY DEF StrCloses
<1>2. text \in Seq(STRING) /\ spanStart \in Nat /\ offset \in Nat /\ spanStart < offset /\ len \in Nat
  BY <1>1 DEF IInv, TypeOK, Inside, Between, len
<1>3. ASSUME k.tag = "LitStr" PROVE k.arg = Decode(SliceOf(text, spanStart + 1, offset))
  <2>1. PICK s : s = SliceOf(text, spanStart + 1, offset)
    OBVIOUS
  <2>2. s \in Seq(STRING) /\ Len(s) = offset - spanStart - 1
    <3>1. offset <= len
      BY <1>1, <1>2
    <3> QED BY <1>2, <2>1, <3>1, StringChars
  <2>3. PICK p \in Nat : p = offset - spanStart
    BY <1>2
  <2>4. offset \in offset .. Len(text)
    BY <1>1, <1>2 DEF len
  <2>5. Decode(s) = scratch \o Units(s)[p]
    BY <1>1, <1>3, <2>1, <2>3, <2>4 DEF StrInv, StringAt
  <2>6. p \notin 1 .. Len(s)
    BY <2>2, <2>3
  <2>7. Units(s)[p] = <<>>
    BY <2>2, <2>6, UnitsUnfold DEF UnitsStep
  <2>8. scratch \o <<>> = scratch
    BY ConcatEmptySeq DEF StrInv
  <2> QED BY <1>1, <1>3, <2>1, <2>5, <2>7, <2>8
<1>4. PICK hi \in Nat : hi = offset + 1 /\ hi - 1 = offset
  BY <1>2
<1>5. StringValue'
  BY <1>1, <1>2, <1>3, <1>4, ValueGiven DEF IInv, StrInv
<1>6. <<>> \in Seq(PadUnits)
  OBVIOUS
<1> QED BY <1>1, <1>5, <1>6 DEF StrInv, InStr

(* Each of these steps keeps the invariant.                                *)
LEMMA StringStepKeeps ==
  ASSUME IInv, IInv', StrInv, StringStep
  PROVE  StrInv'
BY QuietKeeps, StrOpensKeeps, StrReadsKeeps, StrBackslashKeeps, StrPushesKeeps, StrClosesKeeps DEF StringStep

----------------------------------------------------------------------------
(* Every action is such a step. *)

(* A token that is no string is returned.                                  *)
LEMMA ReturnQuiet ==
  ASSUME IInv, IInv', NEW k, NEW o, Return(k, o), k.tag # "LitStr", scratch' = <<>>
  PROVE  StringStep
<1>1. spanStart \in Nat /\ o \in Nat
  BY DEF IInv, TypeOK, Return
<1>2. tokens' = Append(tokens, Token(k, spanStart, o)) /\ text' = text
  BY DEF Return, Token
<1>3. state' \notin InStr
  BY DEF Return, InStr
<1>4. Quiet
  BY <1>1, <1>2, <1>3 DEF Quiet
<1> QED BY <1>4 DEF StringStep

(* A token is returned outside of strings.                                 *)
LEMMA EmitQuiet ==
  ASSUME IInv, IInv', StrInv, state \notin InStr,
         NEW tag, tag # "LitStr", NEW arg, NEW o, Emit(K(tag, arg), o)
  PROVE  StringStep
<1>1. PICK k : k = K(tag, arg)
  OBVIOUS
<1>2. k.tag # "LitStr"
  BY <1>1 DEF K
<1>3. Return(k, o) /\ scratch' = <<>>
  BY <1>1 DEF Emit, StrInv
<1> QED BY <1>2, <1>3, ReturnQuiet

(* A token is rejected: a string that is given up leaves the scratch pad   *)
(* empty.                                                                  *)
LEMMA RejectQuiet ==
  ASSUME IInv, IInv', StrInv, NEW o, (state \notin InStr /\ Reject(o)) \/ RejectString(o)
  PROVE  StringStep
<1>1. PICK k : k = K("Invalid", <<>>)
  OBVIOUS
<1>2. k.tag # "LitStr"
  BY <1>1 DEF K
<1>3. scratch' = <<>>
  BY DEF Reject, RejectString, StrInv
<1>4. PICK h : Return(k, h)
  BY <1>1 DEF Reject, RejectString
<1> QED BY <1>2, <1>3, <1>4, ReturnQuiet

(* More is read, and no string.                                            *)
LEMMA GotoQuiet ==
  ASSUME StrInv, state \notin InStr, NEW s, s \notin InStr, NEW o, Goto(s, o)
  PROVE  StringStep
<1>1. Quiet
  BY DEF Quiet, Goto, StrInv
<1> QED BY <1>1 DEF StringStep

(* The first character of a token.                                         *)
LEMMA S0Strings ==
  ASSUME IInv, IInv', StrInv, S0
  PROVE  StringStep
<1>1. text \in Seq(STRING) /\ offset \in Nat /\ offset <= len /\ state = "S0" /\ len \in Nat
  BY DEF IInv, TypeOK, InBounds, S0, len
<1>2. PICK o : o = SkipWhile(Whitespace, offset)
  OBVIOUS
<1>3. o \in offset .. len /\ o \in Nat /\ o + 1 \in Nat
  BY <1>1, <1>2, Classes, SkipStops
<1>4. scratch = <<>>
  BY <1>1 DEF StrInv, InStr
<1> DEFINE Begin(s) ==
             /\ state' = s /\ offset' = o + 1 /\ spanStart' = o
             /\ UNCHANGED <<text, tokens, scratch>>
           End(k) ==
             /\ tokens' = Append(tokens, [kind |-> k, lo |-> o, hi |-> o + 1])
             /\ state' = IF k.tag = "Eof" THEN "Done" ELSE "S0"
             /\ UNCHANGED <<text, scratch>>
<1>5. \/ \E tag, arg : tag # "LitStr" /\ End(K(tag, arg))
      \/ At(o) \in DOMAIN LetterState /\ Begin(LetterState[At(o)])
      \/ Begin("Op") \/ Begin("Ident") \/ Begin("IntDec")
  <2>1. \/ End(NoKind)
        \/ End(K("op", <<At(o)>>))
        \/ End(K("Invalid", <<>>))
        \/ At(o) \in DOMAIN LetterState /\ Begin(LetterState[At(o)])
        \/ Begin("Op") \/ Begin("Ident") \/ Begin("IntDec")
    BY <1>2, ZenonT(60) DEF S0
  <2> HIDE DEF Begin, End
  <2> QED BY <2>1 DEF NoKind
<1>6. ASSUME NEW s, Begin(s), s # "EscapeStr" PROVE StringStep
  <2>1. CASE s = "Str"
    <3>1. StrOpens
      BY <1>4, <1>6, <2>1 DEF StrOpens
    <3> QED BY <3>1 DEF StringStep
  <2>2. CASE s # "Str"
    <3>1. Quiet
      BY <1>4, <1>6, <2>2 DEF Quiet, InStr
    <3> QED BY <3>1 DEF StringStep
  <2> QED BY <2>1, <2>2
<1>7. ASSUME NEW tag, NEW arg, tag # "LitStr", End(K(tag, arg)) PROVE StringStep
  <2>1. PICK k : k = K(tag, arg) /\ k.tag # "LitStr"
    BY <1>7 DEF K
  <2>2. tokens' = Append(tokens, Token(k, o, o + 1)) /\ state' \notin InStr /\ text' = text /\ scratch' = <<>>
    BY <1>4, <1>7, <2>1 DEF Token, InStr
  <2>3. Quiet
    BY <1>3, <2>1, <2>2 DEF Quiet
  <2> QED BY <2>3 DEF StringStep
<1> HIDE DEF Begin, End
<1>8. CASE At(o) \in DOMAIN LetterState /\ Begin(LetterState[At(o)])
  <2>1. LetterState[At(o)] # "EscapeStr"
    BY <1>8, LetterStates
  <2> QED BY <1>6, <1>8, <2>1
<1> QED BY <1>5, <1>6, <1>7, <1>8

(* Operators and comments.                                                 *)
LEMMA CodeStrings ==
  ASSUME IInv, IInv', StrInv, Op \/ Dot \/ LineComment \/ Backslash
  PROVE  StringStep
<1>1. state \notin InStr
  BY DEF Op, Dot, LineComment, Backslash, InStr
<1>2. ASSUME NEW arg, NEW o, NEW tag \in {"op", "LitMultiLineStr"}, Emit(K(tag, arg), o) PROVE StringStep
  BY <1>1, <1>2, EmitQuiet
<1>3. ASSUME NEW s \in {"LineComment", "Op", "FloatDot2", "S0"}, NEW o, Goto(s, o) PROVE StringStep
  BY <1>1, <1>3, GotoQuiet DEF InStr
<1>4. CASE Op
  BY <1>2, <1>3, <1>4 DEF Op
<1>5. CASE Dot
  <2>1. \/ Goto("Op", offset + 1)
        \/ \E arg, o : Emit(K("op", arg), o)
        \/ Goto("FloatDot2", offset + 1)
    BY <1>5, Zenon DEF Dot
  <2> QED BY <1>2, <1>3, <2>1
<1>6. CASE LineComment
  BY <1>3, <1>6 DEF LineComment
<1>7. CASE Backslash
  BY <1>2, <1>7 DEF Backslash
<1> QED BY <1>4, <1>5, <1>6, <1>7

(* Names.                                                                  *)
LEMMA NameStrings ==
  ASSUME IInv, IInv', StrInv, Hash \/ Sigil \/ Underscore \/ Ident
  PROVE  StringStep
<1>1. state \notin InStr /\ scratch = <<>>
  BY DEF Hash, Sigil, Underscore, Ident, InStr, StrInv
<1>2. ASSUME NEW arg, NEW o, NEW tag, tag # "LitStr", Emit(K(tag, arg), o) PROVE StringStep
  BY <1>1, <1>2, EmitQuiet
<1>3. ASSUME NEW o, Reject(o) PROVE StringStep
  BY <1>1, <1>3, RejectQuiet
<1>4. ASSUME NEW o, Goto("Ident", o) PROVE StringStep
  BY <1>1, <1>4, GotoQuiet DEF InStr
<1>5. CASE Hash
  <2>1. PICK o, name : \/ Emit(K("op", <<"#">>), offset)
                       \/ name[1] \in DOMAIN DirectiveKind /\ Emit(K(DirectiveKind[name[1]], <<>>), o)
                       \/ Emit(K("DirectiveIdent", name), o)
    BY <1>5 DEF Hash
  <2>2. \A w \in DOMAIN DirectiveKind : DirectiveKind[w] # "LitStr"
    BY DEF DirectiveKind
  <2>3. CASE name[1] \in DOMAIN DirectiveKind /\ Emit(K(DirectiveKind[name[1]], <<>>), o)
    <3>1. PICK d : d = DirectiveKind[name[1]] /\ d # "LitStr"
      BY <2>2, <2>3
    <3> QED BY <1>2, <2>3, <3>1
  <2>4. CASE Emit(K("op", <<"#">>), offset)
    BY <1>2, <2>4
  <2>5. CASE Emit(K("DirectiveIdent", name), o)
    BY <1>2, <2>5
  <2> QED BY <2>1, <2>3, <2>4, <2>5
<1>6. CASE Sigil
  <2>1. \/ Goto("Ident", offset + 1)
        \/ Goto("Str", offset + 1) /\ kind' = K("Ident", <<"UserEscaped">>)
        \/ \E o : Reject(o)
    BY <1>6 DEF Sigil, SigilReject
  <2>2. CASE Goto("Str", offset + 1) /\ kind' = K("Ident", <<"UserEscaped">>)
    <3>1. kind'.tag # "LitStr"
      BY <2>2 DEF K
    <3>2. StrOpens
      BY <1>1, <2>2, <3>1 DEF StrOpens, Goto
    <3> QED BY <3>2 DEF StringStep
  <2> QED BY <1>3, <1>4, <2>1, <2>2
<1>7. CASE Underscore
  BY <1>2, <1>4, <1>7 DEF Underscore
<1>8. CASE Ident
  <2>1. kind.tag = "Ident"
    BY <1>8 DEF Ident, IInv, TypeOK, KindOK
  <2>2. PICK o, str : \/ Emit(kind, o)
                      \/ str[1] \in DOMAIN KeywordKind /\ Emit(K(KeywordKind[str[1]], <<>>), o)
                      \/ Reject(o)
                      \/ \E tag \in {"TyU", "TyI"} : \E arg : Emit(K(tag, arg), o)
    BY <1>8 DEF Ident
  <2>3. CASE Emit(kind, o)
    BY <1>1, <2>1, <2>3, ReturnQuiet DEF Emit
  <2>4. CASE str[1] \in DOMAIN KeywordKind /\ Emit(K(KeywordKind[str[1]], <<>>), o)
    <3>1. \A w \in DOMAIN KeywordKind : KeywordKind[w] # "LitStr"
      BY DEF KeywordKind
    <3>2. PICK d : d = KeywordKind[str[1]] /\ d # "LitStr"
      BY <2>4, <3>1
    <3> QED BY <1>2, <2>4, <3>2
  <2>5. CASE \E tag \in {"TyU", "TyI"} : \E arg : Emit(K(tag, arg), o)
    BY <1>2, <2>5
  <2> QED BY <1>3, <2>2, <2>3, <2>4, <2>5
<1> QED BY <1>5, <1>6, <1>7, <1>8

(* Numbers.                                                                *)
LEMMA NumberStrings ==
  ASSUME IInv, IInv', StrInv,
         IntZero \/ IntRadix \/ IntDec \/ FloatDot1 \/ FloatDot2 \/ FloatExp1 \/ FloatExp2
  PROVE  StringStep
<1>1. state \notin InStr
  BY DEF IntZero, IntRadix, IntDec, FloatDot1, FloatDot2, FloatExp1, FloatExp2, InStr, RadixDigits
<1>2. ASSUME NEW s, s \notin InStr, NEW o, Goto(s, o) PROVE StringStep
  BY <1>1, <1>2, GotoQuiet
<1>3. ASSUME NEW tag \in {"LitInt", "LitFloat"}, NEW arg, NEW o, Emit(K(tag, arg), o) PROVE StringStep
  BY <1>1, <1>3, EmitQuiet
<1>4. ASSUME NEW o, Reject(o) PROVE StringStep
  BY <1>1, <1>4, RejectQuiet
<1>5. CASE IntZero
  <2>1. \/ At(offset) \in DOMAIN RadixState /\ Goto(RadixState[At(offset)], offset + 1)
        \/ Goto("IntDec", offset + 1)
        \/ Emit(K("LitInt", <<"Decimal">>), offset)
    BY <1>5, Zenon DEF IntZero
  <2>2. CASE At(offset) \in DOMAIN RadixState /\ Goto(RadixState[At(offset)], offset + 1)
    <3>1. PICK s : s = RadixState[At(offset)]
      OBVIOUS
    <3>2. s \notin InStr
      BY <2>2, <3>1, RadixStates DEF InStr
    <3> QED BY <1>2, <2>2, <3>1, <3>2
  <2>3. CASE Goto("IntDec", offset + 1)
    BY <1>2, <2>3 DEF InStr
  <2> QED BY <1>3, <2>1, <2>2, <2>3
<1>6. CASE IntRadix
  BY <1>3, <1>4, <1>6 DEF IntRadix
<1>7. CASE IntDec
  <2>1. PICK o : o = SkipWhile(Digit \cup Uscore, offset)
    OBVIOUS
  <2>2. CASE At(o) \in {".", "e", "E"}
    <3>1. PICK s : s = RadixState[At(o)]
      OBVIOUS
    <3>2. At(o) \in DOMAIN RadixState
      BY <2>2, Zenon DEF RadixState
    <3>3. s \notin InStr
      BY <3>1, <3>2, RadixStates DEF InStr
    <3>4. Goto(s, o + 1)
      BY <1>7, <2>1, <2>2, <3>1 DEF IntDec
    <3> QED BY <1>2, <3>3, <3>4
  <2>3. CASE At(o) \notin {".", "e", "E"}
    BY <1>3, <1>7, <2>1, <2>3 DEF IntDec
  <2> QED BY <2>2, <2>3
<1>8. CASE FloatDot1 \/ FloatDot2 \/ FloatExp1
  <2>1. \/ \E o : Reject(o)
        \/ \E o : Goto("FloatDot2", o) \/ Goto("FloatExp1", o) \/ Goto("FloatExp2", o)
        \/ \E o, arg : Emit(K("LitInt", arg), o) \/ Emit(K("LitFloat", arg), o)
    <3>1. CASE FloatDot1
      BY <3>1, Zenon DEF FloatDot1
    <3>2. CASE FloatDot2
      BY <3>2 DEF FloatDot2
    <3>3. CASE FloatExp1
      BY <3>3, Zenon DEF FloatExp1
    <3> QED BY <1>8, <3>1, <3>2, <3>3
  <2>2. ASSUME NEW s \in {"FloatDot2", "FloatExp1", "FloatExp2"}, NEW o, Goto(s, o) PROVE StringStep
    BY <1>2, <2>2 DEF InStr
  <2> QED BY <1>3, <1>4, <2>1, <2>2
<1>9. CASE FloatExp2
  BY <1>3, <1>4, <1>9 DEF FloatExp2
<1> QED BY <1>5, <1>6, <1>7, <1>8, <1>9

(* A piece of a string, its end, or its line's end.                        *)
LEMMA StrStrings ==
  ASSUME IInv, IInv', StrInv, Str
  PROVE  StringStep
<1>1. /\ state = "Str" /\ text \in Seq(STRING) /\ offset \in Nat /\ offset <= len /\ len \in Nat
  BY DEF Str, IInv, TypeOK, InBounds, len
<1>2. PICK c, stop, k : /\ c = At(offset) /\ stop = EatUntil({"quote", "\\", "nl"}, offset + 1)
                        /\ k = IF kind.tag = "LitStr" THEN K("LitStr", scratch) ELSE kind
  OBVIOUS
<1>3. \/ RejectString(len)
      \/ StrNewline
      \/ c = "quote" /\ Return(k, offset + 1) /\ scratch' = <<>>
      \/ c = "\\" /\ Goto("EscapeStr", offset + 1) /\ Stay
      \/ /\ c # "nul" /\ c # "\\"
         /\ scratch' = scratch \o Plain(Slice(offset, stop)) /\ offset' = stop
         /\ UNCHANGED <<text, spanStart, state, kind, tokens>>
  BY <1>2, ZenonT(60) DEF Str
<1>4. CASE StrNewline
  <2>1. PICK i : i = K("Invalid", <<>>)
    OBVIOUS
  <2>2. i.tag # "LitStr" /\ Return(i, offset + 1) /\ scratch' = <<>>
    BY <1>4, <2>1 DEF K, StrNewline
  <2> QED BY <2>2, ReturnQuiet
<1>5. CASE c = "quote" /\ Return(k, offset + 1) /\ scratch' = <<>>
  <2>1. offset < len
    BY <1>1, <1>2, <1>5, BeforeEnd
  <2>2. kind.tag \in {"LitStr", "Ident"}
    BY <1>1 DEF IInv, TypeOK, KindOK
  <2>3. k.tag = "LitStr" => kind.tag = "LitStr" /\ k.arg = scratch
    BY <1>2, <2>2 DEF K
  <2>4. StrCloses(k)
    BY <1>1, <1>5, <2>1, <2>3 DEF StrCloses, Return, Token, InStr
  <2> QED BY <2>4 DEF StringStep
<1>6. CASE c = "\\" /\ Goto("EscapeStr", offset + 1) /\ Stay
  <2>1. StrBackslash
    BY <1>1, <1>2, <1>6 DEF StrBackslash, Goto, Stay
  <2> QED BY <2>1 DEF StringStep
<1>7. CASE /\ c # "nul" /\ c # "\\"
           /\ scratch' = scratch \o Plain(Slice(offset, stop)) /\ offset' = stop
           /\ UNCHANGED <<text, spanStart, state, kind, tokens>>
  <2>1. PICK l \in Nat : l = offset + 1
    BY <1>1
  <2>2. l <= len
    BY <1>1, <1>2, <1>7, <2>1, BeforeEnd
  <2>3. stop \in Nat /\ l <= stop /\ stop <= len /\ \A q \in l .. stop - 1 : At(q) # "\\"
    BY <1>1, <1>2, <2>1, <2>2, EatStops
  <2>4. \A q \in offset .. stop - 1 : q = offset \/ q \in l .. stop - 1
    BY <1>1, <2>1, <2>3
  <2>5. \A q \in offset .. stop - 1 : At(q) # "\\"
    BY <1>2, <1>7, <2>3, <2>4
  <2>6. offset <= stop
    BY <1>1, <2>1, <2>3
  <2>7. StrReads
    BY <1>1, <1>7, <2>3, <2>5, <2>6 DEF StrReads
  <2> QED BY <2>7 DEF StringStep
<1> QED BY <1>3, <1>4, <1>5, <1>6, <1>7, RejectQuiet

(* An escape in the text of a string that ends at e.                       *)
LEMMA EscapeChars ==
  ASSUME IInv, StrInv, state = "EscapeStr", NEW e \in Nat, offset <= e, e <= len,
         NEW s, s = SliceOf(text, spanStart + 1, e), NEW p, p = offset - 1 - spanStart
  PROVE  /\ s \in Seq(STRING) /\ Len(s) = e - spanStart - 1 /\ p \in Nat /\ 1 <= p
         /\ s[p] = "\\"
         /\ \A i \in Nat : offset + i < e => /\ p + 1 + i \in 1 .. Len(s)
                                             /\ s[p + 1 + i] = At(offset + i)
<1>1. text \in Seq(STRING) /\ spanStart \in Nat /\ offset \in Nat /\ len \in Nat /\ spanStart + 1 < offset
  BY DEF IInv, TypeOK, StrInv, len
<1>2. spanStart < e
  BY <1>1
<1>3. /\ s \in Seq(STRING) /\ Len(s) = e - spanStart - 1
      /\ \A j \in 1 .. e - spanStart - 1 : s[j] = At(spanStart + j)
  BY <1>1, <1>2, StringChars
<1>4. p \in Nat /\ 1 <= p /\ p \in 1 .. e - spanStart - 1 /\ spanStart + p = offset - 1
  BY <1>1
<1>5. s[p] = "\\"
  <2>1. At(offset - 1) = "\\"
    BY OfText DEF StrInv
  <2> QED BY <1>3, <1>4, <2>1
<1>6. ASSUME NEW i \in Nat, offset + i < e
      PROVE  p + 1 + i \in 1 .. Len(s) /\ s[p + 1 + i] = At(offset + i)
  <2>1. p + 1 + i \in 1 .. e - spanStart - 1 /\ spanStart + (p + 1 + i) = offset + i
    BY <1>1, <1>4, <1>6
  <2> QED BY <1>3, <2>1
<1> QED BY <1>3, <1>4, <1>5, <1>6

(* The characters of the text.                                             *)
LEMMA CharIsString ==
  ASSUME IInv, NEW n \in Nat, n < len
  PROVE  At(n) \in STRING
<1>1. text \in Seq(STRING) /\ n + 1 \in 1 .. Len(text)
  BY DEF IInv, TypeOK, len
<1>2. text[n + 1] \in STRING
  BY <1>1, ElementOfSeq
<1> QED BY <1>2 DEF At, len

(* An escape of one letter.                                                *)
LEMMA LetterPushes ==
  ASSUME IInv, StrInv, state = "EscapeStr", NEW c \in DOMAIN Escaped, c = At(offset),
         Push(<<Escaped[c]>>, offset + 1)
  PROVE  StringStep
<1>1. spanStart \in Nat /\ offset \in Nat /\ len \in Nat /\ offset <= len /\ text \in Seq(STRING)
  BY DEF IInv, TypeOK, InBounds, len
<1>2. c \in {"n", "r", "t", "quote", "\\", "0"}
  BY DEF Escaped
<1>3. PICK x : x = Escaped[c]
  OBVIOUS
<1>4. x \in STRING \cup {"nl", "cr", "sp", "nul"}
  <2>1. x \in {"nl", "cr", "sp", "nul", c}
    BY <1>3, Zenon DEF Escaped
  <2>2. offset < len
    BY <1>1, <1>2, BeforeEnd
  <2>3. c \in STRING
    BY <1>1, <2>2, CharIsString
  <2> QED BY <2>1, <2>3
<1>5. PICK char : char = <<x>>
  OBVIOUS
<1>6. char \in PadUnits
  BY <1>4, <1>5 DEF PadUnits
<1>7. PICK o \in Nat : o = offset + 1
  BY <1>1
<1>8. offset <= o /\ o <= len
  BY <1>1, <1>2, <1>7, BeforeEnd
<1>9. ASSUME NEW e \in o .. len
      PROVE  /\ UnitAt(SliceOf(text, spanStart + 1, e), offset - 1 - spanStart) = char
             /\ UnitEnd(SliceOf(text, spanStart + 1, e), offset - 1 - spanStart) = o - spanStart
  <2>1. PICK s, p : s = SliceOf(text, spanStart + 1, e) /\ p = offset - 1 - spanStart
    OBVIOUS
  <2>2. e \in Nat /\ offset <= e /\ e <= len /\ offset + 0 < e
    BY <1>1, <1>7
  <2>3. p \in Nat /\ s[p] = "\\" /\ s[p + 1 + 0] = At(offset + 0)
    BY <2>1, <2>2, EscapeChars
  <2>4. p + 1 + 0 = p + 1 /\ offset + 0 = offset /\ p + 2 = o - spanStart
    BY <1>1, <1>7, <2>1, <2>3
  <2>5. s[p + 1] = c
    BY <2>3, <2>4
  <2>6. UnitAt(s, p) = <<Escaped[c]>> /\ UnitEnd(s, p) = p + 2
    BY <1>2, <2>3, <2>5 DEF UnitAt, UnitEnd
  <2> QED BY <1>3, <1>5, <2>1, <2>4, <2>6
<1>10. StrPushes(char, o)
  BY <1>3, <1>5, <1>6, <1>7, <1>8, <1>9 DEF StrPushes
<1> QED BY <1>10 DEF StringStep

(* The byte escape \xHL.                                                   *)
LEMMA BytePushes ==
  ASSUME IInv, StrInv, state = "EscapeStr", At(offset) = "x",
         NEW h \in HexDigit, NEW l \in HexDigit, h = At(offset + 1), l = At(offset + 2),
         Push(<<"x", h, l>>, offset + 3)
  PROVE  StringStep
<1>1. spanStart \in Nat /\ offset \in Nat /\ len \in Nat /\ offset <= len /\ text \in Seq(STRING)
  BY DEF IInv, TypeOK, InBounds, len
<1>2. h # "nul" /\ l # "nul"
  <2>1. HexDigit = {"0", "1", "7", "8", "9", "b", "d", "e", "f", "E"}
    BY DEF HexDigit, HexLower, Digit, OctDigit, BinDigit
  <2> QED BY <2>1
<1>3. PICK char : char = <<"x", h, l>>
  OBVIOUS
<1>4. PICK o \in Nat : o = offset + 3
  BY <1>1
<1>5. offset <= o /\ o <= len
  <2>1. offset + 1 <= len
    BY <1>1, BeforeEnd
  <2>2. PICK n \in Nat : n = offset + 1
    BY <1>1
  <2>3. n + 1 <= len
    BY <1>1, <1>2, <2>1, <2>2, BeforeEnd
  <2>4. PICK m \in Nat : m = offset + 2
    BY <1>1
  <2>5. m <= len
    BY <1>1, <2>2, <2>3, <2>4
  <2>6. m + 1 <= len
    BY <1>1, <1>2, <2>4, <2>5, BeforeEnd
  <2> QED BY <1>1, <1>4, <2>4, <2>6
<1>6. h \in STRING /\ l \in STRING /\ "x" \in STRING
  <2>1. PICK n \in Nat : n = offset + 1 /\ n < len
    BY <1>1, <1>4, <1>5
  <2>2. PICK m \in Nat : m = offset + 2 /\ m < len
    BY <1>1, <1>4, <1>5
  <2>3. offset < len
    BY <1>1, <1>4, <1>5
  <2> QED BY <1>1, <2>1, <2>2, <2>3, CharIsString
<1>7. char \in Seq(STRING) /\ Len(char) = 3 /\ char[1] = "x" /\ char[2] = h /\ char[3] = l
  BY <1>3, <1>6
<1>8. ASSUME NEW e \in o .. len
      PROVE  /\ UnitAt(SliceOf(text, spanStart + 1, e), offset - 1 - spanStart) = char
             /\ UnitEnd(SliceOf(text, spanStart + 1, e), offset - 1 - spanStart) = o - spanStart
  <2>1. PICK s, p : s = SliceOf(text, spanStart + 1, e) /\ p = offset - 1 - spanStart
    OBVIOUS
  <2>2. e \in Nat /\ offset <= e /\ e <= len /\ offset + 0 < e /\ offset + 1 < e /\ offset + 2 < e
    BY <1>1, <1>4
  <2>3. /\ s \in Seq(STRING) /\ p \in Nat /\ s[p] = "\\"
        /\ \A i \in Nat : offset + i < e => p + 1 + i \in 1 .. Len(s) /\ s[p + 1 + i] = At(offset + i)
    BY <2>1, <2>2, EscapeChars
  <2>4. /\ s[p + 1 + 0] = At(offset + 0) /\ s[p + 1 + 1] = At(offset + 1) /\ s[p + 1 + 2] = At(offset + 2)
        /\ p + 1 + 0 \in 1 .. Len(s) /\ p + 1 + 1 \in 1 .. Len(s) /\ p + 1 + 2 \in 1 .. Len(s)
    BY <2>2, <2>3
  <2>5. /\ p + 1 + 0 = p + 1 /\ p + 1 + 1 = p + 2 /\ p + 1 + 2 = p + 3 /\ offset + 0 = offset
        /\ p + 4 = o - spanStart
    BY <1>1, <1>4, <2>1, <2>3
  <2>6. s[p + 1] = "x" /\ s[p + 2] = h /\ s[p + 3] = l
    BY <2>4, <2>5
  <2>7. SubSeq(s, p + 1, p + 3) = char
    <3>1. PICK w : w = SubSeq(s, p + 1, p + 3)
      OBVIOUS
    <3>2. ASSUME NEW i \in p + 1 .. p + 3 PROVE s[i] \in STRING
      <4>1. i = p + 1 \/ i = p + 2 \/ i = p + 3
        BY <2>3
      <4> QED BY <1>6, <2>6, <4>1
    <3>3. PICK m \in Int : m = p + 1
      BY <2>3
    <3>4. PICK n \in Int : n = p + 3
      BY <2>3
    <3>5. /\ w \in Seq(STRING) /\ Len(w) = n - m + 1
          /\ \A i \in 1 .. n - m + 1 : w[i] = s[m + i - 1]
      <4>1. w = SubSeq(s, m, n) /\ m <= n + 1
        BY <2>3, <3>1, <3>3, <3>4
      <4>2. \A i \in m .. n : s[i] \in STRING
        BY <3>2, <3>3, <3>4
      <4> QED BY <4>1, <4>2, PartOf
    <3>6. n - m + 1 = 3 /\ m <= n /\ m + 1 - 1 = p + 1 /\ m + 2 - 1 = p + 2 /\ m + 3 - 1 = p + 3
      BY <2>3, <3>3, <3>4
    <3>7. Len(w) = 3 /\ w[1] = "x" /\ w[2] = h /\ w[3] = l
      <4>1. Len(w) = 3 /\ \A i \in 1 .. 3 : w[i] = s[m + i - 1]
        BY <3>5, <3>6
      <4>2. w[1] = s[m + 1 - 1] /\ w[2] = s[m + 2 - 1] /\ w[3] = s[m + 3 - 1]
        BY <4>1
      <4> QED BY <2>6, <3>6, <4>1, <4>2
    <3>8. \A i \in 1 .. 3 : w[i] = char[i]
      BY <1>7, <3>7
    <3> QED BY <1>7, <3>1, <3>5, <3>7, <3>8, SeqEqual
  <2>8. UnitAt(s, p) = SubSeq(s, p + 1, p + 3) /\ UnitEnd(s, p) = p + 4
    BY <2>3, <2>6 DEF UnitAt, UnitEnd
  <2> QED BY <2>1, <2>5, <2>7, <2>8
<1>9. StrPushes(char, o)
  <2>1. char \in PadUnits
    BY <1>7, SeqWider DEF PadUnits
  <2> QED BY <1>3, <1>4, <1>5, <1>8, <2>1 DEF StrPushes
<1> QED BY <1>9 DEF StringStep

(* The escape \u{...}: its brace is closed where the digits end.           *)
LEMMA UnicodePushes ==
  ASSUME IInv, StrInv, state = "EscapeStr", At(offset) = "u", At(offset + 1) = "lbrace",
         NEW b \in Nat, b = offset + 2, NEW stop \in Nat, stop = SkipWhile(HexDigit, b),
         At(stop) = "rbrace", Push(<<"u">> \o Slice(b, stop), stop + 1)
  PROVE  StringStep
<1>1. spanStart \in Nat /\ offset \in Nat /\ len \in Nat /\ offset <= len /\ text \in Seq(STRING)
  BY DEF IInv, TypeOK, InBounds, len
<1>2. "nul" \notin HexDigit /\ "rbrace" \notin HexDigit
  BY DEF HexDigit, HexLower, Digit, OctDigit, BinDigit
<1>3. b <= len
  <2>1. offset + 1 <= len
    BY <1>1, BeforeEnd
  <2>2. PICK n \in Nat : n = offset + 1
    BY <1>1
  <2>3. n + 1 <= len
    BY <1>1, <2>1, <2>2, BeforeEnd
  <2> QED BY <1>1, <2>2, <2>3
<1>4. b <= stop /\ stop <= len /\ \A q \in b .. stop - 1 : At(q) \in HexDigit
  BY <1>1, <1>2, <1>3, SkipStops
<1>5. stop < len
  BY <1>1, <1>4, BeforeEnd
<1>6. PICK o \in Nat : o = stop + 1
  OBVIOUS
<1>7. offset <= o /\ o <= len
  BY <1>1, <1>4, <1>5, <1>6
<1>8. PICK d : d = Slice(b, stop)
  OBVIOUS
<1>9. d \in Seq(STRING) /\ Len(d) = stop - b /\ \A j \in 1 .. stop - b : d[j] = At(b + j - 1)
  <2>1. b <= stop /\ stop <= len
    BY <1>4
  <2>2. text \in Seq(STRING)
    BY <1>1
  <2>3. /\ Slice(b, stop) \in Seq(STRING) /\ Len(Slice(b, stop)) = stop - b
        /\ \A j \in 1 .. stop - b : Slice(b, stop)[j] = At(b + j - 1)
    BY <2>1, <2>2, SliceChars, Zenon
  <2> QED BY <1>8, <2>3, Zenon
<1>10. PICK char : char = <<"u">> \o d
  OBVIOUS
<1>11. char \in PadUnits
  <2>1. "u" \in STRING
    <3>1. offset < len
      BY <1>1, <1>3
    <3> QED BY <1>1, <3>1, CharIsString
  <2>2. PICK c : c = <<"u">>
    OBVIOUS
  <2>3. c \in Seq(STRING)
    BY <2>1, <2>2
  <2>4. c \o d \in Seq(STRING)
    BY <1>9, <2>3, ConcatProperties
  <2>5. char \in Seq(STRING)
    BY <1>10, <2>2, <2>4
  <2> QED BY <2>5, SeqWider DEF PadUnits
<1>12. ASSUME NEW e \in o .. len
       PROVE  /\ UnitAt(SliceOf(text, spanStart + 1, e), offset - 1 - spanStart) = char
              /\ UnitEnd(SliceOf(text, spanStart + 1, e), offset - 1 - spanStart) = o - spanStart
  <2>1. PICK s, p : s = SliceOf(text, spanStart + 1, e) /\ p = offset - 1 - spanStart
    OBVIOUS
  <2>2. e \in Nat /\ offset <= e /\ e <= len /\ stop < e /\ b <= stop
    BY <1>1, <1>4, <1>6, <1>7
  <2>3. /\ s \in Seq(STRING) /\ p \in Nat /\ 1 <= p /\ s[p] = "\\"
        /\ p = offset - 1 - spanStart
    BY <2>1, <2>2, EscapeChars
  <2>4. ASSUME NEW q \in Nat, p + 1 <= q, q <= stop - spanStart
        PROVE  q \in 1 .. Len(s) /\ s[q] = At(spanStart + q)
    <3>1. PICK i \in Nat : i = q - p - 1
      BY <2>3, <2>4
    <3>2. p + 1 + i = q /\ offset + i = spanStart + q /\ offset + i < e
      BY <1>1, <2>2, <2>3, <2>4, <3>1
    <3>3. \A k \in Nat : offset + k < e => p + 1 + k \in 1 .. Len(s) /\ s[p + 1 + k] = At(offset + k)
      BY <2>1, <2>2, EscapeChars
    <3> QED BY <3>2, <3>3
  <2>5. PICK z \in Nat : z = stop - spanStart
    BY <1>1, <2>2, <2>3
  <2>6. /\ p \in Nat /\ spanStart \in Nat /\ p + 3 <= z /\ z + 1 = o - spanStart
        /\ offset = spanStart + p + 1 /\ b = spanStart + p + 3 /\ spanStart + z = stop
    <3>1. p \in Nat /\ p = offset - 1 - spanStart /\ b <= stop
      BY <2>2, <2>3
    <3>2. spanStart \in Nat /\ offset \in Nat
      BY <1>1
    <3>3. offset = spanStart + p + 1
      BY <3>1, <3>2
    <3>4. b = spanStart + p + 3 /\ spanStart + z = stop
      BY <2>5, <3>2, <3>3, <3>1
    <3> QED BY <1>6, <2>5, <3>1, <3>2, <3>3, <3>4
  <2>7. s[p + 1] = "u"
    <3>1. PICK q \in Nat : q = p + 1 /\ p + 1 <= q /\ q <= stop - spanStart /\ spanStart + q = offset
      BY <1>1, <2>1, <2>3, <2>5, <2>6
    <3> QED BY <2>4, <3>1
  <2>8. s[p + 2] = "lbrace"
    <3>1. PICK q \in Nat : q = p + 2 /\ p + 1 <= q /\ q <= stop - spanStart /\ spanStart + q = offset + 1
      BY <1>1, <2>1, <2>3, <2>5, <2>6
    <3> QED BY <2>4, <3>1
  <2>9. z \in 1 .. Len(s) /\ s[z] = "rbrace"
    <3>1. p + 1 <= z /\ z <= stop - spanStart
      BY <2>6
    <3> QED BY <2>4, <2>6, <3>1
  <2>10. ASSUME NEW q \in Nat, p + 3 <= q, q < z PROVE s[q] # "rbrace"
    <3>1. p + 1 <= q /\ q <= stop - spanStart /\ spanStart + q \in b .. stop - 1
      BY <2>6, <2>10
    <3>2. s[q] = At(spanStart + q) /\ At(spanStart + q) \in HexDigit
      BY <1>4, <2>4, <3>1
    <3> QED BY <1>2, <3>2
  <2>11. Close(s, p) = z
    <3> DEFINE found == {q \in p .. Len(s) : s[q] = "rbrace"}
    <3>1. Len(s) \in Nat
      BY <2>3
    <3>2. z \in found
      BY <2>3, <2>6, <2>9, <3>1
    <3>3. found \subseteq Nat
      BY <2>3, <3>1
    <3>4. ASSUME NEW q \in found PROVE z <= q
      <4>1. q \in Nat /\ p <= q /\ s[q] = "rbrace"
        BY <2>3, <3>1
      <4>2. q # p /\ q # p + 1 /\ q # p + 2
        BY <2>3, <2>7, <2>8, <4>1
      <4>3. p + 3 <= q
        BY <2>6, <4>1, <4>2
      <4> QED BY <2>10, <4>1, <4>3
    <3>5. Close(s, p) = First(found)
      BY <3>2 DEF Close
    <3> HIDE DEF found
    <3>6. First(found) \in found /\ \A q \in found : First(found) <= q
      BY <3>2, <3>3, FirstLeast
    <3>7. First(found) \in Nat /\ First(found) <= z /\ z <= First(found)
      BY <3>2, <3>3, <3>4, <3>6
    <3> QED BY <3>5, <3>7
  <2>12. SubSeq(s, p + 3, z - 1) = d
    <3>1. PICK w : w = SubSeq(s, p + 3, z - 1)
      OBVIOUS
    <3>2. PICK m \in Int : m = p + 3
      BY <2>3
    <3>3. PICK n \in Int : n = z - 1
      OBVIOUS
    <3>4. ASSUME NEW i \in m .. n PROVE s[i] \in STRING
      <4>1. i \in Nat /\ p + 1 <= i /\ i <= stop - spanStart
        BY <2>6, <3>2, <3>3
      <4>2. i \in 1 .. Len(s)
        BY <2>4, <4>1
      <4> QED BY <2>3, <4>2, ElementOfSeq
    <3>5. /\ w \in Seq(STRING) /\ Len(w) = n - m + 1
          /\ \A i \in 1 .. n - m + 1 : w[i] = s[m + i - 1]
      <4>1. w = SubSeq(s, m, n) /\ m <= n + 1
        BY <2>6, <3>1, <3>2, <3>3
      <4> QED BY <3>4, <4>1, PartOf
    <3>6. n - m + 1 = stop - b
      BY <2>6, <3>2, <3>3
    <3>7. Len(w) = stop - b
      BY <3>5, <3>6
    <3>8. ASSUME NEW i \in 1 .. stop - b PROVE w[i] = d[i]
      <4>1. PICK q \in Nat : q = m + i - 1 /\ p + 1 <= q /\ q <= stop - spanStart /\ spanStart + q = b + i - 1
        BY <2>6, <3>2, <3>3
      <4>2. s[q] = At(spanStart + q)
        BY <2>4, <4>1
      <4> QED BY <1>9, <3>5, <3>6, <4>1, <4>2
    <3> QED BY <1>9, <3>1, <3>5, <3>7, <3>8, SeqEqual
  <2>13. UnitAt(s, p) = <<"u">> \o SubSeq(s, p + 3, z - 1) /\ UnitEnd(s, p) = z + 1
    BY <2>3, <2>7, <2>11 DEF UnitAt, UnitEnd
  <2> QED BY <1>10, <2>1, <2>6, <2>12, <2>13
<1>13. StrPushes(char, o)
  BY <1>6, <1>7, <1>8, <1>10, <1>11, <1>12 DEF StrPushes
<1> QED BY <1>13 DEF StringStep

(* What follows a backslash in a string.                                   *)
LEMMA EscapeStrStrings ==
  ASSUME IInv, IInv', StrInv, EscapeStr
  PROVE  StringStep
<1>1. state = "EscapeStr" /\ offset \in Nat
  BY DEF EscapeStr, IInv, TypeOK
<1>2. PICK c : c = At(offset)
  OBVIOUS
<1>3. \/ \E o : RejectString(o)
      \/ c \in DOMAIN Escaped /\ Push(<<Escaped[c]>>, offset + 1)
      \/ c = "x" /\ ByteEscape(offset + 1)
      \/ c = "u" /\ UnicodeEscape(offset + 1)
  BY <1>2, Zenon DEF EscapeStr
<1>4. CASE \E o : RejectString(o)
  BY <1>4, RejectQuiet
<1>5. CASE c \in DOMAIN Escaped /\ Push(<<Escaped[c]>>, offset + 1)
  BY <1>1, <1>2, <1>5, LetterPushes
<1>6. CASE c = "x" /\ ByteEscape(offset + 1)
  <2>1. PICK n, m : n = offset + 1 /\ m = offset + 2 /\ n + 1 = m /\ n + 2 = offset + 3
    BY <1>1
  <2>2. ByteEscape(n)
    BY <1>6, <2>1
  <2>3. \/ \E o : RejectString(o)
        \/ At(n) \in HexDigit /\ At(n + 1) \in HexDigit /\ Push(<<"x", At(n), At(n + 1)>>, n + 2)
    BY <2>2, Zenon DEF ByteEscape
  <2>4. CASE \E o : RejectString(o)
    BY <2>4, RejectQuiet
  <2>5. CASE At(n) \in HexDigit /\ At(n + 1) \in HexDigit /\ Push(<<"x", At(n), At(n + 1)>>, n + 2)
    <3>1. PICK h, l : h = At(offset + 1) /\ l = At(offset + 2)
      OBVIOUS
    <3>2. h \in HexDigit /\ l \in HexDigit /\ Push(<<"x", h, l>>, offset + 3)
      BY <2>1, <2>5, <3>1
    <3> QED BY <1>1, <1>2, <1>6, <3>1, <3>2, BytePushes
  <2> QED BY <2>3, <2>4, <2>5
<1>7. CASE c = "u" /\ UnicodeEscape(offset + 1)
  <2>1. PICK n : n = offset + 1
    OBVIOUS
  <2>2. PICK b \in Nat : b = offset + 2 /\ n + 1 = b
    BY <1>1, <2>1
  <2>3. PICK stop : stop = SkipWhile(HexDigit, b)
    OBVIOUS
  <2>4. UnicodeEscape(n)
    BY <1>7, <2>1
  <2>5. \/ \E o : RejectString(o)
        \/ /\ At(n) = "lbrace" /\ At(SkipWhile(HexDigit, n + 1)) = "rbrace"
           /\ Push(<<"u">> \o Slice(n + 1, SkipWhile(HexDigit, n + 1)), SkipWhile(HexDigit, n + 1) + 1)
    BY <2>4, Zenon DEF UnicodeEscape
  <2>6. CASE \E o : RejectString(o)
    BY <2>6, RejectQuiet
  <2>7. CASE /\ At(n) = "lbrace" /\ At(SkipWhile(HexDigit, n + 1)) = "rbrace"
             /\ Push(<<"u">> \o Slice(n + 1, SkipWhile(HexDigit, n + 1)), SkipWhile(HexDigit, n + 1) + 1)
    <3>1. At(offset + 1) = "lbrace" /\ At(stop) = "rbrace" /\ Push(<<"u">> \o Slice(b, stop), stop + 1)
      BY <2>1, <2>2, <2>3, <2>7
    <3>2. stop \in Nat
      <4>1. text \in Seq(STRING) /\ len \in Nat /\ offset <= len
        BY <1>1 DEF IInv, TypeOK, InBounds, len
      <4>2. offset + 1 <= len
        BY <1>1, <1>2, <1>7, <4>1, BeforeEnd
      <4>3. n \in Nat /\ n <= len /\ At(n) # "nul"
        BY <1>1, <2>1, <2>7, <4>2
      <4>4. b <= len
        BY <2>2, <4>1, <4>3, BeforeEnd
      <4>5. "nul" \notin HexDigit
        BY DEF HexDigit, HexLower, Digit, OctDigit, BinDigit
      <4>6. stop \in b .. len
        BY <2>3, <4>1, <4>4, <4>5, SkipStops
      <4> QED BY <4>1, <4>6
    <3> QED BY <1>1, <1>2, <1>7, <2>2, <2>3, <3>1, <3>2, UnicodePushes
  <2> QED BY <2>5, <2>6, <2>7
<1> QED BY <1>3, <1>4, <1>5, <1>6, <1>7

(* No string is in hand at the start.                                      *)
LEMMA InitStrings == Init => StrInv
<1> SUFFICES ASSUME Init PROVE StrInv
  OBVIOUS
<1>1. state = "S0" /\ scratch = <<>> /\ tokens = <<>>
  BY DEF Init
<1>2. <<>> \in Seq(PadUnits)
  OBVIOUS
<1>3. StringValue
  BY <1>1 DEF StringValue
<1> QED BY <1>1, <1>2, <1>3 DEF StrInv, InStr

(* Every step keeps what is said of strings.                               *)
LEMMA StepStrings ==
  ASSUME IInv, IInv', StrInv, [Next]_vars
  PROVE  StrInv'
<1>1. CASE UNCHANGED vars
  <2>1. StringValue'
    BY <1>1, SameValues DEF vars, StrInv
  <2> QED BY <1>1, <2>1 DEF vars, StrInv
<1>2. CASE Next /\ ~Finished
  <2>1. StringStep
    BY <1>2, S0Strings, CodeStrings, NameStrings, NumberStrings, StrStrings, EscapeStrStrings DEF Next
  <2> QED BY <2>1, StringStepKeeps
<1> QED BY <1>1, <1>2 DEF Finished

(* The value of every string literal of every text is the units its own    *)
(* text spells: the scratch pad carries nothing over.                      *)
THEOREM LexerStringValue == Spec => []StringValue
<1>1. Spec => [](IInv /\ StrInv)
  <2>1. Init => IInv /\ StrInv
    BY InitInvariant, InitStrings
  <2>2. IInv /\ StrInv /\ [Next]_vars => (IInv /\ StrInv)'
    BY StepInvariant, StepStrings
  <2> QED BY <2>1, <2>2, PTL DEF Spec
<1>2. IInv /\ StrInv => StringValue
  BY DEF StrInv
<1> QED BY <1>1, <1>2, PTL

============================================================================
